CONSTANTS
    d1 = d1
    d2 = d2
    t1 = t1
    t2 = t2
    t3 = t3
    NoDb = NoDb
    NoTable = NoTable
    Binlog <- MCBinlog
    Subscribed <- RowSubscription
    DoDb = {}
    MaxPoints <- AnyMax
    StartPoints <- CleanStart
    UndecodableTables = {}
    UnknownTypeTables = {}
    Failures <- TransientFailures
    MaxFailures = 2
    MaxConn = 6
    MaxCalls = 2
SPECIFICATION Spec
PROPERTY Progress
\* The goroutine may end (return, panic) or block at the end of the log.
CHECK_DEADLOCK FALSE
