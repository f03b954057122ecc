CONSTANTS
    d1 = d1
    d2 = d2
    t1 = t1
    t2 = t2
    t3 = t3
    NoDb = NoDb
    NoTable = NoTable
    Binlog <- MCBinlog
    Subscribed <- RowSubscription
    DoDb = {}
    MaxPoints <- NoMax
    StartPoints <- FirstEvent
    UndecodableTables = {}
    UnknownTypeTables = {}
    Failures = {}
    MaxFailures = 2
    MaxConn = 6
    MaxCalls = 2
SPECIFICATION Spec
INVARIANT NoCrash
\* The goroutine may end (return, panic) or block at the end of the log.
CHECK_DEADLOCK FALSE
