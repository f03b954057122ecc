\* A restart from the checkpoint saved after a TABLE_MAP, with no control
\* calls and no failures, so that only the resume itself is exercised.
CONSTANTS
    d1 = d1
    d2 = d2
    t1 = t1
    t2 = t2
    t3 = t3
    NoDb = NoDb
    NoTable = NoTable
    Binlog <- MCBinlog
    Subscribed <- RowSubscription
    DoDb = {}
    MaxPoints <- NoMax
    StartPoints <- MidTransaction
    UndecodableTables = {}
    UnknownTypeTables = {}
    Failures = {}
    MaxFailures = 2
    MaxConn = 6
    MaxCalls = 0
SPECIFICATION Spec
INVARIANT NoCrash
\* The goroutine may end (return, panic) or block at the end of the log.
CHECK_DEADLOCK FALSE
