\* DDL that narrows a table, with the dump lagging behind the master.
CONSTANTS
    Tables = {tb1, tb2}
    MaxCols = 2
    MaxId = 3
    MaxLog = 7
    DdlKinds = {"add", "drop_column", "drop_table"}
    Resets = {FALSE}
    PartialFetch = FALSE
    FetchPanic = FALSE
    MaxFailures = 1
SPECIFICATION Spec
INVARIANT RowsNamed
\* The master stops at MaxLog events and the dump blocks at the end of the log.
CHECK_DEADLOCK FALSE
