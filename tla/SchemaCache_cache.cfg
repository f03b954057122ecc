\* The schema cache under ADD COLUMN only, without master restarts or
\* truncated column queries: lag, ALTER refresh and ROTATE flush interleave.
CONSTANTS
    Tables = {tb1, tb2}
    MaxCols = 2
    MaxId = 3
    MaxLog = 7
    DdlKinds = {"add"}
    Resets = {FALSE}
    PartialFetch = FALSE
    FetchPanic = FALSE
    MaxFailures = 1
SPECIFICATION Spec
INVARIANTS TypeOK RowsNamed
\* The master stops at MaxLog events and the dump blocks at the end of the log.
CHECK_DEADLOCK FALSE
