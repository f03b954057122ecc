\* The writer, the dump and the callback, with two process crashes and one
\* failed write.
CONSTANTS
    Log <- TwoFiles
    Start <- FirstEvent
    NoFile = 0
    SyncPos <- EmptyPos
    MaxCrashes = 2
    MaxFaults = 1
SPECIFICATION Spec
INVARIANT TypeOK
PROPERTY KeepsUp
