\* A crash at any point of the writer.
CONSTANTS
    Log <- TwoFiles
    Start <- FirstEvent
    NoFile = 0
    SyncPos <- EmptyPos
    MaxCrashes = 1
    MaxFaults = 1
SPECIFICATION Spec
PROPERTY NoSkip
