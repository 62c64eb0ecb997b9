\* A file around SmallBlocks is written, truncated and read while requests fail,
\* the upload vanishes or another client changes the object.
CONSTANTS
    NP = 2
    PartBlocks = 1
    SmallBlocks = 1
    MaxParallelParts = 1
    InitialBlocks = 2
    Pressure = FALSE
    TruncateSizes = {0, 1}
    MaxWrites = 1
    MaxTruncates = 1
    MaxReads = 1
    MaxFaults = 1
    MaxGone = 1
    MaxRemote = 1
    NoObject = NoObject
    NoPart = NoPart
    NoSize = NoSize
SPECIFICATION FairSpec
INVARIANTS
    SyncedIsStored
PROPERTIES
    EventuallyStored
    TruncateReturns
\* A file with nothing to flush is idle.
CHECK_DEADLOCK FALSE
