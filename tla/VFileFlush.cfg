\* A file of one block is read, written and flushed; nothing fails.
CONSTANTS
    NP = 1
    PartBlocks = 1
    SmallBlocks = 1
    MaxParallelParts = 1
    InitialBlocks = 1
    Pressure = TRUE
    TruncateSizes = {}
    MaxWrites = 1
    MaxTruncates = 0
    MaxReads = 1
    MaxFaults = 0
    MaxGone = 0
    MaxRemote = 0
    NoObject = NoObject
    NoPart = NoPart
    NoSize = NoSize
SPECIFICATION Spec
INVARIANTS
    CleanIsCurrent
\* A file with nothing to flush is idle.
CHECK_DEADLOCK FALSE
