\* An object of two parts of two blocks is overwritten in place while memory is short.
CONSTANTS
    NP = 2
    PartBlocks = 2
    SmallBlocks = 0
    MaxParallelParts = 2
    InitialBlocks = 4
    Pressure = TRUE
    TruncateSizes = {}
    MaxWrites = 2
    MaxTruncates = 0
    MaxReads = 1
    MaxFaults = 1
    MaxGone = 0
    MaxRemote = 0
    NoObject = NoObject
    NoPart = NoPart
    NoSize = NoSize
SPECIFICATION Spec
INVARIANTS
    TypeOK
    ReadsSeeWrites
    FlushedIsUploaded
PROPERTIES
    CommitIsInstant
\* A file with nothing to flush is idle.
CHECK_DEADLOCK FALSE
