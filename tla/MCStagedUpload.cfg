\* A file of two blocks, one of them above the snapshot limit: uploads that read
\* the staging file live race with writes, truncates, a rename and an unlink.
CONSTANTS
    NB = 2
    SnapshotLimit = 1
    HashMin = 0
    MaxStaged = 2
    MaxClock = 2
    MaxMeta = 0
    MaxSync = 0
    MaxFaults = 1
    MaxRemote = 0
    Key = Key
    NewKey = NewKey
    NoKey = NoKey
    NoObject = NoObject
    NoHash = NoHash
SPECIFICATION FairSpec
INVARIANTS
    TypeOK
    OneGeneration
    HashDescribesObject
    NoUseAfterCleanup
    ReleasedIsStored
PROPERTIES
    NoStaleOverwrite
    EventuallyPersisted
\* An idle mount has nothing left to do.
CHECK_DEADLOCK FALSE
