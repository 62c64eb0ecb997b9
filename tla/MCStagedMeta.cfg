\* Extended attributes, and an object removed by another client.
CONSTANTS
    NB = 1
    SnapshotLimit = 0
    HashMin = 0
    MaxStaged = 2
    MaxClock = 2
    MaxMeta = 2
    MaxSync = 0
    MaxFaults = 0
    MaxRemote = 1
    Key = Key
    NewKey = NewKey
    NoKey = NoKey
    NoObject = NoObject
    NoHash = NoHash
SPECIFICATION Spec
INVARIANTS
    HashDescribesObject
    NoUseAfterCleanup
\* An idle mount has nothing left to do.
CHECK_DEADLOCK FALSE
