\* fsync of a file of one block, uploaded from a snapshot, one request fails.
CONSTANTS
    NB = 1
    SnapshotLimit = 1
    HashMin = 0
    MaxStaged = 2
    MaxClock = 2
    MaxMeta = 0
    MaxSync = 1
    MaxFaults = 1
    MaxRemote = 0
    Key = Key
    NewKey = NewKey
    NoKey = NoKey
    NoObject = NoObject
    NoHash = NoHash
SPECIFICATION Spec
INVARIANTS
    SyncDurable
\* An idle mount has nothing left to do.
CHECK_DEADLOCK FALSE
