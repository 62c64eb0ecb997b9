\* A file is moved down a chain of directories while its first name is used again.
CONSTANTS
    a = a
    b = b
    c = c
    f1 = f1
    f2 = f2
    Dirs = {a, b, c}
    Names = {f1}
    Initial <- Here
    Creates <- Here
    Unlinks <- Here
    Moves <- Chain
    Overwrite = FALSE
    Staged = FALSE
    MaxInodes = 3
    MaxVersion = 1
    MaxRenames = 3
    MaxFaults = 0
    MaxRemote = 0
    NoPath = NoPath
    NoObject = NoObject
SPECIFICATION FairSpec
INVARIANTS
    NamesAgree
    SettledIsStored
    ModifiedSettles
PROPERTIES
    NoUploadOverDeleted
    EventuallySettled
\* A mount with nothing to flush is idle.
CHECK_DEADLOCK FALSE
