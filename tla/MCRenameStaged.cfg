\* Staged writes of one file that is moved once, removed, and removed by another client.
CONSTANTS
    a = a
    b = b
    c = c
    f1 = f1
    f2 = f2
    Dirs = {a, b, c}
    Names = {f1}
    Initial <- Here
    Creates <- None
    Unlinks <- All
    Moves <- Chain
    Overwrite = FALSE
    Staged = TRUE
    MaxInodes = 2
    MaxVersion = 3
    MaxRenames = 1
    MaxFaults = 0
    MaxRemote = 1
    NoPath = NoPath
    NoObject = NoObject
SPECIFICATION Spec
INVARIANTS
    SettledIsStored
    CleanIsStored
\* A mount with nothing to flush is idle.
CHECK_DEADLOCK FALSE
