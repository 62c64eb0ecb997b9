\* The same with one failed request and one object removed by another client.
CONSTANTS
    a = a
    b = b
    c = c
    f1 = f1
    f2 = f2
    Dirs = {a, b, c}
    Names = {f1}
    Initial <- Here
    Creates <- Here
    Unlinks <- Here
    Moves <- Chain
    Overwrite = FALSE
    Staged = FALSE
    MaxInodes = 3
    MaxVersion = 0
    MaxRenames = 2
    MaxFaults = 1
    MaxRemote = 1
    NoPath = NoPath
    NoObject = NoObject
SPECIFICATION Spec
INVARIANTS
    CleanIsStored
PROPERTIES
    NoForeignDelete
\* A mount with nothing to flush is idle.
CHECK_DEADLOCK FALSE
