\* A name is created again before the DELETE of the old file is on its way.
SPECIFICATION Spec
CONSTANTS
    N = 2
    Remote = {2}
    Stored = {1, 2}
    PageSize = 1
    Preload = TRUE
    Readers = {r1}
    Lookers = {l1}
    LookedUp = {1}
    MaxWrites = 1
    MaxRemote = 0
    MaxChanges = 1
INVARIANT RecreatedIsShown
