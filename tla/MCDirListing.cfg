\* One reader and one lookup against the writer of the first name, while another client
\* changes the second; pages of one entry.
SPECIFICATION Spec
CONSTANTS
    N = 2
    Remote = {2}
    Stored = {2}
    PageSize = 1
    Preload = TRUE
    Readers = {r1}
    Lookers = {l1}
    LookedUp = {1}
    MaxWrites = 2
    MaxRemote = 1
    MaxChanges = 2
CONSTRAINT Explored
INVARIANTS
    TypeOK
    OwnView
    NothingVanishes
    ReadDirComplete
    TrustedIsFresh
