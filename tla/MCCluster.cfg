\* Three nodes, the first of which only serves the others at first, three operations, one
\* failure.
\* CHECK_DEADLOCK FALSE: the bounded applications stop, and a node may wait for a file that
\* another keeps open.
SPECIFICATION FairSpec
CHECK_DEADLOCK FALSE
CONSTANTS
    Nodes = {1, 2, 3}
    Threads = {2, 3}
    NodeOf <- OneEach
    Start = {"absent", "stored", "looked up"}
    Root = TRUE
    MaxTerm = 2
    MaxVal = 1
    MaxOps = 3
    MaxFaults = 1
    NoObject = NoObject
INVARIANTS
    TypeOK
    OneOwner
    TermsLead
    RefsConserved
    HandlesServed
    NoPanic
PROPERTIES
    ActsAsOneInode
    OperationsEnd
