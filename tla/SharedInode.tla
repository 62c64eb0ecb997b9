----------------------------- MODULE SharedInode -----------------------------
(***************************************************************************)
(* What a cluster of mounts promises about one file: however many nodes    *)
(* hold a copy of its inode, they behave as one inode that every operation *)
(* of every node reads and changes in one step.                            *)
(*                                                                         *)
(* A node that is lost with the inode takes it away for good: from then on *)
(* nothing is done to it, rather than something to an old copy.            *)
(***************************************************************************)
EXTENDS Integers

CONSTANT
    Threads         \* the threads that issue operations, of all nodes

VARIABLES
    dirUp, fileUp,  \* the directory and the file can still be served
    made,           \* the file has an inode
    linked,         \* it has its name in the directory
    refcnt,         \* references: one for the name, one for each lookup of a kernel
    open,           \* open handles
    val,            \* what is in it
    seen            \* what the last read of a thread returned

absVars == <<dirUp, fileUp, made, linked, refcnt, open, val, seen>>

AbsInit ==
    /\ dirUp = TRUE /\ fileUp = TRUE
    /\ made \in BOOLEAN /\ linked = made
    /\ refcnt \in Nat /\ (refcnt # 0 <=> made)
    /\ open = 0 /\ val = 0
    /\ seen = [t \in Threads |-> 0]

\* A lookup finds the object in the bucket, or an application creates the file and opens it.
Appear ==
    /\ dirUp /\ ~made /\ made' /\ linked'
    /\ \/ refcnt' = 1 /\ UNCHANGED open
       \/ refcnt' = 2 /\ open' = 1
    /\ UNCHANGED <<dirUp, fileUp, val, seen>>

Unlink ==
    /\ dirUp /\ fileUp /\ linked /\ ~linked'
    /\ refcnt' = refcnt - 1
    /\ UNCHANGED <<dirUp, fileUp, made, open, val, seen>>

Lookup(t) ==
    /\ dirUp /\ fileUp /\ linked
    /\ refcnt' = refcnt + 1
    /\ seen' = [seen EXCEPT ![t] = val]
    /\ UNCHANGED <<dirUp, fileUp, made, linked, open, val>>

Forget ==
    /\ fileUp
    /\ \E k \in 1..refcnt : refcnt' = refcnt - k
    /\ UNCHANGED <<dirUp, fileUp, made, linked, open, val, seen>>

Open ==
    /\ fileUp /\ made /\ open' = open + 1
    /\ UNCHANGED <<dirUp, fileUp, made, linked, refcnt, val, seen>>

Release ==
    /\ fileUp /\ open > 0 /\ open' = open - 1
    /\ UNCHANGED <<dirUp, fileUp, made, linked, refcnt, val, seen>>

Write ==
    /\ fileUp /\ made /\ val' = val + 1
    /\ UNCHANGED <<dirUp, fileUp, made, linked, refcnt, open, seen>>

Read(t) ==
    /\ fileUp /\ made /\ seen' = [seen EXCEPT ![t] = val]
    /\ UNCHANGED <<dirUp, fileUp, made, linked, refcnt, open, val>>

\* A failure: nothing is known of the directory, of the file or of both any more.
Lose ==
    /\ dirUp' \in {dirUp, FALSE} /\ fileUp' \in {fileUp, FALSE}
    /\ linked' = (linked /\ dirUp')
    /\ IF fileUp' THEN UNCHANGED <<refcnt, open, val>> ELSE refcnt' = 0 /\ open' = 0 /\ val' = 0
    /\ UNCHANGED <<made, seen>>

AbsNext ==
    \/ Appear \/ Unlink \/ Forget \/ Open \/ Release \/ Write \/ Lose
    \/ \E t \in Threads : Lookup(t) \/ Read(t)

AbsSpec == AbsInit /\ [][AbsNext]_absVars
===============================================================================
