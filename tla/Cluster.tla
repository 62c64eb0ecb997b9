-------------------------------- MODULE Cluster --------------------------------
(***************************************************************************)
(* Cluster mode (cluster_*.go): every node mounts the bucket and holds     *)
(* copies of inodes.  One node owns an inode and runs its operations; the  *)
(* others send it requests, learn from its answers that it has given the   *)
(* inode away, or ask for the inode themselves (TryStealInodeOwnership).   *)
(*                                                                         *)
(* The model has one directory and one file in it.  One action is one      *)
(* critical section of the ownership lock, or the handling of one request  *)
(* by its receiver: a request and its answer are separate steps, and any   *)
(* of them may fail.  A thread's operation is in one frame at a time: at   *)
(* the node that issued it or, while the owner of the directory works on   *)
(* the file for it, at that owner, which holds the directory's lock.       *)
(*                                                                         *)
(* The value of a file stands for its attributes and its bytes.            *)
(***************************************************************************)
EXTENDS Integers, FiniteSets

CONSTANTS
    Nodes,          \* node ids
    Threads,        \* threads of the applications
    NodeOf,         \* the node a thread runs on
    Start,          \* what the nodes know of the file: "absent", "stored", "looked up"
    Root,           \* the directory is the root of the mount
    MaxTerm,        \* bound: transfers of an inode to nodes that open it
    MaxVal,         \* bound: writes
    MaxOps,         \* bound: operations
    MaxFaults,      \* bound: requests that fail
    NoObject

UNKNOWN_OWNER == 0
Inodes    == {"dir", "file"}
ById      == {"open", "getattr", "setattr", "forget"}   \* routed by the id of the file
ByHandle  == {"read", "write", "release"}               \* or by a handle of it
ByParent  == {"lookup", "create", "unlink", "opendir", "closedir"}
Kinds     == ById \cup ByHandle \cup ByParent
Terms     == 0..(MaxTerm + MaxOps)

ASSUME NodesAssumption ==
    /\ Nodes \subseteq Nat \ {0} /\ IsFiniteSet(Nodes) /\ Nodes # {}
    /\ NodeOf \in [Threads -> Nodes] /\ IsFiniteSet(Threads)
    /\ Root \in BOOLEAN /\ Start \subseteq {"absent", "stored", "looked up"}
ASSUME BoundsAssumption ==
    MaxTerm \in Nat /\ MaxVal \in Nat /\ MaxOps \in Nat /\ MaxFaults \in Nat /\ NoObject \notin Nat

VARIABLES
    own,            \* ownerTerm, owner, readyOwner of the copies
    body,           \* the copies of the file: in fs.inodes, refcnt, CacheState, value
    handles,        \* fileHandles of the copies
    linked,         \* the file is in dir.Children of a copy of the directory
    deleted,        \* or in its dir.DeletedChildren
    stored,         \* the object
    kref,           \* lookups of the file a kernel has not forgotten
    fhAt, dhAt,     \* the node that serves the handle a node has of the file, of the directory
    op,             \* what a thread is doing
    node,           \* "up"; "unmounted", "joined": it only serves the others; "dead"
    made,           \* the file has an inode
    seen,           \* what the last read of a thread returned
    panicked,       \* DeRef was asked for more references than there are
    early,          \* history: a node has used an inode that was still on its way to it
    ops, writes, faults

vars == <<own, body, handles, linked, deleted, stored, kref, fhAt, dhAt, op, node, made, seen,
          panicked, early, ops, writes, faults>>

Owners  == Nodes \cup {UNKNOWN_OWNER}
Copies  == [owner: Owners, term: Terms, ready: BOOLEAN]
States  == {"CACHED", "CREATED", "MODIFIED", "DELETED", "DEAD"}
Vals    == 0..MaxVal
Refs    == 0..(MaxOps + 2 * Cardinality(Nodes) + 1)
Bodies  == [known: BOOLEAN, refcnt: Refs, state: States, attr: Vals]
Answers == [tag: {"none", "other", "nil", "stolen", "done", "fail", "error"},
            owner: Owners, term: Terms, refcnt: Refs, attr: Vals, linked: BOOLEAN,
            child: [owner: Owners, term: Terms]]         \* pb.Inode of the file
Frames  == [kind: Kinds, pc: {"idle", "route", "exec", "steal", "stolen", "call", "reply"},
            nested: BOOLEAN, at: Nodes, to: Owners, n: Refs, resp: Answers]

NoAnswer == [tag |-> "none", owner |-> 0, term |-> 0, refcnt |-> 0, attr |-> 0, linked |-> FALSE,
             child |-> [owner |-> 0, term |-> 0]]
pbInode(c) == [owner |-> c.owner, term |-> c.term]
Other(c) == [NoAnswer EXCEPT !.tag = "other", !.owner = c.owner, !.term = c.term]
Idle(t)  == [kind |-> "lookup", pc |-> "idle", nested |-> FALSE, at |-> NodeOf[t], to |-> 0,
             n |-> 0, resp |-> NoAnswer]

\* NewClusterGoofys: the node with the least id owns the root, and every node has its copy of
\* the root marked ready.
RootOwner == CHOOSE n \in Nodes : \A m \in Nodes : n <= m

Blank == [known |-> FALSE, refcnt |-> 0, state |-> "CACHED", attr |-> 0]

Init ==
    \E s \in Start :
        /\ own = [i \in Inodes |-> [n \in Nodes |->
                     IF i = "file" /\ s # "looked up"
                     THEN [owner |-> UNKNOWN_OWNER, term |-> 0, ready |-> FALSE]
                     ELSE [owner |-> RootOwner, term |-> 0,
                           ready |-> (i = "dir" /\ Root) \/ n = RootOwner]]]
        /\ body = [n \in Nodes |->
                     IF s # "looked up" THEN Blank
                     ELSE [Blank EXCEPT !.known = TRUE,
                               !.refcnt = IF n = RootOwner THEN 1 + Cardinality(Nodes) ELSE 0]]
        /\ handles = [i \in Inodes |-> [n \in Nodes |-> 0]]
        /\ linked = [n \in Nodes |-> s = "looked up" /\ n = RootOwner]
        /\ deleted = [n \in Nodes |-> FALSE]
        /\ stored = IF s = "absent" THEN NoObject ELSE 0
        /\ kref = [n \in Nodes |-> IF s = "looked up" THEN 1 ELSE 0]
        /\ fhAt = [n \in Nodes |-> 0] /\ dhAt = [n \in Nodes |-> 0]
        /\ op = [t \in Threads |-> Idle(t)]
        /\ node = [n \in Nodes |-> "up"]
        /\ made = (s = "looked up")
        /\ seen = [t \in Threads |-> 0]
        /\ panicked = FALSE /\ early = FALSE
        /\ ops = 0 /\ writes = 0 /\ faults = 0

---------------------------------------------------------------------------
(* Locks and the steps of a frame *)

Active(t)  == op[t].pc # "idle"
Target(o)  == IF o.nested \/ o.kind \notin ByParent THEN "file" ELSE "dir"

\* route is called with trySteal for the opens; unlink steals the file it removes.
Steals(o)  == IF o.nested THEN o.kind = "unlink" ELSE o.kind \in {"open", "opendir"}

\* A frame that works on the file for the directory's owner holds the directory's locks there.
DirBusy(n) == \E t \in Threads : op[t].nested /\ op[t].at = n

\* Mutant: the comparison is the wrong way round.
MutApplyOwnerLater(c, r) ==
    IF c.term > r.term THEN [c EXCEPT !.term = r.term, !.owner = r.owner] ELSE c

\* applyOwner: an answer that names an owner counts only with a later term.
applyOwner(c, r) ==
    IF c.term < r.term THEN [c EXCEPT !.term = r.term, !.owner = r.owner] ELSE c

\* ensure: a node makes a copy of an inode it does not have yet, from what it was told.
ensure(n, r) ==
    /\ body' = IF body[n].known THEN body ELSE [body EXCEPT ![n] = [Blank EXCEPT !.known = TRUE]]
    /\ own' = IF body[n].known THEN own
              ELSE [own EXCEPT !["file"][n] = [owner |-> r.owner, term |-> r.term, ready |-> FALSE]]

\* Mutant: the inode is taken out of fs.inodes before the last reference is gone.
MutDeRef(b, k) ==
    LET res == IF k > b.refcnt THEN 0 ELSE b.refcnt - k
    IN  [b EXCEPT !.refcnt = res, !.known = @ /\ ~(res <= 1 /\ b.state \in {"CACHED", "DEAD"})]

\* DeRef: the last reference to a file with nothing to flush takes it out of fs.inodes.
DeRef(b, k) ==
    LET res == IF k > b.refcnt THEN 0 ELSE b.refcnt - k
    IN  [b EXCEPT !.refcnt = res, !.known = @ /\ ~(res = 0 /\ b.state \in {"CACHED", "DEAD"})]

\* What an answer from node y gives to the kernel of the thread's node.
Kernel(t, y, ok) ==
    LET c == NodeOf[t]
        k == op[t].kind
    IN  /\ kref' = IF ok /\ k \in {"lookup", "create"} THEN [kref EXCEPT ![c] = @ + 1] ELSE kref
        /\ fhAt' = IF ok /\ k \in {"open", "create"} THEN [fhAt EXCEPT ![c] = y]
                   ELSE IF k = "release" THEN [fhAt EXCEPT ![c] = 0] ELSE fhAt
        /\ dhAt' = IF k = "opendir" THEN [dhAt EXCEPT ![c] = y]
                   ELSE IF k = "closedir" THEN [dhAt EXCEPT ![c] = 0] ELSE dhAt

\* The operation has been done on node y, which knows the file's owner as pair.
Answer(t, y, ok, pair) ==
    IF y = NodeOf[t]
    THEN op' = [op EXCEPT ![t] = Idle(t)] /\ Kernel(t, y, ok)
    ELSE /\ op' = [op EXCEPT ![t] = [@ EXCEPT !.pc = "reply", !.nested = FALSE, !.at = NodeOf[t],
                                         !.to = y,
                                         !.resp = [NoAnswer EXCEPT
                                                       !.tag = IF ok THEN "done" ELSE "fail",
                                                       !.child = pbInode(pair)]]]
         /\ UNCHANGED <<kref, fhAt, dhAt>>

---------------------------------------------------------------------------
(* What the owner does: y is the node that runs the operation of thread t. *)

openFile(y) ==
    handles' = [handles EXCEPT !["file"][y] = @ + 1] /\ UNCHANGED <<body, seen>>

\* Mutant: the handle is counted down twice.
MutReleaseFileHandle(y) ==
    handles' = [handles EXCEPT !["file"][y] = @ - 2] /\ UNCHANGED <<body, seen>>

releaseFileHandle(y) ==
    handles' = [handles EXCEPT !["file"][y] = @ - 1] /\ UNCHANGED <<body, seen>>

Modified(b) == [b EXCEPT !.attr = @ + 1, !.state = IF @ = "CACHED" THEN "MODIFIED" ELSE @]

writeFile(y) ==
    /\ body' = IF body[y].state \in {"DELETED", "DEAD"} THEN body
               ELSE [body EXCEPT ![y] = Modified(@)]
    /\ UNCHANGED <<handles, seen>>

setInodeAttributes(y) ==
    body' = [body EXCEPT ![y] = Modified(@)] /\ UNCHANGED <<handles, seen>>

\* A clean file is read from the bucket, a modified one from its buffers.
readFile(t, y) ==
    /\ seen' = IF body[y].state \in {"DELETED", "DEAD"} THEN seen
               ELSE [seen EXCEPT ![t] = IF body[y].state = "CACHED" THEN stored ELSE body[y].attr]
    /\ UNCHANGED <<body, handles>>

getInodeAttributes(t, y) ==
    seen' = [seen EXCEPT ![t] = body[y].attr] /\ UNCHANGED <<body, handles>>

\* ForgetInode: when no reference is left, ForgetInode2 drops the copies of the others.
ForgetInode(t, y) ==
    LET b == DeRef(body[y], op[t].n)
    IN  /\ body' = [m \in Nodes |-> IF m = y THEN b
                                    ELSE [body[m] EXCEPT !.known = @ /\ b.refcnt # 0]]
        /\ UNCHANGED <<handles, seen>>

\* The operations that are routed by the file.
ExecFile(t, y) ==
    /\ LET k == op[t].kind
       IN  \/ k = "open" /\ openFile(y)
           \/ k = "release" /\ releaseFileHandle(y)
           \/ k = "read" /\ readFile(t, y)
           \/ k = "write" /\ writeFile(y)
           \/ k = "getattr" /\ getInodeAttributes(t, y)
           \/ k = "setattr" /\ setInodeAttributes(y)
           \/ k = "forget" /\ ForgetInode(t, y)
    /\ panicked' = (panicked \/ (op[t].kind = "forget" /\ op[t].n > body[y].refcnt))
    /\ Answer(t, y, TRUE, own["file"][y])
    /\ UNCHANGED <<own, linked, deleted, stored, made, node, ops, writes, faults>>

\* LookUpInode2: the owner of the file counts the reference; the answer goes back to the
\* frame at the directory's owner.
lookUpInode2(t, y) ==
    LET p == op[t].at
    IN  /\ body' = [body EXCEPT ![y].refcnt = @ + 1]
        /\ seen' = [seen EXCEPT ![t] = body[y].attr]
        /\ IF y = p THEN Answer(t, p, TRUE, own["file"][p])
           ELSE /\ op' = [op EXCEPT ![t] = [@ EXCEPT !.pc = "reply",
                                                !.resp = [NoAnswer EXCEPT !.tag = "done"]]]
                /\ UNCHANGED <<kref, fhAt, dhAt>>
        /\ UNCHANGED <<own, handles, linked, deleted, stored, made, node, panicked, ops, writes,
                       faults>>

\* unlink, once the file is stolen: doUnlink takes it out of the directory; the object is
\* removed later, unless the file was never uploaded.
doUnlink(t, p) ==
    LET gone == [body[p] EXCEPT !.state = IF @ = "CREATED" THEN "DEAD" ELSE "DELETED"]
    IN  /\ body' = [body EXCEPT ![p] = DeRef(gone, 1)]
        /\ linked' = [linked EXCEPT ![p] = FALSE]
        /\ deleted' = [deleted EXCEPT ![p] = gone.state = "DELETED"]
        /\ Answer(t, p, TRUE, own["file"][p])
        /\ UNCHANGED <<own, handles, stored, seen, made, node, panicked, ops, writes, faults>>

\* unlink and lookUpInode1 go on with the file while they hold the directory.
Descend(t, p) ==
    op' = [op EXCEPT ![t] = [@ EXCEPT !.pc = "route", !.nested = TRUE, !.at = p]]

\* loadChild and unshadow: the directory's owner finds the object and owns the new inode.
loadChild(p) ==
    /\ made' = TRUE
    /\ linked' = [linked EXCEPT ![p] = TRUE]
    /\ own' = [own EXCEPT !["file"][p] = [owner |-> p, term |-> 0, ready |-> TRUE]]
    /\ body' = [body EXCEPT ![p] = [Blank EXCEPT !.known = TRUE, !.refcnt = 1]]
    /\ UNCHANGED handles

createChild(p, refs) ==
    /\ made' = TRUE
    /\ linked' = [linked EXCEPT ![p] = TRUE]
    /\ own' = [own EXCEPT !["file"][p] = [owner |-> p, term |-> 0, ready |-> TRUE]]
    /\ body' = [body EXCEPT ![p] = [Blank EXCEPT !.known = TRUE, !.refcnt = refs, !.state = "CREATED"]]

\* createFile: one reference for the name, one for the kernel that asked.
createFile(p) ==
    /\ createChild(p, 2)
    /\ handles' = [handles EXCEPT !["file"][p] = 1]

\* The operations that are routed by the directory.  There is one inode of the file: a
\* directory that has lost its name does not get another.
ExecDir(t, p) ==
    LET k == op[t].kind
        file == <<made, linked, own, body>>
        kernel == <<kref, fhAt, dhAt>>
    IN  /\ ~DirBusy(p)
        /\ \/ /\ k \in {"lookup", "unlink"} /\ linked[p]
              /\ Descend(t, p) /\ UNCHANGED <<file, handles, kernel>>
           \/ /\ k = "lookup" /\ ~linked[p] /\ stored # NoObject /\ ~made
              /\ loadChild(p) /\ Descend(t, p) /\ UNCHANGED kernel
           \/ /\ k = "create" /\ ~linked[p] /\ ~made
              /\ createFile(p) /\ Answer(t, p, TRUE, own'["file"][p])
           \/ /\ \/ k = "lookup" /\ ~linked[p] /\ (stored = NoObject \/ made)
                 \/ k = "create" /\ (linked[p] \/ made)
                 \/ k = "unlink" /\ ~linked[p]
              /\ Answer(t, p, FALSE, own["file"][p]) /\ UNCHANGED <<file, handles>>
           \/ /\ k \in {"opendir", "closedir"}
              /\ handles' = [handles EXCEPT !["dir"][p] = IF k = "opendir" THEN @ + 1 ELSE @ - 1]
              /\ Answer(t, p, TRUE, own["file"][p]) /\ UNCHANGED file
        /\ UNCHANGED <<deleted, stored, node, seen, panicked, ops, writes, faults>>

\* The whole of execLocally, and of a handler once it has found that its node is the owner.
Exec(t, y) ==
    \/ op[t].nested /\ op[t].kind = "lookup" /\ lookUpInode2(t, y)
    \/ op[t].nested /\ op[t].kind = "unlink" /\ doUnlink(t, y)
    \/ Target(op[t]) = "dir" /\ ExecDir(t, y)
    \/ ~op[t].nested /\ op[t].kind \notin ByParent /\ ExecFile(t, y)

---------------------------------------------------------------------------
(* route and trySteal *)

Send(t, pc, y) == op' = [op EXCEPT ![t] = [@ EXCEPT !.pc = pc, !.to = y]]

\* Everything but op.
rest == <<own, body, handles, linked, deleted, stored, kref, fhAt, dhAt, node, made, seen, panicked,
          early, ops, writes, faults>>

\* getInodeOrDie panics on a node that has no such inode (NoPanic: it never comes to that).
Unknown(t, n) == Target(op[t]) = "file" /\ ~op[t].nested /\ op[t].kind \in ById /\ ~body[n].known

\* route executes locally when the copy is ready; unlink looks at the owner only.
RouteReady(o, c) == c.ready \/ (o.nested /\ o.kind = "unlink")

\* History: a copy that takes itself for the owner is used before the inode has come to it.
Relies(c) == early' = (early \/ ~c.ready)

\* History: node x hears that it is the owner, of a copy that was marked ready before the inode
\* has come to it: the copies of the root.
Hears(c, r, x) == early' = (early \/ (c.ready /\ c.owner # x /\ applyOwner(c, r).owner = x))

Route(t) ==
    LET o == op[t]
        x == o.at
        c == own[Target(o)][x]
    IN  /\ o.pc \in {"route", "exec"} /\ node[x] # "dead" /\ ~Unknown(t, x)
        /\ \/ c.owner # x /\ Steals(o) /\ o.pc = "route" /\ Send(t, "steal", c.owner)
              /\ UNCHANGED rest
           \/ c.owner # x /\ ~(Steals(o) /\ o.pc = "route") /\ Send(t, "call", c.owner)
              /\ UNCHANGED rest
           \/ c.owner = x /\ RouteReady(o, c) /\ Exec(t, x) /\ Relies(c)

\* The server side of a request that is not a steal; it does not look at readyOwner.
ServeCall(t) ==
    LET o == op[t]
        y == o.to
        c == own[Target(o)][y]
    IN  /\ o.pc = "call" /\ node[y] # "dead" /\ ~Unknown(t, y)
        /\ \/ c.owner # y /\ op' = [op EXCEPT ![t] = [@ EXCEPT !.pc = "reply", !.resp = Other(c)]]
              /\ UNCHANGED rest
           \/ c.owner = y /\ Exec(t, y) /\ Relies(c)

\* The client side of it: another owner, or the second phase of the operation.
ApplyReply(t) ==
    LET o == op[t]
        x == o.at
        r == o.resp
        kernel == <<kref, fhAt, dhAt>>
    IN  /\ o.pc = "reply" /\ node[x] # "dead"
        /\ \/ /\ r.tag = "other"
              /\ own' = [own EXCEPT ![Target(o)][x] = applyOwner(@, r)]
              /\ Hears(own[Target(o)][x], r, x)
              /\ op' = [op EXCEPT ![t] = [@ EXCEPT !.pc = "route", !.resp = NoAnswer]]
              /\ UNCHANGED <<body, kernel, node>>
           \/ /\ r.tag = "done" /\ o.nested
              /\ Answer(t, x, TRUE, own["file"][x])
              /\ UNCHANGED <<own, body, node, early>>
           \/ /\ r.tag \in {"done", "fail"} /\ ~o.nested
              /\ op' = [op EXCEPT ![t] = Idle(t)]
              /\ Kernel(t, o.to, r.tag = "done")
              /\ IF r.tag = "done" /\ o.kind \in {"lookup", "create"} THEN ensure(x, r.child)
                 ELSE UNCHANGED <<own, body>>
              /\ UNCHANGED <<node, early>>
           \/ /\ r.tag = "error"
              /\ op' = [op EXCEPT ![t] = Idle(t)]
              /\ node' = [node EXCEPT ![x] = IF @ = "up" THEN "unmounted" ELSE @]
              /\ UNCHANGED <<own, body, kernel, early>>
        /\ UNCHANGED <<handles, linked, deleted, stored, made, seen, panicked, ops, writes, faults>>

\* Mutant: a directory somebody reads and a file somebody has open are given away.
MutCanYieldOpen(i, y) ==
    (i = "file" => body[y].state = "CACHED") /\ (i = "dir" => ~deleted[y])

\* Mutant: a modified file is given away.
MutCanYieldModified(i, y) == handles[i][y] = 0 /\ (i = "dir" => ~deleted[y])

\* tryYield gives away what nobody has open and has nothing to flush.
CanYield(i, y) ==
    /\ handles[i][y] = 0
    /\ i = "file" => body[y].state = "CACHED"
    /\ i = "dir" => ~deleted[y]

\* Mutant: the references stay behind.
MutYielded(i, y) ==
    [NoAnswer EXCEPT !.tag = "stolen", !.term = own[i][y].term + 1,
                     !.attr = body[y].attr, !.linked = linked[y], !.child = pbInode(own["file"][y])]

\* What tryYield sends with the inode, and what it leaves: the node keeps the new owner's name.
Yielded(i, y) ==
    [NoAnswer EXCEPT !.tag = "stolen", !.term = own[i][y].term + 1, !.refcnt = body[y].refcnt,
                     !.attr = body[y].attr, !.linked = linked[y], !.child = pbInode(own["file"][y])]

\* Mutant: the owner forgets to hand over its own copy.
MutGivenAway(c, x) == [c EXCEPT !.term = @ + 1]

\* Mutant: ownerTerm is not counted up.
MutSameTerm(c, x) == [owner |-> x, term |-> c.term, ready |-> FALSE]

GivenAway(c, x) == [owner |-> x, term |-> c.term + 1, ready |-> FALSE]

TryStealInodeOwnership(t) ==
    LET o == op[t]
        y == o.to
        i == Target(o)
        c == own[i][y]
        yields == CanYield(i, y) /\ (c.term < MaxTerm \/ o.nested)
        Reply(r) == op' = [op EXCEPT ![t] = [@ EXCEPT !.pc = "stolen", !.resp = r]]
    IN  /\ o.pc = "steal" /\ node[y] # "dead" /\ ~Unknown(t, y)
        /\ i = "dir" => ~DirBusy(y)
        /\ \/ c.owner # y /\ Reply(Other(c)) /\ UNCHANGED <<own, body, linked, early>>
           \/ /\ c.owner = y /\ ~yields
              /\ Reply([NoAnswer EXCEPT !.tag = "nil"]) /\ UNCHANGED <<own, body, linked, early>>
           \/ /\ c.owner = y /\ yields
              /\ Reply(Yielded(i, y)) /\ Relies(c)
              /\ own' = [own EXCEPT ![i][y] = GivenAway(c, o.at)]
              /\ body' = IF i = "file" THEN [body EXCEPT ![y].refcnt = 0] ELSE body
              /\ linked' = IF i = "dir" THEN [linked EXCEPT ![y] = FALSE] ELSE linked
        /\ UNCHANGED <<handles, deleted, stored, kref, fhAt, dhAt, node, made, seen, panicked, ops,
                       writes, faults>>

applyStolenInode(i, x, r) ==
    LET mine == [owner |-> x, term |-> r.term, ready |-> TRUE]
        new  == i = "dir" /\ r.linked /\ ~body[x].known
    IN  /\ own' = [own EXCEPT ![i][x] = mine,
                              !["file"][x] = IF i = "file" THEN mine
                                             ELSE IF new THEN [owner |-> r.child.owner,
                                                               term |-> r.child.term, ready |-> FALSE]
                                             ELSE @]
        /\ body' = IF i = "file" THEN [body EXCEPT ![x].refcnt = r.refcnt, ![x].attr = r.attr]
                   ELSE IF new THEN [body EXCEPT ![x] = [Blank EXCEPT !.known = TRUE]] ELSE body
        /\ linked' = IF i = "dir" THEN [linked EXCEPT ![x] = @ \/ r.linked] ELSE linked

\* trySteal goes on with the answer; unlink repeats a steal that was refused.
ApplySteal(t) ==
    LET o == op[t]
        x == o.at
        r == o.resp
        i == Target(o)
        Goto(pc) == op' = [op EXCEPT ![t] = [@ EXCEPT !.pc = pc, !.resp = NoAnswer]]
    IN  /\ o.pc = "stolen" /\ node[x] # "dead"
        /\ \/ /\ r.tag = "other" /\ Goto("route")
              /\ own' = [own EXCEPT ![i][x] = applyOwner(@, r)]
              /\ Hears(own[i][x], r, x) /\ UNCHANGED <<body, linked>>
           \/ /\ r.tag = "stolen" /\ Goto("route")
              /\ applyStolenInode(i, x, r) /\ UNCHANGED early
           \/ /\ r.tag = "nil" /\ Goto(IF o.nested THEN "route" ELSE "exec")
              /\ UNCHANGED <<own, body, linked, early>>
        /\ UNCHANGED <<handles, deleted, stored, kref, fhAt, dhAt, node, made, seen, panicked, ops,
                       writes, faults>>

---------------------------------------------------------------------------
(* The kernels, the flusher and failures *)

\* What the kernel of node n asks for: files it has looked up, handles it has, a name it has
\* found free before it creates a file, and a forget of a file that nothing on it uses.
Wants(n, k) ==
    CASE k \in {"getattr", "setattr", "unlink"} -> kref[n] > 0
      [] k = "open"    -> kref[n] > 0 /\ fhAt[n] = 0
      [] k \in ByHandle -> fhAt[n] # 0
      [] k = "forget"  -> /\ kref[n] > 0 /\ fhAt[n] = 0
                          /\ \A u \in Threads : NodeOf[u] = n => ~Active(u)
      [] k = "create"  -> stored = NoObject /\ ~made
      [] k = "opendir" -> dhAt[n] = 0
      [] k = "closedir" -> dhAt[n] # 0
      [] OTHER -> TRUE

Uses(u, n) == NodeOf[u] = n /\ Active(u)

Begin(t, k) ==
    LET n == NodeOf[t]
        w == k \in {"write", "setattr"}
    IN  /\ ~Active(t) /\ node[n] = "up" /\ ops < MaxOps /\ Wants(n, k)
        \* the kernel closes a handle after the calls that use it
        /\ \A u \in Threads : Uses(u, n) =>
                /\ op[u].kind \notin {"open", "create", "release", "opendir", "closedir", "forget"}
                /\ k \in {"release", "closedir"} => op[u].kind \in ById \cup {"lookup", "unlink"}
        /\ w => writes < MaxVal
        /\ op' = [op EXCEPT ![t] = [Idle(t) EXCEPT !.kind = k, !.pc = "route",
                                                  !.n = IF k = "forget" THEN kref[n] ELSE 0]]
        /\ kref' = IF k = "forget" THEN [kref EXCEPT ![n] = 0] ELSE kref
        /\ ops' = ops + 1
        /\ writes' = IF w THEN writes + 1 ELSE writes
        /\ UNCHANGED <<own, body, handles, linked, deleted, stored, fhAt, dhAt, node, made, seen,
                       panicked, early, faults>>

\* The flusher of a node uploads its copy, or removes the object and lets go of the inode.
Flush(n) ==
    /\ node[n] # "dead"
    /\ \/ /\ body[n].state \in {"CREATED", "MODIFIED"}
          /\ body' = [body EXCEPT ![n].state = "CACHED"]
          /\ stored' = body[n].attr
          /\ UNCHANGED deleted
       \/ /\ body[n].state = "DELETED"
          /\ body' = [body EXCEPT ![n] = DeRef([@ EXCEPT !.state = "DEAD"], 0)]
          /\ stored' = NoObject
          /\ deleted' = [deleted EXCEPT ![n] = FALSE]
    /\ UNCHANGED <<own, handles, linked, kref, fhAt, dhAt, op, node, made, seen, panicked, early,
                   ops, writes, faults>>

\* The operations when the process of node x ends: its own are gone, those it was serving get
\* an error at the nodes that asked.
Cut(x) ==
    [t \in Threads |->
        IF ~Active(t) \/ op[t].at # x THEN op[t]
        ELSE IF NodeOf[t] = x THEN Idle(t)
        ELSE [op[t] EXCEPT !.pc = "reply", !.nested = FALSE, !.at = NodeOf[t], !.to = x,
                           !.resp = [NoAnswer EXCEPT !.tag = "error"]]]

\* A request or its answer is lost, times out or meets a dead node.  trySteal returns without
\* the lock its callers release, and lookUpInode2 uses the missing answer: both end the
\* process.  The other operations fail and unmount.
Fail(t) ==
    LET o == op[t]
        x == o.at
    IN  /\ o.pc \in {"steal", "stolen", "call", "reply"} /\ o.resp.tag # "error" /\ node[x] # "dead"
        /\ \/ o.pc \in {"steal", "call"} /\ node[o.to] = "dead" /\ UNCHANGED faults
           \/ faults < MaxFaults /\ faults' = faults + 1
        /\ IF o.nested \/ o.pc \in {"steal", "stolen"}
           THEN op' = Cut(x) /\ node' = [node EXCEPT ![x] = "dead"]
           ELSE /\ op' = [op EXCEPT ![t] = Idle(t)]
                /\ node' = [node EXCEPT ![x] = IF @ = "up" THEN "unmounted" ELSE @]
        /\ UNCHANGED <<own, body, handles, linked, deleted, stored, kref, fhAt, dhAt, made, seen,
                       panicked, early, ops, writes>>

\* Join: a node that was unmounted has the others unmount, too.
Join(n) ==
    /\ node[n] = "unmounted" /\ \A t \in Threads : ~Uses(t, n)
    /\ node' = [m \in Nodes |-> IF m = n THEN "joined"
                                ELSE IF node[m] = "up" THEN "unmounted" ELSE node[m]]
    /\ UNCHANGED <<own, body, handles, linked, deleted, stored, kref, fhAt, dhAt, op, made, seen,
                   panicked, early, ops, writes, faults>>

\* SyncTree, then the process ends.
Exit(n) ==
    /\ node[n] = "joined" /\ body[n].state \in {"CACHED", "DEAD"}
    /\ op' = Cut(n) /\ node' = [node EXCEPT ![n] = "dead"]
    /\ UNCHANGED <<own, body, handles, linked, deleted, stored, kref, fhAt, dhAt, made, seen,
                   panicked, early, ops, writes, faults>>

Step(t) ==
    Route(t) \/ ServeCall(t) \/ ApplyReply(t) \/ TryStealInodeOwnership(t) \/ ApplySteal(t)

Next ==
    \/ \E t \in Threads : Step(t) \/ Fail(t) \/ \E k \in Kinds : Begin(t, k)
    \/ \E n \in Nodes : Flush(n) \/ Join(n) \/ Exit(n)

Spec == Init /\ [][Next]_vars

\* Requests are answered or fail; the flusher runs.
FairSpec ==
    /\ Spec
    /\ \A t \in Threads : WF_vars(Step(t) \/ (Fail(t) /\ faults' = faults))
    /\ \A n \in Nodes : WF_vars(Flush(n))

---------------------------------------------------------------------------
(* Properties *)

TypeOK ==
    /\ own \in [Inodes -> [Nodes -> Copies]]
    /\ body \in [Nodes -> Bodies]
    /\ handles \in [Inodes -> [Nodes -> 0..Cardinality(Nodes)]]
    /\ linked \in [Nodes -> BOOLEAN] /\ deleted \in [Nodes -> BOOLEAN]
    /\ stored \in Vals \cup {NoObject}
    /\ kref \in [Nodes -> Refs] /\ fhAt \in [Nodes -> Owners] /\ dhAt \in [Nodes -> Owners]
    /\ op \in [Threads -> Frames]
    /\ node \in [Nodes -> {"up", "unmounted", "joined", "dead"}]
    /\ made \in BOOLEAN /\ panicked \in BOOLEAN /\ early \in BOOLEAN
    /\ seen \in [Threads -> Vals]
    /\ ops \in 0..MaxOps /\ writes \in 0..MaxVal /\ faults \in 0..MaxFaults

\* Who has an inode: nodes that own it, and answers that carry it to its next owner.
Holders(i)  == {n \in Nodes : node[n] # "dead" /\ own[i][n].owner = n /\ own[i][n].ready}
Carriers(i) == {t \in Threads : /\ op[t].pc = "stolen" /\ op[t].resp.tag = "stolen"
                                /\ Target(op[t]) = i /\ node[op[t].at] # "dead"}

\* The request handlers, unlink and the copies of the root do not wait for readyOwner, and what
\* is done to a copy before the inode has come is lost (cluster_fs.go:121).
\* The properties say what holds in every behaviour up to such a step, early.

\* No inode ever has two owners, an answer on its way to its receiver included
\* (TryStealInodeOwnership, applyStolenInode), until a node uses an inode before it has come.
OneOwner ==
    early \/ \A i \in Inodes : Cardinality(Holders(i)) + Cardinality(Carriers(i)) <= 1

\* Copies with one term name one owner, and none is ahead of the owner or of the answer that
\* carries the inode: a node that follows the owners it is told of gets to the owner, until a
\* node uses an inode before it has come.
TermsLead ==
    early \/ \A i \in Inodes :
        /\ \A n, m \in Nodes : own[i][n].term = own[i][m].term /\ own[i][n].owner # UNKNOWN_OWNER
                                /\ own[i][m].owner # UNKNOWN_OWNER
                               => own[i][n].owner = own[i][m].owner
        /\ \A h \in Holders(i), n \in Nodes : own[i][n].term <= own[i][h].term
        /\ \A t \in Carriers(i), n \in Nodes : own[i][n].term <= op[t].resp.term

\* The name of the file, in the directory of its owner or on the way to the next one.
Named == \/ \E n \in Holders("dir") : linked[n]
         \/ \E t \in Carriers("dir") : op[t].resp.linked

\* References the nodes that still run have and have not given back: of their kernels, of
\* answers to a lookup or a create that are under way, of forgets that are.
Kept ==
    (UNION {{n} \X {"kernel"} \X (1..kref[n]) : n \in {m \in Nodes : node[m] # "dead"}})
    \cup {<<t, "looked up", 1>> : t \in {u \in Threads :
            /\ op[u].pc = "reply" /\ op[u].resp.tag = "done" /\ op[u].kind \in {"lookup", "create"}
            /\ node[NodeOf[u]] # "dead"}}
    \cup (UNION {{t} \X {"forget"} \X (1..op[t].n) : t \in {u \in Threads :
            /\ Active(u) /\ op[u].resp.tag # "done" /\ node[NodeOf[u]] # "dead"}})

\* The reference count that wanders with the file covers every lookup that was not given back,
\* and is exact while no request has failed: no node drops an inode that another uses (DeRef,
\* ForgetInode2), and the last forget does drop it, until a node uses an inode before it has
\* come.
RefsConserved ==
    LET need == Cardinality(Kept) + (IF Named THEN 1 ELSE 0)
        Right(r) == need <= r /\ (faults = 0 => need = r)
    IN  early \/ /\ \A h \in Holders("file") : Right(body[h].refcnt)
                 /\ \A t \in Carriers("file") : Right(op[t].resp.refcnt)

\* A handle stays with the node it was opened on, and that node stays the owner: reads and
\* writes through the handle find it (tryYield refuses while fileHandles is not 0), until a
\* node uses an inode before it has come.
HandlesServed ==
    LET Closing(n, k) == \E t \in Threads : NodeOf[t] = n /\ Active(t) /\ op[t].kind = k
        Served(i, n, y, k) == y # 0 /\ node[n] = "up" /\ node[y] # "dead" /\ ~Closing(n, k)
                              => y \in Holders(i)
    IN  early \/ \A n \in Nodes : /\ Served("file", n, fhAt[n], "release")
                                 /\ Served("dir", n, dhAt[n], "closedir")

\* No request names an inode its receiver does not have, and no forget gives back more than
\* there is: getInodeOrDie does not panic and DeRef does not report an underflow, until a node
\* uses an inode before it has come.
NoPanic ==
    early \/
    /\ ~panicked
    /\ \A t \in Threads :
        /\ op[t].pc \in {"route", "exec"} /\ node[op[t].at] # "dead" => ~Unknown(t, op[t].at)
        /\ op[t].pc \in {"steal", "call"} /\ node[op[t].to] # "dead" => ~Unknown(t, op[t].to)

\* The nodes together are one inode: the state of the abstract one is that of the copy that
\* has the inode.
FileNow ==
    IF Holders("file") # {}
    THEN LET h == CHOOSE n \in Holders("file") : TRUE
         IN  [refcnt |-> body[h].refcnt, val |-> body[h].attr, open |-> handles["file"][h]]
    ELSE IF Carriers("file") # {}
    THEN LET r == op[CHOOSE t \in Carriers("file") : TRUE].resp
         IN  [refcnt |-> r.refcnt, val |-> r.attr, open |-> 0]
    ELSE [refcnt |-> 0, val |-> 0, open |-> 0]

Shared == INSTANCE SharedInode WITH
    dirUp     <- Holders("dir") \cup Carriers("dir") # {},
    fileUp    <- ~made \/ Holders("file") \cup Carriers("file") # {},
    linked    <- Named,
    refcnt    <- FileNow.refcnt,
    open      <- FileNow.open,
    val       <- FileNow.val

\* Every read, write, lookup, open, forget and unlink, wherever it runs, acts on the one state
\* of the file, and once that is lost none acts on an old copy (module SharedInode), until a
\* node uses an inode before it has come.
ActsAsOneInode ==
    Shared!AbsInit /\ [][early' \/ Shared!AbsNext]_(Shared!absVars)

\* An operation ends, unless it waits for a handle that stays open: unlink repeats its steal
\* until the file is closed, and holds the directory meanwhile; or a node has used an inode
\* before it has come.
OperationsEnd ==
    \A t \in Threads :
        Active(t) ~> \/ ~Active(t) \/ node[NodeOf[t]] # "up" \/ early
                    \/ \E i \in Inodes, n \in Nodes : handles[i][n] > 0
===============================================================================
