----------------------- MODULE ClusterRefinementProofs -----------------------
(***************************************************************************)
(* The nodes of a cluster together are one inode: Cluster implements       *)
(* SharedInode, for every number of nodes, threads, operations, transfers  *)
(* and failures, until a node uses an inode that has not come to it.       *)
(***************************************************************************)
EXTENDS ClusterReferenceProofs

-------------------------------------------------------------------------------
(* The state of the one inode *)

(* It is that of the copy of the owner. *)
LEMMA HolderView ==
    OwnInv => \A h \in Holders("file") :
                 /\ FileNow.refcnt = body[h].refcnt /\ FileNow.val = body[h].attr
                 /\ FileNow.open = handles["file"][h]
<1> SUFFICES ASSUME OwnInv, NEW h \in Holders("file")
             PROVE  /\ FileNow.refcnt = body[h].refcnt /\ FileNow.val = body[h].attr
                    /\ FileNow.open = handles["file"][h]
  OBVIOUS
<1>1. Holders("file") = {h}
  BY HolderAlone, NodesFacts
<1>2. (CHOOSE n \in Holders("file") : TRUE) = h
  BY <1>1
<1>3. FileNow = [refcnt |-> body[h].refcnt, val |-> body[h].attr, open |-> handles["file"][h]]
  BY <1>1, <1>2 DEF FileNow
<1> QED
  BY <1>3

(* Or of the answer that carries it to the next one. *)
LEMMA CarrierView ==
    OwnInv => \A t \in Carriers("file") :
                 /\ FileNow.refcnt = op[t].resp.refcnt /\ FileNow.val = op[t].resp.attr
                 /\ FileNow.open = 0
<1> SUFFICES ASSUME OwnInv, NEW t \in Carriers("file")
             PROVE  /\ FileNow.refcnt = op[t].resp.refcnt /\ FileNow.val = op[t].resp.attr
                    /\ FileNow.open = 0
  OBVIOUS
<1>1. Holders("file") = {} /\ Carriers("file") = {t}
  BY CarrierAlone, NodesFacts
<1>2. (CHOOSE u \in Carriers("file") : TRUE) = t
  BY <1>1
<1>3. FileNow = [refcnt |-> op[t].resp.refcnt, val |-> op[t].resp.attr, open |-> 0]
  BY <1>1, <1>2 DEF FileNow
<1> QED
  BY <1>3

(* Nobody has the file. *)
LEMMA NobodyView ==
    Holders("file") = {} /\ Carriers("file") = {}
        => FileNow.refcnt = 0 /\ FileNow.val = 0 /\ FileNow.open = 0
BY DEF FileNow

(* The directory and the file can be served. *)
DirUp  == Holders("dir") \cup Carriers("dir") # {}
FileUp == ~made \/ Holders("file") \cup Carriers("file") # {}

(* Nothing of the one inode changes. *)
LEMMA AbsStutter ==
    ASSUME DirUp' = DirUp, FileUp' = FileUp, Named' = Named, FileNow'.refcnt = FileNow.refcnt,
           FileNow'.val = FileNow.val, FileNow'.open = FileNow.open, made' = made, seen' = seen
    PROVE  UNCHANGED Shared!absVars
BY DEF Shared!absVars, DirUp, FileUp

(* The step of a read. *)
LEMMA AbsRead ==
    ASSUME NEW t \in Threads, FileUp, made, seen' = [seen EXCEPT ![t] = FileNow.val],
           DirUp' = DirUp, FileUp' = FileUp, Named' = Named, FileNow'.refcnt = FileNow.refcnt,
           FileNow'.val = FileNow.val, FileNow'.open = FileNow.open, made' = made
    PROVE  Shared!AbsNext
BY DEF Shared!AbsNext, Shared!Read, DirUp, FileUp

(* The step of a write. *)
LEMMA AbsWrite ==
    ASSUME FileUp, made, FileNow'.val = FileNow.val + 1,
           DirUp' = DirUp, FileUp' = FileUp, Named' = Named, FileNow'.refcnt = FileNow.refcnt,
           FileNow'.open = FileNow.open, made' = made, seen' = seen
    PROVE  Shared!AbsNext
BY DEF Shared!AbsNext, Shared!Write, DirUp, FileUp

(* Of an open. *)
LEMMA AbsOpen ==
    ASSUME FileUp, made, FileNow'.open = FileNow.open + 1,
           DirUp' = DirUp, FileUp' = FileUp, Named' = Named, FileNow'.refcnt = FileNow.refcnt,
           FileNow'.val = FileNow.val, made' = made, seen' = seen
    PROVE  Shared!AbsNext
BY DEF Shared!AbsNext, Shared!Open, DirUp, FileUp

(* Of a release. *)
LEMMA AbsRelease ==
    ASSUME FileUp, FileNow.open > 0, FileNow'.open = FileNow.open - 1,
           DirUp' = DirUp, FileUp' = FileUp, Named' = Named, FileNow'.refcnt = FileNow.refcnt,
           FileNow'.val = FileNow.val, made' = made, seen' = seen
    PROVE  Shared!AbsNext
BY DEF Shared!AbsNext, Shared!Release, DirUp, FileUp

(* Of a forget. *)
LEMMA AbsForget ==
    ASSUME FileUp, NEW k \in Nat, k # 0, FileNow.refcnt \in Nat, k <= FileNow.refcnt,
           FileNow'.refcnt = FileNow.refcnt - k,
           DirUp' = DirUp, FileUp' = FileUp, Named' = Named, FileNow'.open = FileNow.open,
           FileNow'.val = FileNow.val, made' = made, seen' = seen
    PROVE  Shared!AbsNext
<1>1. k \in 1..FileNow.refcnt
  OBVIOUS
<1> QED
  BY <1>1 DEF Shared!AbsNext, Shared!Forget, DirUp, FileUp

(* Of a lookup. *)
LEMMA AbsLookup ==
    ASSUME NEW t \in Threads, DirUp, FileUp, Named, FileNow'.refcnt = FileNow.refcnt + 1,
           seen' = [seen EXCEPT ![t] = FileNow.val],
           DirUp' = DirUp, FileUp' = FileUp, Named' = Named, FileNow'.open = FileNow.open,
           FileNow'.val = FileNow.val, made' = made
    PROVE  Shared!AbsNext
BY DEF Shared!AbsNext, Shared!Lookup, DirUp, FileUp

(* Of an unlink. *)
LEMMA AbsUnlink ==
    ASSUME DirUp, FileUp, Named, ~Named', FileNow'.refcnt = FileNow.refcnt - 1,
           DirUp' = DirUp, FileUp' = FileUp, FileNow'.open = FileNow.open,
           FileNow'.val = FileNow.val, made' = made, seen' = seen
    PROVE  Shared!AbsNext
BY DEF Shared!AbsNext, Shared!Unlink, DirUp, FileUp

(* Of a lookup or a create that makes the inode. *)
LEMMA AbsAppear ==
    ASSUME DirUp, ~made, made', Named',
           \/ FileNow'.refcnt = 1 /\ FileNow'.open = FileNow.open
           \/ FileNow'.refcnt = 2 /\ FileNow'.open = 1,
           DirUp' = DirUp, FileUp' = FileUp, FileNow'.val = FileNow.val, seen' = seen
    PROVE  Shared!AbsNext
BY DEF Shared!AbsNext, Shared!Appear, DirUp, FileUp

(* Of a failure. *)
LEMMA AbsLose ==
    ASSUME DirUp' \in {DirUp, FALSE}, FileUp' \in {FileUp, FALSE}, Named' = (Named /\ DirUp'),
           FileUp' => FileNow'.refcnt = FileNow.refcnt /\ FileNow'.open = FileNow.open
                      /\ FileNow'.val = FileNow.val,
           ~FileUp' => FileNow'.refcnt = 0 /\ FileNow'.open = 0 /\ FileNow'.val = 0,
           made' = made, seen' = seen
    PROVE  Shared!AbsNext
BY DEF Shared!AbsNext, Shared!Lose, DirUp, FileUp

-------------------------------------------------------------------------------
(* Steps that move no inode *)

Places ==
    /\ \A i \in Inodes, n \in Nodes : Keeps(i, n)' <=> Keeps(i, n)
    /\ \A n \in Nodes : node'[n] = "dead" <=> node[n] = "dead"
    /\ \A u \in Threads : op'[u] = op[u] \/ (op[u].resp.tag # "stolen" /\ op'[u].resp.tag # "stolen")
    /\ made' = made

(* Who has an inode still has it. *)
LEMMA PlacesHeld ==
    ASSUME OwnInv, Places, NEW i \in Inodes
    PROVE  /\ Holders(i)' = Holders(i) /\ Carriers(i)' = Carriers(i)
           /\ \A u \in Carriers(i) : op'[u] = op[u]
<1>1. Holders(i)' = Holders(i)
  BY DEF Holders, Keeps, Places
<1>2. \A u \in Threads : op[u].at \in Nodes
  BY FrameType DEF OwnInv, Shape
<1>3. ASSUME NEW u \in Threads
      PROVE  /\ u \in Carriers(i)' <=> u \in Carriers(i)
             /\ u \in Carriers(i) => op'[u] = op[u]
  <2>1. CASE op'[u] = op[u]
    BY <2>1, <1>2, <1>3 DEF Carriers, Places, Target
  <2>2. CASE op[u].resp.tag # "stolen" /\ op'[u].resp.tag # "stolen"
    BY <2>2 DEF Carriers
  <2> QED
    BY <2>1, <2>2, <1>3 DEF Places
<1>4. Carriers(i)' \subseteq Threads /\ Carriers(i) \subseteq Threads
  BY DEF Carriers
<1> QED
  BY <1>1, <1>3, <1>4

(* The directory and the file can still be served. *)
LEMMA PlacesUp ==
    ASSUME OwnInv, Places
    PROVE  DirUp' = DirUp /\ FileUp' = FileUp
<1>1. Holders("dir")' = Holders("dir") /\ Carriers("dir")' = Carriers("dir")
  BY PlacesHeld, NodesFacts
<1>2. Holders("file")' = Holders("file") /\ Carriers("file")' = Carriers("file")
  BY PlacesHeld, NodesFacts
<1> QED
  BY <1>1, <1>2 DEF DirUp, FileUp, Places

(* The name stays. *)
LEMMA PlacesNamed ==
    ASSUME OwnInv, OwnInv', Places, \A n \in Nodes : linked'[n] <=> linked[n]
    PROVE  Named' = Named
<1>1. Holders("dir")' = Holders("dir") /\ Carriers("dir")' = Carriers("dir")
      /\ \A u \in Carriers("dir") : op'[u] = op[u]
  BY PlacesHeld, NodesFacts
<1>2. Holders("dir") \subseteq Nodes
  BY DEF Holders
<1>3. Named' <=> Named
  BY <1>1, <1>2 DEF Named
<1> QED
  BY <1>3 DEF Named

(* The file is that of its owner, before and after. *)
LEMMA PlacesFile ==
    ASSUME OwnInv, OwnInv', Places, NEW y \in Holders("file")
    PROVE  /\ made /\ FileUp /\ y \in Holders("file")'
           /\ FileNow.refcnt = body[y].refcnt /\ FileNow.val = body[y].attr
           /\ FileNow.open = handles["file"][y]
           /\ FileNow'.refcnt = body'[y].refcnt /\ FileNow'.val = body'[y].attr
           /\ FileNow'.open = handles'["file"][y]
<1>1. y \in Holders("file")'
  BY PlacesHeld, NodesFacts
<1>2. (OwnInv => \A h \in Holders("file") :
                 /\ FileNow.refcnt = body[h].refcnt /\ FileNow.val = body[h].attr
                 /\ FileNow.open = handles["file"][h])'
  BY HolderView, PTL
<1>3. /\ FileNow'.refcnt = body'[y].refcnt /\ FileNow'.val = body'[y].attr
      /\ FileNow'.open = handles'["file"][y]
  BY <1>1, <1>2
<1>4. y \in Nodes /\ own["file"][y].owner = y
  BY DEF Holders
<1>5. made
  <2>1. own["file"][y].term \in Nat /\ y \in Owners /\ y # UNKNOWN_OWNER
    BY <1>4, CopyType, NodesFacts DEF OwnInv
  <2>2. Known("file", y, own["file"][y].term)
    BY <1>4 DEF Known
  <2> QED
    BY <2>1, <2>2 DEF OwnInv, Unmade
<1> QED
  BY <1>1, <1>3, <1>5, HolderView DEF FileUp

(* Nothing happens to the file. *)
LEMMA PlacesQuiet ==
    ASSUME OwnInv, OwnInv', Places, seen' = seen, \A n \in Nodes : linked'[n] <=> linked[n],
           \A n \in Nodes : Keeps("file", n) => /\ body'[n].refcnt = body[n].refcnt /\ body'[n].attr = body[n].attr
                                                /\ handles'["file"][n] = handles["file"][n]
    PROVE  UNCHANGED Shared!absVars
<1>1. Holders("file")' = Holders("file") /\ Carriers("file")' = Carriers("file")
      /\ \A u \in Carriers("file") : op'[u] = op[u]
  BY PlacesHeld, NodesFacts
<1>2. FileNow'.refcnt = FileNow.refcnt /\ FileNow'.val = FileNow.val /\ FileNow'.open = FileNow.open
  <2>1. CASE Holders("file") # {}
    <3>1. PICK y \in Holders("file") : TRUE
      BY <2>1
    <3>2. y \in Nodes /\ Keeps("file", y)
      BY DEF Holders, Keeps
    <3> QED
      BY <3>1, <3>2, PlacesFile
  <2>2. CASE Carriers("file") # {}
    <3>1. PICK u \in Carriers("file") : TRUE
      BY <2>2
    <3>2. (OwnInv => \A t \in Carriers("file") :
                 /\ FileNow.refcnt = op[t].resp.refcnt /\ FileNow.val = op[t].resp.attr
                 /\ FileNow.open = 0)'
      BY CarrierView, PTL
    <3>3. u \in Carriers("file")' /\ op'[u] = op[u]
      BY <1>1, <3>1
    <3>4. FileNow'.refcnt = op'[u].resp.refcnt /\ FileNow'.val = op'[u].resp.attr /\ FileNow'.open = 0
      BY <3>2, <3>3
    <3> QED
      BY <3>1, <3>3, <3>4, CarrierView
  <2>3. CASE Holders("file") = {} /\ Carriers("file") = {}
    <3>1. (Holders("file") = {} /\ Carriers("file") = {}
               => FileNow.refcnt = 0 /\ FileNow.val = 0 /\ FileNow.open = 0)'
      BY NobodyView, PTL
    <3>2. Holders("file")' = {} /\ Carriers("file")' = {}
      BY <1>1, <2>3
    <3> QED
      BY <2>3, <3>1, <3>2, NobodyView
  <2> QED
    BY <2>1, <2>2, <2>3
<1> QED
  BY <1>2, PlacesUp, PlacesNamed, AbsStutter DEF Places

-------------------------------------------------------------------------------
(* The content of the file *)

(* Only the owner has handles, a file that is not dirty is in the bucket, wherever it is, and *)
(* one without an inode was never written.                                                    *)
Filled ==
    /\ \A n \in Nodes : ~Keeps("file", n) => handles["file"][n] = 0
    /\ \A n \in Nodes : Keeps("file", n) /\ body[n].state = "CACHED" => stored = body[n].attr
    /\ \A t \in Carriers("file") : op[t].resp.attr = stored
    /\ ~made => stored \in {0, NoObject}

(* What is to be shown of a step. *)
Implements == Filled' /\ (Shared!AbsNext \/ UNCHANGED Shared!absVars)

(* Nothing is flushed, and the inode does not move. *)
LEMMA FilledStill ==
    ASSUME OwnInv, Filled, Places, stored' = stored,
           \A n \in Nodes : handles'["file"][n] = handles["file"][n] \/ Keeps("file", n),
           \A n \in Nodes : Keeps("file", n) /\ body'[n].state = "CACHED"
                => body[n].state = "CACHED" /\ body'[n].attr = body[n].attr
    PROVE  Filled'
<1>1. \A n \in Nodes : Keeps("file", n)' <=> Keeps("file", n)
  BY NodesFacts DEF Places
<1>2. Carriers("file")' = Carriers("file") /\ \A u \in Carriers("file") : op'[u] = op[u]
  BY PlacesHeld, NodesFacts
<1>3. \A n \in Nodes : ~Keeps("file", n)' => handles'["file"][n] = 0
  BY <1>1 DEF Filled
<1>4. \A n \in Nodes : Keeps("file", n)' /\ body'[n].state = "CACHED" => stored' = body'[n].attr
  BY <1>1 DEF Filled
<1>5. \A t \in Carriers("file")' : op'[t].resp.attr = stored'
  BY <1>2 DEF Filled
<1>6. ~made' => stored' \in {0, NoObject}
  BY DEF Filled, Places
<1> QED
  BY <1>3, <1>4, <1>5, <1>6 DEF Filled

(* Nothing happens to the file at all. *)
LEMMA QuietImplements ==
    ASSUME OwnInv, OwnInv', Filled, Places, seen' = seen, stored' = stored,
           \A n \in Nodes : linked'[n] <=> linked[n],
           \A n \in Nodes : handles'["file"][n] = handles["file"][n],
           \A n \in Nodes : Keeps("file", n) => body'[n].refcnt = body[n].refcnt /\ body'[n].attr = body[n].attr
                                                /\ body'[n].state = body[n].state
    PROVE  Implements
<1>1. Filled'
  BY FilledStill
<1>2. UNCHANGED Shared!absVars
  BY PlacesQuiet
<1> QED
  BY <1>1, <1>2 DEF Implements

(* A thread without an inode goes on, or is answered. *)
LEMMA OneFramePlaces ==
    ASSUME NEW t \in Threads, \A u \in Threads : u # t => op'[u] = op[u],
           op[t].resp.tag # "stolen", op'[t].resp.tag # "stolen",
           \A i \in Inodes, n \in Nodes : Keeps(i, n)' <=> Keeps(i, n), node' = node, made' = made
    PROVE  Places
BY DEF Places

(* Owners stay. *)
LEMMA SameKeeps ==
    ASSUME own' = own
    PROVE  \A i \in Inodes, n \in Nodes : Keeps(i, n)' <=> Keeps(i, n)
BY DEF Keeps

(* An operation that is answered moves no inode. *)
LEMMA AnswerPlaces ==
    ASSUME OwnInv, RefInv, NEW t \in Threads, NEW y \in Nodes, NEW ok \in BOOLEAN,
           Answer(t, y, ok, own["file"][y]), op[t].resp.tag # "stolen", UNCHANGED <<own, node, made>>
    PROVE  Places
<1>1. Given(t, y, ok)
  BY AnswerStep
<1>2. Idle(t).resp.tag = "none"
  BY IdleType, NoAnswerType
<1>3. op'[t].resp.tag # "stolen"
  BY <1>1, <1>2 DEF Given
<1>4. \A u \in Threads : u # t => op'[u] = op[u]
  BY <1>1 DEF Given
<1> QED
  BY <1>3, <1>4, SameKeeps, OneFramePlaces

(* What a write does. *)
LEMMA ModifiedContent ==
    ASSUME NEW b \in BodyRec
    PROVE  Modified(b).refcnt = b.refcnt /\ Modified(b).attr = b.attr + 1 /\ Modified(b).state # "CACHED"
BY DEF Modified, BodyRec

(* DeRef leaves the content. *)
LEMMA DeRefContent ==
    ASSUME NEW b \in BodyRec, NEW k \in Nat
    PROVE  DeRef(b, k).attr = b.attr /\ DeRef(b, k).state = b.state
BY DEF DeRef, BodyRec

-------------------------------------------------------------------------------
(* What the owner does *)

(* The operations that are routed by the file. *)
LEMMA ExecFileImplements ==
    ASSUME OwnInv, OwnInv', RefInv, Filled, NEW t \in Threads, NEW y \in Nodes,
           op[t].pc \in {"route", "exec", "call"}, Keeps("file", y), node[y] # "dead",
           op[t].kind \notin ByParent, ExecFile(t, y)
    PROVE  Implements
<1>0. /\ body \in [Nodes -> BodyRec] /\ body[y] \in BodyRec /\ op[t].resp.tag # "stolen" /\ op[t].n \in Nat
      /\ handles \in [Inodes -> [Nodes -> Int]] /\ y \in Holders("file") /\ "file" \in Inodes
  BY ExecFacts, NodesFacts DEF RefInv, More, Holders, Keeps
<1>1. /\ UNCHANGED <<own, linked, stored, node, made, faults>>
      /\ Answer(t, y, TRUE, own["file"][y])
  BY DEF ExecFile
<1>2. Places
  BY <1>0, <1>1, AnswerPlaces
<1>3. DirUp' = DirUp /\ FileUp' = FileUp /\ Named' = Named /\ made' = made
  BY <1>1, <1>2, PlacesUp, PlacesNamed
<1>4. /\ made /\ FileUp
      /\ FileNow.refcnt = body[y].refcnt /\ FileNow.val = body[y].attr /\ FileNow.open = handles["file"][y]
      /\ FileNow'.refcnt = body'[y].refcnt /\ FileNow'.val = body'[y].attr
      /\ FileNow'.open = handles'["file"][y]
  BY <1>0, <1>2, PlacesFile
<1>5. \A n \in Nodes : Keeps("file", n) => n = y
  BY <1>0 DEF RefInv, Alone
<1>6. CASE op[t].kind = "open" /\ openFile(y)
  <2>1. body' = body /\ seen' = seen /\ handles'["file"][y] = handles["file"][y] + 1
        /\ \A n \in Nodes : n # y => handles'["file"][n] = handles["file"][n]
    BY <1>0, <1>6 DEF openFile
  <2>2. Filled'
    BY <1>1, <1>2, <2>1, FilledStill
  <2> QED
    BY <2>1, <2>2, <1>3, <1>4, AbsOpen DEF Implements
<1>7. CASE op[t].kind = "release" /\ releaseFileHandle(y)
  <2>1. body' = body /\ seen' = seen /\ handles'["file"][y] = handles["file"][y] - 1
        /\ \A n \in Nodes : n # y => handles'["file"][n] = handles["file"][n]
    BY <1>0, <1>7 DEF releaseFileHandle
  <2>2. Filled'
    BY <1>1, <1>2, <2>1, FilledStill
  <2>3. NodeOf[t] \in Users("file", y)
    <3>1. op[t].pc # "idle" /\ op[t].resp.tag # "done" /\ op[t].kind = Closes("file")
      BY <1>7, NoResult DEF Closes
    <3> QED
      BY <3>1, <1>0, CloserIsUser
  <2>4. handles["file"][y] > 0
    <3>1. IsFiniteSet(Users("file", y)) /\ Users("file", y) # {}
      BY <2>3, FS_Subset, NodesAssumption DEF Users
    <3>2. Cardinality(Users("file", y)) \in Nat /\ Cardinality(Users("file", y)) # 0
      BY <3>1, FS_CardinalityType, FS_EmptySet
    <3>3. Cardinality(Users("file", y)) <= handles["file"][y] /\ handles["file"][y] \in Int
      BY <1>0 DEF RefInv, Handled
    <3> QED
      BY <3>2, <3>3
  <2> QED
    BY <2>1, <2>2, <2>4, <1>3, <1>4, AbsRelease DEF Implements
<1>8. CASE op[t].kind = "read" /\ readFile(t, y)
  <2>0. body' = body /\ handles' = handles
    BY <1>8 DEF readFile
  <2>1. CASE body[y].state \in {"DELETED", "DEAD"}
    <3>1. seen' = seen
      BY <1>8, <2>1 DEF readFile
    <3> QED
      BY <2>0, <3>1, <1>1, <1>2, QuietImplements
  <2>2. CASE body[y].state \notin {"DELETED", "DEAD"}
    <3>1. seen' = [seen EXCEPT ![t] = IF body[y].state = "CACHED" THEN stored ELSE body[y].attr]
      BY <1>8, <2>2 DEF readFile
    <3>2. body[y].state = "CACHED" => stored = body[y].attr
      BY DEF Filled
    <3>3. seen' = [seen EXCEPT ![t] = FileNow.val]
      BY <3>1, <3>2, <1>4
    <3>4. Filled'
      BY <2>0, <1>1, <1>2, FilledStill
    <3> QED
      BY <2>0, <3>3, <3>4, <1>3, <1>4, AbsRead DEF Implements
  <2> QED
    BY <2>1, <2>2
<1>9. CASE op[t].kind = "getattr" /\ getInodeAttributes(t, y)
  <2>1. body' = body /\ handles' = handles /\ seen' = [seen EXCEPT ![t] = body[y].attr]
    BY <1>9 DEF getInodeAttributes
  <2>2. Filled'
    BY <2>1, <1>1, <1>2, FilledStill
  <2> QED
    BY <2>1, <2>2, <1>3, <1>4, AbsRead DEF Implements
<1>10. ASSUME body' = [body EXCEPT ![y] = Modified(@)], handles' = handles, seen' = seen PROVE Implements
  <2>1. body'[y] = Modified(body[y]) /\ \A n \in Nodes : n # y => body'[n] = body[n]
    BY <1>0, <1>10
  <2>2. body'[y].refcnt = body[y].refcnt /\ body'[y].attr = body[y].attr + 1 /\ body'[y].state # "CACHED"
    BY <2>1, <1>0, ModifiedContent
  <2>3. Filled'
    BY <2>2, <1>1, <1>2, <1>5, <1>10, FilledStill
  <2> QED
    BY <2>2, <2>3, <1>3, <1>4, <1>10, AbsWrite DEF Implements
<1>11. CASE op[t].kind = "write" /\ writeFile(y)
  <2>1. CASE body[y].state \in {"DELETED", "DEAD"}
    <3>1. seen' = seen /\ body' = body /\ handles' = handles
      BY <1>11, <2>1 DEF writeFile
    <3> QED
      BY <3>1, <1>1, <1>2, QuietImplements
  <2>2. CASE body[y].state \notin {"DELETED", "DEAD"}
    BY <1>10, <1>11, <2>2 DEF writeFile
  <2> QED
    BY <2>1, <2>2
<1>12. CASE op[t].kind = "setattr" /\ setInodeAttributes(y)
  BY <1>10, <1>12 DEF setInodeAttributes
<1>13. CASE op[t].kind = "forget" /\ ForgetInode(t, y)
  <2> DEFINE b == DeRef(body[y], op[t].n)
  <2>1. /\ body' = [m \in Nodes |-> IF m = y THEN b ELSE [body[m] EXCEPT !.known = @ /\ b.refcnt # 0]]
        /\ handles' = handles /\ seen' = seen
    BY <1>13 DEF ForgetInode
  <2>2. op[t].n <= body[y].refcnt /\ op[t].n # 0
    <3>1. Given(t, y, TRUE)
      BY <1>1, AnswerStep
    <3>2. ForgetRefs[t] <= Cardinality(Kept) /\ Cardinality(Kept) \in Nat
      BY <3>1, <1>1, NodesFacts, GivenKept
    <3>3. ForgetRefs[t] = op[t].n /\ Sane(op[t])
      BY <1>13, NoAnswerRefs
    <3>4. Need <= body[y].refcnt /\ body[y].refcnt \in Nat
      BY <1>0, <1>1, <1>2, HolderCounts DEF Places
    <3> QED
      BY <3>2, <3>3, <3>4, <1>0, <1>13 DEF Need, Sane
  <2>3. b.refcnt = body[y].refcnt - op[t].n /\ b.attr = body[y].attr /\ b.state = body[y].state
    BY <2>2, <1>0, DeRefBody, DeRefContent
  <2> HIDE DEF b
  <2>4. body'[y] = b
    BY <2>1
  <2>5. Filled'
    BY <2>1, <2>3, <2>4, <1>1, <1>2, <1>5, FilledStill
  <2>6. FileNow.refcnt \in Nat /\ op[t].n <= FileNow.refcnt /\ FileNow'.refcnt = FileNow.refcnt - op[t].n
        /\ FileNow'.val = FileNow.val /\ FileNow'.open = FileNow.open
    BY <2>1, <2>2, <2>3, <2>4, <1>0, <1>4 DEF BodyRec
  <2> QED
    BY <2>1, <2>2, <2>5, <2>6, <1>0, <1>3, <1>4, AbsForget DEF Implements
<1> QED
  BY <1>6, <1>7, <1>8, <1>9, <1>11, <1>12, <1>13 DEF ExecFile

(* LookUpInode2: the owner of the file counts the reference. *)
LEMMA LookUpImplements ==
    ASSUME OwnInv, OwnInv', RefInv, Filled, NEW t \in Threads, NEW y \in Nodes,
           op[t].pc \in {"route", "exec", "call"}, Keeps("file", y), node[y] # "dead",
           op[t].nested, op[t].kind = "lookup", lookUpInode2(t, y)
    PROVE  Implements
<1>0. /\ body \in [Nodes -> BodyRec] /\ body[y] \in BodyRec /\ op[t].resp.tag # "stolen" /\ Shape
      /\ y \in Holders("file") /\ op[t].at \in Nodes /\ op[t] \in FrameRec
  BY ExecFacts, FrameType DEF Holders, Keeps
<1>1. /\ UNCHANGED <<own, linked, stored, node, made, handles>>
      /\ body' = [body EXCEPT ![y].refcnt = @ + 1] /\ seen' = [seen EXCEPT ![t] = body[y].attr]
  BY DEF lookUpInode2
<1>2. Places
  <2>1. CASE y = op[t].at
    <3>1. Answer(t, y, TRUE, own["file"][y])
      BY <2>1 DEF lookUpInode2
    <3> QED
      BY <3>1, <1>0, <1>1, AnswerPlaces
  <2>2. CASE y # op[t].at
    <3> DEFINE r == [NoAnswer EXCEPT !.tag = "done"]
               g == [op[t] EXCEPT !.pc = "reply", !.resp = r]
    <3>1. op' = [op EXCEPT ![t] = g]
      BY <2>2 DEF lookUpInode2
    <3>2. r.tag = "done"
      BY NoAnswerType DEF AnswerRec
    <3> HIDE DEF r
    <3>3. g.resp = r
      BY <1>0 DEF FrameRec
    <3> HIDE DEF g
    <3>4. op'[t] = g /\ \A u \in Threads : u # t => op'[u] = op[u]
      BY <3>1, <1>0, NextFrame
    <3>5. op'[t].resp.tag # "stolen"
      BY <3>2, <3>3, <3>4
    <3> QED
      BY <3>4, <3>5, <1>0, <1>1, SameKeeps, OneFramePlaces
  <2> QED
    BY <2>1, <2>2
<1>3. body'[y].refcnt = body[y].refcnt + 1 /\ body'[y].attr = body[y].attr
      /\ \A n \in Nodes : body'[n].state = body[n].state /\ body'[n].attr = body[n].attr
  <2> DEFINE b == [body[y] EXCEPT !.refcnt = @ + 1]
  <2>1. b.refcnt = body[y].refcnt + 1 /\ b.attr = body[y].attr /\ b.state = body[y].state
    BY <1>0 DEF BodyRec
  <2>2. body' = [body EXCEPT ![y] = b]
    BY <1>0, <1>1
  <2> HIDE DEF b
  <2> QED
    BY <2>1, <2>2, <1>0
<1>4. Filled'
  BY <1>1, <1>2, <1>3, FilledStill
<1>5. Named /\ DirUp
  <2>1. Named /\ op[t].at \in Holders("dir")
    BY NestedNamed DEF Holders, Keeps
  <2> QED
    BY <2>1 DEF DirUp
<1>6. DirUp' = DirUp /\ FileUp' = FileUp /\ Named' = Named /\ made' = made
  BY <1>1, <1>2, PlacesUp, PlacesNamed
<1>7. /\ FileUp
      /\ FileNow.refcnt = body[y].refcnt /\ FileNow.val = body[y].attr /\ FileNow.open = handles["file"][y]
      /\ FileNow'.refcnt = body'[y].refcnt /\ FileNow'.val = body'[y].attr
      /\ FileNow'.open = handles'["file"][y]
  BY <1>0, <1>2, PlacesFile
<1>8. Shared!AbsNext
  BY <1>1, <1>3, <1>5, <1>6, <1>7, AbsLookup
<1> QED
  BY <1>4, <1>8 DEF Implements

(* doUnlink takes the name and its reference. *)
LEMMA UnlinkImplements ==
    ASSUME OwnInv, OwnInv', RefInv, Filled, NEW t \in Threads, NEW p \in Nodes,
           op[t].pc \in {"route", "exec", "call"}, Keeps("file", p), op[t].nested, op[t].kind = "unlink",
           doUnlink(t, p), p = op[t].at
    PROVE  Implements
<1> DEFINE gone == [body[p] EXCEPT !.state = IF @ = "CREATED" THEN "DEAD" ELSE "DELETED"]
           b == DeRef(gone, 1)
<1>0. /\ body \in [Nodes -> BodyRec] /\ body[p] \in BodyRec /\ op[t].resp.tag # "stolen" /\ Shape
      /\ linked \in [Nodes -> BOOLEAN]
  BY ExecFacts
<1>1. /\ Named /\ Need > 0 /\ Keeps("dir", p) /\ node[p] # "dead" /\ linked[p]
      /\ p \in Holders("file") /\ p \in Holders("dir")
  BY NestedNamed DEF Holders, Keeps
<1>2. /\ UNCHANGED <<own, stored, node, made, handles, seen>> /\ Answer(t, p, TRUE, own["file"][p])
      /\ body' = [body EXCEPT ![p] = b] /\ linked' = [linked EXCEPT ![p] = FALSE]
  BY DEF doUnlink
<1>3. Places
  BY <1>0, <1>2, AnswerPlaces
<1>4. Need <= body[p].refcnt /\ body[p].refcnt \in Nat /\ Need \in Nat
  BY <1>1, <1>2, <1>3, HolderCounts DEF Places
<1>5. gone \in BodyRec /\ gone.refcnt = body[p].refcnt /\ gone.attr = body[p].attr /\ gone.state # "CACHED"
  BY <1>0 DEF BodyRec, States
<1> HIDE DEF gone
<1>6. b.refcnt = body[p].refcnt - 1 /\ b.attr = body[p].attr /\ b.state # "CACHED"
  <2>1. PICK k \in Nat : k = 1
    OBVIOUS
  <2>2. k <= gone.refcnt
    BY <1>1, <1>4, <1>5, <2>1
  <2>3. DeRef(gone, k).refcnt = gone.refcnt - k /\ DeRef(gone, k).attr = gone.attr
        /\ DeRef(gone, k).state = gone.state
    BY <1>5, <2>2, DeRefBody, DeRefContent
  <2> QED
    BY <1>5, <2>1, <2>3
<1> HIDE DEF b
<1>7. body'[p] = b /\ \A n \in Nodes : n # p => body'[n] = body[n]
  BY <1>0, <1>2
<1>8. Filled'
  BY <1>2, <1>3, <1>6, <1>7, FilledStill
<1>9. ~Named'
  <2>1. Holders("dir")' = {p} /\ Carriers("dir")' = {}
    BY <1>1, <1>3, HolderAlone, PlacesHeld, NodesFacts
  <2>2. ~linked'[p]
    BY <1>0, <1>2
  <2> QED
    BY <2>1, <2>2 DEF Named
<1>10. DirUp /\ DirUp' = DirUp /\ FileUp' = FileUp
  BY <1>1, <1>3, PlacesUp DEF DirUp
<1>11. /\ FileUp
       /\ FileNow.refcnt = body[p].refcnt /\ FileNow.val = body[p].attr /\ FileNow.open = handles["file"][p]
       /\ FileNow'.refcnt = body'[p].refcnt /\ FileNow'.val = body'[p].attr
       /\ FileNow'.open = handles'["file"][p]
  BY <1>1, <1>3, PlacesFile
<1>12. Shared!AbsNext
  BY <1>1, <1>2, <1>6, <1>7, <1>9, <1>10, <1>11, AbsUnlink
<1> QED
  BY <1>8, <1>12 DEF Implements

(* The file gets its inode at the owner of the directory. *)
LEMMA AppearImplements ==
    ASSUME OwnInv, OwnInv', RefInv, Filled, ~made, NEW t \in Threads, NEW p \in Nodes,
           Keeps("dir", p), node[p] # "dead",
           own' = [own EXCEPT !["file"][p] = [owner |-> p, term |-> 0, ready |-> TRUE]],
           linked'[p], node' = node, made', seen' = seen, stored' = stored,
           \A u \in Threads : u # t => op'[u] = op[u],
           op[t].resp.tag # "stolen", op'[t].resp.tag # "stolen",
           \A n \in Nodes : n # p => handles'["file"][n] = handles["file"][n],
           \/ body'[p].refcnt = 1 /\ handles'["file"][p] = handles["file"][p]
           \/ body'[p].refcnt = 2 /\ handles'["file"][p] = 1,
           body'[p].attr = 0, body'[p].state = "CACHED" => stored # NoObject
    PROVE  Implements
<1>1. /\ \A n \in Nodes : ~Keeps("file", n) /\ handles["file"][n] = 0
      /\ Carriers("file") = {} /\ Holders("file") = {}
  BY NobodyHas DEF Filled, Holders, Keeps
<1>2. /\ \A n \in Nodes : n # p => own'["file"][n] = own["file"][n]
      /\ \A n \in Nodes : own'["dir"][n] = own["dir"][n]
      /\ own'["file"][p].owner = p /\ own'["file"][p].ready
  BY NodesFacts DEF OwnInv, Shape
<1>3. \A n \in Nodes : (Keeps("file", n)' <=> n = p) /\ (Keeps("dir", n)' <=> Keeps("dir", n))
  BY <1>1, <1>2 DEF Keeps
<1>4. p \in Holders("file")' /\ Carriers("file")' = {}
  <2>1. p \in Holders("file")'
    BY <1>2 DEF Holders
  <2>2. Carriers("file")' \subseteq Carriers("file")
    BY DEF Carriers, Target
  <2> QED
    BY <2>1, <2>2, <1>1
<1>5. p \in Holders("dir") /\ p \in Holders("dir")' /\ DirUp /\ DirUp' /\ FileUp /\ FileUp' /\ Named'
  <2>1. p \in Holders("dir") /\ p \in Holders("dir")'
    BY <1>2 DEF Holders, Keeps
  <2> QED
    BY <2>1, <1>4 DEF DirUp, FileUp, Named
<1>6. DirUp' = DirUp /\ FileUp' = FileUp
  BY <1>5 DEF DirUp, FileUp
<1>7. FileNow.refcnt = 0 /\ FileNow.val = 0 /\ FileNow.open = 0
  BY <1>1, NobodyView
<1>8. /\ FileNow'.refcnt = body'[p].refcnt /\ FileNow'.val = body'[p].attr
      /\ FileNow'.open = handles'["file"][p]
  <2>1. (OwnInv => \A h \in Holders("file") :
                 /\ FileNow.refcnt = body[h].refcnt /\ FileNow.val = body[h].attr
                 /\ FileNow.open = handles["file"][h])'
    BY HolderView, PTL
  <2> QED
    BY <2>1, <1>4
<1>9. Shared!AbsNext
  BY <1>1, <1>5, <1>6, <1>7, <1>8, AbsAppear
<1>10. Filled'
  <2>1. \A n \in Nodes : ~Keeps("file", n)' => handles'["file"][n] = 0
    BY <1>1, <1>3
  <2>2. \A n \in Nodes : Keeps("file", n)' /\ body'[n].state = "CACHED" => stored' = body'[n].attr
    BY <1>3 DEF Filled
  <2>3. \A u \in Carriers("file")' : op'[u].resp.attr = stored'
    BY <1>4
  <2> QED
    BY <2>1, <2>2, <2>3 DEF Filled
<1> QED
  BY <1>9, <1>10 DEF Implements

(* The operations that are routed by the directory. *)
LEMMA ExecDirImplements ==
    ASSUME OwnInv, OwnInv', RefInv, Filled, NEW t \in Threads, NEW p \in Nodes,
           op[t].pc \in {"route", "exec", "call"}, ExecDir(t, p), Keeps("dir", p), node[p] # "dead"
    PROVE  Implements
<1>0. /\ Shape /\ op[t].resp.tag # "stolen" /\ Form(t, op[t]) /\ handles \in [Inodes -> [Nodes -> Int]]
      /\ body \in [Nodes -> BodyRec] /\ linked \in [Nodes -> BOOLEAN] /\ own["file"][p] \in CopyRec
  BY ExecFacts DEF OwnInv, Forms, RefInv, More
<1>1. UNCHANGED <<stored, node, seen>>
  BY DEF ExecDir
<1>2. CASE /\ op[t].kind \in {"lookup", "unlink"} /\ Descend(t, p)
           /\ UNCHANGED <<own, body, linked, made, handles>>
  <2>1. op'[t].resp = NoAnswer /\ \A u \in Threads : u # t => op'[u] = op[u]
    BY <1>0, <1>2, DescendFrame
  <2>2. op'[t].resp.tag # "stolen"
    BY <2>1, NoAnswerType
  <2>3. Places
    BY <2>1, <2>2, <1>0, <1>1, <1>2, SameKeeps, OneFramePlaces
  <2> QED
    BY <2>3, <1>1, <1>2, QuietImplements
<1>3. CASE op[t].kind = "lookup" /\ stored # NoObject /\ ~made /\ loadChild(p) /\ Descend(t, p)
  <2> DEFINE b == [Blank EXCEPT !.known = TRUE, !.refcnt = 1]
  <2>1. op'[t].resp = NoAnswer /\ \A u \in Threads : u # t => op'[u] = op[u]
    BY <1>0, <1>3, DescendFrame
  <2>2. op'[t].resp.tag # "stolen"
    BY <2>1, NoAnswerType
  <2>3. b.refcnt = 1 /\ b.attr = 0
    BY DEF Blank
  <2>4. /\ made' /\ linked' = [linked EXCEPT ![p] = TRUE] /\ handles' = handles /\ body' = [body EXCEPT ![p] = b]
        /\ own' = [own EXCEPT !["file"][p] = [owner |-> p, term |-> 0, ready |-> TRUE]]
    BY <1>3 DEF loadChild
  <2> HIDE DEF b
  <2>5. linked'[p] /\ body'[p].refcnt = 1 /\ body'[p].attr = 0
    BY <2>3, <2>4, <1>0
  <2> QED
    BY <2>1, <2>2, <2>4, <2>5, <1>0, <1>1, <1>3, AppearImplements
<1>4. CASE op[t].kind = "create" /\ ~made /\ createFile(p) /\ Answer(t, p, TRUE, own'["file"][p])
  <2> DEFINE b == [Blank EXCEPT !.known = TRUE, !.refcnt = 2, !.state = "CREATED"]
  <2>1. (\A u \in Threads : u # t => op'[u] = op[u]) /\ op'[t].resp.tag # "stolen"
    <3>1. PICK ok \in BOOLEAN : ok /\ Answer(t, p, ok, own'["file"][p])
      BY <1>4
    <3>2. PICK pair \in CopyRec : pair = own'["file"][p]
      BY NodesFacts DEF OwnInv, Shape
    <3>3. Given(t, p, ok)
      BY <1>0, <3>1, <3>2, AnswerGiven DEF RefInv
    <3> QED
      BY <3>3, IdleType, NoAnswerType DEF Given
  <2>2. b.refcnt = 2 /\ b.attr = 0 /\ b.state # "CACHED"
    BY DEF Blank
  <2>3. /\ made' /\ linked' = [linked EXCEPT ![p] = TRUE] /\ handles' = [handles EXCEPT !["file"][p] = 1]
        /\ body' = [body EXCEPT ![p] = b]
        /\ own' = [own EXCEPT !["file"][p] = [owner |-> p, term |-> 0, ready |-> TRUE]]
    BY <1>4 DEF createFile, createChild
  <2> HIDE DEF b
  <2>4. linked'[p] /\ body'[p].refcnt = 2 /\ body'[p].attr = 0 /\ body'[p].state # "CACHED"
    BY <2>2, <2>3, <1>0
  <2>5. handles'["file"][p] = 1 /\ \A n \in Nodes : n # p => handles'["file"][n] = handles["file"][n]
    BY <2>3, <1>0, NodesFacts
  <2> QED
    BY <2>1, <2>3, <2>4, <2>5, <1>0, <1>1, <1>4, AppearImplements
<1>5. CASE Answer(t, p, FALSE, own["file"][p]) /\ UNCHANGED <<own, body, linked, made, handles>>
  <2>1. Places
    BY <1>0, <1>1, <1>5, AnswerPlaces
  <2> QED
    BY <2>1, <1>1, <1>5, QuietImplements
<1>6. CASE /\ UNCHANGED <<own, body, linked, made>> /\ Answer(t, p, TRUE, own["file"][p])
           /\ handles' = [handles EXCEPT !["dir"][p] = IF op[t].kind = "opendir" THEN @ + 1 ELSE @ - 1]
  <2>1. Places
    BY <1>0, <1>1, <1>6, AnswerPlaces
  <2>2. \A n \in Nodes : handles'["file"][n] = handles["file"][n]
    BY <1>0, <1>6, NodesFacts
  <2> QED
    BY <2>1, <2>2, <1>1, <1>6, QuietImplements
<1> QED
  BY <1>2, <1>3, <1>4, <1>5, <1>6 DEF ExecDir

(* Whatever a node runs as the owner. *)
LEMMA ExecImplements ==
    ASSUME OwnInv, OwnInv', RefInv, Filled, NEW t \in Threads, NEW y \in Nodes,
           op[t].pc \in {"route", "exec", "call"}, Exec(t, y), Keeps(Target(op[t]), y), node[y] # "dead",
           op[t].pc # "call" => y = op[t].at
    PROVE  Implements
<1>1. CASE op[t].nested /\ op[t].kind = "lookup" /\ lookUpInode2(t, y)
  BY <1>1, LookUpImplements DEF Target
<1>2. CASE op[t].nested /\ op[t].kind = "unlink" /\ doUnlink(t, y)
  <2>1. y = op[t].at
    BY <1>2 DEF RefInv, Sanes, Sane
  <2> QED
    BY <1>2, <2>1, UnlinkImplements DEF Target
<1>3. CASE Target(op[t]) = "dir" /\ ExecDir(t, y)
  BY <1>3, ExecDirImplements
<1>4. CASE ~op[t].nested /\ op[t].kind \notin ByParent /\ ExecFile(t, y)
  BY <1>4, ExecFileImplements DEF Target
<1> QED
  BY <1>1, <1>2, <1>3, <1>4 DEF Exec

-------------------------------------------------------------------------------
(* The steps of a frame *)

(* A frame moves on. *)
LEMMA TurnImplements ==
    ASSUME OwnInv, OwnInv', Filled, NEW t \in Threads, \A u \in Threads : u # t => op'[u] = op[u],
           op[t].resp.tag # "stolen", op'[t].resp.tag # "stolen",
           UNCHANGED <<own, body, handles, linked, stored, node, made, seen>>
    PROVE  Implements
<1>1. Places
  BY SameKeeps, OneFramePlaces
<1> QED
  BY <1>1, QuietImplements

(* route. *)
LEMMA RouteImplements ==
    ASSUME OwnInv, OwnInv', RefInv, Filled, ~early', NEW t \in Threads, Route(t)
    PROVE  Implements
<1> DEFINE x == op[t].at
           c == own[Target(op[t])][x]
<1>0. /\ op[t].pc \in {"route", "exec"} /\ node[x] # "dead" /\ x \in Nodes /\ op[t] \in FrameRec
      /\ op[t].resp.tag # "stolen"
  BY FrameType, NoResult DEF Route, OwnInv, Shape
<1>1. ASSUME NEW pc, Send(t, pc, c.owner), UNCHANGED rest PROVE Implements
  <2> DEFINE g == [op[t] EXCEPT !.pc = pc, !.to = c.owner]
  <2>1. op' = [op EXCEPT ![t] = g]
    BY <1>1 DEF Send
  <2>2. g.resp = op[t].resp
    BY <1>0 DEF FrameRec
  <2> HIDE DEF g
  <2>3. op'[t] = g /\ \A u \in Threads : u # t => op'[u] = op[u]
    BY <2>1, NextFrame DEF OwnInv
  <2>4. op'[t].resp.tag # "stolen"
    BY <2>2, <2>3, <1>0
  <2> QED
    BY <2>3, <2>4, <1>0, <1>1, TurnImplements DEF rest
<1>2. CASE c.owner = x /\ Relies(c) /\ Exec(t, x)
  <2>1. Keeps(Target(op[t]), x)
    BY <1>2 DEF Relies, Keeps
  <2> QED
    BY <1>0, <1>2, <2>1, ExecImplements
<1> QED
  BY <1>1, <1>2 DEF Route

(* A node answers without having run the operation. *)
LEMMA RefuseImplements ==
    ASSUME OwnInv, OwnInv', Filled, NEW t \in Threads, op[t].pc \in {"steal", "call"},
           NEW r \in AnswerRec, NEW pc, r.tag # "stolen",
           op' = [op EXCEPT ![t] = [op[t] EXCEPT !.pc = pc, !.resp = r]],
           UNCHANGED <<own, body, handles, linked, stored, node, made, seen>>
    PROVE  Implements
<1> DEFINE g == [op[t] EXCEPT !.pc = pc, !.resp = r]
<1>1. op[t] \in FrameRec /\ op[t].resp.tag # "stolen"
  BY NoResult DEF OwnInv, Shape
<1>2. g.resp = r
  BY <1>1 DEF FrameRec
<1> HIDE DEF g
<1>3. op'[t] = g /\ \A u \in Threads : u # t => op'[u] = op[u]
  BY NextFrame DEF OwnInv, g
<1> QED
  BY <1>1, <1>2, <1>3, TurnImplements

(* The handling of a request. *)
LEMMA ServeCallImplements ==
    ASSUME OwnInv, OwnInv', RefInv, Filled, ~early', NEW t \in Threads, ServeCall(t)
    PROVE  Implements
<1> DEFINE y == op[t].to
           i == Target(op[t])
           c == own[i][y]
<1>0. /\ op[t].pc = "call" /\ node[y] # "dead" /\ y \in Nodes /\ i \in Inodes
  BY FrameType DEF ServeCall, OwnInv, Shape, Names, FrameLocated
<1>1. CASE op' = [op EXCEPT ![t] = [op[t] EXCEPT !.pc = "reply", !.resp = Other(c)]] /\ UNCHANGED rest
  <2>1. Other(c) \in AnswerRec /\ Other(c).tag = "other"
    BY <1>0, CopyType, OtherFacts DEF OwnInv
  <2>2. PICK r \in AnswerRec : r = Other(c) /\ r.tag = "other"
    BY <2>1
  <2>3. PICK pc : pc = "reply"
    OBVIOUS
  <2>4. op' = [op EXCEPT ![t] = [op[t] EXCEPT !.pc = pc, !.resp = r]]
    BY <1>1, <2>2, <2>3
  <2>5. UNCHANGED <<own, body, handles, linked, stored, node, made, seen>>
    BY <1>1 DEF rest
  <2> QED
    BY <1>0, <2>2, <2>4, <2>5, RefuseImplements
<1>2. CASE c.owner = y /\ Relies(c) /\ Exec(t, y)
  <2>1. Keeps(Target(op[t]), y)
    BY <1>2 DEF Relies, Keeps
  <2> QED
    BY <1>0, <1>2, <2>1, ExecImplements
<1> QED
  BY <1>1, <1>2 DEF ServeCall

(* applyOwner. *)
LEMMA RedirectImplements ==
    ASSUME OwnInv, OwnInv', RefInv, Filled, ~early', NEW t \in Threads, Redirect(t),
           UNCHANGED <<handles, stored, seen>>
    PROVE  Implements
<1>1. /\ op[t].pc \in {"stolen", "reply"} /\ op[t].resp.tag = "other" /\ UNCHANGED <<body, linked, node, made>>
      /\ op' = [op EXCEPT ![t] = [op[t] EXCEPT !.pc = "route", !.resp = NoAnswer]]
  BY DEF Redirect
<1>2. (\A u \in Threads : u # t => op'[u] = op[u]) /\ op'[t].resp = NoAnswer
  <2>1. PICK pc \in {"route", "exec"} : pc = "route"
    OBVIOUS
  <2>2. op' = [op EXCEPT ![t] = [op[t] EXCEPT !.pc = pc, !.resp = NoAnswer]]
    BY <1>1, <2>1
  <2> QED
    BY <1>1, <2>2, ResumeFrame
<1>3. op'[t].resp.tag # "stolen"
  BY <1>2, NoAnswerType
<1>4. ASSUME NEW i \in Inodes, NEW n \in Nodes PROVE Keeps(i, n)' <=> Keeps(i, n)
  <2>1. Keeps(i, n) => Keeps(i, n)'
    BY RedirectCalm DEF Keeps
  <2>2. Keeps(i, n)' => Keeps(i, n)
    BY RedirectCalm DEF Keeps, CalmStep, Follows
  <2> QED
    BY <2>1, <2>2
<1>5. Places
  BY <1>1, <1>2, <1>3, <1>4, OneFramePlaces
<1> QED
  BY <1>1, <1>5, QuietImplements

(* A thread gives up, and its node unmounts. *)
LEMMA DropImplements ==
    ASSUME OwnInv, OwnInv', Filled, NEW t \in Threads, op[t].resp.tag # "stolen",
           op' = [op EXCEPT ![t] = Idle(t)],
           node' = [node EXCEPT ![op[t].at] = IF @ = "up" THEN "unmounted" ELSE @],
           UNCHANGED <<own, body, handles, linked, stored, made, seen>>
    PROVE  Implements
<1>1. op'[t] = Idle(t) /\ \A u \in Threads : u # t => op'[u] = op[u]
  BY NextFrame DEF OwnInv
<1>2. op'[t].resp.tag # "stolen"
  BY <1>1, IdleType, NoAnswerType
<1>3. \A n \in Nodes : node'[n] = "dead" <=> node[n] = "dead"
  BY DEF OwnInv, Shape
<1>4. Places
  BY <1>1, <1>2, <1>3, SameKeeps DEF Places
<1> QED
  BY <1>4, QuietImplements

(* The client side of a request. *)
LEMMA ApplyReplyImplements ==
    ASSUME OwnInv, OwnInv', RefInv, Filled, ~early', NEW t \in Threads, ApplyReply(t)
    PROVE  Implements
<1>1. /\ op[t].pc = "reply" /\ node[op[t].at] # "dead" /\ UNCHANGED <<handles, linked, stored, made, seen>>
      /\ op[t].at \in Nodes
  BY FrameType DEF ApplyReply, OwnInv, Shape
<1>2. CASE /\ op[t].resp.tag = "other"
           /\ own' = [own EXCEPT ![Target(op[t])][op[t].at] = applyOwner(@, op[t].resp)]
           /\ Hears(own[Target(op[t])][op[t].at], op[t].resp, op[t].at)
           /\ op' = [op EXCEPT ![t] = [@ EXCEPT !.pc = "route", !.resp = NoAnswer]]
           /\ UNCHANGED <<body, kref, fhAt, dhAt, node>>
  <2>1. Redirect(t)
    BY <1>1, <1>2 DEF Redirect
  <2> QED
    BY <1>1, <2>1, RedirectImplements
<1>3. CASE /\ op[t].resp.tag = "done" /\ op[t].nested
           /\ Answer(t, op[t].at, TRUE, own["file"][op[t].at]) /\ UNCHANGED <<own, body, node>>
  <2>1. Places
    BY <1>1, <1>3, AnswerPlaces
  <2> QED
    BY <1>1, <1>3, <2>1, QuietImplements
<1>4. CASE /\ op[t].resp.tag \in {"done", "fail"} /\ ~op[t].nested
           /\ op' = [op EXCEPT ![t] = Idle(t)]
           /\ IF op[t].resp.tag = "done" /\ op[t].kind \in {"lookup", "create"}
              THEN ensure(op[t].at, op[t].resp.child) ELSE UNCHANGED <<own, body>>
           /\ UNCHANGED node
  <2>1. op'[t] = Idle(t) /\ \A u \in Threads : u # t => op'[u] = op[u]
    BY <1>4, NextFrame DEF OwnInv
  <2>2. op'[t].resp.tag # "stolen"
    BY <2>1, IdleType, NoAnswerType
  <2>3. /\ \A i \in Inodes, n \in Nodes : Keeps(i, n)' <=> Keeps(i, n)
        /\ \A n \in Nodes : Located(n) => body'[n] = body[n]
    BY <1>1, <1>4, ReturnCopies
  <2>4. Places
    BY <1>1, <1>4, <2>1, <2>2, <2>3, OneFramePlaces
  <2>5. \A n \in Nodes : Keeps("file", n) => body'[n] = body[n]
    BY <2>3, NodesFacts DEF Keeps, Located
  <2> QED
    BY <1>1, <2>4, <2>5, QuietImplements
<1>5. CASE /\ op[t].resp.tag = "error" /\ op' = [op EXCEPT ![t] = Idle(t)]
           /\ node' = [node EXCEPT ![op[t].at] = IF @ = "up" THEN "unmounted" ELSE @]
           /\ UNCHANGED <<own, body, kref, fhAt, dhAt>>
  BY <1>1, <1>5, DropImplements
<1> QED
  BY <1>2, <1>3, <1>4, <1>5 DEF ApplyReply

-------------------------------------------------------------------------------
(* Steps that move an inode, or lose it *)

(* The file stays where it is. *)
LEMMA FileStays ==
    ASSUME OwnInv, OwnInv', Holders("file")' = Holders("file"), Carriers("file")' = Carriers("file"),
           \A u \in Carriers("file") : op'[u] = op[u],
           \A h \in Holders("file") : /\ body'[h].refcnt = body[h].refcnt /\ body'[h].attr = body[h].attr
                                      /\ handles'["file"][h] = handles["file"][h]
    PROVE  FileNow'.refcnt = FileNow.refcnt /\ FileNow'.val = FileNow.val /\ FileNow'.open = FileNow.open
<1>1. CASE Holders("file") # {}
  <2>1. PICK y \in Holders("file") : TRUE
    BY <1>1
  <2>2. (OwnInv => \A h \in Holders("file") :
                 /\ FileNow.refcnt = body[h].refcnt /\ FileNow.val = body[h].attr
                 /\ FileNow.open = handles["file"][h])'
    BY HolderView, PTL
  <2>3. y \in Holders("file")'
    BY <2>1
  <2>4. FileNow'.refcnt = body'[y].refcnt /\ FileNow'.val = body'[y].attr /\ FileNow'.open = handles'["file"][y]
    BY <2>2, <2>3
  <2> QED
    BY <2>1, <2>4, HolderView
<1>2. CASE Carriers("file") # {}
  <2>1. PICK u \in Carriers("file") : TRUE
    BY <1>2
  <2>2. (OwnInv => \A t \in Carriers("file") :
               /\ FileNow.refcnt = op[t].resp.refcnt /\ FileNow.val = op[t].resp.attr
               /\ FileNow.open = 0)'
    BY CarrierView, PTL
  <2>3. u \in Carriers("file")' /\ op'[u] = op[u]
    BY <2>1
  <2>4. FileNow'.refcnt = op'[u].resp.refcnt /\ FileNow'.val = op'[u].resp.attr /\ FileNow'.open = 0
    BY <2>2, <2>3
  <2> QED
    BY <2>1, <2>3, <2>4, CarrierView
<1>3. CASE Holders("file") = {} /\ Carriers("file") = {}
  <2>1. (Holders("file") = {} /\ Carriers("file") = {}
             => FileNow.refcnt = 0 /\ FileNow.val = 0 /\ FileNow.open = 0)'
    BY NobodyView, PTL
  <2>2. Holders("file")' = {} /\ Carriers("file")' = {}
    BY <1>3
  <2> QED
    BY <1>3, <2>1, <2>2, NobodyView
<1> QED
  BY <1>1, <1>2, <1>3

(* Whoever still has an inode had it before: either it is where it was, or it is lost. *)
LEMMA LoseAbs ==
    ASSUME OwnInv, OwnInv', RefInv, made' = made, seen' = seen,
           \A i \in Inodes : Holders(i)' \subseteq Holders(i) /\ Carriers(i)' \subseteq Carriers(i)
                             /\ \A u \in Carriers(i)' : op'[u] = op[u],
           \A h \in Holders("file")' : /\ body'[h].refcnt = body[h].refcnt /\ body'[h].attr = body[h].attr
                                       /\ handles'["file"][h] = handles["file"][h],
           \A h \in Holders("dir")' : linked'[h] <=> linked[h]
    PROVE  Shared!AbsNext
<1>0. "dir" \in Inodes /\ "file" \in Inodes
  BY NodesFacts
<1>1. ASSUME NEW i \in Inodes, Holders(i)' \cup Carriers(i)' # {}
      PROVE  Holders(i)' = Holders(i) /\ Carriers(i)' = Carriers(i)
  <2>1. CASE Holders(i)' # {}
    <3>1. PICK h \in Holders(i)' : TRUE
      BY <2>1
    <3>2. h \in Holders(i)
      BY <3>1
    <3>3. Holders(i) = {h} /\ Carriers(i) = {}
      BY <3>2, HolderAlone
    <3> QED
      BY <3>1, <3>3
  <2>2. CASE Carriers(i)' # {}
    <3>1. PICK u \in Carriers(i)' : TRUE
      BY <2>2
    <3>2. u \in Carriers(i)
      BY <3>1
    <3>3. Holders(i) = {} /\ Carriers(i) = {u}
      BY <3>2, CarrierAlone
    <3> QED
      BY <3>1, <3>3
  <2> QED
    BY <1>1, <2>1, <2>2
<1>2. DirUp' \in {DirUp, FALSE}
  <2>1. CASE Holders("dir")' \cup Carriers("dir")' # {}
    BY <2>1, <1>0, <1>1 DEF DirUp
  <2>2. CASE Holders("dir")' \cup Carriers("dir")' = {}
    BY <2>2 DEF DirUp
  <2> QED
    BY <2>1, <2>2
<1>3. Named' = (Named /\ DirUp')
  <2>1. CASE Holders("dir")' \cup Carriers("dir")' # {}
    <3>1. Holders("dir")' = Holders("dir") /\ Carriers("dir")' = Carriers("dir")
      BY <2>1, <1>0, <1>1
    <3>2. Named' <=> Named
      BY <3>1, <1>0 DEF Named
    <3>3. DirUp'
      BY <2>1 DEF DirUp
    <3> QED
      BY <3>2, <3>3 DEF Named
  <2>2. CASE Holders("dir")' \cup Carriers("dir")' = {}
    <3>1. ~DirUp'
      BY <2>2 DEF DirUp
    <3>2. ~Named'
      BY <2>2 DEF Named
    <3> QED
      BY <3>1, <3>2 DEF Named
  <2> QED
    BY <2>1, <2>2
<1>4. CASE Holders("file")' \cup Carriers("file")' # {}
  <2>1. Holders("file")' = Holders("file") /\ Carriers("file")' = Carriers("file")
    BY <1>4, <1>0, <1>1
  <2>2. FileUp' /\ FileUp' = FileUp
    BY <2>1, <1>4 DEF FileUp
  <2>3. FileNow'.refcnt = FileNow.refcnt /\ FileNow'.val = FileNow.val /\ FileNow'.open = FileNow.open
    BY <2>1, <1>0, FileStays
  <2> QED
    BY <1>2, <1>3, <2>2, <2>3, AbsLose
<1>5. CASE Holders("file")' \cup Carriers("file")' = {}
  <2>1. (Holders("file") = {} /\ Carriers("file") = {}
             => FileNow.refcnt = 0 /\ FileNow.val = 0 /\ FileNow.open = 0)'
    BY NobodyView, PTL
  <2>2. FileNow'.refcnt = 0 /\ FileNow'.val = 0 /\ FileNow'.open = 0
    BY <1>5, <2>1
  <2>3. CASE ~made
    <3>1. Holders("file") = {} /\ Carriers("file") = {}
      BY <2>3, NobodyHas DEF Holders, Keeps
    <3>2. FileNow.refcnt = 0 /\ FileNow.val = 0 /\ FileNow.open = 0
      BY <3>1, NobodyView
    <3>3. FileUp' /\ FileUp' = FileUp
      BY <2>3 DEF FileUp
    <3> QED
      BY <1>2, <1>3, <2>2, <3>2, <3>3, AbsLose
  <2>4. CASE made
    <3>1. ~FileUp' /\ FileUp' \in {FileUp, FALSE}
      BY <2>4, <1>5 DEF FileUp
    <3> QED
      BY <1>2, <1>3, <2>2, <3>1, AbsLose
  <2> QED
    BY <2>3, <2>4
<1> QED
  BY <1>4, <1>5

(* The process of a node ends. *)
LEMMA CutImplements ==
    ASSUME OwnInv, OwnInv', RefInv, Filled, NEW x \in Nodes, op' = Cut(x), node' = [node EXCEPT ![x] = "dead"],
           UNCHANGED <<own, body, handles, linked, stored, made, seen>>
    PROVE  Implements
<1>1. \A n \in Nodes : node[n] = "dead" => node'[n] = "dead"
  BY DEF OwnInv, Shape
<1>2. \A i \in Inodes : Holders(i)' \subseteq Holders(i)
  BY <1>1 DEF Holders
<1>3. ASSUME NEW i \in Inodes, NEW u \in Carriers(i)'
      PROVE  u \in Carriers(i) /\ op'[u] = op[u]
  <2>1. u \in Threads /\ op'[u].pc = "stolen"
    BY <1>3 DEF Carriers
  <2>2. op'[u] = op[u]
    BY <2>1, CutFrames, IdleType
  <2>3. op'[u].at \in Nodes
    BY <2>1, FrameType DEF OwnInv, Shape
  <2> QED
    BY <2>1, <2>2, <2>3, <1>1, <1>3 DEF Carriers
<1>4. Shared!AbsNext
  <2>1. \A i \in Inodes : Holders(i)' \subseteq Holders(i) /\ Carriers(i)' \subseteq Carriers(i)
                          /\ \A u \in Carriers(i)' : op'[u] = op[u]
    BY <1>2, <1>3
  <2> QED
    BY <2>1, LoseAbs
<1>5. Filled'
  <2>1. \A i \in Inodes, n \in Nodes : Keeps(i, n)' <=> Keeps(i, n)
    BY SameKeeps
  <2>2. \A u \in Carriers("file")' : op'[u].resp.attr = stored'
    BY <1>3, NodesFacts DEF Filled
  <2>3. \A n \in Nodes : Keeps("file", n)' <=> Keeps("file", n)
    BY <2>1, NodesFacts
  <2> QED
    BY <2>2, <2>3 DEF Filled
<1> QED
  BY <1>4, <1>5 DEF Implements

(* The answer that will carry the file. *)
LEMMA CarrierViewNext ==
    ASSUME OwnInv'
    PROVE  \A t \in Carriers("file")' :
                 /\ FileNow'.refcnt = op'[t].resp.refcnt /\ FileNow'.val = op'[t].resp.attr
                 /\ FileNow'.open = 0
<1>1. (OwnInv => \A t \in Carriers("file") :
             /\ FileNow.refcnt = op[t].resp.refcnt /\ FileNow.val = op[t].resp.attr
             /\ FileNow.open = 0)'
  BY CarrierView, PTL
<1> QED
  BY <1>1

(* tryYield: where the inode goes. *)
LEMMA YieldPlaces ==
    ASSUME OwnInv, RefInv, NEW t \in Threads, Yields(t), NEW i \in Inodes, i = Target(op[t]),
           NEW y \in Nodes, y = op[t].to, NEW x \in Nodes, x = op[t].at
    PROVE  /\ Holders(i) = {y} /\ Carriers(i) = {} /\ Keeps(i, y)
           /\ \A j \in Inodes, n \in Nodes : Keeps(j, n)' <=> Keeps(j, n) /\ ~(j = i /\ n = y)
           /\ \A j \in Inodes : /\ Holders(j)' = Holders(j) \ (IF j = i THEN {y} ELSE {})
                                /\ Carriers(j)' = Carriers(j) \cup (IF j = i /\ node[x] # "dead" THEN {t} ELSE {})
                                /\ t \notin Carriers(j)
           /\ \A u \in Threads : u # t => op'[u] = op[u]
           /\ op'[t].resp.linked = linked[y] /\ op'[t].resp.refcnt = body[y].refcnt
           /\ op'[t].resp.attr = body[y].attr
           /\ UNCHANGED <<node, made>>
<1> DEFINE r == Yielded(i, y)
           g == [op[t] EXCEPT !.pc = "stolen", !.resp = r]
           d == GivenAway(own[i][y], x)
<1>0. /\ Shape /\ op[t] \in FrameRec /\ op[t].pc = "steal" /\ y \in Holders(i) /\ UNCHANGED <<node, made>>
      /\ own \in [Inodes -> [Nodes -> CopyRec]] /\ x \in Owners /\ x # UNKNOWN_OWNER
  BY NodesFacts DEF Yields, OwnInv, Shape
<1>1. /\ r \in AnswerRec /\ r.tag = "stolen" /\ r.linked = linked[y] /\ r.refcnt = body[y].refcnt
      /\ r.attr = body[y].attr
  BY <1>0, YieldedFacts
<1> HIDE DEF r
<1>2. g.kind = op[t].kind /\ g.pc = "stolen" /\ g.nested = op[t].nested /\ g.at = x /\ g.resp = r
  BY <1>0 DEF FrameRec
<1>3. op'[t] = g /\ \A u \in Threads : u # t => op'[u] = op[u]
  <2>1. op' = [op EXCEPT ![t] = g]
    BY DEF Yields, r
  <2> HIDE DEF g
  <2> QED
    BY <2>1, <1>0, NextFrame
<1> HIDE DEF g
<1>4. Target(op'[t]) = i
  BY <1>2, <1>3 DEF Target
<1>5. \A j \in Inodes, n \in Nodes : own'[j][n] = (IF j = i /\ n = y THEN d ELSE own[j][n])
  <2>1. own' = [own EXCEPT ![i][y] = d]
    BY DEF Yields
  <2>2. d \in CopyRec
    BY <1>0, CopyType DEF GivenAway, CopyRec
  <2> HIDE DEF d
  <2>3. \A j \in Inodes, n \in Nodes :
             [own EXCEPT ![i][y] = d][j][n] = (IF j = i /\ n = y THEN d ELSE own[j][n])
    BY <1>0, <2>2, OneCopyChanged
  <2> QED
    BY <2>1, <2>3
<1>6. ~d.ready
  BY DEF GivenAway
<1> HIDE DEF d
<1>7. Keeps(i, y) /\ \A j \in Inodes, n \in Nodes : Keeps(j, n)' <=> Keeps(j, n) /\ ~(j = i /\ n = y)
  BY <1>0, <1>5, <1>6 DEF Keeps, Holders
<1>8. Carriers(i) = {} /\ Holders(i) = {y}
  BY <1>0, HolderAlone
<1>9. ASSUME NEW j \in Inodes
      PROVE  /\ Holders(j)' = Holders(j) \ (IF j = i THEN {y} ELSE {})
             /\ Carriers(j)' = Carriers(j) \cup (IF j = i /\ node[x] # "dead" THEN {t} ELSE {})
             /\ t \notin Carriers(j)
  <2>1. Holders(j)' = Holders(j) \ (IF j = i THEN {y} ELSE {})
    BY <1>0, <1>7 DEF Holders, Keeps
  <2>2. t \notin Carriers(j)
    BY <1>0 DEF Carriers
  <2>3. Carriers(j)' = Carriers(j) \cup (IF j = i /\ node[x] # "dead" THEN {t} ELSE {})
    BY <1>0, <1>1, <1>2, <1>3, <1>4 DEF Carriers
  <2> QED
    BY <2>1, <2>2, <2>3
<1> QED
  BY <1>0, <1>1, <1>2, <1>3, <1>7, <1>8, <1>9

(* tryYield: the next owner will go on with what the owner had. *)
LEMMA YieldImplements ==
    ASSUME OwnInv, OwnInv', RefInv, Filled, NEW t \in Threads, Yields(t), NEW i \in Inodes, i = Target(op[t]),
           NEW y \in Nodes, y = op[t].to, CanYield(i, y),
           body' = IF i = "file" THEN [body EXCEPT ![y].refcnt = 0] ELSE body,
           linked' = IF i = "dir" THEN [linked EXCEPT ![y] = FALSE] ELSE linked,
           UNCHANGED <<handles, stored, seen>>
    PROVE  Implements
<1>i. PICK x \in Nodes : x = op[t].at
  BY FrameType DEF OwnInv, Shape
<1>0. /\ "dir" \in Inodes /\ "file" \in Inodes /\ body \in [Nodes -> BodyRec] /\ linked \in [Nodes -> BOOLEAN]
      /\ i = "dir" \/ i = "file"
  BY NodesFacts DEF OwnInv, Shape
<1>1. /\ Holders(i) = {y} /\ Carriers(i) = {} /\ Keeps(i, y)
      /\ \A j \in Inodes, n \in Nodes : Keeps(j, n)' <=> Keeps(j, n) /\ ~(j = i /\ n = y)
      /\ \A j \in Inodes : /\ Holders(j)' = Holders(j) \ (IF j = i THEN {y} ELSE {})
                           /\ Carriers(j)' = Carriers(j) \cup (IF j = i /\ node[x] # "dead" THEN {t} ELSE {})
                           /\ t \notin Carriers(j)
      /\ \A u \in Threads : u # t => op'[u] = op[u]
      /\ op'[t].resp.linked = linked[y] /\ op'[t].resp.refcnt = body[y].refcnt
      /\ op'[t].resp.attr = body[y].attr
      /\ UNCHANGED <<node, made>>
  BY <1>i, YieldPlaces
<1>2. \A n \in Nodes : /\ body'[n].state = body[n].state /\ body'[n].attr = body[n].attr
                       /\ (i = "dir" \/ n # y) => body'[n].refcnt = body[n].refcnt
                       /\ linked'[n] <=> linked[n] /\ ~(i = "dir" /\ n = y)
  BY <1>0 DEF BodyRec
<1>3. \A j \in Inodes : \A u \in Carriers(j) : op'[u] = op[u]
  BY <1>1 DEF Carriers
<1>4. \A n \in Nodes : Keeps("file", n)' <=> Keeps("file", n) /\ ~(i = "file" /\ n = y)
  BY <1>0, <1>1
<1>5. Filled'
  <2>1. \A n \in Nodes : ~Keeps("file", n)' => handles'["file"][n] = 0
    BY <1>4 DEF Filled, CanYield
  <2>2. \A n \in Nodes : Keeps("file", n)' /\ body'[n].state = "CACHED" => stored' = body'[n].attr
    BY <1>2, <1>4 DEF Filled
  <2>3. ASSUME NEW u \in Carriers("file")' PROVE op'[u].resp.attr = stored'
    <3>1. CASE u \in Carriers("file")
      BY <3>1, <1>0, <1>3 DEF Filled
    <3>2. CASE u = t /\ i = "file"
      <4>1. body[y].state = "CACHED" /\ Keeps("file", y)
        BY <3>2, <1>1 DEF CanYield
      <4> QED
        BY <4>1, <3>2, <1>1 DEF Filled
    <3>3. u \in Carriers("file") \/ (u = t /\ i = "file")
      BY <1>0, <1>1
    <3> QED
      BY <3>1, <3>2, <3>3
  <2>4. ~made' => stored' \in {0, NoObject}
    BY <1>1 DEF Filled
  <2> QED
    BY <2>1, <2>2, <2>3, <2>4 DEF Filled
<1>6. CASE node[x] = "dead"
  <2>1. \A j \in Inodes : Holders(j)' \subseteq Holders(j) /\ Carriers(j)' \subseteq Carriers(j)
                          /\ \A u \in Carriers(j)' : op'[u] = op[u]
    BY <1>6, <1>1, <1>3
  <2>2. Holders("file")' \subseteq Nodes /\ Holders("dir")' \subseteq Nodes
    BY DEF Holders
  <2>3. \A h \in Holders("file")' : ~(i = "file" /\ h = y)
    BY <1>0, <1>1
  <2>4. \A h \in Holders("dir")' : ~(i = "dir" /\ h = y)
    BY <1>0, <1>1
  <2>5. \A h \in Holders("file")' : /\ body'[h].refcnt = body[h].refcnt /\ body'[h].attr = body[h].attr
                                    /\ handles'["file"][h] = handles["file"][h]
    BY <2>2, <2>3, <1>0, <1>2
  <2>6. \A h \in Holders("dir")' : linked'[h] <=> linked[h]
    BY <2>2, <2>4, <1>2
  <2>7. Shared!AbsNext
    BY <1>1, <2>1, <2>5, <2>6, LoseAbs
  <2> QED
    BY <1>5, <2>7 DEF Implements
<1>7. CASE node[x] # "dead" /\ i = "file"
  <2>1. Holders("dir")' = Holders("dir") /\ Carriers("dir")' = Carriers("dir")
    <3>1. PICK j \in Inodes : j = "dir" /\ j # i
      BY <1>0, <1>7
    <3>2. Holders(j)' = Holders(j) \ {}
      BY <3>1, <1>1
    <3>3. Carriers(j)' = Carriers(j) \cup {}
      BY <3>1, <1>1
    <3>4. Holders(j)' = Holders(j) /\ Carriers(j)' = Carriers(j)
      BY <3>2, <3>3, Zenon
    <3> QED
      BY <3>1, <3>4
  <2>2. y \in Holders("file") /\ t \in Carriers("file")'
    BY <1>0, <1>1, <1>7
  <2>3. DirUp' = DirUp /\ FileUp' = FileUp
    BY <1>1, <2>1, <2>2 DEF DirUp, FileUp
  <2>4. Named' <=> Named
    <3>1. \A n \in Holders("dir") : linked'[n] <=> linked[n]
      BY <1>2, <1>7 DEF Holders
    <3>2. \A u \in Carriers("dir") : op'[u] = op[u]
      BY <1>0, <1>3
    <3> QED
      BY <2>1, <3>1, <3>2 DEF Named
  <2>6. FileNow'.refcnt = body[y].refcnt /\ FileNow'.val = body[y].attr /\ FileNow'.open = 0
    BY <2>2, <1>1, CarrierViewNext
  <2>7. FileNow.refcnt = body[y].refcnt /\ FileNow.val = body[y].attr /\ FileNow.open = 0
    BY <2>2, <1>7, HolderView DEF CanYield
  <2>8. Named' = Named
    BY <2>4 DEF Named
  <2>9. UNCHANGED Shared!absVars
    BY <1>1, <2>3, <2>6, <2>7, <2>8, AbsStutter
  <2> QED
    BY <1>5, <2>9 DEF Implements
<1>8. CASE node[x] # "dead" /\ i = "dir"
  <2>1. Holders("file")' = Holders("file") /\ Carriers("file")' = Carriers("file")
    <3>1. PICK j \in Inodes : j = "file" /\ j # i
      BY <1>0, <1>8
    <3>2. Holders(j)' = Holders(j) \ {}
      BY <3>1, <1>1
    <3>3. Carriers(j)' = Carriers(j) \cup {}
      BY <3>1, <1>1
    <3>4. Holders(j)' = Holders(j) /\ Carriers(j)' = Carriers(j)
      BY <3>2, <3>3, Zenon
    <3> QED
      BY <3>1, <3>4
  <2>2. Holders("dir") = {y} /\ Carriers("dir") = {} /\ Holders("dir")' = {} /\ Carriers("dir")' = {t}
    BY <1>0, <1>1, <1>8
  <2>3. DirUp' = DirUp /\ FileUp' = FileUp
    BY <1>1, <2>1, <2>2 DEF DirUp, FileUp
  <2>4. (Named <=> linked[y]) /\ (Named' <=> op'[t].resp.linked)
    BY <2>2 DEF Named
  <2>5. Named' = Named
    BY <2>4, <1>1 DEF Named
  <2>6. FileNow'.refcnt = FileNow.refcnt /\ FileNow'.val = FileNow.val /\ FileNow'.open = FileNow.open
    <3>1. \A h \in Holders("file") : body'[h].refcnt = body[h].refcnt /\ body'[h].attr = body[h].attr
      BY <1>2, <1>8 DEF Holders
    <3> QED
      BY <2>1, <3>1, <1>0, <1>3, FileStays
  <2>7. UNCHANGED Shared!absVars
    BY <1>1, <2>3, <2>5, <2>6, AbsStutter
  <2> QED
    BY <1>5, <2>7 DEF Implements
<1> QED
  BY <1>0, <1>6, <1>7, <1>8

(* A node is asked for an inode. *)
LEMMA TryStealImplements ==
    ASSUME OwnInv, OwnInv', RefInv, Filled, ~early', NEW t \in Threads, TryStealInodeOwnership(t)
    PROVE  Implements
<1>i. PICK i \in Inodes, y \in Nodes : i = Target(op[t]) /\ y = op[t].to
  BY FrameType DEF OwnInv, Shape, Names, FrameLocated, TryStealInodeOwnership
<1>1. /\ op[t].pc = "steal" /\ node[y] # "dead"
      /\ UNCHANGED <<handles, stored, kref, fhAt, node, made, seen>>
  BY <1>i DEF TryStealInodeOwnership
<1>2. Shape /\ own[i][y] \in CopyRec
  BY CopyType DEF OwnInv
<1>3. ASSUME NEW r \in AnswerRec, r.tag \in {"other", "nil"}, UNCHANGED <<own, body, linked>>,
             op' = [op EXCEPT ![t] = [@ EXCEPT !.pc = "stolen", !.resp = r]]
      PROVE  Implements
  <2>1. PICK pc : pc = "stolen"
    OBVIOUS
  <2>2. op' = [op EXCEPT ![t] = [op[t] EXCEPT !.pc = pc, !.resp = r]]
    BY <1>3, <2>1
  <2>3. r.tag # "stolen" /\ UNCHANGED <<own, body, handles, linked, stored, node, made, seen>>
    BY <1>1, <1>3
  <2>4. op[t].pc \in {"steal", "call"}
    BY <1>1
  <2> QED
    BY <2>2, <2>3, <2>4, RefuseImplements
<1>4. CASE /\ op' = [op EXCEPT ![t] = [@ EXCEPT !.pc = "stolen", !.resp = Other(own[i][y])]]
           /\ UNCHANGED <<own, body, linked>>
  <2>1. Other(own[i][y]) \in AnswerRec /\ Other(own[i][y]).tag = "other"
    BY <1>2, OtherFacts
  <2> QED
    BY <1>3, <1>4, <2>1
<1>5. CASE /\ op' = [op EXCEPT ![t] = [@ EXCEPT !.pc = "stolen", !.resp = [NoAnswer EXCEPT !.tag = "nil"]]]
           /\ UNCHANGED <<own, body, linked>>
  <2> DEFINE r == [NoAnswer EXCEPT !.tag = "nil"]
  <2>1. r \in AnswerRec /\ r.tag = "nil"
    BY NoAnswerType DEF AnswerRec
  <2>2. op' = [op EXCEPT ![t] = [@ EXCEPT !.pc = "stolen", !.resp = r]]
    BY <1>5
  <2> HIDE DEF r
  <2> QED
    BY <1>3, <1>5, <2>1, <2>2
<1>6. CASE /\ own[i][y].owner = y /\ CanYield(i, y) /\ Relies(own[i][y])
           /\ op' = [op EXCEPT ![t] = [@ EXCEPT !.pc = "stolen", !.resp = Yielded(i, y)]]
           /\ own' = [own EXCEPT ![i][y] = GivenAway(own[i][y], op[t].at)]
           /\ body' = IF i = "file" THEN [body EXCEPT ![y].refcnt = 0] ELSE body
           /\ linked' = IF i = "dir" THEN [linked EXCEPT ![y] = FALSE] ELSE linked
  <2>1. y \in Holders(i)
    BY <1>1, <1>6 DEF Holders, Relies
  <2>2. body \in [Nodes -> BodyRec] /\ body[y] \in BodyRec /\ linked \in [Nodes -> BOOLEAN]
    BY <1>2 DEF Shape
  <2>3. [body[y] EXCEPT !.refcnt = 0] \in BodyRec
        /\ [body[y] EXCEPT !.refcnt = 0].known = body[y].known
    BY <2>2 DEF BodyRec
  <2>4. body' \in [Nodes -> BodyRec] /\ \A n \in Nodes : body'[n].known => body[n].known
    BY <2>2, <2>3, <1>6
  <2>5. linked' \in [Nodes -> BOOLEAN] /\ \A n \in Nodes : linked'[n] => linked[n]
    BY <2>2, <1>6
  <2>6. Yields(t)
    BY <2>1, <2>4, <2>5, <1>i, <1>1, <1>6 DEF Yields
  <2> QED
    BY <1>i, <1>1, <1>6, <2>6, YieldImplements
<1> QED
  BY <1>i, <1>4, <1>5, <1>6 DEF TryStealInodeOwnership

(* Inode i has come with answer r to node x, for the operation of thread t. *)
ArrivedAt(t, i, x, r) ==
    /\ t \in Carriers(i) /\ Holders(i) = {} /\ Carriers(i) = {t} /\ \A n \in Nodes : ~Keeps(i, n)
    /\ \A j \in Inodes, n \in Nodes : Keeps(j, n)' <=> Keeps(j, n) \/ (j = i /\ n = x)
    /\ \A j \in Inodes : /\ Holders(j)' = Holders(j) \cup (IF j = i THEN {x} ELSE {})
                         /\ Carriers(j)' = Carriers(j) \ (IF j = i THEN {t} ELSE {})
                         /\ j # i => t \notin Carriers(j)
    /\ \A u \in Threads : u # t => op'[u] = op[u]
    /\ \A n \in Nodes : Keeps("file", n) => body'[n] = body[n]
    /\ i = "file" => body'[x].refcnt = r.refcnt /\ body'[x].state = body[x].state /\ body'[x].attr = r.attr
    /\ \A n \in Nodes : linked'[n] <=> linked[n] \/ (n = x /\ i = "dir" /\ r.linked)
    /\ UNCHANGED <<node, made>>

(* applyStolenInode: the inode is with its next owner. *)
LEMMA ArrivePlaces ==
    ASSUME OwnInv, OwnInv', RefInv, NEW t \in Threads, Arrives(t), NEW i \in Inodes, i = Target(op[t]),
           NEW x \in Nodes, x = op[t].at, NEW r \in AnswerRec, r = op[t].resp
    PROVE  ArrivedAt(t, i, x, r)
<1> DEFINE new == i = "dir" /\ r.linked /\ ~body[x].known
<1>0. /\ t \in Carriers(i) /\ UNCHANGED <<node, made>> /\ op[t].pc = "stolen" /\ r.tag = "stolen"
      /\ node[x] # "dead" /\ Shape /\ Shape' /\ applyStolenInode(i, x, r)
      /\ op' = [op EXCEPT ![t] = [op[t] EXCEPT !.pc = "route", !.resp = NoAnswer]]
  BY DEF Arrives, Carriers, OwnInv
<1>1. (\A u \in Threads : u # t => op'[u] = op[u]) /\ op'[t].resp.tag # "stolen"
  <2>1. PICK pc \in {"route", "exec"} : pc = "route"
    OBVIOUS
  <2>2. op' = [op EXCEPT ![t] = [op[t] EXCEPT !.pc = pc, !.resp = NoAnswer]]
    BY <1>0, <2>1
  <2>3. op[t].pc \in {"stolen", "reply"}
    BY <1>0
  <2>4. (\A u \in Threads : u # t => op'[u] = op[u]) /\ op'[t].resp = NoAnswer
    BY <2>2, <2>3, ResumeFrame
  <2> QED
    BY <2>4, NoAnswerType
<1>2. /\ \A j \in Inodes, n \in Nodes :
            (j # i /\ ~(n = x /\ new)) \/ n # x => own'[j][n] = own[j][n]
      /\ own'[i][x].owner = x /\ own'[i][x].ready
      /\ new => ~own'["file"][x].ready
  BY <1>0, StolenCopies
<1>3. /\ \A n \in Nodes : n # x \/ (i = "dir" /\ ~new) => body'[n] = body[n]
      /\ i = "file" => body'[x].refcnt = r.refcnt /\ body'[x].state = body[x].state /\ body'[x].attr = r.attr
      /\ \A n \in Nodes : linked'[n] <=> linked[n] \/ (n = x /\ i = "dir" /\ r.linked)
  BY <1>0, StolenBodies
<1>4. Holders(i) = {} /\ Carriers(i) = {t} /\ \A n \in Nodes : ~Keeps(i, n)
  BY <1>0, CarrierAlone DEF RefInv, Alone
<1>5. new => ~Located(x)
  <2> SUFFICES ASSUME new PROVE ~Located(x)
    OBVIOUS
  <2>1. Named
    BY <1>0 DEF Named
  <2>2. Cardinality(Kept) \in Nat
    BY <1>0, KeptSum, RefsTypes
  <2>3. Need > 0
    BY <2>1, <2>2 DEF Need
  <2> QED
    BY <2>3 DEF RefInv, Copied
<1>6. \A j \in Inodes, n \in Nodes : Keeps(j, n)' <=> Keeps(j, n) \/ (j = i /\ n = x)
  <2> TAKE j \in Inodes, n \in Nodes
  <2>1. CASE j = i /\ n = x
    BY <2>1, <1>2 DEF Keeps
  <2>2. CASE j # i /\ n = x /\ new
    <3>1. j = "file"
      BY <2>2, NodesFacts
    <3> QED
      BY <2>2, <3>1, <1>2, <1>5, NodesFacts DEF Keeps, Located
  <2>3. CASE (j # i /\ ~(n = x /\ new)) \/ n # x
    BY <2>3, <1>2 DEF Keeps
  <2> QED
    BY <2>1, <2>2, <2>3
<1>7. ASSUME NEW n \in Nodes, Keeps("file", n) PROVE body'[n] = body[n]
  <2>1. Located(n) /\ i = "dir"
    BY <1>4, <1>7, NodesFacts DEF Keeps, Located
  <2> QED
    BY <2>1, <1>3, <1>5
<1>8. ASSUME NEW j \in Inodes
      PROVE  /\ Holders(j)' = Holders(j) \cup (IF j = i THEN {x} ELSE {})
             /\ Carriers(j)' = Carriers(j) \ (IF j = i THEN {t} ELSE {})
             /\ j # i => t \notin Carriers(j)
  <2>1. Holders(j)' = Holders(j) \cup (IF j = i THEN {x} ELSE {})
    BY <1>0, <1>6 DEF Holders, Keeps
  <2>2. Carriers(j)' = Carriers(j) \ (IF j = i THEN {t} ELSE {})
    BY <1>0, <1>1 DEF Carriers
  <2>3. j # i => t \notin Carriers(j)
    BY DEF Carriers
  <2> QED
    BY <2>1, <2>2, <2>3
<1> QED
  BY <1>0, <1>1, <1>3, <1>4, <1>6, <1>7, <1>8 DEF ArrivedAt

(* applyStolenInode: it goes on with what was in the answer. *)
LEMMA ArriveImplements ==
    ASSUME OwnInv, OwnInv', RefInv, Filled, NEW t \in Threads, Arrives(t), UNCHANGED <<handles, stored, seen>>
    PROVE  Implements
<1>i. PICK i \in Inodes, x \in Nodes, r \in AnswerRec :
            i = Target(op[t]) /\ x = op[t].at /\ r = op[t].resp
  BY FrameType DEF OwnInv, Shape
<1>0. /\ "dir" \in Inodes /\ "file" \in Inodes /\ (i = "dir" \/ i = "file") /\ linked \in [Nodes -> BOOLEAN]
  BY NodesFacts DEF OwnInv, Shape
<1>1. /\ t \in Carriers(i) /\ Holders(i) = {} /\ Carriers(i) = {t} /\ \A n \in Nodes : ~Keeps(i, n)
      /\ \A j \in Inodes, n \in Nodes : Keeps(j, n)' <=> Keeps(j, n) \/ (j = i /\ n = x)
      /\ \A j \in Inodes : /\ Holders(j)' = Holders(j) \cup (IF j = i THEN {x} ELSE {})
                           /\ Carriers(j)' = Carriers(j) \ (IF j = i THEN {t} ELSE {})
                           /\ j # i => t \notin Carriers(j)
      /\ \A u \in Threads : u # t => op'[u] = op[u]
      /\ \A n \in Nodes : Keeps("file", n) => body'[n] = body[n]
      /\ i = "file" => body'[x].refcnt = r.refcnt /\ body'[x].state = body[x].state /\ body'[x].attr = r.attr
      /\ \A n \in Nodes : linked'[n] <=> linked[n] \/ (n = x /\ i = "dir" /\ r.linked)
      /\ UNCHANGED <<node, made>>
  <2>1. ArrivedAt(t, i, x, r)
    BY <1>i, ArrivePlaces
  <2> QED
    BY <2>1 DEF ArrivedAt
<1>2. \A n \in Nodes : Keeps("file", n)' <=> Keeps("file", n) \/ (i = "file" /\ n = x)
  BY <1>0, <1>1
<1>3. ASSUME NEW j \in Inodes, j # i
      PROVE  Holders(j)' = Holders(j) /\ Carriers(j)' = Carriers(j) /\ \A u \in Carriers(j) : op'[u] = op[u]
  <2>1. Holders(j)' = Holders(j) \cup {}
    BY <1>1, <1>3
  <2>2. Carriers(j)' = Carriers(j) \ {}
    BY <1>1, <1>3
  <2>3. Holders(j)' = Holders(j) /\ Carriers(j)' = Carriers(j)
    BY <2>1, <2>2, Zenon
  <2>4. \A u \in Carriers(j) : op'[u] = op[u]
    BY <1>1, <1>3 DEF Carriers
  <2> QED
    BY <2>3, <2>4
<1>4. Filled'
  <2>1. \A n \in Nodes : ~Keeps("file", n)' => handles'["file"][n] = 0
    BY <1>2 DEF Filled
  <2>2. ASSUME NEW n \in Nodes, Keeps("file", n)', body'[n].state = "CACHED" PROVE stored' = body'[n].attr
    <3>1. CASE Keeps("file", n)
      BY <3>1, <2>2, <1>1 DEF Filled
    <3>2. CASE i = "file" /\ n = x
      BY <3>2, <1>i, <1>1 DEF Filled
    <3> QED
      BY <2>2, <1>2, <3>1, <3>2
  <2>3. \A u \in Carriers("file")' : op'[u].resp.attr = stored'
    <3>1. CASE i = "file"
      <4>1. Carriers("file")' = {}
        BY <3>1, <1>1, Zenon
      <4> QED
        BY <4>1
    <3>2. CASE i = "dir"
      <4>1. PICK j \in Inodes : j = "file" /\ j # i
        BY <3>2, <1>0
      <4>2. \A u \in Carriers("file")' : u \in Carriers("file") /\ op'[u] = op[u]
        BY <4>1, <1>3
      <4> QED
        BY <4>2 DEF Filled
    <3> QED
      BY <3>1, <3>2, <1>0
  <2>4. ~made' => stored' \in {0, NoObject}
    BY <1>1 DEF Filled
  <2> QED
    BY <2>1, <2>2, <2>3, <2>4 DEF Filled
<1>5. x \in Holders(i)' /\ Holders(i)' = {x} /\ Carriers(i)' = {}
  <2>1. Holders(i)' = {} \cup {x} /\ Carriers(i)' = {t} \ {t}
    BY <1>1
  <2> QED
    BY <2>1
<1>6. CASE i = "file"
  <2>1. Holders("dir")' = Holders("dir") /\ Carriers("dir")' = Carriers("dir")
        /\ \A u \in Carriers("dir") : op'[u] = op[u]
    <3>1. PICK j \in Inodes : j = "dir" /\ j # i
      BY <1>6, <1>0
    <3>2. Holders(j)' = Holders(j) /\ Carriers(j)' = Carriers(j) /\ \A u \in Carriers(j) : op'[u] = op[u]
      BY <3>1, <1>3
    <3> QED
      BY <3>1, <3>2
  <2>2. DirUp' = DirUp /\ FileUp' = FileUp
    BY <1>1, <1>5, <1>6, <2>1 DEF DirUp, FileUp
  <2>3. Named' <=> Named
    <3>1. \A n \in Holders("dir") : linked'[n] <=> linked[n]
      BY <1>1, <1>6 DEF Holders
    <3> QED
      BY <2>1, <3>1 DEF Named
  <2>4. Named' = Named
    BY <2>3 DEF Named
  <2>5. FileNow'.refcnt = r.refcnt /\ FileNow'.val = r.attr /\ FileNow'.open = handles'["file"][x]
    <3>1. (OwnInv => \A h \in Holders("file") :
                 /\ FileNow.refcnt = body[h].refcnt /\ FileNow.val = body[h].attr
                 /\ FileNow.open = handles["file"][h])'
      BY HolderView, PTL
    <3> QED
      BY <3>1, <1>1, <1>5, <1>6
  <2>6. handles["file"][x] = 0
    BY <1>1, <1>6 DEF Filled
  <2>7. FileNow.refcnt = r.refcnt /\ FileNow.val = r.attr /\ FileNow.open = 0
    BY <1>i, <1>1, <1>6, CarrierView
  <2>8. UNCHANGED Shared!absVars
    BY <1>1, <2>2, <2>4, <2>5, <2>6, <2>7, AbsStutter
  <2> QED
    BY <1>4, <2>8 DEF Implements
<1>7. CASE i = "dir"
  <2>1. Holders("file")' = Holders("file") /\ Carriers("file")' = Carriers("file")
        /\ \A u \in Carriers("file") : op'[u] = op[u]
    <3>1. PICK j \in Inodes : j = "file" /\ j # i
      BY <1>7, <1>0
    <3>2. Holders(j)' = Holders(j) /\ Carriers(j)' = Carriers(j) /\ \A u \in Carriers(j) : op'[u] = op[u]
      BY <3>1, <1>3
    <3> QED
      BY <3>1, <3>2
  <2>2. DirUp' = DirUp /\ FileUp' = FileUp
    BY <1>1, <1>5, <1>7, <2>1 DEF DirUp, FileUp
  <2>3. ~linked[x]
    BY <1>1, <1>7 DEF RefInv, Placed
  <2>4. (Named <=> r.linked) /\ (Named' <=> linked'[x])
    BY <1>i, <1>1, <1>5, <1>7 DEF Named
  <2>5. Named' <=> Named
    BY <2>3, <2>4, <1>1, <1>7
  <2>6. Named' = Named
    BY <2>5 DEF Named
  <2>7. \A h \in Holders("file") : body'[h] = body[h]
    BY <1>1 DEF Holders, Keeps
  <2>8. FileNow'.refcnt = FileNow.refcnt /\ FileNow'.val = FileNow.val /\ FileNow'.open = FileNow.open
    BY <2>1, <2>7, FileStays
  <2>9. UNCHANGED Shared!absVars
    BY <1>1, <2>2, <2>6, <2>8, AbsStutter
  <2> QED
    BY <1>4, <2>9 DEF Implements
<1> QED
  BY <1>0, <1>6, <1>7

(* trySteal goes on. *)
LEMMA ApplyStealImplements ==
    ASSUME OwnInv, OwnInv', RefInv, Filled, ~early', NEW t \in Threads, ApplySteal(t)
    PROVE  Implements
<1>1. /\ op[t].pc = "stolen" /\ node[op[t].at] # "dead"
      /\ UNCHANGED <<handles, stored, kref, fhAt, node, made, seen>>
  BY DEF ApplySteal
<1>2. CASE /\ op[t].resp.tag = "other"
           /\ op' = [op EXCEPT ![t] = [@ EXCEPT !.pc = "route", !.resp = NoAnswer]]
           /\ own' = [own EXCEPT ![Target(op[t])][op[t].at] = applyOwner(@, op[t].resp)]
           /\ Hears(own[Target(op[t])][op[t].at], op[t].resp, op[t].at)
           /\ UNCHANGED <<body, linked>>
  <2>1. Redirect(t)
    BY <1>1, <1>2 DEF Redirect
  <2> QED
    BY <1>1, <2>1, RedirectImplements
<1>3. CASE /\ op[t].resp.tag = "stolen"
           /\ op' = [op EXCEPT ![t] = [@ EXCEPT !.pc = "route", !.resp = NoAnswer]]
           /\ applyStolenInode(Target(op[t]), op[t].at, op[t].resp)
  <2>1. Arrives(t)
    BY <1>1, <1>3 DEF Arrives
  <2> QED
    BY <1>1, <2>1, ArriveImplements
<1>4. CASE /\ op[t].resp.tag = "nil" /\ UNCHANGED <<own, body, linked>>
           /\ op' = [op EXCEPT ![t] = [@ EXCEPT !.pc = IF op[t].nested THEN "route" ELSE "exec",
                                                !.resp = NoAnswer]]
  <2>1. PICK pc \in {"route", "exec"} : pc = IF op[t].nested THEN "route" ELSE "exec"
    OBVIOUS
  <2>2. op' = [op EXCEPT ![t] = [op[t] EXCEPT !.pc = pc, !.resp = NoAnswer]]
    BY <1>4, <2>1
  <2>3. op[t].pc \in {"stolen", "reply"}
    BY <1>1
  <2>4. (\A u \in Threads : u # t => op'[u] = op[u]) /\ op'[t].resp = NoAnswer
    BY <2>2, <2>3, ResumeFrame
  <2>5. op'[t].resp.tag # "stolen" /\ op[t].resp.tag # "stolen"
    BY <2>4, <1>4, NoAnswerType
  <2> QED
    BY <1>1, <1>4, <2>4, <2>5, TurnImplements
<1> QED
  BY <1>2, <1>3, <1>4 DEF ApplySteal

-------------------------------------------------------------------------------
(* The kernels, the flusher and failures *)

(* The kernel asks for something. *)
LEMMA BeginImplements ==
    ASSUME OwnInv, OwnInv', Filled, NEW t \in Threads, NEW k \in Kinds, Begin(t, k)
    PROVE  Implements
<1> DEFINE g == [Idle(t) EXCEPT !.kind = k, !.pc = "route", !.n = IF k = "forget" THEN kref[NodeOf[t]] ELSE 0]
<1>1. op' = [op EXCEPT ![t] = g] /\ op[t].pc = "idle"
      /\ UNCHANGED <<own, body, handles, linked, stored, node, made, seen>>
  BY DEF Begin, Active
<1>2. g.resp = Idle(t).resp
  BY DEF Idle
<1> HIDE DEF g
<1>3. op'[t] = g /\ \A u \in Threads : u # t => op'[u] = op[u]
  BY <1>1, NextFrame DEF OwnInv
<1>4. op'[t].resp.tag # "stolen" /\ op[t].resp.tag # "stolen"
  BY <1>1, <1>2, <1>3, IdleType, NoAnswerType, NoResult
<1> QED
  BY <1>1, <1>3, <1>4, TurnImplements

(* The flusher brings the object to what the owner has, or removes it. *)
LEMMA FlushImplements ==
    ASSUME OwnInv, OwnInv', RefInv, Filled, NEW n \in Nodes, Flush(n)
    PROVE  Implements
<1>1. /\ UNCHANGED <<own, handles, linked, op, node, made, seen>> /\ body \in [Nodes -> BodyRec]
      /\ body[n] \in BodyRec
  BY DEF Flush, OwnInv, Shape
<1>2. body[n].state # "CACHED"
  BY DEF Flush
<1>3. Keeps("file", n) /\ Carriers("file") = {} /\ made /\ \A m \in Nodes : Keeps("file", m) => m = n
  BY <1>2, NobodyHas, NodesFacts DEF RefInv, Placed, Alone
<1>4. Places
  BY <1>1, SameKeeps DEF Places
<1>5. /\ \A m \in Nodes : m # n => body'[m] = body[m]
      /\ body'[n].refcnt = body[n].refcnt /\ body'[n].attr = body[n].attr
      /\ body'[n].state = "CACHED" => stored' = body[n].attr
  <2>1. CASE body' = [body EXCEPT ![n].state = "CACHED"] /\ stored' = body[n].attr
    <3> DEFINE b == [body[n] EXCEPT !.state = "CACHED"]
    <3>1. b.refcnt = body[n].refcnt /\ b.attr = body[n].attr
      BY <1>1 DEF BodyRec
    <3>2. body' = [body EXCEPT ![n] = b]
      BY <2>1
    <3> HIDE DEF b
    <3> QED
      BY <3>1, <3>2, <1>1, <2>1
  <2>2. CASE body' = [body EXCEPT ![n] = DeRef([@ EXCEPT !.state = "DEAD"], 0)]
    <3> DEFINE c == [body[n] EXCEPT !.state = "DEAD"]
               b == DeRef(c, 0)
    <3>1. c \in BodyRec /\ c.refcnt = body[n].refcnt /\ c.attr = body[n].attr /\ c.state = "DEAD"
          /\ c.refcnt \in Nat
      BY <1>1 DEF BodyRec, States
    <3>2. body' = [body EXCEPT ![n] = b]
      BY <2>2
    <3> HIDE DEF c
    <3>3. b.attr = c.attr /\ b.state = c.state
      BY <3>1, DeRefContent
    <3>4. b.refcnt = c.refcnt
      BY <3>1 DEF DeRef, BodyRec
    <3> HIDE DEF b
    <3> QED
      BY <3>1, <3>2, <3>3, <3>4, <1>1
  <2> QED
    BY <2>1, <2>2 DEF Flush
<1>6. UNCHANGED Shared!absVars
  <2>1. \A m \in Nodes : Keeps("file", m) => /\ body'[m].refcnt = body[m].refcnt /\ body'[m].attr = body[m].attr
                                             /\ handles'["file"][m] = handles["file"][m]
    BY <1>1, <1>3, <1>5
  <2> QED
    BY <1>1, <1>4, <2>1, PlacesQuiet
<1>7. Filled'
  <2>1. \A m \in Nodes : Keeps("file", m)' <=> Keeps("file", m)
    BY <1>4, NodesFacts DEF Places
  <2>2. Carriers("file")' = {}
    BY <1>3, <1>4, PlacesHeld, NodesFacts
  <2>3. \A m \in Nodes : Keeps("file", m)' /\ body'[m].state = "CACHED" => stored' = body'[m].attr
    BY <2>1, <1>3, <1>5
  <2>4. \A m \in Nodes : ~Keeps("file", m)' => handles'["file"][m] = 0
    BY <2>1, <1>1 DEF Filled
  <2> QED
    BY <2>2, <2>3, <2>4, <1>1, <1>3 DEF Filled
<1> QED
  BY <1>6, <1>7 DEF Implements

(* A node that was unmounted has the others unmount. *)
LEMMA JoinImplements ==
    ASSUME OwnInv, OwnInv', Filled, NEW n \in Nodes, Join(n)
    PROVE  Implements
<1>1. UNCHANGED <<own, body, handles, linked, stored, op, made, seen>> /\ node[n] = "unmounted"
      /\ node' = [m \in Nodes |-> IF m = n THEN "joined" ELSE IF node[m] = "up" THEN "unmounted" ELSE node[m]]
  BY DEF Join
<1>2. \A m \in Nodes : node'[m] = "dead" <=> node[m] = "dead"
  BY <1>1
<1>3. Places
  BY <1>1, <1>2, SameKeeps DEF Places
<1> QED
  BY <1>1, <1>3, QuietImplements

(* A request or an answer is lost. *)
LEMMA FailImplements ==
    ASSUME OwnInv, OwnInv', RefInv, Filled, NEW t \in Threads, Fail(t)
    PROVE  Implements
<1>1. /\ UNCHANGED <<own, body, handles, linked, stored, made, seen>> /\ op[t].at \in Nodes
      /\ op[t].pc \in {"steal", "stolen", "call", "reply"}
  BY FrameType DEF Fail, OwnInv, Shape
<1>2. CASE op' = Cut(op[t].at) /\ node' = [node EXCEPT ![op[t].at] = "dead"]
  BY <1>1, <1>2, CutImplements
<1>3. CASE /\ op[t].pc \notin {"steal", "stolen"} /\ op' = [op EXCEPT ![t] = Idle(t)]
           /\ node' = [node EXCEPT ![op[t].at] = IF @ = "up" THEN "unmounted" ELSE @]
  <2>1. op[t].resp.tag # "stolen"
    BY <1>3 DEF OwnInv, Forms, Form
  <2> QED
    BY <1>1, <1>3, <2>1, DropImplements
<1> QED
  BY <1>2, <1>3 DEF Fail

(* Every step that uses no inode before it has come. *)
LEMMA NextImplements ==
    ASSUME OwnInv, RefInv, Filled, ~early', [Next]_vars
    PROVE  Implements
<1>0. OwnInv'
  BY NextInv
<1>1. ASSUME NEW t \in Threads, Step(t) PROVE Implements
  BY <1>0, <1>1, RouteImplements, ServeCallImplements, ApplyReplyImplements, TryStealImplements,
     ApplyStealImplements DEF Step
<1>2. ASSUME NEW t \in Threads, Fail(t) PROVE Implements
  BY <1>0, <1>2, FailImplements
<1>3. ASSUME NEW t \in Threads, NEW k \in Kinds, Begin(t, k) PROVE Implements
  BY <1>0, <1>3, BeginImplements
<1>4. ASSUME NEW n \in Nodes, Flush(n) \/ Join(n) PROVE Implements
  BY <1>0, <1>4, FlushImplements, JoinImplements
<1>5. ASSUME NEW n \in Nodes, Exit(n) PROVE Implements
  BY <1>0, <1>5, CutImplements DEF Exit
<1>6. CASE UNCHANGED vars
  <2>1. Places
    BY <1>6, SameKeeps DEF Places, vars
  <2> QED
    BY <1>0, <1>6, <2>1, QuietImplements DEF vars
<1> QED
  BY <1>1, <1>2, <1>3, <1>4, <1>5, <1>6 DEF Next

-------------------------------------------------------------------------------
(* The theorem *)

(* A node has looked the file up, or nobody has heard of it. *)
LEMMA InitImplements ==
    ASSUME Init
    PROVE  Filled /\ Shared!AbsInit
<1>0. OwnInv /\ RefInv /\ Shape /\ "dir" \in Inodes /\ "file" \in Inodes /\ RootOwner \in Nodes
      /\ RootOwner # UNKNOWN_OWNER
  BY InitInv, InitRefs, NodesFacts, RootOwnerIsNode DEF OwnInv
<1>1. PICK q \in BOOLEAN :
             /\ \A i \in Inodes, n \in Nodes :
                   /\ own[i][n].owner = (IF i = "file" /\ ~q THEN UNKNOWN_OWNER ELSE RootOwner)
                   /\ i = "dir" \/ q => own[i][RootOwner].ready
             /\ \A n \in Nodes :
                   /\ body[n].state = "CACHED" /\ (q => body[n].known)
                   /\ q /\ n = RootOwner => body[n].refcnt = 1 + Cardinality(Nodes)
                   /\ linked[n] <=> q /\ n = RootOwner
                   /\ kref[n] = (IF q THEN 1 ELSE 0) /\ fhAt[n] = 0 /\ dhAt[n] = 0 /\ node[n] = "up"
             /\ handles \in [Inodes -> [Nodes -> Int]] /\ \A i \in Inodes, n \in Nodes : handles[i][n] = 0
             /\ dhAt \in [Nodes -> Owners]
             /\ \A t \in Threads : op[t] = Idle(t)
             /\ made = q /\ ~panicked /\ faults = 0
  BY InitFacts
<1>2. PICK s \in Start : \E nm :
        /\ seen = [t \in Threads |-> 0] /\ stored = (IF s = "absent" THEN NoObject ELSE 0)
        /\ nm # "absent" /\ made = (s = nm)
        /\ body = [n \in Nodes |-> IF s # nm THEN Blank
                                   ELSE [Blank EXCEPT !.known = TRUE,
                                             !.refcnt = IF n = RootOwner THEN 1 + Cardinality(Nodes) ELSE 0]]
  <2>1. PICK s \in Start :
          /\ seen = [t \in Threads |-> 0] /\ stored = (IF s = "absent" THEN NoObject ELSE 0)
          /\ made = (s = "looked up")
          /\ body = [n \in Nodes |-> IF s # "looked up" THEN Blank
                                     ELSE [Blank EXCEPT !.known = TRUE,
                                               !.refcnt = IF n = RootOwner THEN 1 + Cardinality(Nodes) ELSE 0]]
    BY Zenon DEF Init
  <2>2. PICK nm : nm = "looked up"
    OBVIOUS
  <2>3. nm # "absent"
    BY <2>2
  <2> QED
    BY <2>1, <2>2, <2>3, Zenon
<1>3. /\ stored \in {0, NoObject} /\ (q => stored = 0)
      /\ \A n \in Nodes : body[n].attr = 0
  <2>1. PICK nm :
        /\ nm # "absent" /\ made = (s = nm)
        /\ body = [n \in Nodes |-> IF s # nm THEN Blank
                                   ELSE [Blank EXCEPT !.known = TRUE,
                                             !.refcnt = IF n = RootOwner THEN 1 + Cardinality(Nodes) ELSE 0]]
    BY <1>2
  <2>2. q => s = nm
    <3>1. made = q
      BY <1>1
    <3>2. made = (s = nm)
      BY <2>1
    <3> QED
      BY <3>1, <3>2, Zenon
  <2>3. stored \in {0, NoObject} /\ (q => stored = 0)
    BY <1>2, <2>1, <2>2
  <2>4. ASSUME NEW n \in Nodes PROVE body[n].attr = 0
    <3>1. PICK k : k = IF n = RootOwner THEN 1 + Cardinality(Nodes) ELSE 0
      OBVIOUS
    <3>2. body[n] = IF s # nm THEN Blank ELSE [Blank EXCEPT !.known = TRUE, !.refcnt = k]
      BY <2>1, <3>1
    <3> QED
      BY <3>2 DEF Blank
  <2> QED
    BY <2>3, <2>4
<1>4. \A i \in Inodes : Carriers(i) = {}
  BY <1>1, IdleType, NoAnswerType DEF Carriers
<1>5. RootOwner \in Holders("dir") /\ DirUp
  BY <1>0, <1>1 DEF Holders, DirUp
<1>6. q => RootOwner \in Holders("file")
  BY <1>0, <1>1 DEF Holders
<1>7. ~q => Holders("file") = {} /\ Carriers("file") = {}
  BY <1>0, <1>1, <1>4, NodesFacts DEF Holders
<1>8. FileUp
  BY <1>1, <1>6 DEF FileUp
<1>9. Named <=> q
  BY <1>0, <1>1, <1>4, <1>5 DEF Named, Holders
<1>10. Cardinality(Nodes) \in Nat
  BY NodesAssumption, FS_CardinalityType
<1>11. FileNow.refcnt \in Nat /\ (FileNow.refcnt # 0 <=> q) /\ FileNow.open = 0 /\ FileNow.val = 0
  <2>1. CASE q
    <3>1. /\ FileNow.refcnt = body[RootOwner].refcnt /\ FileNow.val = body[RootOwner].attr
          /\ FileNow.open = handles["file"][RootOwner]
      BY <1>0, <1>6, <2>1, HolderView
    <3>2. body[RootOwner].refcnt = 1 + Cardinality(Nodes) /\ handles["file"][RootOwner] = 0
          /\ body[RootOwner].attr = 0
      BY <1>0, <1>1, <1>3, <2>1
    <3> QED
      BY <3>1, <3>2, <1>10, <2>1
  <2>2. CASE ~q
    BY <2>2, <1>7, NobodyView
  <2> QED
    BY <2>1, <2>2
<1>12. Filled
  <2>1. \A n \in Nodes : Keeps("file", n) => q
    BY <1>0, <1>1, NodesFacts DEF Keeps
  <2>2. \A n \in Nodes : Keeps("file", n) /\ body[n].state = "CACHED" => stored = body[n].attr
    BY <2>1, <1>3
  <2> QED
    BY <2>2, <1>0, <1>1, <1>3, <1>4 DEF Filled
<1>13. Shared!AbsInit
  BY <1>1, <1>2, <1>5, <1>8, <1>9, <1>11 DEF Shared!AbsInit, DirUp, FileUp, Named
<1> QED
  BY <1>12, <1>13

(* The nodes of a cluster behave as one inode (ActsAsOneInode): every lookup, open, read,   *)
(* write, release, forget and unlink a node serves is one step of module SharedInode on the *)
(* one state of the file, transfers between nodes are none, and a node that is lost takes   *)
(* the inode away for good: until a node uses an inode that has not come to it.              *)
THEOREM ClusterIsOneInode == Spec => ActsAsOneInode
<1> DEFINE Good == early \/ (OwnInv /\ RefInv /\ Filled)
<1>1. Init => Good /\ Shared!AbsInit
  BY InitInv, InitRefs, InitImplements
<1>2. Good /\ [Next]_vars => Good'
  BY NextInv, NextRefs, NextImplements, EarlyStays DEF Implements
<1>3. Good /\ [Next]_vars => [early' \/ Shared!AbsNext]_(Shared!absVars)
  BY NextImplements, EarlyStays DEF Implements
<1> QED
  BY <1>1, <1>2, <1>3, PTL DEF Spec, ActsAsOneInode
===============================================================================
