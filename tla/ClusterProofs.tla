---------------------------- MODULE ClusterProofs ----------------------------
(***************************************************************************)
(* An inode of the cluster has at most one owner, and no node's idea of    *)
(* who owns it is ahead of the owner: for every number of nodes, threads,  *)
(* operations, transfers and failures, as long as no node has used an      *)
(* inode that was still on its way to it (early).                          *)
(***************************************************************************)
EXTENDS Cluster, FiniteSetTheorems, WellFoundedInduction, TLAPS

(* The types of the state, the bounds left aside. *)
CopyRec   == [owner: Owners, term: Nat, ready: BOOLEAN]
BodyRec   == [known: BOOLEAN, refcnt: Nat, state: States, attr: Nat]
AnswerRec == [tag: {"none", "other", "nil", "stolen", "done", "fail", "error"},
              owner: Owners, term: Nat, refcnt: Nat, attr: Nat, linked: BOOLEAN,
              child: [owner: Owners, term: Nat]]
FrameRec  == [kind: Kinds, pc: {"idle", "route", "exec", "steal", "stolen", "call", "reply"},
              nested: BOOLEAN, at: Nodes, to: Owners, n: Nat, resp: AnswerRec]
Shape ==
    /\ own \in [Inodes -> [Nodes -> CopyRec]]
    /\ body \in [Nodes -> BodyRec]
    /\ linked \in [Nodes -> BOOLEAN]
    /\ kref \in [Nodes -> Nat] /\ fhAt \in [Nodes -> Owners]
    /\ op \in [Threads -> FrameRec]
    /\ node \in [Nodes -> {"up", "unmounted", "joined", "dead"}]
    /\ made \in BOOLEAN

(* What a frame of thread t looks like at each of its steps. *)
Form(t, f) ==
    /\ f.pc \notin {"stolen", "reply"} => f.resp = NoAnswer
    /\ f.resp.tag = "stolen" => f.pc = "stolen"
    /\ ~f.nested => f.at = NodeOf[t]
    /\ f.nested => f.kind \in {"lookup", "unlink"}

(* The answer a frame has says that o owns inode i with term k. *)
Says(f, i, o, k) ==
    \/ f.resp.tag = "other" /\ Target(f) = i /\ f.resp.owner = o /\ f.resp.term = k
    \/ f.resp.tag = "stolen" /\ Target(f) = i /\ f.at = o /\ f.resp.term = k
    \/ i = "file" /\ f.resp.child.owner = o /\ f.resp.child.term = k /\ o # UNKNOWN_OWNER

(* A node has it on record, or is about to be told, that o owns i with term k. *)
Known(i, o, k) ==
    \/ \E n \in Nodes : own[i][n].owner = o /\ own[i][n].term = k
    \/ \E t \in Threads : Says(op[t], i, o, k)

(* The inode is with node x, or on its way to x, with term k. *)
Has(i, x, k) ==
    \/ x \in Holders(i) /\ own[i][x].term = k
    \/ \E t \in Carriers(i) : op[t].at = x /\ op[t].resp.term = k

(* Nothing anyone knows of an inode is ahead of the node that has it. *)
Lead ==
    \A i \in Inodes, o \in Owners, x \in Nodes, j, k \in Nat :
        Known(i, o, k) /\ Has(i, x, j) => k < j \/ (k = j /\ o \in {x, UNKNOWN_OWNER})

(* One term, one owner. *)
Agree ==
    \A i \in Inodes, o, q \in Nodes, k \in Nat : Known(i, o, k) /\ Known(i, q, k) => o = q

(* An inode is at rest or in one answer. *)
Token ==
    \A i \in Inodes :
        /\ \A t, u \in Carriers(i) : t = u
        /\ Carriers(i) # {} => Holders(i) = {}

(* readyOwner is set on the owner only; but on the root everywhere. *)
Ready ==
    \A i \in Inodes, n \in Nodes :
        own[i][n].ready => own[i][n].owner = n \/ (i = "dir" /\ Root)

(* Nobody owns a file that has no inode yet. *)
Unmade ==
    ~made => \A o \in Owners, k \in Nat :
        Known("file", o, k) => o = UNKNOWN_OWNER /\ k = 0

(* Node n has heard of an owner of the file. *)
Located(n) == own["file"][n].owner # UNKNOWN_OWNER

(* A frame that works on the file, and has found it on its node. *)
InUse(f) ==
    \/ f.nested
    \/ f.pc # "idle" /\ f.kind \in ByHandle
    \/ f.pc \notin {"idle", "route"} /\ Target(f) = "file"

(* A frame that works on the file is at a node that has heard of its owner, asks one that   *)
(* has, and brings a name.                                                                  *)
FrameLocated(f) ==
    /\ f.resp.tag = "other" => f.resp.owner # UNKNOWN_OWNER
    /\ f.resp.tag = "done" /\ ~f.nested /\ f.kind \in {"lookup", "create"}
            => f.resp.child.owner # UNKNOWN_OWNER
    /\ f.resp.tag = "stolen" /\ f.resp.linked => f.resp.child.owner # UNKNOWN_OWNER
    /\ InUse(f) => Located(f.at)
    /\ f.pc \in {"steal", "call"} => f.to \in Nodes /\ (Target(f) = "file" => Located(f.to))

(* Requests go to nodes: whoever uses the file has heard of an owner, and the owners have. *)
Names ==
    /\ \A n \in Nodes : own["dir"][n].owner # UNKNOWN_OWNER
    /\ \A n \in Nodes : body[n].known \/ linked[n] \/ fhAt[n] # 0 => Located(n)
    /\ \A o \in Nodes, k \in Nat : Known("file", o, k) => Located(o)
    /\ \A t \in Threads : FrameLocated(op[t])

Forms == \A t \in Threads : Form(t, op[t])

OwnInv ==
    Shape /\ Forms /\ Names /\ Lead /\ Agree /\ Token /\ Ready /\ Unmade

-------------------------------------------------------------------------------
(* Types of the fields of the records. *)

(* 0 is no node. *)
LEMMA NodesFacts ==
    /\ UNKNOWN_OWNER \notin Nodes /\ Nodes \subseteq Owners /\ UNKNOWN_OWNER \in Owners
    /\ \A o \in Owners : o # UNKNOWN_OWNER => o \in Nodes
    /\ "dir" \in Inodes /\ "file" \in Inodes /\ \A i \in Inodes : i = "dir" \/ i = "file"
    /\ \A t \in Threads : NodeOf[t] \in Nodes
BY NodesAssumption DEF UNKNOWN_OWNER, Owners, Inodes

(* An empty answer has its type. *)
LEMMA NoAnswerType ==
    /\ NoAnswer \in AnswerRec /\ NoAnswer.tag = "none"
    /\ NoAnswer.child.owner = 0 /\ NoAnswer.child.term = 0
BY NodesFacts DEF NoAnswer, AnswerRec, UNKNOWN_OWNER

(* So has a copy of an inode. *)
LEMMA CopyType ==
    ASSUME Shape, NEW i \in Inodes, NEW n \in Nodes
    PROVE  /\ own[i][n] \in CopyRec
           /\ own[i][n].owner \in Owners /\ own[i][n].term \in Nat /\ own[i][n].ready \in BOOLEAN
BY DEF Shape, CopyRec

(* The copies after one of them has changed. *)
LEMMA OneCopyChanged ==
    ASSUME NEW w \in [Inodes -> [Nodes -> CopyRec]], NEW i \in Inodes, NEW x \in Nodes,
           NEW d \in CopyRec
    PROVE  /\ [w EXCEPT ![i][x] = d] \in [Inodes -> [Nodes -> CopyRec]]
           /\ \A j \in Inodes, n \in Nodes :
                [w EXCEPT ![i][x] = d][j][n] = (IF j = i /\ n = x THEN d ELSE w[j][n])
<1>1. [w EXCEPT ![i][x] = d] \in [Inodes -> [Nodes -> CopyRec]]
  OBVIOUS
<1>2. ASSUME NEW j \in Inodes, NEW n \in Nodes
      PROVE  [w EXCEPT ![i][x] = d][j][n] = (IF j = i /\ n = x THEN d ELSE w[j][n])
  <2>1. CASE j = i
    BY <2>1
  <2>2. CASE j # i
    BY <2>2
  <2> QED
    BY <2>1, <2>2
<1> QED
  BY <1>1, <1>2

(* So has a frame. *)
LEMMA FrameType ==
    ASSUME NEW f \in FrameRec
    PROVE  /\ f.kind \in Kinds /\ f.nested \in BOOLEAN /\ f.at \in Nodes /\ f.to \in Owners
           /\ f.n \in Nat /\ f.resp \in AnswerRec
           /\ f.resp.owner \in Owners /\ f.resp.term \in Nat /\ f.resp.linked \in BOOLEAN
           /\ f.resp.refcnt \in Nat /\ f.resp.attr \in Nat
           /\ f.resp.child.owner \in Owners /\ f.resp.child.term \in Nat
           /\ Target(f) \in Inodes
BY DEF FrameRec, AnswerRec, Target, Inodes

(* An idle thread. *)
LEMMA IdleType ==
    ASSUME NEW t \in Threads
    PROVE  /\ Idle(t) \in FrameRec
           /\ Idle(t).pc = "idle" /\ Idle(t).resp = NoAnswer /\ ~Idle(t).nested
           /\ Idle(t).at = NodeOf[t] /\ Idle(t).kind = "lookup"
BY NoAnswerType, NodesFacts DEF Idle, FrameRec, Kinds, ByParent, UNKNOWN_OWNER

-------------------------------------------------------------------------------
(* Steps that spread no new knowledge and move no inode *)

(* Whoever has an inode knows it. *)
LEMMA HasIsKnown ==
    ASSUME Shape, NEW i \in Inodes, NEW x \in Nodes, NEW k \in Nat, Has(i, x, k)
    PROVE  Known(i, x, k)
BY DEF Has, Known, Holders, Carriers, Says

(* Lead and Token leave one node that has an inode. *)
LEMMA HasOnce ==
    ASSUME Shape, Lead, NEW i \in Inodes, NEW x \in Nodes, NEW y \in Nodes, NEW j \in Nat,
           NEW k \in Nat, Has(i, x, j), Has(i, y, k)
    PROVE  x = y /\ j = k
<1>1. Known(i, x, j) /\ Known(i, y, k)
  BY HasIsKnown
<1>2. x \in Owners /\ y \in Owners /\ x # UNKNOWN_OWNER /\ y # UNKNOWN_OWNER
  BY NodesFacts
<1>3. k < j \/ (k = j /\ y \in {x, UNKNOWN_OWNER})
  BY <1>1, <1>2 DEF Lead
<1>4. j < k \/ (j = k /\ x \in {y, UNKNOWN_OWNER})
  BY <1>1, <1>2 DEF Lead
<1> QED
  BY <1>2, <1>3, <1>4

(* Less knowledge, fewer copies that are ready, fewer answers that carry an inode. *)
LEMMA Fewer ==
    ASSUME Lead, Agree, Token,
           \A i \in Inodes, o \in Owners, k \in Nat : Known(i, o, k)' => Known(i, o, k),
           \A i \in Inodes : /\ Holders(i)' \subseteq Holders(i)
                             /\ \A n \in Holders(i)' : own'[i][n].term = own[i][n].term
                             /\ Carriers(i)' \subseteq Carriers(i)
                             /\ \A t \in Carriers(i)' : op'[t] = op[t]
    PROVE  Lead' /\ Agree' /\ Token'
<1>1. \A i \in Inodes, x \in Nodes, j \in Nat : Has(i, x, j)' => Has(i, x, j)
  BY DEF Has
<1>2. Lead'
  BY <1>1 DEF Lead
<1>3. Agree'
  BY NodesFacts DEF Agree
<1>4. Token'
  BY DEF Token
<1> QED
  BY <1>2, <1>3, <1>4

(* The frame g that thread t goes on with brings no inode and nothing new. *)
Calm(t, g) ==
    /\ g.resp.tag # "stolen"
    /\ Form(t, g) /\ FrameLocated(g)
    /\ \A i \in Inodes, o \in Owners, k \in Nat : Says(g, i, o, k) => Known(i, o, k)

(* The copy c of inode i that node n goes on with: something known, and not an owner's. *)
Follows(i, n, c) ==
    /\ c.owner # UNKNOWN_OWNER /\ Known(i, c.owner, c.term)
    /\ ~(c.owner = n /\ c.ready)
    /\ c.ready => i = "dir" /\ Root
    /\ i = "dir" => own[i][n].term <= c.term

(* A step in which copies follow what is known, frames are calm, and answers that carry an *)
(* inode are lost only with the node they go to.                                           *)
CalmStep ==
    /\ Shape'
    /\ \A i \in Inodes, n \in Nodes : own'[i][n] = own[i][n] \/ Follows(i, n, own'[i][n])
    /\ \A t \in Threads :
          \/ op'[t] = op[t]
          \/ /\ Calm(t, op'[t])
             /\ op[t].resp.tag = "stolen" => node'[op[t].at] = "dead"
    /\ \A n \in Nodes : node[n] = "dead" => node'[n] = "dead"
    /\ \A n \in Nodes : body'[n].known \/ linked'[n] \/ fhAt'[n] # 0 => own'["file"][n].owner # 0
    /\ made' = made

(* Calm steps spread nothing new. *)
LEMMA CalmKnown ==
    ASSUME OwnInv, CalmStep
    PROVE  \A i \in Inodes, o \in Owners, k \in Nat : Known(i, o, k)' => Known(i, o, k)
<1> TAKE i \in Inodes, o \in Owners, k \in Nat
<1> SUFFICES ASSUME Known(i, o, k)' PROVE Known(i, o, k)
  OBVIOUS
<1>1. CASE \E n \in Nodes : own'[i][n].owner = o /\ own'[i][n].term = k
  <2> PICK n \in Nodes : own'[i][n].owner = o /\ own'[i][n].term = k
    BY <1>1
  <2>1. own'[i][n] = own[i][n] \/ Known(i, own'[i][n].owner, own'[i][n].term)
    BY DEF CalmStep, Follows
  <2> QED
    BY <2>1 DEF Known
<1>2. CASE \E t \in Threads : Says(op'[t], i, o, k)
  <2> PICK t \in Threads : Says(op'[t], i, o, k)
    BY <1>2
  <2>1. op'[t] = op[t] \/ Known(i, o, k)
    BY DEF CalmStep, Calm
  <2> QED
    BY <2>1 DEF Known
<1> QED
  BY <1>1, <1>2 DEF Known

(* Calm steps move no inode. *)
LEMMA CalmHas ==
    ASSUME OwnInv, CalmStep, NEW i \in Inodes
    PROVE  /\ Holders(i)' \subseteq Holders(i)
           /\ \A n \in Holders(i)' : own'[i][n].term = own[i][n].term
           /\ Carriers(i)' \subseteq Carriers(i)
           /\ \A t \in Carriers(i)' : op'[t] = op[t]
           /\ \A t \in Carriers(i) : node'[op[t].at] # "dead" => t \in Carriers(i)' /\ op'[t] = op[t]
<1>1. \A n \in Holders(i)' : own'[i][n] = own[i][n] /\ n \in Holders(i)
  BY DEF CalmStep, Follows, Holders
<1>2. \A t \in Carriers(i)' : op'[t] = op[t]
  BY DEF CalmStep, Calm, Carriers
<1>3. \A t \in Threads : op[t].at \in Nodes
  BY FrameType DEF OwnInv, Shape
<1>4. Carriers(i)' \subseteq Carriers(i)
  BY <1>2, <1>3 DEF CalmStep, Carriers
<1>5. \A t \in Carriers(i) : node'[op[t].at] # "dead" => t \in Carriers(i)' /\ op'[t] = op[t]
  BY DEF CalmStep, Carriers
<1> QED
  BY <1>1, <1>2, <1>4, <1>5

(* A node that has heard of an owner does not forget that there is one. *)
LEMMA CalmLocated ==
    ASSUME OwnInv, CalmStep, NEW n \in Nodes, Located(n)
    PROVE  Located(n)'
BY NodesFacts DEF CalmStep, Follows, Located

(* Calm steps preserve the invariant. *)
LEMMA CalmInv ==
    ASSUME OwnInv, CalmStep
    PROVE  OwnInv'
<1>1. Shape'
  BY DEF CalmStep
<1>2. Forms'
  BY DEF CalmStep, Calm, Forms, OwnInv
<1>3. Names'
  <2>1. \A n \in Nodes : own'["dir"][n].owner # UNKNOWN_OWNER
    BY NodesFacts DEF CalmStep, Follows, OwnInv, Names
  <2>2. \A n \in Nodes : body'[n].known \/ linked'[n] \/ fhAt'[n] # 0 => Located(n)'
    BY DEF CalmStep, Located, UNKNOWN_OWNER
  <2>3. \A o \in Nodes, k \in Nat : Known("file", o, k)' => Located(o)'
    BY CalmKnown, CalmLocated, NodesFacts DEF OwnInv, Names
  <2>4. \A t \in Threads : FrameLocated(op[t])'
    <3> TAKE t \in Threads
    <3>1. FrameLocated(op'[t])
      BY DEF CalmStep, Calm, OwnInv, Names
    <3>2. op'[t] \in FrameRec
      BY <1>1 DEF Shape
    <3>3. op'[t].at \in Nodes
      BY <3>2, FrameType
    <3> QED
      BY <3>1, <3>3, CalmLocated DEF FrameLocated
  <2> QED
    BY <2>1, <2>2, <2>3, <2>4 DEF Names
<1>4. Lead' /\ Agree' /\ Token'
  BY CalmKnown, CalmHas, Fewer DEF OwnInv
<1>5. Ready'
  BY DEF OwnInv, Ready, CalmStep, Follows
<1>7. Unmade'
  BY CalmKnown, NodesFacts DEF OwnInv, Unmade, CalmStep
<1> QED
  BY <1>1, <1>2, <1>3, <1>4, <1>5, <1>7 DEF OwnInv

-------------------------------------------------------------------------------
(* What the steps make of frames, copies of the file and the kernels' references *)

(* A frame that is answered: the kernel's counters keep their types, and the thread is     *)
(* idle or its node is told the owner of the file.                                          *)
Answered(t, y, ok, pair) ==
    /\ op' \in [Threads -> FrameRec]
    /\ kref' \in [Nodes -> Nat] /\ fhAt' \in [Nodes -> Owners]
    /\ \A u \in Threads : u # t => op'[u] = op[u]
    /\ \/ op'[t] = Idle(t) /\ y = NodeOf[t]
       \/ /\ op'[t].kind = op[t].kind /\ op'[t].pc = "reply" /\ ~op'[t].nested
          /\ op'[t].at = NodeOf[t]
          /\ op'[t].resp.tag = (IF ok THEN "done" ELSE "fail")
          /\ op'[t].resp.child.owner = pair.owner /\ op'[t].resp.child.term = pair.term
    /\ \A n \in Nodes : \/ fhAt'[n] = fhAt[n] \/ fhAt'[n] = 0
                        \/ n = NodeOf[t] /\ y = n /\ ok /\ op[t].kind \in {"open", "create"}

(* Answer does that. *)
LEMMA AnswerFrame ==
    ASSUME Shape, NEW t \in Threads, NEW y \in Nodes, NEW ok \in BOOLEAN, NEW pair \in CopyRec,
           Answer(t, y, ok, pair)
    PROVE  Answered(t, y, ok, pair)
<1> DEFINE c == NodeOf[t]
           r == [NoAnswer EXCEPT !.tag = IF ok THEN "done" ELSE "fail", !.child = pbInode(pair)]
           g == [op[t] EXCEPT !.pc = "reply", !.nested = FALSE, !.at = c, !.to = y, !.resp = r]
<1>0. c \in Nodes /\ y \in Owners /\ 0 \in Owners /\ op \in [Threads -> FrameRec]
      /\ kref \in [Nodes -> Nat] /\ fhAt \in [Nodes -> Owners] /\ op[t] \in FrameRec
  BY NodesFacts DEF Shape, UNKNOWN_OWNER
<1>1. CASE y = c
  <2>1. op' = [op EXCEPT ![t] = Idle(t)] /\ Kernel(t, y, ok)
    BY <1>1 DEF Answer
  <2>2. op' \in [Threads -> FrameRec] /\ op'[t] = Idle(t) /\ \A u \in Threads : u # t => op'[u] = op[u]
    BY <2>1, <1>0, IdleType
  <2>3. kref' \in [Nodes -> Nat]
    BY <2>1, <1>0 DEF Kernel
  <2>4. \/ fhAt' = [fhAt EXCEPT ![c] = y] /\ ok /\ op[t].kind \in {"open", "create"}
        \/ fhAt' = [fhAt EXCEPT ![c] = 0]
        \/ fhAt' = fhAt
    BY <2>1 DEF Kernel
  <2>5. fhAt' \in [Nodes -> Owners]
        /\ \A n \in Nodes : fhAt'[n] = fhAt[n] \/ fhAt'[n] = 0
                            \/ (n = c /\ ok /\ op[t].kind \in {"open", "create"})
    BY <2>4, <1>0
  <2> QED
    BY <2>2, <2>3, <2>5, <1>1 DEF Answered
<1>2. CASE y # c
  <2>1. op' = [op EXCEPT ![t] = g] /\ kref' = kref /\ fhAt' = fhAt
    BY <1>2 DEF Answer
  <2>2. pbInode(pair) \in [owner: Owners, term: Nat]
        /\ pbInode(pair).owner = pair.owner /\ pbInode(pair).term = pair.term
    BY DEF pbInode, CopyRec
  <2>3. r \in AnswerRec /\ r.tag = (IF ok THEN "done" ELSE "fail") /\ r.child = pbInode(pair)
    BY <2>2, NoAnswerType DEF AnswerRec
  <2>4. g \in FrameRec /\ g.kind = op[t].kind /\ g.pc = "reply" /\ ~g.nested /\ g.at = c /\ g.resp = r
    BY <2>3, <1>0 DEF FrameRec
  <2>5. op' \in [Threads -> FrameRec] /\ op'[t] = g /\ \A u \in Threads : u # t => op'[u] = op[u]
    BY <2>1, <2>4, <1>0
  <2> QED
    BY <2>1, <2>2, <2>3, <2>4, <2>5, <1>0 DEF Answered
<1> QED
  BY <1>1, <1>2

(* Idle threads are calm. *)
LEMMA IdleCalm ==
    ASSUME NEW t \in Threads
    PROVE  Calm(t, Idle(t))
<1>1. \A i \in Inodes, o \in Owners, k \in Nat : ~Says(Idle(t), i, o, k)
  BY IdleType, NoAnswerType DEF Says, UNKNOWN_OWNER
<1>2. Idle(t).kind \notin ByHandle
  BY IdleType DEF ByHandle
<1> QED
  BY <1>1, <1>2, IdleType, NoAnswerType DEF Calm, Form, FrameLocated, InUse, Target, ByParent

(* A frame is calm once it has an answer that names a known owner of the file. *)
LEMMA AnswerCalm ==
    ASSUME OwnInv, NEW t \in Threads, NEW y \in Nodes, NEW ok \in BOOLEAN, NEW pair \in CopyRec,
           Answer(t, y, ok, pair), op[t].resp.tag # "stolen",
           Known("file", pair.owner, pair.term),
           ok /\ op[t].kind \in {"lookup", "create"} => pair.owner # UNKNOWN_OWNER,
           op[t].kind \notin ByParent => Located(NodeOf[t]),
           op[t].kind = "create" /\ ok => Located(y)
    PROVE  /\ op' \in [Threads -> FrameRec]
           /\ kref' \in [Nodes -> Nat] /\ fhAt' \in [Nodes -> Owners]
           /\ \A u \in Threads : op'[u] = op[u] \/ (Calm(u, op'[u]) /\ op[u].resp.tag # "stolen")
           /\ \A n \in Nodes : fhAt'[n] # 0 => Located(n)
<1>0. Shape /\ op[t].kind \in Kinds
  BY FrameType DEF OwnInv, Shape
<1>1. \A n \in Nodes : fhAt'[n] # 0 => Located(n)
  <2>1. "open" \notin ByParent
    BY DEF ByParent
  <2> QED
    BY <2>1, <1>0, AnswerFrame DEF OwnInv, Names, Answered
<1>2. Calm(t, op'[t])
  <2>1. CASE op'[t] = Idle(t)
    BY <2>1, IdleCalm
  <2>2. CASE /\ op'[t].kind = op[t].kind /\ op'[t].pc = "reply" /\ ~op'[t].nested
             /\ op'[t].at = NodeOf[t]
             /\ op'[t].resp.tag = (IF ok THEN "done" ELSE "fail")
             /\ op'[t].resp.child.owner = pair.owner /\ op'[t].resp.child.term = pair.term
    <3>1. \A i \in Inodes, o \in Owners, k \in Nat : Says(op'[t], i, o, k) => Known(i, o, k)
      BY <2>2 DEF Says
    <3>2. Form(t, op'[t])
      BY <2>2 DEF Form
    <3>3. FrameLocated(op'[t])
      BY <2>2, <1>0 DEF FrameLocated, InUse, Target, ByHandle, ByParent
    <3> QED
      BY <3>1, <3>2, <3>3, <2>2 DEF Calm
  <2> QED
    BY <2>1, <2>2, <1>0, AnswerFrame DEF Answered
<1> QED
  BY <1>0, <1>1, <1>2, AnswerFrame DEF Answered

(* DeRef keeps the type of a copy and makes none known. *)
LEMMA DeRefType ==
    ASSUME NEW b \in BodyRec, NEW k \in Nat
    PROVE  DeRef(b, k) \in BodyRec /\ (DeRef(b, k).known => b.known)
<1> DEFINE res == IF k > b.refcnt THEN 0 ELSE b.refcnt - k
           kn  == b.known /\ ~(res = 0 /\ b.state \in {"CACHED", "DEAD"})
<1>1. b.refcnt \in Nat /\ b.known \in BOOLEAN
  BY DEF BodyRec
<1>2. res \in Nat /\ kn \in BOOLEAN
  BY <1>1
<1>3. DeRef(b, k) = [b EXCEPT !.refcnt = res, !.known = kn]
  BY DEF DeRef
<1> HIDE DEF res, kn
<1>4. DeRef(b, k) \in BodyRec /\ DeRef(b, k).known = kn
  BY <1>2, <1>3 DEF BodyRec
<1> QED
  BY <1>4 DEF kn

(* So does a write. *)
LEMMA ModifiedType ==
    ASSUME NEW b \in BodyRec
    PROVE  Modified(b) \in BodyRec /\ Modified(b).known = b.known
<1> DEFINE at == b.attr + 1
           st == IF b.state = "CACHED" THEN "MODIFIED" ELSE b.state
<1>1. b.attr \in Nat /\ b.state \in States
  BY DEF BodyRec
<1>2. at \in Nat /\ st \in States
  BY <1>1 DEF States
<1>3. Modified(b) = [b EXCEPT !.attr = at, !.state = st]
  BY DEF Modified
<1> HIDE DEF at, st
<1> QED
  BY <1>2, <1>3 DEF BodyRec

-------------------------------------------------------------------------------
(* Operations, where they run *)

(* Steps that change no owner and make no copy. *)
LEMMA LocalStep ==
    ASSUME OwnInv, own' = own, node' = node, made' = made,
           body' \in [Nodes -> BodyRec], linked' \in [Nodes -> BOOLEAN],
           kref' \in [Nodes -> Nat], fhAt' \in [Nodes -> Owners], op' \in [Threads -> FrameRec],
           \A n \in Nodes : (body'[n].known => body[n].known) /\ (linked'[n] => linked[n]),
           \A n \in Nodes : fhAt'[n] # 0 => Located(n),
           \A u \in Threads : op'[u] = op[u] \/ (Calm(u, op'[u]) /\ op[u].resp.tag # "stolen")
    PROVE  CalmStep
<1>1. Shape'
  BY DEF OwnInv, Shape
<1>2. \A n \in Nodes : body'[n].known \/ linked'[n] \/ fhAt'[n] # 0 => own'["file"][n].owner # 0
  BY DEF OwnInv, Names, Located, UNKNOWN_OWNER
<1> QED
  BY <1>1, <1>2 DEF CalmStep

(* The types the operations work with, and what frames that run say. *)
LEMMA ExecFacts ==
    ASSUME OwnInv, NEW t \in Threads, NEW y \in Nodes, op[t].pc \in {"route", "exec", "call"}
    PROVE  /\ Shape /\ body \in [Nodes -> BodyRec] /\ linked \in [Nodes -> BOOLEAN]
           /\ op \in [Threads -> FrameRec]
           /\ op[t] \in FrameRec /\ op[t].resp = NoAnswer /\ op[t].n \in Nat
           /\ body[y] \in BodyRec /\ body[y].refcnt \in Nat /\ body[y].attr \in Nat
           /\ own["file"][y] \in CopyRec
           /\ Known("file", own["file"][y].owner, own["file"][y].term)
           /\ op[t].resp.tag # "stolen"
<1>1. Shape /\ op[t] \in FrameRec /\ body[y] \in BodyRec /\ body \in [Nodes -> BodyRec]
      /\ linked \in [Nodes -> BOOLEAN] /\ op \in [Threads -> FrameRec]
  BY DEF OwnInv, Shape
<1>2. op[t].resp = NoAnswer
  BY DEF OwnInv, Forms, Form
<1>3. own["file"][y] \in CopyRec
  BY <1>1, CopyType, NodesFacts
<1>4. Known("file", own["file"][y].owner, own["file"][y].term)
  BY DEF Known
<1>5. body[y].refcnt \in Nat /\ body[y].attr \in Nat
  BY <1>1 DEF BodyRec
<1> QED
  BY <1>1, <1>2, <1>3, <1>4, <1>5, FrameType, NoAnswerType

(* The operations on the file. *)
LEMMA ExecFileCalm ==
    ASSUME OwnInv, NEW t \in Threads, NEW y \in Nodes, op[t].pc \in {"route", "exec", "call"},
           op[t].kind \notin ByParent, Located(NodeOf[t]), ExecFile(t, y)
    PROVE  CalmStep
<1>1. UNCHANGED <<own, linked, node, made>> /\ Answer(t, y, TRUE, own["file"][y])
  BY DEF ExecFile
<1>2. op[t].kind # "lookup" /\ op[t].kind # "create"
  BY DEF ByParent
<1>3. body' \in [Nodes -> BodyRec] /\ \A n \in Nodes : body'[n].known => body[n].known
  <2>1. body \in [Nodes -> BodyRec] /\ body[y] \in BodyRec /\ op[t].n \in Nat
    BY ExecFacts
  <2>2. Modified(body[y]) \in BodyRec /\ Modified(body[y]).known = body[y].known
    BY <2>1, ModifiedType
  <2>3. CASE body' = body
    BY <2>3, <2>1
  <2>4. CASE body' = [body EXCEPT ![y] = Modified(@)]
    BY <2>4, <2>1, <2>2
  <2>5. CASE ForgetInode(t, y)
    <3> DEFINE b == DeRef(body[y], op[t].n)
               z == b.refcnt # 0
               other(m) == [body[m] EXCEPT !.known = @ /\ z]
    <3>1. b \in BodyRec /\ (b.known => body[y].known)
      BY <2>1, DeRefType
    <3>2. body' = [m \in Nodes |-> IF m = y THEN b ELSE other(m)]
      BY <2>5 DEF ForgetInode
    <3>3. \A m \in Nodes : other(m) \in BodyRec /\ (other(m).known => body[m].known)
      <4> TAKE m \in Nodes
      <4>1. body[m] \in BodyRec /\ body[m].known \in BOOLEAN
        BY <2>1 DEF BodyRec
      <4>2. (body[m].known /\ z) \in BOOLEAN
        BY <4>1
      <4> HIDE DEF z
      <4> QED
        BY <4>1, <4>2 DEF BodyRec
    <3> HIDE DEF b, other, z
    <3> QED
      BY <3>1, <3>2, <3>3
  <2> QED
    BY <2>3, <2>4, <2>5 DEF ExecFile, openFile, releaseFileHandle, readFile, writeFile,
                            getInodeAttributes, setInodeAttributes
<1>4. own["file"][y] \in CopyRec /\ Known("file", own["file"][y].owner, own["file"][y].term)
      /\ op[t].resp.tag # "stolen" /\ linked \in [Nodes -> BOOLEAN]
  BY ExecFacts
<1>5. /\ op' \in [Threads -> FrameRec] /\ kref' \in [Nodes -> Nat] /\ fhAt' \in [Nodes -> Owners]
      /\ \A u \in Threads : op'[u] = op[u] \/ (Calm(u, op'[u]) /\ op[u].resp.tag # "stolen")
      /\ \A n \in Nodes : fhAt'[n] # 0 => Located(n)
  BY <1>1, <1>2, <1>4, AnswerCalm
<1> QED
  BY <1>1, <1>3, <1>4, <1>5, LocalStep

(* The second half of a lookup, at the owner of the file. *)
LEMMA LookUpInode2Calm ==
    ASSUME OwnInv, NEW t \in Threads, NEW y \in Nodes, op[t].pc \in {"route", "exec", "call"},
           op[t].nested, op[t].kind = "lookup", lookUpInode2(t, y)
    PROVE  CalmStep
<1> DEFINE p == op[t].at
           r == [NoAnswer EXCEPT !.tag = "done"]
           g == [op[t] EXCEPT !.pc = "reply", !.resp = r]
           c == body[y].refcnt + 1
<1>0. Shape /\ op[t] \in FrameRec /\ p \in Nodes /\ Located(p) /\ op[t].resp.tag # "stolen"
  BY ExecFacts, FrameType DEF OwnInv, Names, FrameLocated, InUse
<1>1. UNCHANGED <<own, linked, node, made>> /\ linked \in [Nodes -> BOOLEAN]
  BY ExecFacts DEF lookUpInode2
<1>2. body' \in [Nodes -> BodyRec] /\ \A n \in Nodes : body'[n].known => body[n].known
  <2>1. body' = [body EXCEPT ![y] = [body[y] EXCEPT !.refcnt = c]]
    BY DEF lookUpInode2
  <2>2. body \in [Nodes -> BodyRec] /\ body[y] \in BodyRec /\ c \in Nat
    BY ExecFacts
  <2> HIDE DEF c
  <2>3. [body[y] EXCEPT !.refcnt = c] \in BodyRec
        /\ [body[y] EXCEPT !.refcnt = c].known = body[y].known
    BY <2>2 DEF BodyRec
  <2> QED
    BY <2>1, <2>2, <2>3
<1>3. CASE y = p
  <2>1. Answer(t, p, TRUE, own["file"][p])
    BY <1>3 DEF lookUpInode2
  <2>2. own["file"][p] \in CopyRec /\ Known("file", own["file"][p].owner, own["file"][p].term)
    BY <1>0, ExecFacts
  <2>3. op[t].kind \in ByParent /\ own["file"][p].owner # UNKNOWN_OWNER
    BY <1>0 DEF ByParent, Located
  <2>4. /\ op' \in [Threads -> FrameRec] /\ kref' \in [Nodes -> Nat] /\ fhAt' \in [Nodes -> Owners]
        /\ \A u \in Threads : op'[u] = op[u] \/ (Calm(u, op'[u]) /\ op[u].resp.tag # "stolen")
        /\ \A n \in Nodes : fhAt'[n] # 0 => Located(n)
    BY <1>0, <2>1, <2>2, <2>3, AnswerCalm
  <2> QED
    BY <1>1, <1>2, <2>4, LocalStep
<1>4. CASE y # p
  <2>1. op' = [op EXCEPT ![t] = g] /\ kref' = kref /\ fhAt' = fhAt
    BY <1>4 DEF lookUpInode2
  <2>2. r \in AnswerRec /\ r.tag = "done" /\ r.child = NoAnswer.child /\ r.owner = NoAnswer.owner
    BY NoAnswerType DEF AnswerRec, NoAnswer
  <2> HIDE DEF r
  <2>3. g \in FrameRec /\ g.pc = "reply" /\ g.resp = r /\ g.nested /\ g.at = p /\ g.kind = "lookup"
    BY <1>0, <2>2 DEF FrameRec
  <2>4. Calm(t, g)
    <3>1. \A i \in Inodes, o \in Owners, k \in Nat : ~Says(g, i, o, k)
      BY <2>2, <2>3, NoAnswerType DEF Says, UNKNOWN_OWNER
    <3>2. Form(t, g) /\ FrameLocated(g)
      BY <2>2, <2>3, <1>0 DEF Form, FrameLocated, InUse
    <3> QED
      BY <3>1, <3>2, <2>2, <2>3 DEF Calm
  <2>5. op \in [Threads -> FrameRec] /\ kref' \in [Nodes -> Nat] /\ fhAt' \in [Nodes -> Owners]
        /\ \A n \in Nodes : fhAt'[n] # 0 => Located(n)
    BY <2>1, <1>0 DEF Shape, OwnInv, Names
  <2>6. op' \in [Threads -> FrameRec]
        /\ \A u \in Threads : op'[u] = op[u] \/ (Calm(u, op'[u]) /\ op[u].resp.tag # "stolen")
    <3> HIDE DEF g
    <3> QED
      BY <2>1, <2>3, <2>4, <2>5, <1>0
  <2> QED
    BY <1>1, <1>2, <2>5, <2>6, LocalStep
<1> QED
  BY <1>3, <1>4

(* The second half of an unlink. *)
LEMMA DoUnlinkCalm ==
    ASSUME OwnInv, NEW t \in Threads, NEW p \in Nodes, op[t].pc \in {"route", "exec", "call"},
           op[t].nested, op[t].kind = "unlink", doUnlink(t, p)
    PROVE  CalmStep
<1> DEFINE gone == [body[p] EXCEPT !.state = IF @ = "CREATED" THEN "DEAD" ELSE "DELETED"]
<1>1. UNCHANGED <<own, node, made>> /\ Answer(t, p, TRUE, own["file"][p])
      /\ body' = [body EXCEPT ![p] = DeRef(gone, 1)] /\ linked' = [linked EXCEPT ![p] = FALSE]
  BY DEF doUnlink
<1>2. gone \in BodyRec /\ gone.known = body[p].known
  BY ExecFacts DEF BodyRec, States
<1>3. DeRef(gone, 1) \in BodyRec /\ (DeRef(gone, 1).known => body[p].known)
  BY <1>2, DeRefType
<1> HIDE DEF gone
<1>4. body' \in [Nodes -> BodyRec] /\ linked' \in [Nodes -> BOOLEAN]
      /\ \A n \in Nodes : (body'[n].known => body[n].known) /\ (linked'[n] => linked[n])
  BY <1>1, <1>3, ExecFacts
<1>5. own["file"][p] \in CopyRec /\ Known("file", own["file"][p].owner, own["file"][p].term)
      /\ op[t].resp.tag # "stolen" /\ op[t].kind \in ByParent
  BY ExecFacts DEF ByParent
<1>6. /\ op' \in [Threads -> FrameRec] /\ kref' \in [Nodes -> Nat] /\ fhAt' \in [Nodes -> Owners]
      /\ \A u \in Threads : op'[u] = op[u] \/ (Calm(u, op'[u]) /\ op[u].resp.tag # "stolen")
      /\ \A n \in Nodes : fhAt'[n] # 0 => Located(n)
  BY <1>1, <1>5, AnswerCalm
<1> QED
  BY <1>1, <1>4, <1>6, LocalStep

(* The frame that goes on with the file while it holds the directory. *)
LEMMA DescendFrame ==
    ASSUME Shape, NEW t \in Threads, NEW p \in Nodes, Form(t, op[t]),
           op[t].pc \in {"route", "exec", "call"}, op[t].kind \in {"lookup", "unlink"}, Descend(t, p)
    PROVE  /\ op' \in [Threads -> FrameRec]
           /\ \A u \in Threads : u # t => op'[u] = op[u]
           /\ op'[t].kind = op[t].kind /\ op'[t].pc = "route" /\ op'[t].nested
           /\ op'[t].at = p /\ op'[t].resp = NoAnswer /\ op[t].resp = NoAnswer
           /\ Form(t, op'[t])
           /\ \A i \in Inodes, o \in Owners, k \in Nat : ~Says(op'[t], i, o, k)
<1> DEFINE g == [op[t] EXCEPT !.pc = "route", !.nested = TRUE, !.at = p]
<1>1. op' = [op EXCEPT ![t] = g] /\ op \in [Threads -> FrameRec] /\ op[t] \in FrameRec
  BY DEF Descend, Shape
<1>2. g \in FrameRec /\ g.kind = op[t].kind /\ g.pc = "route" /\ g.nested /\ g.at = p
      /\ g.resp = op[t].resp
  BY <1>1 DEF FrameRec
<1>3. op[t].resp = NoAnswer
  BY DEF Form
<1> HIDE DEF g
<1>4. op' \in [Threads -> FrameRec] /\ op'[t] = g /\ \A u \in Threads : u # t => op'[u] = op[u]
  BY <1>1, <1>2
<1>5. Form(t, g)
  BY <1>2, <1>3, NoAnswerType DEF Form
<1>6. \A i \in Inodes, o \in Owners, k \in Nat : ~Says(g, i, o, k)
  BY <1>2, <1>3, NoAnswerType DEF Says, UNKNOWN_OWNER
<1> QED
  BY <1>2, <1>3, <1>4, <1>5, <1>6

(* The file gets its inode: nobody has heard of an owner before. *)
LEMMA AppearInv ==
    ASSUME OwnInv, ~made, NEW t \in Threads, NEW p \in Nodes,
           own' = [own EXCEPT !["file"][p] = [owner |-> p, term |-> 0, ready |-> TRUE]],
           Shape', node' = node, made',
           \A u \in Threads : u # t => op'[u] = op[u],
           op[t].resp.tag # "stolen", op'[t].resp.tag \notin {"stolen", "other"},
           Form(t, op'[t]), FrameLocated(op[t])',
           op'[t].resp.child.owner # 0 =>
               op'[t].resp.child.owner = p /\ op'[t].resp.child.term = 0,
           \A n \in Nodes : body'[n].known \/ linked'[n] \/ fhAt'[n] # 0 => n = p \/ Located(n)
    PROVE  OwnInv'
<1>0. Shape /\ p # UNKNOWN_OWNER /\ p \in Owners /\ 0 \in Nat
  BY NodesFacts DEF OwnInv
<1>1. /\ \A n \in Nodes : own'["dir"][n] = own["dir"][n]
      /\ \A n \in Nodes : n # p => own'["file"][n] = own["file"][n]
      /\ own'["file"][p].owner = p /\ own'["file"][p].term = 0 /\ own'["file"][p].ready
  BY NodesFacts DEF OwnInv, Shape
<1>2. \A i \in Inodes, o \in Owners, k \in Nat :
        Known(i, o, k)' => Known(i, o, k) \/ (i = "file" /\ o = p /\ k = 0)
  <2> TAKE i \in Inodes, o \in Owners, k \in Nat
  <2>1. CASE \E n \in Nodes : own'[i][n].owner = o /\ own'[i][n].term = k
    BY <2>1, <1>1, NodesFacts DEF Known
  <2>2. ASSUME NEW u \in Threads, Says(op'[u], i, o, k)
        PROVE  Known(i, o, k) \/ (i = "file" /\ o = p /\ k = 0)
    <3>1. CASE u = t
      BY <2>2, <3>1, <1>0 DEF Says, UNKNOWN_OWNER
    <3>2. CASE u # t
      BY <2>2, <3>2 DEF Known
    <3> QED
      BY <3>1, <3>2
  <2> QED
    BY <2>1, <2>2 DEF Known
<1>3. \A o \in Owners, k \in Nat : Known("file", o, k) => o = UNKNOWN_OWNER /\ k = 0
  BY DEF OwnInv, Unmade
<1>4. /\ Holders("dir")' = Holders("dir") /\ Holders("file")' \subseteq {p}
      /\ Carriers("dir")' = Carriers("dir") /\ Carriers("file")' = {}
      /\ \A u \in Carriers("dir") : op'[u] = op[u]
  <2>1. \A u \in Threads : op'[u].resp.tag = "stolen" => op'[u] = op[u]
    OBVIOUS
  <2>2. \A u \in Threads : op[u].resp.tag = "stolen" => op'[u] = op[u]
    OBVIOUS
  <2>3. /\ Carriers("dir")' = Carriers("dir") /\ \A u \in Carriers("dir") : op'[u] = op[u]
        /\ Carriers("file")' = Carriers("file")
    BY <2>1, <2>2 DEF Carriers
  <2>4. Carriers("file") = {}
    <3> SUFFICES ASSUME NEW u \in Carriers("file") PROVE FALSE
      OBVIOUS
    <3>1. u \in Threads /\ Target(op[u]) = "file" /\ op[u].resp.tag = "stolen" /\ op[u] \in FrameRec
      BY <1>0 DEF Carriers, Shape
    <3>2. op[u].at \in Nodes /\ op[u].resp.term \in Nat
      BY <3>1, FrameType
    <3>3. Known("file", op[u].at, op[u].resp.term)
      BY <3>1 DEF Known, Says
    <3> QED
      BY <3>2, <3>3, <1>3, NodesFacts
  <2>5. \A n \in Nodes : own["file"][n].owner # n
    <3> SUFFICES ASSUME NEW n \in Nodes, own["file"][n].owner = n PROVE FALSE
      OBVIOUS
    <3>1. own["file"][n].term \in Nat /\ Known("file", n, own["file"][n].term)
      BY <1>0, CopyType, NodesFacts DEF Known
    <3> QED
      BY <3>1, <1>3, NodesFacts
  <2> QED
    BY <2>3, <2>4, <2>5, <1>1 DEF Holders
<1>5. \A i \in Inodes, x \in Nodes, j \in Nat :
        Has(i, x, j)' => (i = "dir" /\ Has(i, x, j)) \/ (i = "file" /\ x = p /\ j = 0)
  <2> TAKE i \in Inodes, x \in Nodes, j \in Nat
  <2>1. CASE i = "dir"
    BY <2>1, <1>1, <1>4 DEF Has
  <2>2. CASE i = "file"
    BY <2>2, <1>1, <1>4 DEF Has
  <2> QED
    BY <2>1, <2>2, NodesFacts
<1>6. Names'
  <2>1. \A n \in Nodes : own'["dir"][n].owner # UNKNOWN_OWNER
    BY <1>1 DEF OwnInv, Names
  <2>2. \A n \in Nodes : Located(n) => Located(n)'
    BY <1>0, <1>1 DEF Located
  <2>3. Located(p)'
    BY <1>0, <1>1 DEF Located
  <2>4. \A u \in Threads : FrameLocated(op[u])'
    <3> TAKE u \in Threads
    <3>1. CASE u = t
      BY <3>1
    <3>2. CASE u # t
      <4>1. FrameLocated(op[u]) /\ op'[u] = op[u] /\ op[u].at \in Nodes
        BY <3>2, <1>0, FrameType DEF OwnInv, Names, Shape
      <4> QED
        BY <4>1, <2>2 DEF FrameLocated
    <3> QED
      BY <3>1, <3>2
  <2>5. \A o \in Nodes, k \in Nat : Known("file", o, k)' => Located(o)'
    BY <1>2, <1>3, <2>3, NodesFacts
  <2> QED
    BY <2>1, <2>2, <2>3, <2>4, <2>5 DEF Names
<1>7. Lead'
  <2> SUFFICES ASSUME NEW i \in Inodes, NEW o \in Owners, NEW x \in Nodes, NEW j \in Nat, NEW k \in Nat,
                      Known(i, o, k)', Has(i, x, j)'
               PROVE  k < j \/ (k = j /\ o \in {x, UNKNOWN_OWNER})
    BY DEF Lead
  <2>1. CASE i = "dir"
    BY <2>1, <1>2, <1>5 DEF OwnInv, Lead
  <2>2. CASE i = "file"
    BY <2>2, <1>2, <1>3, <1>5
  <2> QED
    BY <2>1, <2>2, NodesFacts
<1>8. Agree'
  BY <1>2, <1>3, NodesFacts DEF OwnInv, Agree
<1>9. Token'
  BY <1>4, NodesFacts DEF OwnInv, Token
<1>10. Ready'
  BY <1>1, NodesFacts DEF OwnInv, Ready
<1>12. Unmade'
  BY DEF Unmade
<1>13. Forms'
  BY DEF OwnInv, Forms
<1> QED
  BY <1>6, <1>7, <1>8, <1>9, <1>10, <1>12, <1>13 DEF OwnInv

(* The copies that a directory's owner makes of a new file. *)
LEMMA NewBodies ==
    /\ [Blank EXCEPT !.known = TRUE] \in BodyRec
    /\ [Blank EXCEPT !.known = TRUE, !.refcnt = 1] \in BodyRec
    /\ [Blank EXCEPT !.known = TRUE, !.refcnt = 2, !.state = "CREATED"] \in BodyRec
BY DEF Blank, BodyRec, States

(* The operations on the directory. *)
LEMMA ExecDirInv ==
    ASSUME OwnInv, NEW t \in Threads, NEW p \in Nodes, op[t].pc \in {"route", "exec", "call"},
           Target(op[t]) = "dir", ExecDir(t, p)
    PROVE  OwnInv'
<1> DEFINE mine == [owner |-> p, term |-> 0, ready |-> TRUE]
<1>0. /\ Shape /\ Form(t, op[t]) /\ op[t].resp.tag # "stolen" /\ op[t].kind \in ByParent
      /\ own["file"][p] \in CopyRec /\ Known("file", own["file"][p].owner, own["file"][p].term)
      /\ own \in [Inodes -> [Nodes -> CopyRec]] /\ body \in [Nodes -> BodyRec]
      /\ linked \in [Nodes -> BOOLEAN] /\ kref \in [Nodes -> Nat] /\ fhAt \in [Nodes -> Owners]
      /\ node \in [Nodes -> {"up", "unmounted", "joined", "dead"}]
  BY ExecFacts DEF OwnInv, Shape, Forms, Target
<1>1. node' = node
  BY DEF ExecDir
<1>2. \A n \in Nodes : body[n].known \/ linked[n] \/ fhAt[n] # 0 => Located(n)
  BY DEF OwnInv, Names
<1>3. mine \in CopyRec /\ [own EXCEPT !["file"][p] = mine] \in [Inodes -> [Nodes -> CopyRec]]
      /\ [own EXCEPT !["file"][p] = mine]["file"][p] = mine
  BY <1>0, NodesFacts DEF CopyRec
<1>4. CASE /\ op[t].kind \in {"lookup", "unlink"} /\ linked[p]
           /\ Descend(t, p) /\ UNCHANGED <<own, body, linked, made, kref, fhAt>>
  <2>1. /\ op' \in [Threads -> FrameRec] /\ Calm(t, op'[t])
        /\ \A u \in Threads : u # t => op'[u] = op[u]
    BY <1>0, <1>2, <1>4, DescendFrame, NoAnswerType DEF Calm, FrameLocated
  <2> QED
    BY <2>1, <1>0, <1>1, <1>2, <1>4, LocalStep, CalmInv
<1>5. CASE /\ op[t].kind = "lookup" /\ ~made
           /\ loadChild(p) /\ Descend(t, p) /\ UNCHANGED <<kref, fhAt>>
  <2>1. /\ op' \in [Threads -> FrameRec] /\ \A u \in Threads : u # t => op'[u] = op[u]
        /\ op'[t].at = p /\ op'[t].resp = NoAnswer /\ Form(t, op'[t]) /\ op'[t].pc = "route"
    BY <1>0, <1>5, DescendFrame
  <2>2. /\ own' = [own EXCEPT !["file"][p] = mine] /\ made' = TRUE
        /\ linked' = [linked EXCEPT ![p] = TRUE]
        /\ body' = [body EXCEPT ![p] = [Blank EXCEPT !.known = TRUE, !.refcnt = 1]]
    BY <1>5 DEF loadChild
  <2>3. Shape'
    BY <2>1, <2>2, <1>0, <1>1, <1>3, <1>5, NewBodies DEF Shape
  <2>4. FrameLocated(op[t])'
    BY <2>1, <2>2, <1>3, NoAnswerType, NodesFacts DEF FrameLocated, Located
  <2>5. \A n \in Nodes : body'[n].known \/ linked'[n] \/ fhAt'[n] # 0 => n = p \/ Located(n)
    BY <2>2, <1>0, <1>2, <1>5
  <2> QED
    BY <2>1, <2>2, <2>3, <2>4, <2>5, <1>0, <1>1, <1>5, AppearInv, NoAnswerType
<1>6. CASE /\ op[t].kind = "create" /\ ~made
           /\ createFile(p) /\ Answer(t, p, TRUE, own'["file"][p])
  <2>1. /\ own' = [own EXCEPT !["file"][p] = mine] /\ made' = TRUE
        /\ linked' = [linked EXCEPT ![p] = TRUE]
        /\ body' = [body EXCEPT ![p] = [Blank EXCEPT !.known = TRUE, !.refcnt = 2, !.state = "CREATED"]]
    BY <1>6 DEF createFile, createChild
  <2>2. Answer(t, p, TRUE, mine) /\ mine.owner = p /\ mine.term = 0 /\ TRUE \in BOOLEAN
    BY <2>1, <1>3, <1>6
  <2>3. /\ op' \in [Threads -> FrameRec]
        /\ kref' \in [Nodes -> Nat] /\ fhAt' \in [Nodes -> Owners]
        /\ \A u \in Threads : u # t => op'[u] = op[u]
        /\ \/ op'[t] = Idle(t)
           \/ /\ op'[t].kind = "create" /\ op'[t].pc = "reply" /\ ~op'[t].nested
              /\ op'[t].at = NodeOf[t] /\ op'[t].resp.tag = "done"
              /\ op'[t].resp.child.owner = p /\ op'[t].resp.child.term = 0
        /\ \A n \in Nodes : fhAt'[n] = fhAt[n] \/ fhAt'[n] = 0 \/ n = p
    <3> HIDE DEF mine
    <3>1. Shape /\ mine \in CopyRec
      BY <1>0, <1>3
    <3>2. PICK ok \in BOOLEAN : ok /\ Answer(t, p, ok, mine)
      BY <2>2
    <3>3. Answered(t, p, ok, mine)
      BY <3>1, <3>2, AnswerFrame
    <3> QED
      BY <3>2, <3>3, <2>2, <1>6 DEF Answered
  <2>4. Shape'
    BY <2>1, <2>3, <1>0, <1>1, <1>3, NewBodies DEF Shape
  <2>5. /\ Form(t, op'[t]) /\ op'[t].resp.tag \notin {"stolen", "other"}
        /\ op'[t].resp.child.owner # 0 =>
               op'[t].resp.child.owner = p /\ op'[t].resp.child.term = 0
    BY <2>3, IdleType, NoAnswerType DEF Form
  <2>6. FrameLocated(op[t])'
    <3>1. p # UNKNOWN_OWNER /\ "create" \notin ByHandle /\ "lookup" \notin ByHandle
      BY NodesFacts DEF ByHandle
    <3> QED
      BY <2>3, <3>1, IdleType, NoAnswerType DEF FrameLocated, InUse, Target, ByParent
  <2>7. \A n \in Nodes : body'[n].known \/ linked'[n] \/ fhAt'[n] # 0 => n = p \/ Located(n)
    BY <2>1, <2>3, <1>0, <1>2
  <2> QED
    BY <2>1, <2>3, <2>4, <2>5, <2>6, <2>7, <1>0, <1>1, <1>6, AppearInv
<1>7. ASSUME NEW ok \in BOOLEAN, Answer(t, p, ok, own["file"][p]), ~(ok /\ op[t].kind \in {"lookup", "create"}),
             UNCHANGED <<own, body, linked, made>>
      PROVE  OwnInv'
  <2>1. /\ op' \in [Threads -> FrameRec] /\ kref' \in [Nodes -> Nat] /\ fhAt' \in [Nodes -> Owners]
        /\ \A u \in Threads : op'[u] = op[u] \/ (Calm(u, op'[u]) /\ op[u].resp.tag # "stolen")
        /\ \A n \in Nodes : fhAt'[n] # 0 => Located(n)
    BY <1>0, <1>7, AnswerCalm
  <2> QED
    BY <2>1, <1>0, <1>1, <1>7, LocalStep, CalmInv
<1> QED
  BY <1>4, <1>5, <1>6, <1>7 DEF ExecDir

(* Whatever a node runs as the owner. *)
LEMMA ExecInv ==
    ASSUME OwnInv, NEW t \in Threads, NEW y \in Nodes, op[t].pc \in {"route", "exec", "call"},
           ~op[t].nested /\ op[t].kind \notin ByParent => Located(NodeOf[t]), Exec(t, y)
    PROVE  OwnInv'
BY LookUpInode2Calm, DoUnlinkCalm, ExecFileCalm, ExecDirInv, CalmInv DEF Exec

-------------------------------------------------------------------------------
(* route, trySteal and their answers *)

(* A step that changes one frame only, into a calm one. *)
LEMMA FrameStep ==
    ASSUME OwnInv, NEW t \in Threads, NEW g \in FrameRec, op' = [op EXCEPT ![t] = g],
           op[t].resp.tag # "stolen", Calm(t, g),
           UNCHANGED <<own, body, linked, kref, fhAt, node, made>>
    PROVE  OwnInv'
<1>1. op \in [Threads -> FrameRec] /\ body \in [Nodes -> BodyRec] /\ linked \in [Nodes -> BOOLEAN]
      /\ kref \in [Nodes -> Nat] /\ fhAt \in [Nodes -> Owners]
  BY DEF OwnInv, Shape
<1>2. op' \in [Threads -> FrameRec] /\ op'[t] = g /\ \A u \in Threads : u # t => op'[u] = op[u]
  BY <1>1
<1>3. \A n \in Nodes : fhAt'[n] # 0 => Located(n)
  BY DEF OwnInv, Names
<1>4. CalmStep
  BY <1>1, <1>2, <1>3, LocalStep
<1> QED
  BY <1>4, CalmInv

(* A frame at the file on a node where it is known, or was used before. *)
LEMMA RouteLocated ==
    ASSUME OwnInv, NEW t \in Threads, op[t].pc \in {"route", "exec"}, ~Unknown(t, op[t].at),
           Target(op[t]) = "file"
    PROVE  Located(op[t].at)
<1>1. op[t].at \in Nodes /\ op[t].kind \in Kinds /\ FrameLocated(op[t])
  BY FrameType DEF OwnInv, Shape, Names
<1>2. CASE op[t].nested \/ op[t].kind \in ByHandle
  BY <1>1, <1>2 DEF FrameLocated, InUse
<1>3. CASE ~op[t].nested /\ op[t].kind \in ById
  BY <1>1, <1>3 DEF Unknown, OwnInv, Names
<1> QED
  BY <1>1, <1>2, <1>3 DEF Target, Kinds

(* A request goes to a node that is known as an owner. *)
LEMMA SendInv ==
    ASSUME OwnInv, NEW t \in Threads, op[t].pc \in {"route", "exec"}, ~Unknown(t, op[t].at),
           NEW pc \in {"steal", "call"}, Send(t, pc, own[Target(op[t])][op[t].at].owner),
           UNCHANGED rest
    PROVE  OwnInv'
<1> DEFINE i == Target(op[t])
           x == op[t].at
           y == own[i][x].owner
           g == [op[t] EXCEPT !.pc = pc, !.to = y]
<1>1. op[t] \in FrameRec /\ x \in Nodes /\ i \in Inodes /\ op[t].resp = NoAnswer /\ Shape
      /\ FrameLocated(op[t]) /\ Form(t, op[t])
  BY FrameType DEF OwnInv, Shape, Forms, Form, Names
<1>2. own[i][x].owner \in Owners /\ own[i][x].term \in Nat
  BY <1>1, CopyType
<1>3. y \in Nodes /\ (i = "file" => Located(x) /\ Located(y))
  <2>1. CASE i = "dir"
    BY <2>1, <1>1, <1>2, NodesFacts DEF OwnInv, Names
  <2>2. CASE i = "file"
    <3>1. Located(x)
      BY <2>2, RouteLocated
    <3>2. y \in Nodes
      BY <3>1, <2>2, <1>2, NodesFacts DEF Located
    <3>3. Known("file", y, own[i][x].term)
      BY <2>2, <1>1 DEF Known
    <3> QED
      BY <3>1, <3>2, <3>3, <1>2 DEF OwnInv, Names
  <2> QED
    BY <2>1, <2>2, <1>1, NodesFacts
<1>4. op' = [op EXCEPT ![t] = g] /\ UNCHANGED <<own, body, linked, kref, fhAt, node, made>>
  BY DEF Send, rest
<1>5. y \in Owners
  BY <1>3, NodesFacts
<1>6. g \in FrameRec /\ g.kind = op[t].kind /\ g.pc = pc /\ g.nested = op[t].nested
      /\ g.at = x /\ g.to = y /\ g.resp = NoAnswer
  <2> HIDE DEF y
  <2> QED
    BY <1>1, <1>5 DEF FrameRec
<1>7. Target(g) = i
  BY <1>6 DEF Target
<1> HIDE DEF g, y, x, i
<1>8. Form(t, g)
  BY <1>1, <1>6, NoAnswerType DEF Form, x
<1>9. FrameLocated(g)
  BY <1>1, <1>3, <1>6, <1>7, NoAnswerType DEF FrameLocated, InUse, x
<1>10. \A j \in Inodes, o \in Owners, k \in Nat : ~Says(g, j, o, k)
  BY <1>6, NoAnswerType DEF Says, UNKNOWN_OWNER
<1>11. Calm(t, g)
  BY <1>6, <1>8, <1>9, <1>10, NoAnswerType DEF Calm
<1> QED
  BY <1>1, <1>4, <1>6, <1>11, FrameStep, NoAnswerType

(* route. *)
LEMMA RouteInv ==
    ASSUME OwnInv, NEW t \in Threads, Route(t)
    PROVE  OwnInv'
<1>1. op[t].pc \in {"route", "exec"} /\ ~Unknown(t, op[t].at) /\ op[t].at \in Nodes
      /\ (~op[t].nested => op[t].at = NodeOf[t])
  BY FrameType DEF Route, OwnInv, Shape, Forms, Form
<1>2. CASE Send(t, "steal", own[Target(op[t])][op[t].at].owner) /\ UNCHANGED rest
  BY <1>1, <1>2, SendInv
<1>3. CASE Send(t, "call", own[Target(op[t])][op[t].at].owner) /\ UNCHANGED rest
  BY <1>1, <1>3, SendInv
<1>4. CASE Exec(t, op[t].at)
  <2>1. ~op[t].nested /\ op[t].kind \notin ByParent => Located(NodeOf[t])
    BY <1>1, RouteLocated DEF Target
  <2> QED
    BY <1>1, <1>4, <2>1, ExecInv
<1> QED
  BY <1>2, <1>3, <1>4 DEF Route

(* What a node answers that is not the owner. *)
LEMMA OtherFacts ==
    ASSUME NEW c \in CopyRec
    PROVE  /\ Other(c) \in AnswerRec /\ Other(c).tag = "other" /\ Other(c).owner = c.owner
           /\ Other(c).term = c.term /\ Other(c).child = NoAnswer.child
BY NoAnswerType DEF Other, AnswerRec, CopyRec, NoAnswer

(* The frame that gets this answer. *)
LEMMA OtherInv ==
    ASSUME OwnInv, NEW t \in Threads, op[t].pc \in {"steal", "call"}, NEW pc \in {"stolen", "reply"},
           op' = [op EXCEPT ![t] = [op[t] EXCEPT !.pc = pc,
                                                 !.resp = Other(own[Target(op[t])][op[t].to])]],
           UNCHANGED <<own, body, linked, kref, fhAt, node, made>>
    PROVE  OwnInv'
<1> DEFINE i == Target(op[t])
           y == op[t].to
           c == own[i][y]
           g == [op[t] EXCEPT !.pc = pc, !.resp = Other(c)]
<1>1. op[t] \in FrameRec /\ i \in Inodes /\ op[t].resp = NoAnswer /\ Shape
      /\ FrameLocated(op[t]) /\ Form(t, op[t]) /\ op[t].at \in Nodes
  BY FrameType DEF OwnInv, Shape, Forms, Form, Names
<1>2. y \in Nodes /\ (i = "file" => Located(y))
  BY <1>1 DEF FrameLocated
<1>3. c \in CopyRec /\ c.owner # UNKNOWN_OWNER /\ Known(i, c.owner, c.term)
  BY <1>1, <1>2, CopyType, NodesFacts DEF Located, Known, OwnInv, Names
<1>4. Other(c) \in AnswerRec /\ Other(c).tag = "other" /\ Other(c).owner = c.owner
      /\ Other(c).term = c.term /\ Other(c).child = NoAnswer.child
  BY <1>3, OtherFacts
<1>5. op' = [op EXCEPT ![t] = g]
  OBVIOUS
<1> HIDE DEF c
<1>6. g \in FrameRec /\ g.kind = op[t].kind /\ g.pc = pc /\ g.nested = op[t].nested
      /\ g.at = op[t].at /\ g.resp = Other(c)
  BY <1>1, <1>4 DEF FrameRec
<1>7. Target(g) = i
  BY <1>6 DEF Target
<1> HIDE DEF g, y, i
<1>8. Form(t, g)
  BY <1>1, <1>4, <1>6, NoAnswerType DEF Form
<1>9. FrameLocated(g)
  BY <1>1, <1>3, <1>4, <1>6, <1>7 DEF FrameLocated, InUse, i
<1>10. \A j \in Inodes, o \in Owners, k \in Nat : Says(g, j, o, k) => Known(j, o, k)
  BY <1>3, <1>4, <1>6, <1>7, NoAnswerType DEF Says, UNKNOWN_OWNER
<1>11. Calm(t, g)
  BY <1>4, <1>6, <1>8, <1>9, <1>10 DEF Calm
<1> QED
  BY <1>1, <1>5, <1>6, <1>11, FrameStep, NoAnswerType

(* The handling of a request. *)
LEMMA ServeCallInv ==
    ASSUME OwnInv, NEW t \in Threads, ServeCall(t)
    PROVE  OwnInv'
<1>1. op[t].pc = "call" /\ FrameLocated(op[t]) /\ Form(t, op[t])
  BY DEF ServeCall, OwnInv, Names, Forms
<1>2. CASE /\ op' = [op EXCEPT ![t] = [@ EXCEPT !.pc = "reply",
                                                !.resp = Other(own[Target(op[t])][op[t].to])]]
           /\ UNCHANGED rest
  BY <1>1, <1>2, OtherInv DEF rest
<1>3. CASE Exec(t, op[t].to)
  <2>1. op[t].to \in Nodes
    BY <1>1 DEF FrameLocated
  <2>2. ~op[t].nested /\ op[t].kind \notin ByParent => Located(NodeOf[t])
    BY <1>1 DEF FrameLocated, InUse, Form, Target
  <2> QED
    BY <1>1, <1>3, <2>1, <2>2, ExecInv
<1> QED
  BY <1>2, <1>3 DEF ServeCall

(* A frame that goes on after an answer. *)
LEMMA ResumeFrame ==
    ASSUME OwnInv, NEW t \in Threads, NEW pc \in {"route", "exec"}, op[t].pc \in {"stolen", "reply"},
           op' = [op EXCEPT ![t] = [op[t] EXCEPT !.pc = pc, !.resp = NoAnswer]]
    PROVE  /\ op' \in [Threads -> FrameRec] /\ \A u \in Threads : u # t => op'[u] = op[u]
           /\ Calm(t, op'[t])
           /\ op'[t].at = op[t].at /\ op'[t].resp = NoAnswer
<1> DEFINE g == [op[t] EXCEPT !.pc = pc, !.resp = NoAnswer]
<1>1. op \in [Threads -> FrameRec] /\ op[t] \in FrameRec /\ FrameLocated(op[t]) /\ Form(t, op[t])
  BY DEF OwnInv, Shape, Forms, Names
<1>2. g \in FrameRec /\ g.kind = op[t].kind /\ g.pc = pc /\ g.nested = op[t].nested
      /\ g.at = op[t].at /\ g.resp = NoAnswer
  BY <1>1, NoAnswerType DEF FrameRec
<1> HIDE DEF g
<1>3. op' = [op EXCEPT ![t] = g]
  BY DEF g
<1>4. op' \in [Threads -> FrameRec] /\ op'[t] = g /\ \A u \in Threads : u # t => op'[u] = op[u]
  BY <1>1, <1>2, <1>3
<1>5. Target(g) = Target(op[t])
  BY <1>2 DEF Target
<1>6. InUse(g) => InUse(op[t])
  BY <1>2, <1>5 DEF InUse
<1>7. Form(t, g) /\ FrameLocated(g)
  BY <1>1, <1>2, <1>6, NoAnswerType DEF Form, FrameLocated
<1>8. \A j \in Inodes, o \in Owners, k \in Nat : ~Says(g, j, o, k)
  BY <1>2, NoAnswerType DEF Says, UNKNOWN_OWNER
<1> QED
  BY <1>2, <1>4, <1>7, <1>8, NoAnswerType DEF Calm

(* A node hears of an owner and tries again. *)
Redirect(t) ==
    /\ op[t].pc \in {"stolen", "reply"} /\ op[t].resp.tag = "other" /\ node[op[t].at] # "dead"
    /\ own' = [own EXCEPT ![Target(op[t])][op[t].at] = applyOwner(@, op[t].resp)]
    /\ Hears(own[Target(op[t])][op[t].at], op[t].resp, op[t].at)
    /\ op' = [op EXCEPT ![t] = [op[t] EXCEPT !.pc = "route", !.resp = NoAnswer]]
    /\ UNCHANGED <<body, linked, kref, fhAt, node, made>>

(* applyOwner: a node that hears of a later owner gives nothing up and gets nothing. *)
LEMMA RedirectCalm ==
    ASSUME OwnInv, NEW t \in Threads, Redirect(t), ~early'
    PROVE  /\ CalmStep
           /\ \A j \in Inodes, n \in Nodes : own[j][n].owner = n /\ own[j][n].ready => own'[j][n] = own[j][n]
<1> DEFINE i == Target(op[t])
           x == op[t].at
           r == op[t].resp
           c == own[i][x]
           d == applyOwner(c, r)
<1>0. op[t].pc \in {"stolen", "reply"} /\ r.tag = "other" /\ node[x] # "dead"
      /\ UNCHANGED <<body, linked, kref, fhAt, node, made>>
  BY DEF Redirect
<1>1. op[t] \in FrameRec /\ x \in Nodes /\ i \in Inodes /\ Shape /\ FrameLocated(op[t])
      /\ Form(t, op[t]) /\ r.owner \in Owners /\ r.term \in Nat
      /\ own \in [Inodes -> [Nodes -> CopyRec]]
  BY FrameType DEF OwnInv, Shape, Forms, Names
<1>2. c \in CopyRec /\ c.owner \in Owners /\ c.term \in Nat
  BY <1>1, CopyType
<1>3. r.owner # UNKNOWN_OWNER /\ Known(i, r.owner, r.term)
  BY <1>0, <1>1 DEF FrameLocated, Known, Says
<1>4. d = c \/ (c.term < r.term /\ d = [c EXCEPT !.term = r.term, !.owner = r.owner])
  BY DEF applyOwner
<1> HIDE DEF d
<1>5. d \in CopyRec
  BY <1>1, <1>2, <1>4 DEF CopyRec
<1>6. /\ own' \in [Inodes -> [Nodes -> CopyRec]]
      /\ \A j \in Inodes, n \in Nodes : own'[j][n] = (IF j = i /\ n = x THEN d ELSE own[j][n])
  <2>1. own' = [own EXCEPT ![i][x] = d]
    BY DEF d, Redirect
  <2>2. own \in [Inodes -> [Nodes -> CopyRec]] /\ i \in Inodes /\ x \in Nodes
    BY <1>1
  <2> HIDE DEF i, x
  <2>3. /\ [own EXCEPT ![i][x] = d] \in [Inodes -> [Nodes -> CopyRec]]
        /\ \A j \in Inodes, n \in Nodes :
             [own EXCEPT ![i][x] = d][j][n] = (IF j = i /\ n = x THEN d ELSE own[j][n])
    BY <2>2, <1>5, OneCopyChanged
  <2> QED
    BY <2>1, <2>3
<1>7. d = c \/ (Follows(i, x, d) /\ ~(c.ready /\ c.owner = x))
  <2> SUFFICES ASSUME c.term < r.term, d = [c EXCEPT !.term = r.term, !.owner = r.owner]
               PROVE  Follows(i, x, d) /\ ~(c.ready /\ c.owner = x)
    BY <1>4
  <2>1. d.owner = r.owner /\ d.term = r.term /\ d.ready = c.ready
    BY <1>2 DEF CopyRec
  <2>2. ~(c.ready /\ c.owner = x)
    <3> SUFFICES ASSUME c.ready, c.owner = x PROVE FALSE
      OBVIOUS
    <3>1. Has(i, x, c.term)
      BY <1>0, <1>1 DEF Has, Holders
    <3>2. r.term < c.term \/ r.term = c.term
      BY <3>1, <1>1, <1>2, <1>3 DEF OwnInv, Lead
    <3> QED
      BY <3>2, <1>1, <1>2
  <2>3. c.ready => i = "dir" /\ Root
    BY <2>2, <1>1 DEF OwnInv, Ready
  <2>4. ~(r.owner = x /\ c.ready)
    <3> SUFFICES ASSUME r.owner = x, c.ready PROVE FALSE
      OBVIOUS
    <3>1. d.owner = x /\ c.owner # x
      BY <2>1, <2>2
    <3> QED
      BY <3>1 DEF d, Hears, Redirect
  <2> QED
    BY <2>1, <2>2, <2>3, <2>4, <1>1, <1>2, <1>3 DEF Follows
<1>8. op' \in [Threads -> FrameRec] /\ Calm(t, op'[t]) /\ \A u \in Threads : u # t => op'[u] = op[u]
  BY <1>0, ResumeFrame DEF Redirect
<1>9. Shape'
  BY <1>0, <1>1, <1>6, <1>8 DEF Shape
<1>10. \A n \in Nodes : own["file"][n].owner # 0 => own'["file"][n].owner # 0
  BY <1>6, <1>7, NodesFacts DEF Follows, UNKNOWN_OWNER
<1>11. \A n \in Nodes : body'[n].known \/ linked'[n] \/ fhAt'[n] # 0 => own'["file"][n].owner # 0
  BY <1>0, <1>10 DEF OwnInv, Names, Located, UNKNOWN_OWNER
<1>12. CalmStep
  BY <1>0, <1>1, <1>6, <1>7, <1>8, <1>9, <1>11 DEF CalmStep
<1> QED
  BY <1>6, <1>7, <1>12

(* So it preserves the invariant. *)
LEMMA RedirectInv ==
    ASSUME OwnInv, NEW t \in Threads, Redirect(t), ~early'
    PROVE  OwnInv'
BY RedirectCalm, CalmInv

(* The kernel's references after an operation. *)
LEMMA KernelType ==
    ASSUME Shape, NEW t \in Threads, NEW y \in Owners, NEW ok \in BOOLEAN, Kernel(t, y, ok)
    PROVE  /\ kref' \in [Nodes -> Nat] /\ fhAt' \in [Nodes -> Owners]
           /\ \A n \in Nodes : \/ fhAt'[n] = fhAt[n] \/ fhAt'[n] = 0
                               \/ n = NodeOf[t] /\ ok /\ op[t].kind \in {"open", "create"}
<1>0. kref \in [Nodes -> Nat] /\ fhAt \in [Nodes -> Owners] /\ NodeOf[t] \in Nodes /\ 0 \in Owners
  BY NodesFacts DEF Shape, UNKNOWN_OWNER
<1>1. kref' \in [Nodes -> Nat]
  BY <1>0 DEF Kernel
<1>2. \/ fhAt' = [fhAt EXCEPT ![NodeOf[t]] = y] /\ ok /\ op[t].kind \in {"open", "create"}
      \/ fhAt' = [fhAt EXCEPT ![NodeOf[t]] = 0]
      \/ fhAt' = fhAt
  BY DEF Kernel
<1> QED
  BY <1>0, <1>1, <1>2

(* The answer of a finished operation is back at the node that asked. *)
LEMMA ReturnInv ==
    ASSUME OwnInv, NEW t \in Threads, op[t].pc = "reply", ~op[t].nested,
           op[t].resp.tag \in {"done", "fail"},
           op' = [op EXCEPT ![t] = Idle(t)],
           Kernel(t, op[t].to, op[t].resp.tag = "done"),
           IF op[t].resp.tag = "done" /\ op[t].kind \in {"lookup", "create"}
           THEN ensure(op[t].at, op[t].resp.child) ELSE UNCHANGED <<own, body>>,
           UNCHANGED <<linked, node, made>>
    PROVE  OwnInv'
<1> DEFINE x == op[t].at
           r == op[t].resp
           c == [owner |-> r.child.owner, term |-> r.child.term, ready |-> FALSE]
           b == [Blank EXCEPT !.known = TRUE]
<1>1. op[t] \in FrameRec /\ x \in Nodes /\ Shape /\ FrameLocated(op[t]) /\ x = NodeOf[t]
      /\ op[t].to \in Owners /\ r.child.owner \in Owners /\ r.child.term \in Nat
      /\ op \in [Threads -> FrameRec] /\ own \in [Inodes -> [Nodes -> CopyRec]]
      /\ body \in [Nodes -> BodyRec]
  BY FrameType DEF OwnInv, Shape, Forms, Form, Names
<1>2. /\ op' \in [Threads -> FrameRec] /\ op'[t] = Idle(t)
      /\ \A u \in Threads : u # t => op'[u] = op[u]
  BY <1>1, IdleType
<1>3. /\ kref' \in [Nodes -> Nat] /\ fhAt' \in [Nodes -> Owners]
      /\ \A n \in Nodes : \/ fhAt'[n] = fhAt[n] \/ fhAt'[n] = 0
                          \/ n = x /\ r.tag = "done" /\ op[t].kind \in {"open", "create"}
  BY <1>1, KernelType
<1>4. op[t].kind = "open" => Located(x)
  BY <1>1 DEF FrameLocated, InUse, Target, ByParent
<1>5. r.tag = "done" /\ op[t].kind \in {"lookup", "create"} => r.child.owner # UNKNOWN_OWNER
  BY <1>1 DEF FrameLocated
<1>6. \A n \in Nodes : body[n].known \/ linked[n] \/ fhAt[n] # 0 => Located(n)
  BY DEF OwnInv, Names
<1>7. CASE own' = own /\ body' = body
           /\ (r.tag = "done" /\ op[t].kind \in {"lookup", "create"} => Located(x))
  <2>1. \A n \in Nodes : fhAt'[n] # 0 => Located(n)
    BY <1>3, <1>4, <1>6, <1>7
  <2> QED
    BY <2>1, <1>1, <1>2, <1>3, <1>7, IdleCalm, LocalStep, CalmInv DEF Shape
<1>8. CASE /\ r.tag = "done" /\ op[t].kind \in {"lookup", "create"}
           /\ own' = [own EXCEPT !["file"][x] = c] /\ body' = [body EXCEPT ![x] = b]
  <2>1. c \in CopyRec /\ c.owner = r.child.owner /\ c.term = r.child.term /\ ~c.ready /\ b \in BodyRec
    BY <1>1, NewBodies DEF CopyRec
  <2> HIDE DEF c, b
  <2>2. /\ own' \in [Inodes -> [Nodes -> CopyRec]]
        /\ \A j \in Inodes, n \in Nodes : own'[j][n] = (IF j = "file" /\ n = x THEN c ELSE own[j][n])
    <3>1. /\ [own EXCEPT !["file"][x] = c] \in [Inodes -> [Nodes -> CopyRec]]
          /\ \A j \in Inodes, n \in Nodes :
               [own EXCEPT !["file"][x] = c][j][n] = (IF j = "file" /\ n = x THEN c ELSE own[j][n])
      BY <2>1, <1>1, NodesFacts, OneCopyChanged
    <3> QED
      BY <3>1, <1>8
  <2>3. body' \in [Nodes -> BodyRec] /\ \A n \in Nodes : n # x => body'[n] = body[n]
    BY <2>1, <1>1, <1>8
  <2>4. Shape'
    BY <2>2, <2>3, <1>1, <1>2, <1>3 DEF Shape
  <2>5. Known("file", c.owner, c.term)
    BY <2>1, <1>5, <1>8 DEF Known, Says
  <2>6. Follows("file", x, c)
    BY <2>1, <2>5, <1>5, <1>8 DEF Follows
  <2>7. \A n \in Nodes : body'[n].known \/ linked'[n] \/ fhAt'[n] # 0 => own'["file"][n].owner # 0
    <3> TAKE n \in Nodes
    <3>1. CASE n = x
      BY <3>1, <2>1, <2>2, <1>5, <1>8, NodesFacts DEF UNKNOWN_OWNER
    <3>2. CASE n # x
      BY <3>2, <2>2, <2>3, <1>3, <1>6, NodesFacts DEF Located, UNKNOWN_OWNER
    <3> QED
      BY <3>1, <3>2
  <2>8. \A j \in Inodes, n \in Nodes : own'[j][n] = own[j][n] \/ Follows(j, n, own'[j][n])
    BY <2>2, <2>6
  <2>9. CalmStep
    BY <2>4, <2>7, <2>8, <1>2, IdleCalm DEF CalmStep
  <2> QED
    BY <2>9, CalmInv
<1> QED
  BY <1>1, <1>6, <1>7, <1>8 DEF ensure

(* The answers to requests. *)
LEMMA ApplyReplyInv ==
    ASSUME OwnInv, NEW t \in Threads, ApplyReply(t), ~early'
    PROVE  OwnInv'
<1>1. op[t].pc = "reply" /\ node[op[t].at] # "dead" /\ UNCHANGED <<linked, made>>
  BY DEF ApplyReply
<1>2. /\ Shape /\ op[t] \in FrameRec /\ op[t].at \in Nodes /\ Form(t, op[t]) /\ FrameLocated(op[t])
      /\ op \in [Threads -> FrameRec] /\ node \in [Nodes -> {"up", "unmounted", "joined", "dead"}]
      /\ linked \in [Nodes -> BOOLEAN] /\ body \in [Nodes -> BodyRec]
  BY FrameType DEF OwnInv, Shape, Forms, Names
<1>3. op[t].resp.tag # "stolen"
  BY <1>1, <1>2 DEF Form
<1>4. CASE /\ op[t].resp.tag = "other"
           /\ own' = [own EXCEPT ![Target(op[t])][op[t].at] = applyOwner(@, op[t].resp)]
           /\ Hears(own[Target(op[t])][op[t].at], op[t].resp, op[t].at)
           /\ op' = [op EXCEPT ![t] = [@ EXCEPT !.pc = "route", !.resp = NoAnswer]]
           /\ UNCHANGED <<body, kref, fhAt, node>>
  BY <1>1, <1>4, RedirectInv DEF Redirect
<1>5. CASE /\ op[t].resp.tag = "done" /\ op[t].nested
           /\ Answer(t, op[t].at, TRUE, own["file"][op[t].at]) /\ UNCHANGED <<own, body, node>>
  <2> DEFINE x == op[t].at
  <2>1. op[t].kind \in ByParent /\ op[t].kind # "create" /\ Located(x)
    BY <1>2, <1>5 DEF Form, ByParent, FrameLocated, InUse
  <2>2. own["file"][x] \in CopyRec /\ Known("file", own["file"][x].owner, own["file"][x].term)
        /\ own["file"][x].owner # UNKNOWN_OWNER
    BY <2>1, <1>2, CopyType, NodesFacts DEF Known, Located
  <2>3. /\ op' \in [Threads -> FrameRec] /\ kref' \in [Nodes -> Nat] /\ fhAt' \in [Nodes -> Owners]
        /\ \A u \in Threads : op'[u] = op[u] \/ (Calm(u, op'[u]) /\ op[u].resp.tag # "stolen")
        /\ \A n \in Nodes : fhAt'[n] # 0 => Located(n)
    BY <2>1, <2>2, <1>2, <1>3, <1>5, AnswerCalm
  <2> QED
    BY <2>3, <1>1, <1>2, <1>5, LocalStep, CalmInv
<1>6. CASE /\ op[t].resp.tag \in {"done", "fail"} /\ ~op[t].nested
           /\ op' = [op EXCEPT ![t] = Idle(t)]
           /\ Kernel(t, op[t].to, op[t].resp.tag = "done")
           /\ IF op[t].resp.tag = "done" /\ op[t].kind \in {"lookup", "create"}
              THEN ensure(op[t].at, op[t].resp.child) ELSE UNCHANGED <<own, body>>
           /\ UNCHANGED node
  BY <1>1, <1>6, ReturnInv
<1>7. CASE /\ op' = [op EXCEPT ![t] = Idle(t)]
           /\ node' = [node EXCEPT ![op[t].at] = IF @ = "up" THEN "unmounted" ELSE @]
           /\ UNCHANGED <<own, body, kref, fhAt>>
  <2>1. /\ op' \in [Threads -> FrameRec] /\ op'[t] = Idle(t)
        /\ \A u \in Threads : u # t => op'[u] = op[u]
    BY <1>2, <1>7, IdleType
  <2>2. node' \in [Nodes -> {"up", "unmounted", "joined", "dead"}]
        /\ \A n \in Nodes : node[n] = "dead" => node'[n] = "dead"
    BY <1>2, <1>7
  <2>3. Shape'
    BY <2>1, <2>2, <1>1, <1>2, <1>7 DEF Shape
  <2>4. \A n \in Nodes : body'[n].known \/ linked'[n] \/ fhAt'[n] # 0 => own'["file"][n].owner # 0
    BY <1>1, <1>7 DEF OwnInv, Names, Located, UNKNOWN_OWNER
  <2>5. CalmStep
    BY <2>1, <2>2, <2>3, <2>4, <1>1, <1>3, <1>7, IdleCalm DEF CalmStep
  <2> QED
    BY <2>5, CalmInv
<1> QED
  BY <1>4, <1>5, <1>6, <1>7 DEF ApplyReply

-------------------------------------------------------------------------------
(* The transfer of an inode *)

(* Only the holder of an inode gives it away. *)
LEMMA HolderAlone ==
    ASSUME OwnInv, NEW i \in Inodes, NEW y \in Holders(i)
    PROVE  /\ Has(i, y, own[i][y].term) /\ Holders(i) = {y} /\ Carriers(i) = {}
           /\ \A o \in Owners, k \in Nat : Known(i, o, k) => k <= own[i][y].term
<1>1. y \in Nodes /\ Shape /\ Lead
  BY DEF Holders, OwnInv
<1>2. own[i][y].term \in Nat /\ Has(i, y, own[i][y].term)
  BY <1>1, CopyType DEF Has
<1>3. \A h \in Holders(i) : h = y
  <2> TAKE h \in Holders(i)
  <2>1. h \in Nodes /\ own[i][h].term \in Nat /\ Has(i, h, own[i][h].term)
    BY <1>1, CopyType DEF Has, Holders
  <2> QED
    BY <1>1, <1>2, <2>1, HasOnce
<1>4. \A o \in Owners, k \in Nat : Known(i, o, k) => k <= own[i][y].term
  BY <1>1, <1>2 DEF Lead
<1> QED
  BY <1>2, <1>3, <1>4 DEF OwnInv, Token

(* While an answer carries an inode, nobody has it. *)
LEMMA CarrierAlone ==
    ASSUME OwnInv, NEW i \in Inodes, NEW t \in Carriers(i)
    PROVE  /\ Has(i, op[t].at, op[t].resp.term) /\ Holders(i) = {} /\ Carriers(i) = {t}
           /\ \A o \in Owners, k \in Nat : Known(i, o, k) => k <= op[t].resp.term
<1>1. t \in Threads /\ op[t].at \in Nodes /\ op[t].resp.term \in Nat /\ Lead
  BY FrameType DEF Carriers, OwnInv, Shape
<1>2. Has(i, op[t].at, op[t].resp.term)
  BY DEF Has
<1>3. \A o \in Owners, k \in Nat : Known(i, o, k) => k <= op[t].resp.term
  BY <1>1, <1>2 DEF Lead
<1> QED
  BY <1>2, <1>3 DEF OwnInv, Token

(* tryYield: the owner's copy names the next owner, and so does the answer, with one term   *)
(* more.                                                                                    *)
Yields(t) ==
    /\ op[t].pc = "steal"
    /\ op[t].to \in Holders(Target(op[t]))
    /\ op' = [op EXCEPT ![t] = [op[t] EXCEPT !.pc = "stolen",
                                             !.resp = Yielded(Target(op[t]), op[t].to)]]
    /\ own' = [own EXCEPT ![Target(op[t])][op[t].to] =
                    GivenAway(own[Target(op[t])][op[t].to], op[t].at)]
    /\ body' \in [Nodes -> BodyRec] /\ \A n \in Nodes : body'[n].known => body[n].known
    /\ linked' \in [Nodes -> BOOLEAN] /\ \A n \in Nodes : linked'[n] => linked[n]
    /\ UNCHANGED <<kref, fhAt, node, made>>

(* What is in that answer. *)
LEMMA YieldedFacts ==
    ASSUME Shape, NEW i \in Inodes, NEW y \in Nodes
    PROVE  /\ Yielded(i, y) \in AnswerRec /\ Yielded(i, y).tag = "stolen"
           /\ Yielded(i, y).term = own[i][y].term + 1
           /\ Yielded(i, y).linked = linked[y] /\ Yielded(i, y).refcnt = body[y].refcnt
           /\ Yielded(i, y).attr = body[y].attr
           /\ Yielded(i, y).child.owner = own["file"][y].owner
           /\ Yielded(i, y).child.term = own["file"][y].term
<1> DEFINE tm == own[i][y].term + 1
           p  == pbInode(own["file"][y])
<1>1. tm \in Nat
  BY CopyType
<1>2. body[y].refcnt \in Nat /\ body[y].attr \in Nat /\ linked[y] \in BOOLEAN
  BY DEF Shape, BodyRec
<1>3. p \in [owner: Owners, term: Nat] /\ p.owner = own["file"][y].owner /\ p.term = own["file"][y].term
  BY CopyType, NodesFacts DEF pbInode
<1>4. Yielded(i, y) = [NoAnswer EXCEPT !.tag = "stolen", !.term = tm, !.refcnt = body[y].refcnt,
                                       !.attr = body[y].attr, !.linked = linked[y], !.child = p]
  BY DEF Yielded
<1> HIDE DEF tm, p
<1>5. Yielded(i, y) \in AnswerRec /\ Yielded(i, y).tag = "stolen" /\ Yielded(i, y).term = tm
      /\ Yielded(i, y).linked = linked[y] /\ Yielded(i, y).child = p
      /\ Yielded(i, y).refcnt = body[y].refcnt /\ Yielded(i, y).attr = body[y].attr
  BY <1>1, <1>2, <1>3, <1>4, NoAnswerType DEF AnswerRec
<1> QED
  BY <1>3, <1>5 DEF tm

(* Giving an inode away preserves the invariant: its owner is replaced by one answer. *)
LEMMA YieldInv ==
    ASSUME OwnInv, NEW t \in Threads, Yields(t)
    PROVE  OwnInv'
<1>i. PICK i \in Inodes : i = Target(op[t])
  BY FrameType DEF OwnInv, Shape
<1> DEFINE x == op[t].at
           y == op[t].to
           k0 == own[i][y].term
           d == GivenAway(own[i][y], x)
           r == Yielded(i, y)
           g == [op[t] EXCEPT !.pc = "stolen", !.resp = r]
<1>0. op[t].pc = "steal" /\ y \in Holders(i) /\ UNCHANGED <<kref, fhAt, node, made>>
      /\ body' \in [Nodes -> BodyRec] /\ linked' \in [Nodes -> BOOLEAN]
      /\ \A n \in Nodes : (body'[n].known => body[n].known) /\ (linked'[n] => linked[n])
  BY <1>i DEF Yields
<1>1. op[t] \in FrameRec /\ x \in Nodes /\ i \in Inodes /\ Shape /\ FrameLocated(op[t])
      /\ Form(t, op[t]) /\ op \in [Threads -> FrameRec] /\ own \in [Inodes -> [Nodes -> CopyRec]]
  BY FrameType DEF OwnInv, Shape, Forms, Names
<1>2. y \in Nodes /\ node[y] # "dead" /\ own[i][y].owner = y /\ own[i][y].ready
      /\ x # UNKNOWN_OWNER /\ y # UNKNOWN_OWNER /\ x \in Owners
  BY <1>0, <1>1, NodesFacts DEF Holders
<1>3. /\ k0 \in Nat /\ Has(i, y, k0) /\ Holders(i) = {y} /\ Carriers(i) = {}
      /\ \A o \in Owners, k \in Nat : Known(i, o, k) => k <= k0
  BY <1>0, <1>1, <1>2, HolderAlone, CopyType
<1>4. d \in CopyRec /\ d.owner = x /\ d.term = k0 + 1 /\ ~d.ready
  BY <1>2, <1>3 DEF GivenAway, CopyRec
<1>5. /\ r \in AnswerRec /\ r.tag = "stolen" /\ r.term = k0 + 1 /\ r.linked = linked[y]
      /\ r.child.owner = own["file"][y].owner /\ r.child.term = own["file"][y].term
  BY <1>1, <1>2, YieldedFacts
<1>6. op' = [op EXCEPT ![t] = g] /\ own' = [own EXCEPT ![i][y] = d]
  BY <1>i DEF Yields
<1> HIDE DEF r, d
<1>7. g \in FrameRec /\ g.kind = op[t].kind /\ g.pc = "stolen" /\ g.nested = op[t].nested /\ g.at = x
      /\ g.resp = r
  BY <1>1, <1>5 DEF FrameRec
<1>8. Target(g) = i
  BY <1>7, <1>i DEF Target
<1> HIDE DEF g
<1>9. op' \in [Threads -> FrameRec] /\ op'[t] = g /\ \A u \in Threads : u # t => op'[u] = op[u]
  BY <1>1, <1>6, <1>7
<1> HIDE DEF x, y, k0
<1>10. /\ own' \in [Inodes -> [Nodes -> CopyRec]]
       /\ \A j \in Inodes, n \in Nodes : own'[j][n] = (IF j = i /\ n = y THEN d ELSE own[j][n])
  <2>1. /\ [own EXCEPT ![i][y] = d] \in [Inodes -> [Nodes -> CopyRec]]
        /\ \A j \in Inodes, n \in Nodes :
             [own EXCEPT ![i][y] = d][j][n] = (IF j = i /\ n = y THEN d ELSE own[j][n])
    BY <1>1, <1>2, <1>4, OneCopyChanged
  <2> QED
    BY <2>1, <1>6
<1>11. \A j \in Inodes, o \in Owners, k \in Nat :
         Known(j, o, k)' => Known(j, o, k) \/ (j = i /\ o = x /\ k = k0 + 1)
  <2> TAKE j \in Inodes, o \in Owners, k \in Nat
  <2>1. ASSUME NEW n \in Nodes, own'[j][n].owner = o, own'[j][n].term = k
        PROVE  Known(j, o, k) \/ (j = i /\ o = x /\ k = k0 + 1)
    BY <2>1, <1>4, <1>10 DEF Known
  <2>2. ASSUME NEW u \in Threads, Says(op'[u], j, o, k)
        PROVE  Known(j, o, k) \/ (j = i /\ o = x /\ k = k0 + 1)
    <3>1. CASE u = t
      <4>1. \/ i = j /\ x = o /\ r.term = k
            \/ j = "file" /\ r.child.owner = o /\ r.child.term = k
        BY <2>2, <3>1, <1>5, <1>7, <1>8, <1>9 DEF Says
      <4> QED
        BY <4>1, <1>2, <1>5 DEF Known
    <3>2. CASE u # t
      BY <2>2, <3>2, <1>9 DEF Known
    <3> QED
      BY <3>1, <3>2
  <2> QED
    BY <2>1, <2>2 DEF Known
<1>12. op[t].resp.tag # "stolen"
  BY <1>0, <1>1 DEF Form
<1>13. /\ Holders(i)' = {} /\ Carriers(i)' \subseteq {t}
       /\ node'[x] # "dead" => t \in Carriers(i)'
  <2>1. Holders(i)' = {}
    BY <1>0, <1>1, <1>3, <1>4, <1>10 DEF Holders
  <2>2. \A u \in Threads : u # t => (u \in Carriers(i)' <=> u \in Carriers(i))
    BY <1>0, <1>9 DEF Carriers
  <2>3. node'[x] # "dead" => t \in Carriers(i)'
    BY <1>5, <1>7, <1>8, <1>9 DEF Carriers
  <2> QED
    BY <2>1, <2>2, <2>3, <1>3 DEF Carriers
<1>14. \A j \in Inodes : j # i =>
          /\ Holders(j)' = Holders(j) /\ Carriers(j)' = Carriers(j)
          /\ \A n \in Nodes : own'[j][n] = own[j][n]
          /\ \A u \in Carriers(j) : op'[u] = op[u]
  <2> TAKE j \in Inodes
  <2> SUFFICES ASSUME j # i
               PROVE  /\ Holders(j)' = Holders(j) /\ Carriers(j)' = Carriers(j)
                      /\ \A n \in Nodes : own'[j][n] = own[j][n]
                      /\ \A u \in Carriers(j) : op'[u] = op[u]
    OBVIOUS
  <2>1. \A n \in Nodes : own'[j][n] = own[j][n]
    BY <1>10
  <2>2. t \notin Carriers(j) /\ t \notin Carriers(j)'
    BY <1>8, <1>9, <1>12 DEF Carriers
  <2>3. \A u \in Threads : u # t => (u \in Carriers(j)' <=> u \in Carriers(j))
    BY <1>0, <1>9 DEF Carriers
  <2> QED
    BY <2>1, <2>2, <2>3, <1>0, <1>9 DEF Carriers, Holders
<1>15. \A j \in Inodes, z \in Nodes, m \in Nat :
         Has(j, z, m)' => (j # i /\ Has(j, z, m)) \/ (j = i /\ z = x /\ m = k0 + 1)
  <2> TAKE j \in Inodes, z \in Nodes, m \in Nat
  <2>1. CASE j = i
    BY <2>1, <1>5, <1>7, <1>9, <1>13 DEF Has
  <2>2. CASE j # i
    BY <2>2, <1>14 DEF Has
  <2> QED
    BY <2>1, <2>2
<1>16. Shape'
  BY <1>0, <1>1, <1>9, <1>10 DEF Shape
<1>17. Forms'
  <2>1. Form(t, g)
    BY <1>1, <1>5, <1>7 DEF Form, x
  <2> QED
    BY <2>1, <1>9 DEF OwnInv, Forms
<1>18. Names'
  <2>1. \A n \in Nodes : Located(n) => Located(n)'
    BY <1>2, <1>4, <1>10, NodesFacts DEF Located
  <2>2. \A n \in Nodes : own'["dir"][n].owner # UNKNOWN_OWNER
    BY <1>2, <1>4, <1>10, NodesFacts DEF OwnInv, Names
  <2>3. \A n \in Nodes : body'[n].known \/ linked'[n] \/ fhAt'[n] # 0 => Located(n)'
    BY <2>1, <1>0 DEF OwnInv, Names
  <2>4. i = "file" => Located(x)
    BY <1>0, <1>1, <1>i DEF FrameLocated, InUse, x
  <2>5. \A o \in Nodes, k \in Nat : Known("file", o, k)' => Located(o)'
    BY <2>1, <2>4, <1>11, NodesFacts DEF OwnInv, Names
  <2>6. FrameLocated(g)
    <3>1. InUse(g) => InUse(op[t])
      BY <1>0, <1>7, <1>8, <1>i DEF InUse
    <3>2. r.linked => r.child.owner # UNKNOWN_OWNER
      BY <1>2, <1>5 DEF OwnInv, Names, Located
    <3> QED
      BY <3>1, <3>2, <1>1, <1>5, <1>7 DEF FrameLocated, x
  <2>7. \A u \in Threads : FrameLocated(op[u])'
    <3> TAKE u \in Threads
    <3>1. FrameLocated(op'[u]) /\ op'[u].at \in Nodes
      BY <2>6, <1>9, FrameType DEF OwnInv, Names
    <3> QED
      BY <3>1, <2>1 DEF FrameLocated
  <2> QED
    BY <2>2, <2>3, <2>5, <2>7 DEF Names
<1>19. Lead'
  <2> SUFFICES ASSUME NEW j \in Inodes, NEW o \in Owners, NEW z \in Nodes, NEW m \in Nat, NEW k \in Nat,
                      Known(j, o, k)', Has(j, z, m)'
               PROVE  k < m \/ (k = m /\ o \in {z, UNKNOWN_OWNER})
    BY DEF Lead
  <2>1. CASE j # i
    BY <2>1, <1>11, <1>15 DEF OwnInv, Lead
  <2>2. CASE j = i
    <3>1. z = x /\ m = k0 + 1
      BY <2>2, <1>15
    <3>2. (Known(j, o, k) /\ k <= k0) \/ (o = x /\ k = k0 + 1)
      BY <2>2, <1>3, <1>11
    <3> QED
      BY <3>1, <3>2, <1>3
  <2> QED
    BY <2>1, <2>2
<1>20. Agree'
  <2> SUFFICES ASSUME NEW j \in Inodes, NEW o \in Nodes, NEW q \in Nodes, NEW k \in Nat,
                      Known(j, o, k)', Known(j, q, k)'
               PROVE  o = q
    BY DEF Agree
  <2>0. o \in Owners /\ q \in Owners
    BY NodesFacts
  <2>1. CASE Known(j, o, k) /\ Known(j, q, k)
    BY <2>1 DEF OwnInv, Agree
  <2>2. CASE j = i /\ k = k0 + 1
    <3>1. ~(k <= k0)
      BY <2>2, <1>3
    <3> QED
      BY <3>1, <2>0, <2>2, <1>3, <1>11
  <2> QED
    BY <2>0, <2>1, <2>2, <1>11
<1>21. Token'
  BY <1>13, <1>14 DEF OwnInv, Token
<1>22. Ready'
  BY <1>4, <1>10 DEF OwnInv, Ready
<1>24. Unmade'
  <2> SUFFICES ASSUME ~made' PROVE \A o \in Owners, k \in Nat :
                        Known("file", o, k)' => o = UNKNOWN_OWNER /\ k = 0
    BY DEF Unmade
  <2>1. ~made
    BY <1>0
  <2>2. i # "file"
    <3> SUFFICES ASSUME i = "file" PROVE FALSE
      OBVIOUS
    <3>1. Known("file", y, k0)
      BY <1>2 DEF Known, k0
    <3> QED
      BY <3>1, <2>1, <1>2, <1>3, NodesFacts DEF OwnInv, Unmade
  <2> QED
    BY <2>1, <2>2, <1>11, NodesFacts DEF OwnInv, Unmade
<1> QED
  BY <1>16, <1>17, <1>18, <1>19, <1>20, <1>21, <1>22, <1>24 DEF OwnInv

(* A node is asked for an inode. *)
LEMMA TryStealInv ==
    ASSUME OwnInv, NEW t \in Threads, TryStealInodeOwnership(t), ~early'
    PROVE  OwnInv'
<1> DEFINE o == op[t]
           y == o.to
           i == Target(o)
           c == own[i][y]
<1>1. o.pc = "steal" /\ node[y] # "dead" /\ UNCHANGED <<kref, fhAt, node, made>>
  BY DEF TryStealInodeOwnership
<1>2. o \in FrameRec /\ i \in Inodes /\ y \in Nodes /\ o.resp = NoAnswer /\ Shape
      /\ FrameLocated(o) /\ Form(t, o)
  BY <1>1, FrameType DEF OwnInv, Shape, Forms, Form, Names, FrameLocated
<1>3. CASE /\ op' = [op EXCEPT ![t] = [@ EXCEPT !.pc = "stolen", !.resp = Other(c)]]
           /\ UNCHANGED <<own, body, linked>>
  BY <1>1, <1>3, OtherInv
<1>4. CASE /\ op' = [op EXCEPT ![t] = [@ EXCEPT !.pc = "stolen", !.resp = [NoAnswer EXCEPT !.tag = "nil"]]]
           /\ UNCHANGED <<own, body, linked>>
  <2> DEFINE r == [NoAnswer EXCEPT !.tag = "nil"]
             g == [op[t] EXCEPT !.pc = "stolen", !.resp = r]
  <2>1. r \in AnswerRec /\ r.tag = "nil" /\ r.child = NoAnswer.child
    BY NoAnswerType DEF AnswerRec
  <2> HIDE DEF r
  <2>2. g \in FrameRec /\ g.kind = o.kind /\ g.pc = "stolen" /\ g.nested = o.nested /\ g.at = o.at
        /\ g.resp = r
    BY <2>1, <1>2 DEF FrameRec
  <2>3. op' = [op EXCEPT ![t] = g]
    BY <1>4 DEF r
  <2> HIDE DEF g
  <2>4. InUse(g) => InUse(o)
    BY <2>2, <1>1 DEF InUse, Target
  <2>5. Form(t, g) /\ FrameLocated(g)
    BY <2>1, <2>2, <2>4, <1>2 DEF Form, FrameLocated
  <2>6. \A j \in Inodes, q \in Owners, k \in Nat : ~Says(g, j, q, k)
    BY <2>1, <2>2, NoAnswerType DEF Says, UNKNOWN_OWNER
  <2>7. Calm(t, g)
    BY <2>1, <2>2, <2>5, <2>6 DEF Calm
  <2> QED
    BY <2>2, <2>3, <2>7, <1>1, <1>2, <1>4, FrameStep, NoAnswerType
<1>5. CASE /\ c.owner = y /\ Relies(c)
           /\ op' = [op EXCEPT ![t] = [@ EXCEPT !.pc = "stolen", !.resp = Yielded(i, y)]]
           /\ own' = [own EXCEPT ![i][y] = GivenAway(c, o.at)]
           /\ body' = IF i = "file" THEN [body EXCEPT ![y].refcnt = 0] ELSE body
           /\ linked' = IF i = "dir" THEN [linked EXCEPT ![y] = FALSE] ELSE linked
  <2>1. y \in Holders(i)
    BY <1>1, <1>2, <1>5 DEF Holders, Relies
  <2>2. body \in [Nodes -> BodyRec] /\ body[y] \in BodyRec /\ linked \in [Nodes -> BOOLEAN]
    BY <1>2 DEF Shape
  <2>3. [body[y] EXCEPT !.refcnt = 0] \in BodyRec
        /\ [body[y] EXCEPT !.refcnt = 0].known = body[y].known
    BY <2>2 DEF BodyRec
  <2>4. body' \in [Nodes -> BodyRec] /\ \A n \in Nodes : body'[n].known => body[n].known
    BY <2>2, <2>3, <1>2, <1>5
  <2>5. linked' \in [Nodes -> BOOLEAN] /\ \A n \in Nodes : linked'[n] => linked[n]
    BY <2>2, <1>2, <1>5
  <2>6. Yields(t)
    BY <2>1, <2>4, <2>5, <1>1, <1>5 DEF Yields
  <2> QED
    BY <2>6, YieldInv
<1> QED
  BY <1>3, <1>4, <1>5 DEF TryStealInodeOwnership

(* applyStolenInode at the next owner: the copies. *)
LEMMA StolenCopies ==
    ASSUME Shape, NEW t \in Threads, NEW i \in Inodes, i = Target(op[t]),
           applyStolenInode(i, op[t].at, op[t].resp)
    PROVE  LET x == op[t].at
               r == op[t].resp
               new == i = "dir" /\ r.linked /\ ~body[x].known
           IN  /\ own' \in [Inodes -> [Nodes -> CopyRec]]
               /\ body' \in [Nodes -> BodyRec] /\ linked' \in [Nodes -> BOOLEAN]
               /\ \A j \in Inodes, n \in Nodes :
                    (j # i /\ ~(n = x /\ new)) \/ n # x => own'[j][n] = own[j][n]
               /\ own'[i][x].owner = x /\ own'[i][x].term = r.term /\ own'[i][x].ready
               /\ new => /\ own'["file"][x].owner = r.child.owner
                         /\ own'["file"][x].term = r.child.term /\ ~own'["file"][x].ready
               /\ \A n \in Nodes : body'[n].known => body[n].known \/ (n = x /\ new)
               /\ \A n \in Nodes : linked'[n] => linked[n] \/ (n = x /\ i = "dir" /\ r.linked)
<1> DEFINE x == op[t].at
           r == op[t].resp
           new == i = "dir" /\ r.linked /\ ~body[x].known
           mine == [owner |-> x, term |-> r.term, ready |-> TRUE]
           told == [owner |-> r.child.owner, term |-> r.child.term, ready |-> FALSE]
           w == [own EXCEPT ![i][x] = mine]
           e == IF i = "file" THEN mine ELSE IF new THEN told ELSE w["file"][x]
<1>1. /\ op[t] \in FrameRec /\ x \in Nodes /\ x \in Owners /\ r.term \in Nat /\ r.linked \in BOOLEAN
      /\ r.refcnt \in Nat /\ r.attr \in Nat
      /\ r.child.owner \in Owners /\ r.child.term \in Nat
      /\ own \in [Inodes -> [Nodes -> CopyRec]] /\ body \in [Nodes -> BodyRec]
      /\ linked \in [Nodes -> BOOLEAN] /\ body[x] \in BodyRec
  BY FrameType, NodesFacts DEF Shape
<1>2. mine \in CopyRec /\ told \in CopyRec /\ mine.owner = x /\ mine.term = r.term /\ mine.ready
      /\ told.owner = r.child.owner /\ told.term = r.child.term /\ ~told.ready
  BY <1>1 DEF CopyRec
<1>3. /\ own' = [w EXCEPT !["file"][x] = e]
      /\ body' = IF i = "file" THEN [body EXCEPT ![x].refcnt = r.refcnt, ![x].attr = r.attr]
                 ELSE IF new THEN [body EXCEPT ![x] = [Blank EXCEPT !.known = TRUE]] ELSE body
      /\ linked' = IF i = "dir" THEN [linked EXCEPT ![x] = @ \/ r.linked] ELSE linked
  BY DEF applyStolenInode
<1> HIDE DEF mine, told
<1>4. /\ w \in [Inodes -> [Nodes -> CopyRec]]
      /\ \A j \in Inodes, n \in Nodes : w[j][n] = (IF j = i /\ n = x THEN mine ELSE own[j][n])
  <2> HIDE DEF x
  <2> QED
    BY <1>1, <1>2, OneCopyChanged
<1>5. e \in CopyRec
  BY <1>1, <1>2, <1>4, NodesFacts
<1> HIDE DEF w
<1>6. /\ own' \in [Inodes -> [Nodes -> CopyRec]]
      /\ \A j \in Inodes, n \in Nodes : own'[j][n] = (IF j = "file" /\ n = x THEN e ELSE w[j][n])
  <2> HIDE DEF x, e
  <2>1. /\ [w EXCEPT !["file"][x] = e] \in [Inodes -> [Nodes -> CopyRec]]
        /\ \A j \in Inodes, n \in Nodes :
             [w EXCEPT !["file"][x] = e][j][n] = (IF j = "file" /\ n = x THEN e ELSE w[j][n])
    BY <1>1, <1>4, <1>5, NodesFacts, OneCopyChanged
  <2> QED
    BY <2>1, <1>3
<1>7. \A j \in Inodes, n \in Nodes :
        (j # i /\ ~(n = x /\ new)) \/ n # x => own'[j][n] = own[j][n]
  BY <1>4, <1>6, NodesFacts
<1>8. own'[i][x] = mine /\ (new => own'["file"][x] = told)
  BY <1>1, <1>4, <1>6, NodesFacts
<1>9. body' \in [Nodes -> BodyRec] /\ \A n \in Nodes : body'[n].known => body[n].known \/ (n = x /\ new)
  <2>1. CASE i = "file"
    <3> DEFINE b == [body[x] EXCEPT !.refcnt = r.refcnt, !.attr = r.attr]
    <3>1. b \in BodyRec /\ b.known = body[x].known
      BY <1>1 DEF BodyRec
    <3>2. body' = [body EXCEPT ![x] = b]
      BY <2>1, <1>1, <1>3
    <3> HIDE DEF b
    <3> QED
      BY <3>1, <3>2, <1>1
  <2>2. CASE i # "file"
    BY <2>2, <1>1, <1>3, NewBodies
  <2> QED
    BY <2>1, <2>2
<1>10. /\ linked' \in [Nodes -> BOOLEAN]
       /\ \A n \in Nodes : linked'[n] => linked[n] \/ (n = x /\ i = "dir" /\ r.linked)
  BY <1>1, <1>3
<1> QED
  BY <1>2, <1>6, <1>7, <1>8, <1>9, <1>10

(* applyStolenInode: the inode is with the node it was on its way to. *)
Arrives(t) ==
    /\ op[t].pc = "stolen" /\ op[t].resp.tag = "stolen" /\ node[op[t].at] # "dead"
    /\ op' = [op EXCEPT ![t] = [op[t] EXCEPT !.pc = "route", !.resp = NoAnswer]]
    /\ applyStolenInode(Target(op[t]), op[t].at, op[t].resp)
    /\ UNCHANGED <<kref, fhAt, node, made>>

(* So does its arrival: the answer is replaced by one owner. *)
LEMMA ArriveInv ==
    ASSUME OwnInv, NEW t \in Threads, Arrives(t)
    PROVE  OwnInv'
<1>i. PICK i \in Inodes, x \in Nodes, r \in AnswerRec :
            i = Target(op[t]) /\ x = op[t].at /\ r = op[t].resp
  BY FrameType DEF OwnInv, Shape
<1> DEFINE new == i = "dir" /\ r.linked /\ ~body[x].known
<1>0. t \in Carriers(i) /\ UNCHANGED <<kref, fhAt, node, made>> /\ op[t].pc = "stolen" /\ r.tag = "stolen"
      /\ node[x] # "dead"
  BY <1>i DEF Arrives, Carriers
<1>1. Shape /\ FrameLocated(op[t]) /\ op[t] \in FrameRec /\ r.term \in Nat
      /\ r.child.owner \in Owners /\ r.child.term \in Nat /\ x # UNKNOWN_OWNER /\ x \in Owners
  BY <1>i, FrameType, NodesFacts DEF OwnInv, Shape, Names
<1>2. /\ own' \in [Inodes -> [Nodes -> CopyRec]]
      /\ body' \in [Nodes -> BodyRec] /\ linked' \in [Nodes -> BOOLEAN]
      /\ \A j \in Inodes, n \in Nodes :
            (j # i /\ ~(n = x /\ new)) \/ n # x => own'[j][n] = own[j][n]
      /\ own'[i][x].owner = x /\ own'[i][x].term = r.term /\ own'[i][x].ready
      /\ new => /\ own'["file"][x].owner = r.child.owner
                /\ own'["file"][x].term = r.child.term /\ ~own'["file"][x].ready
      /\ \A n \in Nodes : body'[n].known => body[n].known \/ (n = x /\ new)
      /\ \A n \in Nodes : linked'[n] => linked[n] \/ (n = x /\ i = "dir" /\ r.linked)
  BY <1>1, <1>i, StolenCopies DEF Arrives
<1>3. /\ op' \in [Threads -> FrameRec] /\ \A u \in Threads : u # t => op'[u] = op[u]
      /\ Calm(t, op'[t]) /\ op'[t].at = op[t].at /\ op'[t].resp = NoAnswer
  BY <1>0, ResumeFrame DEF Arrives
<1>4. /\ Has(i, x, r.term) /\ Holders(i) = {} /\ Carriers(i) = {t}
      /\ \A o \in Owners, k \in Nat : Known(i, o, k) => k <= r.term
  BY <1>0, <1>i, CarrierAlone
<1>5. new => r.child.owner # UNKNOWN_OWNER /\ Known("file", r.child.owner, r.child.term)
  BY <1>0, <1>1, <1>i DEF FrameLocated, Known, Says
<1>6. Known(i, x, r.term)
  BY <1>1, <1>4, HasIsKnown
<1>7. \A j \in Inodes, o \in Owners, k \in Nat : Known(j, o, k)' => Known(j, o, k)
  <2> TAKE j \in Inodes, o \in Owners, k \in Nat
  <2>1. ASSUME NEW n \in Nodes, own'[j][n].owner = o, own'[j][n].term = k
        PROVE  Known(j, o, k)
    <3>1. CASE own'[j][n] = own[j][n]
      BY <2>1, <3>1 DEF Known
    <3>2. CASE j = i /\ n = x
      BY <2>1, <3>2, <1>2, <1>6
    <3>3. CASE j # i /\ n = x /\ new
      BY <2>1, <3>3, <1>2, <1>5, NodesFacts
    <3> QED
      BY <3>1, <3>2, <3>3, <1>2
  <2>2. ASSUME NEW u \in Threads, Says(op'[u], j, o, k)
        PROVE  Known(j, o, k)
    BY <2>2, <1>3 DEF Calm, Known
  <2> QED
    BY <2>1, <2>2 DEF Known
<1>8. /\ Carriers(i)' = {} /\ Holders(i)' = {x}
      /\ \A j \in Inodes : j # i =>
            /\ Carriers(j)' = Carriers(j) /\ Holders(j)' \subseteq Holders(j)
            /\ \A n \in Holders(j)' : own'[j][n] = own[j][n]
            /\ \A u \in Carriers(j) : op'[u] = op[u]
  <2>1. \A j \in Inodes : t \notin Carriers(j)'
    BY <1>3, NoAnswerType DEF Carriers
  <2>2. \A j \in Inodes : j # i => t \notin Carriers(j)
    BY <1>i DEF Carriers
  <2>3. \A j \in Inodes, u \in Threads : u # t => (u \in Carriers(j)' <=> u \in Carriers(j))
    BY <1>0, <1>3 DEF Carriers
  <2>4. \A j \in Inodes : Carriers(j)' \subseteq Threads /\ Carriers(j) \subseteq Threads
    BY DEF Carriers
  <2>5. Carriers(i)' = {}
    <3> SUFFICES ASSUME NEW u \in Carriers(i)' PROVE FALSE
      OBVIOUS
    <3>1. u \in Threads /\ u # t
      BY <2>1, <2>4
    <3> QED
      BY <3>1, <2>3, <1>4
  <2>8. ASSUME NEW j \in Inodes, j # i
        PROVE  Carriers(j)' = Carriers(j) /\ \A u \in Carriers(j) : op'[u] = op[u]
    BY <2>1, <2>2, <2>3, <2>4, <2>8, <1>3
  <2>6. Holders(i)' = {x}
    BY <1>0, <1>2, <1>4 DEF Holders
  <2>7. \A j \in Inodes : j # i => /\ Holders(j)' \subseteq Holders(j)
                                   /\ \A n \in Holders(j)' : own'[j][n] = own[j][n]
    BY <1>0, <1>2, NodesFacts DEF Holders
  <2> QED
    BY <2>5, <2>6, <2>7, <2>8
<1>9. \A j \in Inodes, z \in Nodes, m \in Nat : Has(j, z, m)' => Has(j, z, m)
  <2> TAKE j \in Inodes, z \in Nodes, m \in Nat
  <2>1. CASE j = i
    BY <2>1, <1>2, <1>4, <1>8 DEF Has
  <2>2. CASE j # i
    BY <2>2, <1>8 DEF Has
  <2> QED
    BY <2>1, <2>2
<1>10. Shape'
  BY <1>0, <1>1, <1>2, <1>3 DEF Shape
<1>11. Forms'
  BY <1>3 DEF Calm, OwnInv, Forms
<1>12. Names'
  <2>1. \A n \in Nodes : Located(n) => Located(n)'
    BY <1>1, <1>2, <1>5, NodesFacts DEF Located
  <2>2. \A n \in Nodes : own'["dir"][n].owner # UNKNOWN_OWNER
    BY <1>1, <1>2, NodesFacts DEF OwnInv, Names
  <2>3. ASSUME NEW n \in Nodes, body'[n].known \/ linked'[n] \/ fhAt'[n] # 0
        PROVE  Located(n)'
    <3>1. CASE Located(n)
      BY <3>1, <2>1
    <3>2. CASE n = x /\ new
      BY <3>2, <1>2, <1>5 DEF Located
    <3>3. Located(n) \/ (n = x /\ new) \/ (n = x /\ body[x].known)
      BY <2>3, <1>0, <1>2 DEF OwnInv, Names
    <3> QED
      BY <3>1, <3>2, <3>3 DEF OwnInv, Names
  <2>4. \A o \in Nodes, k \in Nat : Known("file", o, k)' => Located(o)'
    BY <2>1, <1>7, NodesFacts DEF OwnInv, Names
  <2>5. \A u \in Threads : FrameLocated(op[u])'
    <3> TAKE u \in Threads
    <3>1. FrameLocated(op'[u]) /\ op'[u].at \in Nodes
      BY <1>3, FrameType DEF OwnInv, Names, Calm
    <3> QED
      BY <3>1, <2>1 DEF FrameLocated
  <2> QED
    BY <2>2, <2>3, <2>4, <2>5 DEF Names
<1>13. Lead' /\ Agree'
  <2>1. Lead'
    BY <1>7, <1>9 DEF OwnInv, Lead
  <2>2. Agree'
    BY <1>7, NodesFacts DEF OwnInv, Agree
  <2> QED
    BY <2>1, <2>2
<1>14. Token'
  BY <1>8 DEF OwnInv, Token
<1>15. Ready'
  <2> SUFFICES ASSUME NEW j \in Inodes, NEW n \in Nodes, own'[j][n].ready
               PROVE  own'[j][n].owner = n \/ (j = "dir" /\ Root)
    BY DEF Ready
  <2>1. CASE own'[j][n] = own[j][n]
    BY <2>1 DEF OwnInv, Ready
  <2>2. CASE j = i /\ n = x
    BY <2>2, <1>2
  <2>3. CASE j # i /\ n = x /\ new
    BY <2>3, <1>2, NodesFacts
  <2> QED
    BY <2>1, <2>2, <2>3, <1>2
<1>17. Unmade'
  BY <1>0, <1>7, NodesFacts DEF OwnInv, Unmade
<1> QED
  BY <1>10, <1>11, <1>12, <1>13, <1>14, <1>15, <1>17 DEF OwnInv

(* trySteal goes on. *)
LEMMA ApplyStealInv ==
    ASSUME OwnInv, NEW t \in Threads, ApplySteal(t), ~early'
    PROVE  OwnInv'
<1>1. op[t].pc = "stolen" /\ node[op[t].at] # "dead" /\ UNCHANGED <<kref, fhAt, node, made>>
  BY DEF ApplySteal
<1>2. CASE /\ op[t].resp.tag = "other"
           /\ op' = [op EXCEPT ![t] = [@ EXCEPT !.pc = "route", !.resp = NoAnswer]]
           /\ own' = [own EXCEPT ![Target(op[t])][op[t].at] = applyOwner(@, op[t].resp)]
           /\ Hears(own[Target(op[t])][op[t].at], op[t].resp, op[t].at)
           /\ UNCHANGED <<body, linked>>
  BY <1>1, <1>2, RedirectInv DEF Redirect
<1>3. CASE /\ op[t].resp.tag = "stolen"
           /\ op' = [op EXCEPT ![t] = [@ EXCEPT !.pc = "route", !.resp = NoAnswer]]
           /\ applyStolenInode(Target(op[t]), op[t].at, op[t].resp)
  BY <1>1, <1>3, ArriveInv DEF Arrives
<1>4. ASSUME NEW pc \in {"route", "exec"}, op[t].resp.tag = "nil",
             op' = [op EXCEPT ![t] = [@ EXCEPT !.pc = pc, !.resp = NoAnswer]],
             UNCHANGED <<own, body, linked>>
      PROVE  OwnInv'
  <2>1. op' \in [Threads -> FrameRec] /\ Calm(t, op'[t]) /\ \A u \in Threads : u # t => op'[u] = op[u]
    BY <1>1, <1>4, ResumeFrame
  <2>2. body \in [Nodes -> BodyRec] /\ linked \in [Nodes -> BOOLEAN]
        /\ kref \in [Nodes -> Nat] /\ fhAt \in [Nodes -> Owners]
        /\ \A n \in Nodes : fhAt[n] # 0 => Located(n)
    BY DEF OwnInv, Shape, Names
  <2> QED
    BY <2>1, <2>2, <1>1, <1>4, LocalStep, CalmInv
<1> QED
  BY <1>2, <1>3, <1>4 DEF ApplySteal

-------------------------------------------------------------------------------
(* The kernels, the flusher and failures *)

(* The kernel asks for something. *)
LEMMA BeginInv ==
    ASSUME OwnInv, NEW t \in Threads, NEW k \in Kinds, Begin(t, k)
    PROVE  OwnInv'
<1> DEFINE m == IF k = "forget" THEN kref[NodeOf[t]] ELSE 0
           g == [Idle(t) EXCEPT !.kind = k, !.pc = "route", !.n = m]
<1>1. /\ op[t].pc = "idle" /\ Wants(NodeOf[t], k) /\ op' = [op EXCEPT ![t] = g]
      /\ kref' = IF k = "forget" THEN [kref EXCEPT ![NodeOf[t]] = 0] ELSE kref
      /\ UNCHANGED <<own, body, linked, fhAt, node, made>>
  BY DEF Begin, Active
<1>2. /\ op \in [Threads -> FrameRec] /\ body \in [Nodes -> BodyRec] /\ linked \in [Nodes -> BOOLEAN]
      /\ kref \in [Nodes -> Nat] /\ fhAt \in [Nodes -> Owners] /\ NodeOf[t] \in Nodes
      /\ op[t].resp = NoAnswer /\ \A n \in Nodes : fhAt[n] # 0 => Located(n)
  BY <1>1, NodesFacts DEF OwnInv, Shape, Forms, Form, Names
<1>3. m \in Nat
  BY <1>2
<1> HIDE DEF m
<1>4. g \in FrameRec /\ g.kind = k /\ g.pc = "route" /\ ~g.nested /\ g.at = NodeOf[t] /\ g.resp = NoAnswer
  BY <1>3, IdleType DEF FrameRec
<1> HIDE DEF g
<1>5. k \in ByHandle => Located(NodeOf[t])
  BY <1>1, <1>2 DEF Wants, ByHandle
<1>6. Form(t, g) /\ FrameLocated(g)
  BY <1>4, <1>5, NoAnswerType DEF Form, FrameLocated, InUse
<1>7. \A j \in Inodes, q \in Owners, n \in Nat : ~Says(g, j, q, n)
  BY <1>4, NoAnswerType DEF Says, UNKNOWN_OWNER
<1>8. Calm(t, g)
  BY <1>4, <1>6, <1>7, NoAnswerType DEF Calm
<1>9. op' \in [Threads -> FrameRec] /\ op'[t] = g /\ \A u \in Threads : u # t => op'[u] = op[u]
  BY <1>1, <1>2, <1>4
<1>10. kref' \in [Nodes -> Nat]
  BY <1>1, <1>2
<1> QED
  BY <1>1, <1>2, <1>8, <1>9, <1>10, LocalStep, CalmInv, NoAnswerType

(* Steps that change copies of the file and nodes only. *)
LEMMA OutsideStep ==
    ASSUME OwnInv, UNCHANGED <<own, op, linked, kref, fhAt, made>>,
           body' \in [Nodes -> BodyRec], \A n \in Nodes : body'[n].known => body[n].known,
           node' \in [Nodes -> {"up", "unmounted", "joined", "dead"}],
           \A n \in Nodes : node[n] = "dead" => node'[n] = "dead"
    PROVE  OwnInv'
<1>1. Shape'
  BY DEF OwnInv, Shape
<1>2. \A n \in Nodes : body'[n].known \/ linked'[n] \/ fhAt'[n] # 0 => own'["file"][n].owner # 0
  BY DEF OwnInv, Names, Located, UNKNOWN_OWNER
<1>3. CalmStep
  BY <1>1, <1>2 DEF CalmStep
<1> QED
  BY <1>3, CalmInv

(* The flusher. *)
LEMMA FlushInv ==
    ASSUME OwnInv, NEW n \in Nodes, Flush(n)
    PROVE  OwnInv'
<1>1. body \in [Nodes -> BodyRec] /\ body[n] \in BodyRec
      /\ node \in [Nodes -> {"up", "unmounted", "joined", "dead"}]
  BY DEF OwnInv, Shape
<1>2. ASSUME NEW st \in States
      PROVE  [body[n] EXCEPT !.state = st] \in BodyRec
             /\ [body[n] EXCEPT !.state = st].known = body[n].known
  BY <1>1 DEF BodyRec
<1>3. UNCHANGED <<own, op, linked, kref, fhAt, made, node>>
  BY DEF Flush
<1>4. CASE body' = [body EXCEPT ![n].state = "CACHED"]
  <2>1. "CACHED" \in States
    BY DEF States
  <2>2. body' \in [Nodes -> BodyRec] /\ \A m \in Nodes : body'[m].known => body[m].known
    BY <2>1, <1>1, <1>2, <1>4
  <2> QED
    BY <2>2, <1>1, <1>3, OutsideStep
<1>5. CASE body' = [body EXCEPT ![n] = DeRef([@ EXCEPT !.state = "DEAD"], 0)]
  <2> DEFINE b == [body[n] EXCEPT !.state = "DEAD"]
  <2>1. b \in BodyRec /\ b.known = body[n].known
    BY <1>2 DEF States
  <2>2. DeRef(b, 0) \in BodyRec /\ (DeRef(b, 0).known => body[n].known)
    BY <2>1, DeRefType
  <2>3. body' = [body EXCEPT ![n] = DeRef(b, 0)]
    BY <1>5
  <2> HIDE DEF b
  <2>4. body' \in [Nodes -> BodyRec] /\ \A m \in Nodes : body'[m].known => body[m].known
    BY <2>2, <2>3, <1>1
  <2> QED
    BY <2>4, <1>1, <1>3, OutsideStep
<1> QED
  BY <1>4, <1>5 DEF Flush

(* The process of a node ends. *)
LEMMA CutInv ==
    ASSUME OwnInv, NEW x \in Nodes, op' = Cut(x), node' = [node EXCEPT ![x] = "dead"],
           UNCHANGED <<own, body, linked, kref, fhAt, made>>
    PROVE  OwnInv'
<1> DEFINE e == [NoAnswer EXCEPT !.tag = "error"]
           g(u) == [op[u] EXCEPT !.pc = "reply", !.nested = FALSE, !.at = NodeOf[u], !.to = x,
                                 !.resp = e]
<1>1. /\ op \in [Threads -> FrameRec] /\ node \in [Nodes -> {"up", "unmounted", "joined", "dead"}]
      /\ x \in Owners
  BY NodesFacts DEF OwnInv, Shape
<1>2. e \in AnswerRec /\ e.tag = "error" /\ e.child = NoAnswer.child
  BY NoAnswerType DEF AnswerRec
<1> HIDE DEF e
<1>3. ASSUME NEW u \in Threads
      PROVE  /\ op'[u] \in FrameRec
             /\ op'[u] = op[u] \/ (Calm(u, op'[u]) /\ op[u].at = x)
  <2>0. op'[u] = (IF ~Active(u) \/ op[u].at # x THEN op[u] ELSE IF NodeOf[u] = x THEN Idle(u) ELSE g(u))
    BY DEF Cut, e
  <2>1. op[u] \in FrameRec /\ NodeOf[u] \in Nodes /\ Form(u, op[u])
    BY <1>1, NodesFacts DEF OwnInv, Forms
  <2>2. CASE op'[u] = op[u]
    BY <2>1, <2>2
  <2>3. CASE op[u].at = x /\ op'[u] = Idle(u)
    BY <2>3, IdleCalm, IdleType
  <2>4. CASE op[u].at = x /\ NodeOf[u] # x /\ op'[u] = g(u)
    <3>1. g(u) \in FrameRec /\ g(u).kind = op[u].kind /\ g(u).pc = "reply" /\ ~g(u).nested
          /\ g(u).at = NodeOf[u] /\ g(u).resp = e
      BY <2>1, <1>1, <1>2 DEF FrameRec
    <3> HIDE DEF g
    <3>2. op[u].kind \in {"lookup", "unlink"}
      BY <2>1, <2>4 DEF Form
    <3>3. Form(u, g(u))
      BY <3>1, <1>2 DEF Form
    <3>4. FrameLocated(g(u))
      BY <3>1, <3>2, <1>2 DEF FrameLocated, InUse, Target, ByHandle, ByParent
    <3>5. \A j \in Inodes, q \in Owners, k \in Nat : ~Says(g(u), j, q, k)
      BY <3>1, <1>2, NoAnswerType DEF Says, UNKNOWN_OWNER
    <3> QED
      BY <3>1, <3>3, <3>4, <3>5, <2>4, <1>2 DEF Calm
  <2> QED
    BY <2>0, <2>2, <2>3, <2>4
<1>4. op' \in [Threads -> FrameRec]
  BY <1>3 DEF Cut
<1>5. node' \in [Nodes -> {"up", "unmounted", "joined", "dead"}] /\ node'[x] = "dead"
      /\ \A n \in Nodes : node[n] = "dead" => node'[n] = "dead"
  BY <1>1
<1>6. Shape'
  BY <1>4, <1>5 DEF OwnInv, Shape
<1>7. \A n \in Nodes : body'[n].known \/ linked'[n] \/ fhAt'[n] # 0 => own'["file"][n].owner # 0
  BY DEF OwnInv, Names, Located, UNKNOWN_OWNER
<1>8. CalmStep
  BY <1>3, <1>5, <1>6, <1>7 DEF CalmStep
<1> QED
  BY <1>8, CalmInv

(* A request or an answer is lost. *)
LEMMA FailInv ==
    ASSUME OwnInv, NEW t \in Threads, Fail(t)
    PROVE  OwnInv'
<1>0. UNCHANGED <<own, body, linked, kref, fhAt, made>>
      /\ op[t].pc \in {"steal", "stolen", "call", "reply"}
  BY DEF Fail
<1>1. op[t].at \in Nodes /\ op \in [Threads -> FrameRec]
      /\ node \in [Nodes -> {"up", "unmounted", "joined", "dead"}]
  BY FrameType DEF OwnInv, Shape
<1>2. CASE op' = Cut(op[t].at) /\ node' = [node EXCEPT ![op[t].at] = "dead"]
  BY <1>0, <1>1, <1>2, CutInv
<1>3. CASE /\ ~(op[t].nested \/ op[t].pc \in {"steal", "stolen"})
           /\ op' = [op EXCEPT ![t] = Idle(t)]
           /\ node' = [node EXCEPT ![op[t].at] = IF @ = "up" THEN "unmounted" ELSE @]
  <2>1. /\ op' \in [Threads -> FrameRec] /\ op'[t] = Idle(t)
        /\ \A u \in Threads : u # t => op'[u] = op[u]
    BY <1>1, <1>3, IdleType
  <2>2. node' \in [Nodes -> {"up", "unmounted", "joined", "dead"}]
        /\ \A n \in Nodes : node[n] = "dead" => node'[n] = "dead"
    BY <1>1, <1>3
  <2>3. Shape'
    BY <2>1, <2>2, <1>0 DEF OwnInv, Shape
  <2>4. \A n \in Nodes : body'[n].known \/ linked'[n] \/ fhAt'[n] # 0 => own'["file"][n].owner # 0
    BY <1>0 DEF OwnInv, Names, Located, UNKNOWN_OWNER
  <2>5. op[t].resp.tag # "stolen"
    BY <1>3 DEF OwnInv, Forms, Form
  <2>6. CalmStep
    BY <2>1, <2>2, <2>3, <2>4, <2>5, <1>0, IdleCalm DEF CalmStep
  <2> QED
    BY <2>6, CalmInv
<1> QED
  BY <1>2, <1>3 DEF Fail

(* A node leaves. *)
LEMMA LeaveInv ==
    ASSUME OwnInv, NEW n \in Nodes, Join(n) \/ Exit(n)
    PROVE  OwnInv'
<1>1. body \in [Nodes -> BodyRec] /\ node \in [Nodes -> {"up", "unmounted", "joined", "dead"}]
  BY DEF OwnInv, Shape
<1>2. CASE Join(n)
  <2>1. UNCHANGED <<own, op, body, linked, kref, fhAt, made>>
    BY <1>2 DEF Join
  <2>2. node' \in [Nodes -> {"up", "unmounted", "joined", "dead"}]
        /\ \A m \in Nodes : node[m] = "dead" => node'[m] = "dead"
    BY <1>1, <1>2 DEF Join
  <2> QED
    BY <2>1, <2>2, <1>1, OutsideStep
<1>3. CASE Exit(n)
  BY <1>3, CutInv DEF Exit
<1> QED
  BY <1>2, <1>3

-------------------------------------------------------------------------------
(* The theorems *)

(* There is a node with the least id. *)
LEMMA RootOwnerIsNode == RootOwner \in Nodes
<1>1. Nodes \subseteq Nat /\ Nodes # {}
  BY NodesAssumption
<1>2. \E x \in Nodes : \A y \in Nodes : ~(<<y, x>> \in OpToRel(<, Nat))
  BY <1>1, NatLessThanWellFounded, WFMin
<1>3. PICK x \in Nodes : \A y \in Nodes : ~(<<y, x>> \in OpToRel(<, Nat))
  BY <1>2
<1>4. \A y \in Nodes : x <= y
  <2> TAKE y \in Nodes
  <2>1. x \in Nat /\ y \in Nat
    BY <1>1
  <2>2. ~(y < x)
    BY <1>3, <2>1 DEF OpToRel
  <2> QED
    BY <2>1, <2>2
<1>5. \E n \in Nodes : \A m \in Nodes : n <= m
  BY <1>4
<1> QED
  BY <1>5 DEF RootOwner

(* The initial states. *)
LEMMA InitInv ==
    ASSUME Init
    PROVE  OwnInv
<1>1. PICK s \in Start :
        /\ own = [i \in Inodes |-> [n \in Nodes |->
                     IF i = "file" /\ s # "looked up"
                     THEN [owner |-> UNKNOWN_OWNER, term |-> 0, ready |-> FALSE]
                     ELSE [owner |-> RootOwner, term |-> 0,
                           ready |-> (i = "dir" /\ Root) \/ n = RootOwner]]]
        /\ body = [n \in Nodes |->
                     IF s # "looked up" THEN Blank
                     ELSE [Blank EXCEPT !.known = TRUE,
                               !.refcnt = IF n = RootOwner THEN 1 + Cardinality(Nodes) ELSE 0]]
        /\ linked = [n \in Nodes |-> s = "looked up" /\ n = RootOwner]
        /\ kref = [n \in Nodes |-> IF s = "looked up" THEN 1 ELSE 0]
        /\ fhAt = [n \in Nodes |-> 0]
        /\ op = [t \in Threads |-> Idle(t)]
        /\ node = [n \in Nodes |-> "up"]
        /\ made = (s = "looked up")
  BY DEF Init
<1>2. RootOwner \in Nodes /\ RootOwner \in Owners /\ RootOwner # UNKNOWN_OWNER /\ 0 \in Owners
  BY RootOwnerIsNode, NodesFacts DEF UNKNOWN_OWNER
<1>3. /\ \A i \in Inodes, n \in Nodes :
            /\ own[i][n] \in CopyRec /\ own[i][n].term = 0
            /\ own[i][n].owner = (IF i = "file" /\ s # "looked up" THEN UNKNOWN_OWNER ELSE RootOwner)
            /\ own[i][n].ready => n = RootOwner \/ (i = "dir" /\ Root)
            /\ own[i][n].owner = UNKNOWN_OWNER => ~own[i][n].ready
      /\ own \in [Inodes -> [Nodes -> CopyRec]]
  BY <1>1, <1>2, NodesAssumption, NodesFacts DEF CopyRec
<1>4. \A t \in Threads : op[t] = Idle(t)
  BY <1>1
<1>5. Shape
  <2>1. body \in [Nodes -> BodyRec]
    <3>1. Cardinality(Nodes) \in Nat
      BY FS_CardinalityType, NodesAssumption
    <3>2. ASSUME NEW k \in Nat PROVE [Blank EXCEPT !.known = TRUE, !.refcnt = k] \in BodyRec
      BY DEF Blank, BodyRec, States
    <3>3. Blank \in BodyRec
      BY DEF Blank, BodyRec, States
    <3>4. ASSUME NEW n \in Nodes
          PROVE  (IF n = RootOwner THEN 1 + Cardinality(Nodes) ELSE 0) \in Nat
      BY <3>1
    <3> QED
      BY <3>2, <3>3, <3>4, <1>1
  <2>2. linked \in [Nodes -> BOOLEAN] /\ kref \in [Nodes -> Nat] /\ fhAt \in [Nodes -> Owners]
        /\ node \in [Nodes -> {"up", "unmounted", "joined", "dead"}] /\ made \in BOOLEAN
    BY <1>1, <1>2
  <2>3. op \in [Threads -> FrameRec]
    BY <1>1, IdleType
  <2> QED
    BY <2>1, <2>2, <2>3, <1>3 DEF Shape
<1>6. Forms
  BY <1>4, IdleCalm DEF Forms, Calm
<1>7. \A i \in Inodes, o \in Owners, k \in Nat :
        Known(i, o, k) => /\ k = 0
                          /\ o = (IF i = "file" /\ s # "looked up" THEN UNKNOWN_OWNER ELSE RootOwner)
  <2>1. \A t \in Threads, i \in Inodes, o \in Owners, k \in Nat : ~Says(op[t], i, o, k)
    BY <1>4, IdleType, NoAnswerType DEF Says, UNKNOWN_OWNER
  <2> QED
    BY <2>1, <1>3 DEF Known
<1>8. Names
  <2>1. \A n \in Nodes : body[n].known \/ linked[n] \/ fhAt[n] # 0 => Located(n)
    <3> SUFFICES ASSUME NEW n \in Nodes, s # "looked up" PROVE ~(body[n].known \/ linked[n] \/ fhAt[n] # 0)
      BY <1>1, <1>2, <1>3, NodesFacts DEF Located
    <3> QED
      BY <1>1 DEF Blank
  <2>2. \A o \in Nodes, k \in Nat : Known("file", o, k) => Located(o)
    BY <1>2, <1>3, <1>7, NodesFacts DEF Located
  <2>3. \A t \in Threads : FrameLocated(op[t])
    BY <1>4, IdleCalm DEF Calm
  <2> QED
    BY <2>1, <2>2, <2>3, <1>2, <1>3, NodesFacts DEF Names
<1>9. \A i \in Inodes : Carriers(i) = {}
  BY <1>4, IdleType, NoAnswerType DEF Carriers
<1>10. \A i \in Inodes, x \in Nodes, k \in Nat :
        Has(i, x, k) => k = 0 /\ x = RootOwner
  BY <1>2, <1>3, <1>9, NodesFacts DEF Has, Holders
<1>11. Lead
  BY <1>7, <1>10 DEF Lead
<1>12. Agree
  BY <1>2, <1>7, NodesFacts DEF Agree
<1>13. Token
  BY <1>9 DEF Token
<1>14. Ready
  BY <1>2, <1>3 DEF Ready
<1>16. Unmade
  BY <1>1, <1>7, NodesFacts DEF Unmade
<1> QED
  BY <1>5, <1>6, <1>8, <1>11, <1>12, <1>13, <1>14, <1>16 DEF OwnInv

(* Steps that change nothing. *)
LEMMA StutterInv ==
    ASSUME OwnInv, UNCHANGED vars
    PROVE  OwnInv'
<1>1. UNCHANGED <<own, op, linked, kref, fhAt, made, body, node>>
  BY DEF vars
<1>2. body \in [Nodes -> BodyRec] /\ node \in [Nodes -> {"up", "unmounted", "joined", "dead"}]
  BY DEF OwnInv, Shape
<1> QED
  BY <1>1, <1>2, OutsideStep

(* History is not undone. *)
LEMMA EarlyStays ==
    ASSUME early, [Next]_vars
    PROVE  early'
<1>1. ASSUME NEW t \in Threads, Step(t) PROVE early'
  <2>1. CASE Route(t)
    BY <2>1 DEF Route, Relies, rest
  <2>2. CASE ServeCall(t)
    BY <2>2 DEF ServeCall, Relies, rest
  <2>3. CASE ApplyReply(t)
    BY <2>3 DEF ApplyReply, Hears
  <2>4. CASE TryStealInodeOwnership(t)
    BY <2>4 DEF TryStealInodeOwnership, Relies
  <2>5. CASE ApplySteal(t)
    BY <2>5 DEF ApplySteal, Hears
  <2> QED
    BY <1>1, <2>1, <2>2, <2>3, <2>4, <2>5 DEF Step
<1>2. ASSUME NEW t \in Threads, Fail(t) PROVE early'
  BY <1>2 DEF Fail
<1>3. ASSUME NEW t \in Threads, NEW k \in Kinds, Begin(t, k) PROVE early'
  BY <1>3 DEF Begin
<1>4. ASSUME NEW n \in Nodes, Flush(n) \/ Join(n) \/ Exit(n) PROVE early'
  BY <1>4 DEF Flush, Join, Exit
<1>5. CASE UNCHANGED vars
  BY <1>5 DEF vars
<1> QED
  BY <1>1, <1>2, <1>3, <1>4, <1>5 DEF Next

(* Every step that uses no inode before it has come. *)
LEMMA NextInv ==
    ASSUME OwnInv, [Next]_vars, ~early'
    PROVE  OwnInv'
<1>1. ASSUME NEW t \in Threads, Step(t) PROVE OwnInv'
  BY <1>1, RouteInv, ServeCallInv, ApplyReplyInv, TryStealInv, ApplyStealInv DEF Step
<1>2. ASSUME NEW t \in Threads, Fail(t) PROVE OwnInv'
  BY <1>2, FailInv
<1>3. ASSUME NEW t \in Threads, NEW k \in Kinds, Begin(t, k) PROVE OwnInv'
  BY <1>3, BeginInv
<1>4. ASSUME NEW n \in Nodes, Flush(n) \/ Join(n) \/ Exit(n) PROVE OwnInv'
  BY <1>4, FlushInv, LeaveInv
<1>5. CASE UNCHANGED vars
  BY <1>5, StutterInv
<1> QED
  BY <1>1, <1>2, <1>3, <1>4, <1>5 DEF Next

(* OwnInv leaves an inode with one node or one answer. *)
LEMMA InvOneOwner ==
    ASSUME OwnInv
    PROVE  OneOwner
<1> SUFFICES ASSUME NEW i \in Inodes
             PROVE  Cardinality(Holders(i)) + Cardinality(Carriers(i)) <= 1
  BY DEF OneOwner
<1>1. CASE \E y \in Holders(i) : TRUE
  <2> PICK y \in Holders(i) : TRUE
    BY <1>1
  <2>1. Holders(i) = {y} /\ Carriers(i) = {}
    BY HolderAlone
  <2>2. Cardinality({}) = 0 /\ Cardinality({y}) = 1
    BY FS_EmptySet, FS_Singleton
  <2> QED
    BY <2>1, <2>2
<1>2. CASE \E t \in Carriers(i) : TRUE
  <2> PICK t \in Carriers(i) : TRUE
    BY <1>2
  <2>1. Holders(i) = {} /\ Carriers(i) = {t}
    BY CarrierAlone
  <2>2. Cardinality({}) = 0 /\ Cardinality({t}) = 1
    BY FS_EmptySet, FS_Singleton
  <2> QED
    BY <2>1, <2>2
<1>3. CASE Holders(i) = {} /\ Carriers(i) = {}
  BY <1>3, FS_EmptySet
<1> QED
  BY <1>1, <1>2, <1>3

(* OwnInv keeps the copies behind the node that has the inode. *)
LEMMA InvTermsLead ==
    ASSUME OwnInv
    PROVE  TermsLead
<1> SUFFICES ASSUME NEW i \in Inodes
             PROVE  /\ \A n, m \in Nodes :
                         own[i][n].term = own[i][m].term /\ own[i][n].owner # UNKNOWN_OWNER
                         /\ own[i][m].owner # UNKNOWN_OWNER => own[i][n].owner = own[i][m].owner
                    /\ \A h \in Holders(i), n \in Nodes : own[i][n].term <= own[i][h].term
                    /\ \A t \in Carriers(i), n \in Nodes : own[i][n].term <= op[t].resp.term
  BY DEF TermsLead
<1>1. \A n \in Nodes : /\ own[i][n].owner \in Owners /\ own[i][n].term \in Nat
                       /\ Known(i, own[i][n].owner, own[i][n].term)
  BY CopyType DEF OwnInv, Known
<1>2. \A n, m \in Nodes : own[i][n].term = own[i][m].term /\ own[i][n].owner # UNKNOWN_OWNER
        /\ own[i][m].owner # UNKNOWN_OWNER => own[i][n].owner = own[i][m].owner
  BY <1>1, NodesFacts DEF OwnInv, Agree
<1>3. \A h \in Holders(i), n \in Nodes : own[i][n].term <= own[i][h].term
  BY <1>1, HolderAlone
<1>4. \A t \in Carriers(i), n \in Nodes : own[i][n].term <= op[t].resp.term
  BY <1>1, CarrierAlone
<1> QED
  BY <1>2, <1>3, <1>4

(* The ownership invariant holds until a node uses an inode that has not come to it. *)
THEOREM OwnershipInvariant == Spec => [](early \/ OwnInv)
<1>1. Init => early \/ OwnInv
  BY InitInv
<1>2. (early \/ OwnInv) /\ [Next]_vars => (early \/ OwnInv)'
  BY NextInv, EarlyStays
<1> QED
  BY <1>1, <1>2, PTL DEF Spec

(* No inode ever has two owners, an answer on its way to its receiver included              *)
(* (TryStealInodeOwnership, applyStolenInode, applyOwner), until a node uses an inode that   *)
(* has not come to it.                                                                       *)
THEOREM SingleOwner == Spec => []OneOwner
<1>1. Spec => [](early \/ OwnInv)
  BY OwnershipInvariant
<1>2. early \/ OwnInv => OneOwner
  BY InvOneOwner DEF OneOwner
<1> QED
  BY <1>1, <1>2, PTL

(* Until then, copies with one term name one owner, and none is ahead of the owner or of    *)
(* the answer that carries the inode (ownerTerm in applyOwner and tryYield).                 *)
THEOREM OwnersAreFollowed == Spec => []TermsLead
<1>1. Spec => [](early \/ OwnInv)
  BY OwnershipInvariant
<1>2. early \/ OwnInv => TermsLead
  BY InvTermsLead DEF TermsLead
<1> QED
  BY <1>1, <1>2, PTL
==============================================================================
