------------------------ MODULE ClusterReferenceProofs ------------------------
(***************************************************************************)
(* What travels with an inode of the cluster: its reference count covers   *)
(* what the kernels of all nodes hold, a handle stays with its owner, and  *)
(* nobody is asked for an inode it has never heard of.  As in              *)
(* ClusterProofs, until a node uses an inode that has not come to it.      *)
(***************************************************************************)
EXTENDS ClusterProofs

-------------------------------------------------------------------------------
(* Counting references *)

(* m tokens of kind nm for d; f[d] of them for every d of D. *)
Row(d, nm, m)    == {d} \X {nm} \X (1..m)
Column(D, nm, f) == UNION {Row(d, nm, f[d]) : d \in D}

(* A token names what it is for. *)
LEMMA ColumnMember ==
    ASSUME NEW D, NEW nm, NEW f
    PROVE  \A e : e \in Column(D, nm, f) <=>
                    \E d \in D : \E j \in 1..f[d] : e = <<d, nm, j>>
BY DEF Column, Row

(* m tokens of one thing. *)
LEMMA RowCount ==
    ASSUME NEW d, NEW nm, NEW m \in Nat
    PROVE  IsFiniteSet(Row(d, nm, m)) /\ Cardinality(Row(d, nm, m)) = m
<1> DEFINE S == Row(d, nm, m)
           f == [j \in 1..m |-> <<d, nm, j>>]
<1>1. f \in Bijection(1..m, S)
  <2>1. f \in [1..m -> S]
    BY DEF Row
  <2>2. \A i, j \in 1..m : f[i] = f[j] => i = j
    BY DEF Row
  <2>3. \A e \in S : \E j \in 1..m : f[j] = e
    BY DEF Row
  <2> QED
    BY <2>1, <2>2, <2>3 DEF Bijection, Injection, Surjection, IsInjective
<1>2. ExistsBijection(1..m, S)
  BY <1>1 DEF ExistsBijection
<1>3. IsFiniteSet(1..m) /\ Cardinality(1..m) = m
  BY FS_Interval
<1> QED
  BY <1>2, <1>3, FS_Bijection

(* The tokens are finite. *)
LEMMA ColumnFinite ==
    ASSUME NEW D, IsFiniteSet(D), NEW nm, NEW f \in [D -> Nat]
    PROVE  IsFiniteSet(Column(D, nm, f)) /\ Cardinality(Column(D, nm, f)) \in Nat
<1> DEFINE R == {Row(d, nm, f[d]) : d \in D}
           h == [d \in D |-> Row(d, nm, f[d])]
<1>1. h \in Surjection(D, R)
  <2>1. h \in [D -> R] /\ \A T \in R : \E d \in D : h[d] = T
    OBVIOUS
  <2> QED
    BY <2>1 DEF Surjection
<1>2. \A d \in D : IsFiniteSet(h[d])
  <2> TAKE d \in D
  <2>1. f[d] \in Nat
    OBVIOUS
  <2> QED
    BY <2>1, RowCount
<1>3. \A T \in R : IsFiniteSet(T)
  BY <1>2
<1>4. IsFiniteSet(R)
  <2> HIDE DEF R, h
  <2> QED
    BY <1>1, FS_Surjection
<1>5. Column(D, nm, f) = UNION R
  BY DEF Column
<1>6. IsFiniteSet(Column(D, nm, f))
  BY <1>3, <1>4, <1>5, FS_UNION
<1> QED
  BY <1>6, FS_CardinalityType

(* Taking away the tokens of one thing. *)
LEMMA ColumnWithout ==
    ASSUME NEW D, IsFiniteSet(D), NEW nm, NEW f \in [D -> Nat], NEW d \in D,
           NEW g \in [D -> Nat], g[d] = 0, \A c \in D : c # d => g[c] = f[c]
    PROVE  Cardinality(Column(D, nm, f)) = Cardinality(Column(D, nm, g)) + f[d]
<1> DEFINE A == Column(D, nm, g)
           B == Row(d, nm, f[d])
<1>1. g \in [D -> Nat] /\ g[d] = 0 /\ \A c \in D : c # d => g[c] = f[c]
  OBVIOUS
<1>2. \A e : e \in B <=> \E j \in 1..f[d] : e = <<d, nm, j>>
  BY DEF Row
<1>3. A \cap B = {}
  <2> SUFFICES ASSUME NEW e, e \in A, e \in B PROVE FALSE
    OBVIOUS
  <2>1. PICK c \in D : \E j \in 1..g[c] : e = <<c, nm, j>>
    BY ColumnMember
  <2>2. PICK j \in 1..g[c] : e = <<c, nm, j>>
    BY <2>1
  <2>3. PICK k \in 1..f[d] : e = <<d, nm, k>>
    BY <1>2
  <2>4. c = d
    BY <2>2, <2>3
  <2>5. 1..g[c] = {}
    BY <2>4, <1>1
  <2> QED
    BY <2>2, <2>5
<1>4. Column(D, nm, f) = A \cup B
  <2>1. ASSUME NEW e, e \in Column(D, nm, f) PROVE e \in A \cup B
    <3>1. PICK c \in D : \E j \in 1..f[c] : e = <<c, nm, j>>
      BY <2>1, ColumnMember
    <3>2. CASE c = d
      BY <3>1, <3>2, <1>2
    <3>3. CASE c # d
      BY <3>1, <3>3, <1>1, ColumnMember
    <3> QED
      BY <3>2, <3>3
  <2>2. ASSUME NEW e, e \in A PROVE e \in Column(D, nm, f)
    <3>1. PICK c \in D : \E j \in 1..g[c] : e = <<c, nm, j>>
      BY <2>2, ColumnMember
    <3>2. c # d
      BY <3>1, <1>1
    <3> QED
      BY <3>1, <3>2, <1>1, ColumnMember
  <2>3. ASSUME NEW e, e \in B PROVE e \in Column(D, nm, f)
    BY <2>3, <1>2, ColumnMember
  <2> QED
    BY <2>1, <2>2, <2>3
<1>5. IsFiniteSet(A) /\ Cardinality(A) \in Nat
  BY <1>1, ColumnFinite
<1>6. f[d] \in Nat
  OBVIOUS
<1>7. IsFiniteSet(B) /\ Cardinality(B) = f[d]
  BY <1>6, RowCount
<1> HIDE DEF A, B
<1>8. Cardinality(A \cup B) = Cardinality(A) + Cardinality(B) - Cardinality(A \cap B)
  BY <1>5, <1>7, FS_Union
<1>9. Cardinality(A \cap B) = 0
  BY <1>3, FS_EmptySet
<1>10. Cardinality(Column(D, nm, f)) = Cardinality(A) + f[d]
  BY <1>4, <1>5, <1>6, <1>7, <1>8, <1>9
<1> QED
  BY <1>10 DEF A

(* Changing how many one thing has. *)
LEMMA ColumnChange ==
    ASSUME NEW D, IsFiniteSet(D), NEW nm, NEW f \in [D -> Nat], NEW d \in D,
           NEW g \in [D -> Nat], \A c \in D : c # d => g[c] = f[c]
    PROVE  Cardinality(Column(D, nm, g)) = Cardinality(Column(D, nm, f)) - f[d] + g[d]
<1> DEFINE z == [f EXCEPT ![d] = 0]
<1>1. /\ z \in [D -> Nat] /\ f[d] \in Nat /\ g[d] \in Nat /\ z[d] = 0
      /\ \A c \in D : c # d => z[c] = f[c] /\ z[c] = g[c]
  OBVIOUS
<1> HIDE DEF z
<1>3. Cardinality(Column(D, nm, g)) = Cardinality(Column(D, nm, z)) + g[d]
  BY <1>1, ColumnWithout
<1>4. Cardinality(Column(D, nm, f)) = Cardinality(Column(D, nm, z)) + f[d]
  BY <1>1, ColumnWithout
<1>5. Cardinality(Column(D, nm, z)) \in Nat
  BY <1>1, ColumnFinite
<1> QED
  BY <1>1, <1>3, <1>4, <1>5

(* Fewer of each are fewer. *)
LEMMA ColumnFewer ==
    ASSUME NEW D, IsFiniteSet(D), NEW nm, NEW f \in [D -> Nat], NEW g \in [D -> Nat],
           \A d \in D : g[d] <= f[d]
    PROVE  Cardinality(Column(D, nm, g)) <= Cardinality(Column(D, nm, f))
<1>1. Column(D, nm, g) \subseteq Column(D, nm, f)
  <2> SUFFICES ASSUME NEW e, e \in Column(D, nm, g) PROVE e \in Column(D, nm, f)
    OBVIOUS
  <2>1. PICK c \in D : \E j \in 1..g[c] : e = <<c, nm, j>>
    BY ColumnMember
  <2>2. PICK j \in 1..g[c] : e = <<c, nm, j>>
    BY <2>1
  <2>3. g[c] \in Nat /\ f[c] \in Nat /\ g[c] <= f[c]
    OBVIOUS
  <2>4. j \in 1..f[c]
    BY <2>3
  <2> QED
    BY <2>2, <2>4, ColumnMember
<1> QED
  BY <1>1, ColumnFinite, FS_Subset

(* One thing has no more than all. *)
LEMMA ColumnPart ==
    ASSUME NEW D, IsFiniteSet(D), NEW nm, NEW f \in [D -> Nat], NEW d \in D
    PROVE  f[d] <= Cardinality(Column(D, nm, f))
<1> DEFINE z == [f EXCEPT ![d] = 0]
<1>1. z \in [D -> Nat] /\ f[d] \in Nat /\ z[d] = 0 /\ \A c \in D : c # d => z[c] = f[c]
  OBVIOUS
<1> HIDE DEF z
<1>2. Cardinality(Column(D, nm, z)) \in Nat
  BY <1>1, ColumnFinite
<1> QED
  BY <1>1, <1>2, ColumnWithout

(* Columns of different kinds have nothing in common. *)
LEMMA ThreeColumns ==
    ASSUME NEW N, IsFiniteSet(N), NEW T, IsFiniteSet(T), NEW a, NEW b, NEW c, a # b, b # c, a # c,
           NEW f \in [N -> Nat], NEW g \in [T -> Nat], NEW h \in [T -> Nat]
    PROVE  Cardinality(Column(N, a, f) \cup Column(T, b, g) \cup Column(T, c, h))
             = Cardinality(Column(N, a, f)) + Cardinality(Column(T, b, g)) + Cardinality(Column(T, c, h))
<1> DEFINE A == Column(N, a, f)
           B == Column(T, b, g)
           C == Column(T, c, h)
<1>1. A \cap B = {}
  <2> SUFFICES ASSUME NEW e, e \in A, e \in B PROVE FALSE
    OBVIOUS
  <2>1. PICK n \in N : \E j \in 1..f[n] : e = <<n, a, j>>
    BY ColumnMember
  <2>2. PICK t \in T : \E j \in 1..g[t] : e = <<t, b, j>>
    BY ColumnMember
  <2> QED
    BY <2>1, <2>2
<1>2. (A \cup B) \cap C = {}
  <2> SUFFICES ASSUME NEW e, e \in A \cup B, e \in C PROVE FALSE
    OBVIOUS
  <2>1. e \in A => \E n \in N : \E j \in 1..f[n] : e = <<n, a, j>>
    BY ColumnMember
  <2>2. e \in B => \E t \in T : \E j \in 1..g[t] : e = <<t, b, j>>
    BY ColumnMember
  <2>3. PICK t \in T : \E j \in 1..h[t] : e = <<t, c, j>>
    BY ColumnMember
  <2> QED
    BY <2>1, <2>2, <2>3
<1>3. /\ IsFiniteSet(A) /\ IsFiniteSet(B) /\ IsFiniteSet(C)
      /\ Cardinality(A) \in Nat /\ Cardinality(B) \in Nat /\ Cardinality(C) \in Nat
  BY ColumnFinite
<1> HIDE DEF A, B, C
<1>4. Cardinality({}) = 0
  BY FS_EmptySet
<1>5. /\ IsFiniteSet(A \cup B)
      /\ Cardinality(A \cup B) = Cardinality(A) + Cardinality(B) - Cardinality(A \cap B)
  BY <1>3, FS_Union
<1>6. Cardinality((A \cup B) \cup C)
        = Cardinality(A \cup B) + Cardinality(C) - Cardinality((A \cup B) \cap C)
  BY <1>3, <1>5, FS_Union
<1>7. Cardinality(A \cap B) = 0 /\ Cardinality((A \cup B) \cap C) = 0
  BY <1>1, <1>2, <1>4
<1>8. Cardinality(A \cup B) = Cardinality(A) + Cardinality(B)
  BY <1>3, <1>5, <1>7
<1>9. Cardinality((A \cup B) \cup C) = Cardinality(A) + Cardinality(B) + Cardinality(C)
  BY <1>3, <1>6, <1>7, <1>8
<1> QED
  BY <1>9 DEF A, B, C

(* The references each node, answer and forget stands for. *)
KernelRefs == [n \in Nodes |-> IF node[n] # "dead" THEN kref[n] ELSE 0]
Looked(f)  == f.pc = "reply" /\ f.resp.tag = "done" /\ f.kind \in {"lookup", "create"}
AnswerRefs == [t \in Threads |-> IF Looked(op[t]) /\ node[NodeOf[t]] # "dead" THEN 1 ELSE 0]
ForgetRefs == [t \in Threads |->
                 IF op[t].pc # "idle" /\ op[t].resp.tag # "done" /\ node[NodeOf[t]] # "dead"
                 THEN op[t].n ELSE 0]
KernelSum == Cardinality(Column(Nodes, "kernel", KernelRefs))
AnswerSum == Cardinality(Column(Threads, "looked up", AnswerRefs))
ForgetSum == Cardinality(Column(Threads, "forget", ForgetRefs))

(* They are numbers. *)
LEMMA RefsTypes ==
    ASSUME Shape
    PROVE  /\ KernelRefs \in [Nodes -> Nat] /\ AnswerRefs \in [Threads -> Nat]
           /\ ForgetRefs \in [Threads -> Nat]
           /\ KernelSum \in Nat /\ AnswerSum \in Nat /\ ForgetSum \in Nat
           /\ IsFiniteSet(Nodes) /\ IsFiniteSet(Threads)
<1>1. \A t \in Threads : op[t].n \in Nat
  BY FrameType DEF Shape
<1>2. kref \in [Nodes -> Nat]
  BY DEF Shape
<1>3. KernelRefs \in [Nodes -> Nat]
  BY <1>2 DEF KernelRefs
<1>4. AnswerRefs \in [Threads -> Nat]
  BY DEF AnswerRefs
<1>5. ForgetRefs \in [Threads -> Nat]
  BY <1>1 DEF ForgetRefs
<1>6. IsFiniteSet(Nodes) /\ IsFiniteSet(Threads)
  BY NodesAssumption
<1> QED
  BY <1>3, <1>4, <1>5, <1>6, ColumnFinite DEF KernelSum, AnswerSum, ForgetSum

(* Together they are all that is kept. *)
LEMMA KeptSum ==
    ASSUME Shape
    PROVE  Cardinality(Kept) = KernelSum + AnswerSum + ForgetSum
<1> DEFINE A == Column(Nodes, "kernel", KernelRefs)
           B == Column(Threads, "looked up", AnswerRefs)
           C == Column(Threads, "forget", ForgetRefs)
<1>0. /\ KernelRefs \in [Nodes -> Nat] /\ AnswerRefs \in [Threads -> Nat]
      /\ ForgetRefs \in [Threads -> Nat] /\ IsFiniteSet(Nodes) /\ IsFiniteSet(Threads)
  BY RefsTypes
<1>1. Kept = A \cup B \cup C
  <2>1. UNION {{n} \X {"kernel"} \X (1..kref[n]) : n \in {m \in Nodes : node[m] # "dead"}} = A
    <3>1. ASSUME NEW e
          PROVE  e \in UNION {{n} \X {"kernel"} \X (1..kref[n]) : n \in {m \in Nodes : node[m] # "dead"}}
                 <=> \E n \in Nodes : node[n] # "dead" /\ \E j \in 1..kref[n] : e = <<n, "kernel", j>>
      OBVIOUS
    <3>2. ASSUME NEW e
          PROVE  e \in A <=> \E n \in Nodes : node[n] # "dead" /\ \E j \in 1..kref[n] : e = <<n, "kernel", j>>
      <4>1. \A n \in Nodes : \A j : j \in 1..KernelRefs[n] <=> node[n] # "dead" /\ j \in 1..kref[n]
        BY DEF KernelRefs
      <4> QED
        BY <4>1, ColumnMember
    <3> QED
      BY <3>1, <3>2
  <2>2. {<<t, "looked up", 1>> : t \in {u \in Threads :
            /\ op[u].pc = "reply" /\ op[u].resp.tag = "done" /\ op[u].kind \in {"lookup", "create"}
            /\ node[NodeOf[u]] # "dead"}} = B
    <3>1. \A t \in Threads : \A j : j \in 1..AnswerRefs[t] <=> Looked(op[t]) /\ node[NodeOf[t]] # "dead" /\ j = 1
      BY DEF AnswerRefs
    <3>2. ASSUME NEW e
          PROVE  e \in B <=> \E t \in Threads : Looked(op[t]) /\ node[NodeOf[t]] # "dead" /\ e = <<t, "looked up", 1>>
      <4>1. e \in B <=> \E t \in Threads : \E j \in 1..AnswerRefs[t] : e = <<t, "looked up", j>>
        <5>1. PICK nm : nm = "looked up"
          OBVIOUS
        <5>2. e \in Column(Threads, nm, AnswerRefs) <=>
                \E t \in Threads : \E j \in 1..AnswerRefs[t] : e = <<t, nm, j>>
          BY ColumnMember
        <5> QED
          BY <5>1, <5>2
      <4> QED
        BY <3>1, <4>1
    <3> QED
      BY <3>2 DEF Looked
  <2>3. UNION {{t} \X {"forget"} \X (1..op[t].n) : t \in {u \in Threads :
            /\ Active(u) /\ op[u].resp.tag # "done" /\ node[NodeOf[u]] # "dead"}} = C
    <3>1. ASSUME NEW e
          PROVE  e \in UNION {{t} \X {"forget"} \X (1..op[t].n) : t \in {u \in Threads :
                           /\ Active(u) /\ op[u].resp.tag # "done" /\ node[NodeOf[u]] # "dead"}}
                 <=> \E t \in Threads : /\ op[t].pc # "idle" /\ op[t].resp.tag # "done"
                                        /\ node[NodeOf[t]] # "dead"
                                        /\ \E j \in 1..op[t].n : e = <<t, "forget", j>>
      BY DEF Active
    <3>2. ASSUME NEW e
          PROVE  e \in C <=> \E t \in Threads : /\ op[t].pc # "idle" /\ op[t].resp.tag # "done"
                                        /\ node[NodeOf[t]] # "dead"
                                        /\ \E j \in 1..op[t].n : e = <<t, "forget", j>>
      <4>1. \A t \in Threads : \A j : j \in 1..ForgetRefs[t] <=>
               /\ op[t].pc # "idle" /\ op[t].resp.tag # "done" /\ node[NodeOf[t]] # "dead" /\ j \in 1..op[t].n
        BY DEF ForgetRefs
      <4> QED
        BY <4>1, ColumnMember
    <3> QED
      BY <3>1, <3>2
  <2> HIDE DEF A, B, C
  <2> QED
    BY <2>1, <2>2, <2>3, Zenon DEF Kept
<1>2. Cardinality(A \cup B \cup C) = Cardinality(A) + Cardinality(B) + Cardinality(C)
  <2>1. PICK a, b, c : a = "kernel" /\ b = "looked up" /\ c = "forget"
    OBVIOUS
  <2>2. a # b /\ b # c /\ a # c
    BY <2>1
  <2>3. Cardinality(Column(Nodes, a, KernelRefs) \cup Column(Threads, b, AnswerRefs)
                        \cup Column(Threads, c, ForgetRefs))
        = Cardinality(Column(Nodes, a, KernelRefs)) + Cardinality(Column(Threads, b, AnswerRefs))
             + Cardinality(Column(Threads, c, ForgetRefs))
    BY <1>0, <2>2, ThreeColumns
  <2> QED
    BY <2>1, <2>3
<1> QED
  BY <1>1, <1>2 DEF KernelSum, AnswerSum, ForgetSum
-------------------------------------------------------------------------------
(* The invariant of references and handles *)

(* The types of the rest of the state. *)
More ==
    /\ handles \in [Inodes -> [Nodes -> Int]] /\ dhAt \in [Nodes -> Owners]
    /\ faults \in Nat

(* What a frame may be: only a forget gives references back, only operations of the        *)
(* directory fail, only those that have gone on with the file meet a dead node, and unlink  *)
(* gets the file before it removes it.                                                      *)
Sane(f) ==
    /\ f.n # 0 <=> f.kind = "forget"
    /\ f.pc = "idle" => f.kind = "lookup" /\ ~f.nested
    /\ f.pc = "stolen" => f.resp.tag \in {"other", "nil", "stolen"}
    /\ f.pc = "reply" => f.resp.tag \in {"other", "done", "fail", "error"}
    /\ f.resp.tag = "error" => f.kind \in {"lookup", "unlink"}
    /\ f.resp.tag = "fail" => f.kind \in {"lookup", "unlink", "create"}
    /\ f.resp.tag \in {"fail", "error"} => ~f.nested
    /\ f.nested /\ f.kind = "unlink" => f.pc \in {"route", "steal", "stolen"}
Sanes == \A t \in Threads : Sane(op[t])

(* A kernel opens, closes and forgets one thing at a time. *)
Exclusive == {"open", "create", "release", "opendir", "closedir", "forget"}
Solo ==
    \A t, u \in Threads :
        t # u /\ NodeOf[t] = NodeOf[u] /\ Active(t) /\ Active(u) /\ op[t].kind \in Exclusive
        => op[u].kind \notin Exclusive

(* What a kernel asks for, and what it has of the file. *)
Asked(t) ==
    Active(t) =>
        /\ op[t].kind \in ById \ {"forget"} => kref[NodeOf[t]] > 0
        /\ op[t].kind = "forget" => Located(NodeOf[t])
        /\ op[t].kind = "release" => fhAt[NodeOf[t]] # 0
        /\ op[t].kind = "closedir" => dhAt[NodeOf[t]] # 0
        /\ node[NodeOf[t]] = "dead" => op[t].kind \in {"lookup", "unlink"}
Kernels ==
    /\ \A t \in Threads : Asked(t)
    /\ \A n \in Nodes : fhAt[n] # 0 => kref[n] > 0
    /\ \A n \in Nodes : kref[n] > 0 => Located(n)
    /\ faults = 0 => \A n \in Nodes : node[n] = "up"
    /\ \A t \in Threads : op[t].resp.tag = "error" => faults # 0

(* Node n has the inode, or had it when its process ended. *)
Keeps(i, n) == own[i][n].owner = n /\ own[i][n].ready

(* An inode that is with a node is with no other, and in no answer. *)
Alone ==
    \A i \in Inodes, n \in Nodes :
        Keeps(i, n) => Carriers(i) = {} /\ \A m \in Nodes : Keeps(i, m) => m = n

(* Only the owner of the directory has the name in it, only the owner of the file changes   *)
(* it, and a frame that works on the file for the directory holds the directory.            *)
Placed ==
    /\ \A n \in Nodes : linked[n] => Keeps("dir", n)
    /\ \A n \in Nodes : body[n].state # "CACHED" => Keeps("file", n)
    /\ \A t \in Threads : op[t].nested =>
          /\ linked[op[t].at] /\ node[op[t].at] # "dead"
          /\ \A u \in Threads : op[u].nested /\ op[u].at = op[t].at => u = t

(* Nobody has anything of a file that is not made. *)
Unborn ==
    ~made => /\ Cardinality(Kept) = 0
             /\ \A n \in Nodes : ~linked[n]

(* The references there have to be. *)
Need == Cardinality(Kept) + (IF Named THEN 1 ELSE 0)

(* The reference count of the file, wherever it is. *)
Counts(r) ==
    \/ \E h \in Holders("file") : body[h].refcnt = r
    \/ \E t \in Carriers("file") : op[t].resp.refcnt = r
Counted == \A r \in Nat : Counts(r) => Need <= r /\ (faults = 0 => Need = r)

(* While there is a reference, a node that has heard of the file has a copy. *)
Copied == Need > 0 => \A n \in Nodes : Located(n) => body[n].known

(* The handle node n has of inode i, from the moment its owner has opened it to the one     *)
(* its owner has closed it.                                                                  *)
HandleAt(i, n) == IF i = "file" THEN fhAt[n] ELSE dhAt[n]
Opens(i)  == IF i = "file" THEN {"open", "create"} ELSE {"opendir"}
Closes(i) == IF i = "file" THEN "release" ELSE "closedir"
Closing(i, n) == \E t \in Threads : NodeOf[t] = n /\ Active(t) /\ op[t].kind = Closes(i)
                                    /\ op[t].resp.tag # "done"
Closed(i, n)  == \E t \in Threads : NodeOf[t] = n /\ Active(t) /\ op[t].kind = Closes(i)
                                    /\ op[t].resp.tag = "done"
Opened(i, n, y) == \E t \in Threads : NodeOf[t] = n /\ op[t].kind \in Opens(i)
                                      /\ op[t].resp.tag = "done" /\ op[t].to = y
HasHandle(i, n, y) ==
    \/ HandleAt(i, n) = y /\ (node[n] = "up" \/ Closing(i, n)) /\ ~Closed(i, n)
    \/ node[n] = "up" /\ Opened(i, n, y)
Users(i, y) == {n \in Nodes : HasHandle(i, n, y)}

(* Handles are counted, and an inode with a handle stays. *)
Handled ==
    \A i \in Inodes, y \in Nodes :
        Cardinality(Users(i, y)) <= handles[i][y] /\ (Users(i, y) # {} => Keeps(i, y))

RefInv ==
    /\ More /\ Sanes /\ Solo /\ Kernels /\ Alone /\ Placed /\ Unborn /\ Counted /\ Copied /\ Handled
    /\ ~panicked

-------------------------------------------------------------------------------
(* What an answer changes *)

(* The kernel of thread t has its answer from node y. *)
KernelEffect(t, y, ok) ==
    /\ dhAt' \in [Nodes -> Owners]
    /\ \A n \in Nodes :
          /\ kref'[n] = IF n = NodeOf[t] /\ ok /\ op[t].kind \in {"lookup", "create"}
                        THEN kref[n] + 1 ELSE kref[n]
          /\ fhAt'[n] = IF n = NodeOf[t] /\ ok /\ op[t].kind \in {"open", "create"} THEN y
                        ELSE IF n = NodeOf[t] /\ op[t].kind = "release" THEN 0 ELSE fhAt[n]
          /\ dhAt'[n] = IF n = NodeOf[t] /\ op[t].kind = "opendir" THEN y
                        ELSE IF n = NodeOf[t] /\ op[t].kind = "closedir" THEN 0 ELSE dhAt[n]

(* Kernel does that. *)
LEMMA KernelEffects ==
    ASSUME Shape, More, NEW t \in Threads, NEW y \in Owners, NEW ok \in BOOLEAN, Kernel(t, y, ok)
    PROVE  KernelEffect(t, y, ok)
<1>0. kref \in [Nodes -> Nat] /\ fhAt \in [Nodes -> Owners] /\ dhAt \in [Nodes -> Owners]
      /\ NodeOf[t] \in Nodes /\ 0 \in Owners
  BY NodesFacts DEF Shape, More, UNKNOWN_OWNER
<1>1. \A n \in Nodes : kref'[n] = IF n = NodeOf[t] /\ ok /\ op[t].kind \in {"lookup", "create"}
                                   THEN kref[n] + 1 ELSE kref[n]
  BY <1>0 DEF Kernel
<1>2. \A n \in Nodes : fhAt'[n] = IF n = NodeOf[t] /\ ok /\ op[t].kind \in {"open", "create"} THEN y
                        ELSE IF n = NodeOf[t] /\ op[t].kind = "release" THEN 0 ELSE fhAt[n]
  BY <1>0 DEF Kernel
<1>3. /\ dhAt' \in [Nodes -> Owners]
      /\ \A n \in Nodes : dhAt'[n] = IF n = NodeOf[t] /\ op[t].kind = "opendir" THEN y
                        ELSE IF n = NodeOf[t] /\ op[t].kind = "closedir" THEN 0 ELSE dhAt[n]
  BY <1>0 DEF Kernel
<1> QED
  BY <1>1, <1>2, <1>3 DEF KernelEffect

(* Node y has done what thread t asked for: the thread's node has the answer, or it is under *)
(* way.                                                                                      *)
Given(t, y, ok) ==
    /\ \A u \in Threads : u # t => op'[u] = op[u]
    /\ dhAt' \in [Nodes -> Owners]
    /\ \/ op'[t] = Idle(t) /\ KernelEffect(t, y, ok)
       \/ /\ y # NodeOf[t] /\ UNCHANGED <<kref, fhAt, dhAt>>
          /\ op'[t].kind = op[t].kind /\ op'[t].pc = "reply" /\ ~op'[t].nested
          /\ op'[t].at = NodeOf[t] /\ op'[t].to = y /\ op'[t].n = op[t].n
          /\ op'[t].resp.tag = (IF ok THEN "done" ELSE "fail")

(* Answer does that. *)
LEMMA AnswerGiven ==
    ASSUME Shape, More, NEW t \in Threads, NEW y \in Nodes, NEW ok \in BOOLEAN, NEW pair \in CopyRec,
           Answer(t, y, ok, pair)
    PROVE  Given(t, y, ok)
<1> DEFINE c == NodeOf[t]
           r == [NoAnswer EXCEPT !.tag = IF ok THEN "done" ELSE "fail", !.child = pbInode(pair)]
           g == [op[t] EXCEPT !.pc = "reply", !.nested = FALSE, !.at = c, !.to = y, !.resp = r]
<1>0. c \in Nodes /\ y \in Owners /\ op \in [Threads -> FrameRec] /\ op[t] \in FrameRec
      /\ dhAt \in [Nodes -> Owners]
  BY NodesFacts DEF Shape, More
<1>1. CASE y = c
  <2>1. op' = [op EXCEPT ![t] = Idle(t)] /\ Kernel(t, y, ok)
    BY <1>1 DEF Answer
  <2>2. KernelEffect(t, y, ok)
    BY <2>1, <1>0, KernelEffects
  <2> QED
    BY <2>1, <2>2, <1>0, <1>1 DEF Given, KernelEffect
<1>2. CASE y # c
  <2>1. op' = [op EXCEPT ![t] = g] /\ UNCHANGED <<kref, fhAt, dhAt>>
    BY <1>2 DEF Answer
  <2>2. r \in AnswerRec /\ r.tag = (IF ok THEN "done" ELSE "fail")
    <3>1. pbInode(pair) \in [owner: Owners, term: Nat]
      BY DEF pbInode, CopyRec
    <3> QED
      BY <3>1, NoAnswerType DEF AnswerRec
  <2> HIDE DEF r
  <2>3. g.kind = op[t].kind /\ g.pc = "reply" /\ ~g.nested /\ g.at = c /\ g.to = y
        /\ g.n = op[t].n /\ g.resp = r
    BY <1>0 DEF FrameRec
  <2> HIDE DEF g
  <2>4. op'[t] = g /\ \A u \in Threads : u # t => op'[u] = op[u]
    BY <2>1, <1>0
  <2> QED
    BY <2>1, <2>2, <2>3, <2>4, <1>0, <1>2 DEF Given
<1> QED
  BY <1>1, <1>2

(* An idle thread is sane. *)
LEMMA IdleSane ==
    ASSUME NEW t \in Threads
    PROVE  Sane(Idle(t)) /\ Idle(t).n = 0 /\ Idle(t).to = 0
BY NoAnswerType DEF Sane, Idle

(* So is one that has an answer. *)
LEMMA GivenSane ==
    ASSUME Sanes, NEW t \in Threads, NEW y \in Owners, NEW ok \in BOOLEAN, Given(t, y, ok),
           op[t].pc # "idle", ok \/ op[t].kind \in {"lookup", "unlink", "create"}
    PROVE  Sanes'
<1>1. Sane(op[t]) /\ Sane(Idle(t))
  BY IdleSane DEF Sanes
<1>2. Sane(op'[t])
  BY <1>1 DEF Given, Sane
<1> QED
  BY <1>2 DEF Given, Sanes

(* The references after a change at one node and of one thread. *)
LEMMA SumChange ==
    ASSUME Shape, Shape', NEW c \in Nodes, NEW t \in Threads,
           \A n \in Nodes : n # c => KernelRefs'[n] = KernelRefs[n],
           \A u \in Threads : u # t => AnswerRefs'[u] = AnswerRefs[u] /\ ForgetRefs'[u] = ForgetRefs[u]
    PROVE  KernelSum' + AnswerSum' + ForgetSum' =
             KernelSum + AnswerSum + ForgetSum
               - KernelRefs[c] - AnswerRefs[t] - ForgetRefs[t]
               + KernelRefs'[c] + AnswerRefs'[t] + ForgetRefs'[t]
<1>0. /\ KernelRefs \in [Nodes -> Nat] /\ AnswerRefs \in [Threads -> Nat] /\ ForgetRefs \in [Threads -> Nat]
      /\ KernelSum \in Nat /\ AnswerSum \in Nat /\ ForgetSum \in Nat
      /\ IsFiniteSet(Nodes) /\ IsFiniteSet(Threads)
  BY RefsTypes
<1>1. KernelRefs' \in [Nodes -> Nat] /\ AnswerRefs' \in [Threads -> Nat] /\ ForgetRefs' \in [Threads -> Nat]
  <2>1. op' \in [Threads -> FrameRec] /\ kref' \in [Nodes -> Nat]
    BY DEF Shape
  <2>2. \A u \in Threads : op'[u].n \in Nat
    BY <2>1, FrameType
  <2> QED
    BY <2>1, <2>2 DEF KernelRefs, AnswerRefs, ForgetRefs
<1>2. KernelSum' = KernelSum - KernelRefs[c] + KernelRefs'[c]
  <2>1. PICK nm : nm = "kernel"
    OBVIOUS
  <2>2. Cardinality(Column(Nodes, nm, KernelRefs')) =
          Cardinality(Column(Nodes, nm, KernelRefs)) - KernelRefs[c] + KernelRefs'[c]
    BY <1>0, <1>1, ColumnChange
  <2> QED
    BY <2>1, <2>2 DEF KernelSum
<1>3. AnswerSum' = AnswerSum - AnswerRefs[t] + AnswerRefs'[t]
  <2>1. PICK nm : nm = "looked up"
    OBVIOUS
  <2>2. Cardinality(Column(Threads, nm, AnswerRefs')) =
          Cardinality(Column(Threads, nm, AnswerRefs)) - AnswerRefs[t] + AnswerRefs'[t]
    BY <1>0, <1>1, ColumnChange
  <2> QED
    BY <2>1, <2>2 DEF AnswerSum
<1>4. ForgetSum' = ForgetSum - ForgetRefs[t] + ForgetRefs'[t]
  <2>1. PICK nm : nm = "forget"
    OBVIOUS
  <2>2. Cardinality(Column(Threads, nm, ForgetRefs')) =
          Cardinality(Column(Threads, nm, ForgetRefs)) - ForgetRefs[t] + ForgetRefs'[t]
    BY <1>0, <1>1, ColumnChange
  <2> QED
    BY <2>1, <2>2 DEF ForgetSum
<1>5. /\ KernelRefs[c] \in Nat /\ KernelRefs'[c] \in Nat /\ AnswerRefs[t] \in Nat /\ AnswerRefs'[t] \in Nat
      /\ ForgetRefs[t] \in Nat /\ ForgetRefs'[t] \in Nat
  BY <1>0, <1>1
<1> QED
  BY <1>0, <1>2, <1>3, <1>4, <1>5

(* An answer gives the kernel one reference for a lookup, and takes those of a forget. *)
LEMMA GivenRefs ==
    ASSUME Shape, Shape', Sanes, NEW t \in Threads, NEW y \in Owners, NEW ok \in BOOLEAN, Given(t, y, ok),
           op[t].pc # "idle", node' = node, op[t].kind = "forget" => ok
    PROVE  KernelSum' + AnswerSum' + ForgetSum' =
             KernelSum + AnswerSum + ForgetSum - AnswerRefs[t] - ForgetRefs[t]
               + (IF ok /\ op[t].kind \in {"lookup", "create"} /\ node[NodeOf[t]] # "dead" THEN 1 ELSE 0)
<1> DEFINE c == NodeOf[t]
           D == IF ok /\ op[t].kind \in {"lookup", "create"} /\ node[c] # "dead" THEN 1 ELSE 0
<1>0. c \in Nodes /\ Sane(op[t]) /\ kref \in [Nodes -> Nat] /\ kref' \in [Nodes -> Nat]
      /\ op[t].n \in Nat
  BY NodesFacts, FrameType DEF Sanes, Shape
<1>1. \A u \in Threads : u # t => AnswerRefs'[u] = AnswerRefs[u] /\ ForgetRefs'[u] = ForgetRefs[u]
  BY DEF Given, AnswerRefs, ForgetRefs, Looked
<1>2. \A n \in Nodes : n # c => KernelRefs'[n] = KernelRefs[n]
  BY DEF Given, KernelEffect, KernelRefs
<1>3. ForgetRefs'[t] = 0
  BY <1>0, IdleType DEF Given, ForgetRefs, Sane
<1>4. KernelRefs'[c] + AnswerRefs'[t] = KernelRefs[c] + D
  <2>1. CASE op'[t] = Idle(t) /\ KernelEffect(t, y, ok)
    <3>1. AnswerRefs'[t] = 0
      BY <2>1, IdleType DEF AnswerRefs, Looked
    <3>2. kref'[c] = IF ok /\ op[t].kind \in {"lookup", "create"} THEN kref[c] + 1 ELSE kref[c]
      BY <2>1, <1>0 DEF KernelEffect
    <3>3. KernelRefs'[c] = IF node[c] # "dead" THEN kref'[c] ELSE 0
      BY <1>0 DEF KernelRefs
    <3>4. KernelRefs[c] = IF node[c] # "dead" THEN kref[c] ELSE 0
      BY <1>0 DEF KernelRefs
    <3>5. kref[c] \in Nat
      BY <1>0
    <3> QED
      BY <3>1, <3>2, <3>3, <3>4, <3>5
  <2>2. CASE /\ UNCHANGED <<kref, fhAt, dhAt>>
             /\ op'[t].kind = op[t].kind /\ op'[t].pc = "reply"
             /\ op'[t].resp.tag = (IF ok THEN "done" ELSE "fail")
    <3>1. AnswerRefs'[t] = D
      BY <2>2 DEF AnswerRefs, Looked
    <3>2. KernelRefs'[c] = KernelRefs[c] /\ KernelRefs[c] \in Nat
      BY <2>2, <1>0 DEF KernelRefs
    <3> QED
      BY <3>1, <3>2
  <2> QED
    BY <2>1, <2>2 DEF Given
<1>5. /\ KernelRefs[c] \in Nat /\ KernelRefs'[c] \in Nat /\ AnswerRefs[t] \in Nat /\ AnswerRefs'[t] \in Nat
      /\ ForgetRefs[t] \in Nat /\ KernelSum \in Nat /\ AnswerSum \in Nat /\ ForgetSum \in Nat
  <2>1. KernelRefs'[c] \in Nat
    BY <1>0 DEF KernelRefs
  <2>2. AnswerRefs'[t] \in Nat
    BY DEF AnswerRefs
  <2> QED
    BY <2>1, <2>2, <1>0, RefsTypes
<1>6. D \in Nat
  OBVIOUS
<1>7. KernelSum' + AnswerSum' + ForgetSum' =
             KernelSum + AnswerSum + ForgetSum
               - KernelRefs[c] - AnswerRefs[t] - ForgetRefs[t]
               + KernelRefs'[c] + AnswerRefs'[t] + ForgetRefs'[t]
  BY <1>0, <1>1, <1>2, SumChange
<1> HIDE DEF D, c
<1>8. KernelSum' + AnswerSum' + ForgetSum' =
             KernelSum + AnswerSum + ForgetSum - AnswerRefs[t] - ForgetRefs[t] + D
  BY <1>3, <1>4, <1>5, <1>6, <1>7
<1> QED
  BY <1>8 DEF D, c

(* The threads of a node are no busier, and the kernels have what they ask for. *)
LEMMA GivenKernels ==
    ASSUME OwnInv, OwnInv', Solo, Kernels, NEW t \in Threads, NEW y \in Owners, NEW ok \in BOOLEAN,
           Given(t, y, ok), op[t].pc # "idle", node' = node, faults' = faults,
           \A n \in Nodes : Located(n) => Located(n)',
           ok /\ op[t].kind \in {"lookup", "create"} /\ op'[t].pc = "idle" => Located(NodeOf[t])'
    PROVE  Solo' /\ Kernels'
<1>0. /\ kref \in [Nodes -> Nat] /\ NodeOf[t] \in Nodes /\ Asked(t)
      /\ \A u \in Threads : NodeOf[u] \in Nodes
  BY NodesFacts DEF OwnInv, Shape, Kernels, UNKNOWN_OWNER
<1>1. \A u \in Threads : Active(u)' => Active(u) /\ op'[u].kind = op[u].kind
  BY IdleType DEF Given, Active
<1>2. Solo'
  BY <1>1 DEF Solo
<1>3. \A n \in Nodes : kref[n] > 0 => kref'[n] > 0
  BY <1>0 DEF Given, KernelEffect
<1>4. \A n \in Nodes : kref'[n] > 0 => kref[n] > 0 \/ Located(n)'
  BY <1>0, IdleType DEF Given, KernelEffect
<1>5. ASSUME NEW u \in Threads PROVE Asked(u)'
  <2> SUFFICES ASSUME Active(u)' PROVE Asked(u)'
    BY DEF Asked
  <2>1. Active(u) /\ op'[u].kind = op[u].kind /\ Asked(u) /\ Active(t) /\ NodeOf[u] \in Nodes
    BY <1>0, <1>1 DEF Kernels, Active
  <2>2. op[u].kind = "release" => fhAt'[NodeOf[u]] # 0
    <3>1. CASE u = t
      BY <3>1, <2>1, IdleType DEF Given, Active, Asked
    <3>2. CASE u # t
      <4> SUFFICES ASSUME op[u].kind = "release" PROVE fhAt'[NodeOf[u]] # 0
        OBVIOUS
      <4>1. fhAt[NodeOf[u]] # 0
        BY <2>1 DEF Asked
      <4>2. ~(NodeOf[u] = NodeOf[t] /\ op[t].kind \in Exclusive)
        BY <3>2, <2>1 DEF Solo, Exclusive
      <4> QED
        BY <4>1, <4>2, <2>1, <1>0 DEF Given, KernelEffect, Exclusive
    <3> QED
      BY <3>1, <3>2
  <2>3. op[u].kind = "closedir" => dhAt'[NodeOf[u]] # 0
    <3>1. CASE u = t
      BY <3>1, <2>1, IdleType DEF Given, Active, Asked
    <3>2. CASE u # t
      <4> SUFFICES ASSUME op[u].kind = "closedir" PROVE dhAt'[NodeOf[u]] # 0
        OBVIOUS
      <4>1. dhAt[NodeOf[u]] # 0
        BY <2>1 DEF Asked
      <4>2. ~(NodeOf[u] = NodeOf[t] /\ op[t].kind \in Exclusive)
        BY <3>2, <2>1 DEF Solo, Exclusive
      <4> QED
        BY <4>1, <4>2, <2>1, <1>0 DEF Given, KernelEffect, Exclusive
    <3> QED
      BY <3>1, <3>2
  <2> QED
    BY <2>1, <2>2, <2>3, <1>3 DEF Asked
<1>6. \A n \in Nodes : fhAt'[n] # 0 => kref'[n] > 0
  <2> TAKE n \in Nodes
  <2>1. CASE fhAt'[n] = fhAt[n]
    BY <2>1, <1>3 DEF Kernels
  <2>2. CASE n = NodeOf[t] /\ op[t].kind = "open"
    <3>1. kref[n] > 0
      BY <2>2, <1>0 DEF Asked, Active, ById
    <3> QED
      BY <3>1, <1>3
  <2>3. CASE n = NodeOf[t] /\ op[t].kind = "create" /\ ok /\ KernelEffect(t, y, ok)
    BY <2>3, <1>0 DEF KernelEffect
  <2> QED
    BY <2>1, <2>2, <2>3, <1>0 DEF Given, KernelEffect
<1>7. \A n \in Nodes : kref'[n] > 0 => Located(n)'
  BY <1>4 DEF Kernels
<1>8. \A u \in Threads : op'[u].resp.tag = "error" => faults' # 0
  BY IdleType, NoAnswerType DEF Given, Kernels
<1> QED
  BY <1>2, <1>5, <1>6, <1>7, <1>8 DEF Kernels

(* The same of every state. *)
LEMMA KeptIsSum ==
    Shape => /\ Cardinality(Kept) = KernelSum + AnswerSum + ForgetSum
             /\ KernelSum \in Nat /\ AnswerSum \in Nat /\ ForgetSum \in Nat
BY KeptSum, RefsTypes

(* And of the next one. *)
LEMMA KeptIsSumNext ==
    ASSUME Shape'
    PROVE  /\ Cardinality(Kept)' = KernelSum' + AnswerSum' + ForgetSum'
           /\ KernelSum' \in Nat /\ AnswerSum' \in Nat /\ ForgetSum' \in Nat
<1>1. (Shape => /\ Cardinality(Kept) = KernelSum + AnswerSum + ForgetSum
                /\ KernelSum \in Nat /\ AnswerSum \in Nat /\ ForgetSum \in Nat)'
  BY KeptIsSum, PTL
<1> QED
  BY <1>1

-------------------------------------------------------------------------------
(* Steps that leave a part of it alone *)

(* No inode moves, no name appears, and only an owner changes its copy of the file. *)
LEMMA QuietLinks ==
    ASSUME Alone, Placed,
           \A i \in Inodes, n \in Nodes : Keeps(i, n)' <=> Keeps(i, n),
           \A i \in Inodes : Carriers(i)' \subseteq Carriers(i),
           \A n \in Nodes : linked'[n] => linked[n],
           \A n \in Nodes : body'[n].state # "CACHED" => body[n].state # "CACHED" \/ Keeps("file", n),
           \A t \in Threads : op'[t].nested =>
               op[t].nested /\ op'[t].at = op[t].at /\ linked'[op[t].at] /\ node'[op[t].at] # "dead"
    PROVE  Alone' /\ Placed'
<1>1. Alone'
  BY DEF Alone
<1>2. \A n \in Nodes : linked'[n] => Keeps("dir", n)'
  BY NodesFacts DEF Placed
<1>3. \A n \in Nodes : body'[n].state # "CACHED" => Keeps("file", n)'
  BY NodesFacts DEF Placed
<1>4. \A t \in Threads : op'[t].nested =>
          /\ linked'[op'[t].at] /\ node'[op'[t].at] # "dead"
          /\ \A u \in Threads : op'[u].nested /\ op'[u].at = op'[t].at => u = t
  BY DEF Placed
<1> QED
  BY <1>1, <1>2, <1>3, <1>4 DEF Placed

(* No more references are needed, and no fewer while nothing has failed. *)
LEMMA QuietRefs ==
    ASSUME Counted, Copied, Unborn,
           Cardinality(Kept) \in Nat, Cardinality(Kept)' \in Nat, Cardinality(Kept)' <= Cardinality(Kept),
           Named' => Named,
           faults' = 0 => faults = 0 /\ Cardinality(Kept)' = Cardinality(Kept) /\ (Named' <=> Named),
           \A r \in Nat : Counts(r)' => Counts(r),
           \A n \in Nodes : Located(n)' /\ Need > 0 => body'[n].known \/ (Located(n) /\ (body[n].known => body'[n].known)),
           made' = made, \A n \in Nodes : linked'[n] => linked[n]
    PROVE  Counted' /\ Copied' /\ Unborn'
<1>1. Need \in Nat /\ Need' \in Nat /\ Need' <= Need /\ (faults' = 0 => faults = 0 /\ Need' = Need)
  BY DEF Need
<1>2. Counted'
  BY <1>1 DEF Counted
<1>3. Copied'
  BY <1>1 DEF Copied
<1>4. Unborn'
  BY DEF Unborn
<1> QED
  BY <1>2, <1>3, <1>4

(* Handles are not opened, and inodes with handles stay. *)
LEMMA QuietUsers ==
    ASSUME Handled, handles' = handles, IsFiniteSet(Nodes), handles \in [Inodes -> [Nodes -> Int]],
           \A i \in Inodes, n \in Nodes, y \in Nodes : HasHandle(i, n, y)' => HasHandle(i, n, y),
           \A i \in Inodes, y \in Nodes : Users(i, y) # {} /\ Keeps(i, y) => Keeps(i, y)'
    PROVE  Handled'
<1> SUFFICES ASSUME NEW i \in Inodes, NEW y \in Nodes
             PROVE  Cardinality(Users(i, y)') <= handles[i][y] /\ (Users(i, y)' # {} => Keeps(i, y)')
  BY DEF Handled
<1>1. Users(i, y)' \subseteq Users(i, y) /\ Users(i, y) \subseteq Nodes
  BY DEF Users
<1>2. IsFiniteSet(Users(i, y))
  BY <1>1, FS_Subset
<1>3. Cardinality(Users(i, y)') <= Cardinality(Users(i, y))
  BY <1>1, <1>2, FS_Subset
<1>4. Cardinality(Users(i, y)) \in Nat /\ Cardinality(Users(i, y)') \in Nat
  BY <1>1, <1>2, FS_Subset, FS_CardinalityType
<1>5. Cardinality(Users(i, y)) <= handles[i][y] /\ handles[i][y] \in Int
  BY DEF Handled
<1>6. Users(i, y)' # {} => Keeps(i, y)'
  BY <1>1 DEF Handled
<1> QED
  BY <1>3, <1>4, <1>5, <1>6

(* No inode moves. *)
LEMMA StillHeld ==
    ASSUME node' = node, NEW i \in Inodes,
           \A n \in Nodes : Keeps(i, n)' <=> Keeps(i, n),
           \A u \in Threads : op'[u] = op[u] \/ (op[u].resp.tag # "stolen" /\ op'[u].resp.tag # "stolen")
    PROVE  /\ Holders(i)' = Holders(i) /\ Carriers(i)' = Carriers(i)
           /\ \A u \in Carriers(i) : op'[u] = op[u]
<1>1. Holders(i)' = Holders(i)
  BY DEF Holders, Keeps
<1>2. \A u \in Threads : op[u].resp.tag = "stolen" \/ op'[u].resp.tag = "stolen" => op'[u] = op[u]
  OBVIOUS
<1> QED
  BY <1>1, <1>2 DEF Carriers

(* So the name and the count stay where they are. *)
LEMMA StillCounted ==
    ASSUME node' = node,
           \A i \in Inodes, n \in Nodes : Keeps(i, n)' <=> Keeps(i, n),
           \A u \in Threads : op'[u] = op[u] \/ (op[u].resp.tag # "stolen" /\ op'[u].resp.tag # "stolen"),
           \A n \in Nodes : (linked'[n] <=> linked[n]) /\ body'[n].refcnt = body[n].refcnt
    PROVE  (Named' <=> Named) /\ \A r \in Nat : Counts(r)' <=> Counts(r)
<1>1. /\ Holders("dir")' = Holders("dir") /\ Carriers("dir")' = Carriers("dir")
      /\ \A u \in Carriers("dir") : op'[u] = op[u]
  BY StillHeld, NodesFacts
<1>2. /\ Holders("file")' = Holders("file") /\ Carriers("file")' = Carriers("file")
      /\ \A u \in Carriers("file") : op'[u] = op[u]
  BY StillHeld, NodesFacts
<1>3. Holders("dir") \subseteq Nodes /\ Holders("file") \subseteq Nodes
  BY DEF Holders
<1>4. Named' <=> Named
  BY <1>1, <1>3 DEF Named
<1>5. \A r \in Nat : Counts(r)' <=> Counts(r)
  BY <1>2, <1>3 DEF Counts
<1> QED
  BY <1>4, <1>5

-------------------------------------------------------------------------------
(* Steps in which one thread goes on *)

(* Thread t goes on with its operation; it had no result and has none. *)
Turn(t) ==
    /\ \A u \in Threads : u # t => op'[u] = op[u]
    /\ op'[t].kind = op[t].kind /\ op'[t].n = op[t].n
    /\ op[t].pc # "idle" /\ op'[t].pc # "idle"
    /\ op[t].resp.tag # "done" /\ op'[t].resp.tag \notin {"done", "error"}
    /\ UNCHANGED <<kref, fhAt, dhAt, node, faults, handles, panicked>>

(* The references are the same. *)
LEMMA TurnRefs ==
    ASSUME Shape, Shape', NEW t \in Threads, Turn(t)
    PROVE  Cardinality(Kept)' = Cardinality(Kept) /\ Cardinality(Kept) \in Nat /\ Cardinality(Kept)' \in Nat
<1>0. NodeOf[t] \in Nodes
  BY NodesFacts
<1>1. \A u \in Threads : AnswerRefs'[u] = AnswerRefs[u] /\ ForgetRefs'[u] = ForgetRefs[u]
  BY DEF Turn, AnswerRefs, ForgetRefs, Looked
<1>2. \A n \in Nodes : KernelRefs'[n] = KernelRefs[n]
  BY DEF Turn, KernelRefs
<1>3. KernelSum' + AnswerSum' + ForgetSum' =
             KernelSum + AnswerSum + ForgetSum
               - KernelRefs[NodeOf[t]] - AnswerRefs[t] - ForgetRefs[t]
               + KernelRefs'[NodeOf[t]] + AnswerRefs'[t] + ForgetRefs'[t]
  BY <1>0, <1>1, <1>2, SumChange
<1>4. KernelRefs[NodeOf[t]] \in Nat /\ AnswerRefs[t] \in Nat /\ ForgetRefs[t] \in Nat
  BY <1>0, RefsTypes
<1>5. /\ Cardinality(Kept) = KernelSum + AnswerSum + ForgetSum
      /\ KernelSum \in Nat /\ AnswerSum \in Nat /\ ForgetSum \in Nat
  BY KeptIsSum
<1>6. Cardinality(Kept)' = KernelSum' + AnswerSum' + ForgetSum'
  BY KeptIsSumNext
<1> QED
  BY <1>0, <1>1, <1>2, <1>3, <1>4, <1>5, <1>6

(* So are the kernels, and the handles they have. *)
LEMMA TurnKernels ==
    ASSUME Solo, Kernels, NEW t \in Threads, Turn(t), \A n \in Nodes : Located(n) => Located(n)'
    PROVE  Solo' /\ Kernels'
<1>0. \A u \in Threads : NodeOf[u] \in Nodes
  BY NodesFacts
<1>1. \A u \in Threads : Active(u)' => Active(u) /\ op'[u].kind = op[u].kind
  BY DEF Turn, Active
<1>2. Solo'
  BY <1>1 DEF Solo
<1>3. \A u \in Threads : Asked(u)'
  BY <1>0, <1>1 DEF Kernels, Asked, Turn
<1>4. \A u \in Threads : op'[u].resp.tag = "error" => faults' # 0
  BY DEF Kernels, Turn
<1> QED
  BY <1>2, <1>3, <1>4 DEF Kernels, Turn

(* The handles of the nodes do not change while a thread goes on. *)
LEMMA TurnUsers ==
    ASSUME NEW t \in Threads, Turn(t), NEW i \in Inodes, NEW n \in Nodes, NEW y \in Nodes
    PROVE  HasHandle(i, n, y)' <=> HasHandle(i, n, y)
<1>1. Closing(i, n)' <=> Closing(i, n)
  BY DEF Turn, Closing, Active
<1>2. Closed(i, n)' <=> Closed(i, n)
  BY DEF Turn, Closed, Active
<1>3. Opened(i, n, y)' <=> Opened(i, n, y)
  BY DEF Turn, Opened
<1>4. HandleAt(i, n)' = HandleAt(i, n) /\ node' = node
  BY DEF Turn, HandleAt
<1> QED
  BY <1>1, <1>2, <1>3, <1>4 DEF HasHandle

(* A thread that goes on, without an inode. *)
LEMMA MovesInv ==
    ASSUME OwnInv, OwnInv', RefInv, NEW t \in Threads, Turn(t), Sane(op'[t]),
           op'[t].nested => op[t].nested /\ op'[t].at = op[t].at,
           op[t].resp.tag # "stolen", op'[t].resp.tag # "stolen",
           \A i \in Inodes, n \in Nodes : Keeps(i, n)' <=> Keeps(i, n),
           \A n \in Nodes : Located(n)' <=> Located(n),
           UNCHANGED <<body, linked, made>>
    PROVE  RefInv'
<1>0. Shape /\ Shape' /\ IsFiniteSet(Nodes) /\ handles \in [Inodes -> [Nodes -> Int]]
  BY NodesAssumption DEF OwnInv, RefInv, More
<1>1. More' /\ ~panicked'
  BY DEF RefInv, More, Turn
<1>2. Sanes'
  BY DEF RefInv, Sanes, Turn
<1>3. Solo' /\ Kernels'
  BY TurnKernels DEF RefInv
<1>4. \A u \in Threads : op'[u] = op[u] \/ (op[u].resp.tag # "stolen" /\ op'[u].resp.tag # "stolen")
  BY DEF Turn
<1>5. \A i \in Inodes : Carriers(i)' \subseteq Carriers(i)
  BY <1>4, StillHeld DEF Turn
<1>6. Alone' /\ Placed'
  <2>1. \A u \in Threads : op'[u].nested => op[u].nested /\ op'[u].at = op[u].at
    BY DEF Turn
  <2>2. \A u \in Threads : op'[u].nested => linked'[op[u].at] /\ node'[op[u].at] # "dead"
    BY <2>1 DEF RefInv, Placed, Turn
  <2> QED
    BY <1>5, <2>1, <2>2, QuietLinks DEF RefInv
<1>7. (Named' <=> Named) /\ \A r \in Nat : Counts(r)' <=> Counts(r)
  BY <1>4, StillCounted DEF Turn
<1>8. Counted' /\ Copied' /\ Unborn'
  <2>1. Cardinality(Kept)' = Cardinality(Kept) /\ Cardinality(Kept) \in Nat /\ Cardinality(Kept)' \in Nat
    BY <1>0, TurnRefs
  <2>2. faults' = faults
    BY DEF Turn
  <2> QED
    BY <1>7, <2>1, <2>2, QuietRefs DEF RefInv
<1>9. Handled'
  BY <1>0, TurnUsers, QuietUsers DEF RefInv, Turn
<1> QED
  BY <1>1, <1>2, <1>3, <1>6, <1>8, <1>9 DEF RefInv

(* The frame of thread t after a step that changes what it waits for. *)
LEMMA NextFrame ==
    ASSUME Shape, NEW t \in Threads, NEW g, op' = [op EXCEPT ![t] = g]
    PROVE  op'[t] = g /\ \A u \in Threads : u # t => op'[u] = op[u]
BY DEF Shape

(* The frames of threads that have no answer. *)
LEMMA NoResult ==
    ASSUME OwnInv, NEW t \in Threads, op[t].pc \notin {"stolen", "reply"}
    PROVE  op[t].resp = NoAnswer /\ op[t].resp.tag = "none"
BY NoAnswerType DEF OwnInv, Forms, Form

(* route sends a request. *)
LEMMA SendMoves ==
    ASSUME OwnInv, OwnInv', RefInv, NEW t \in Threads, op[t].pc \in {"route", "exec"},
           NEW pc \in {"steal", "call"}, NEW y, op[t].nested /\ op[t].kind = "unlink" => pc = "steal",
           Send(t, pc, y), UNCHANGED rest
    PROVE  RefInv'
<1> DEFINE g == [op[t] EXCEPT !.pc = pc, !.to = y]
<1>0. Shape /\ op[t] \in FrameRec /\ Sane(op[t]) /\ op[t].resp.tag = "none"
  BY NoResult DEF OwnInv, Shape, RefInv, Sanes
<1>1. g.kind = op[t].kind /\ g.n = op[t].n /\ g.pc = pc /\ g.nested = op[t].nested /\ g.at = op[t].at
      /\ g.resp = op[t].resp
  BY <1>0 DEF FrameRec
<1>2. op'[t] = g /\ \A u \in Threads : u # t => op'[u] = op[u]
  <2>1. op' = [op EXCEPT ![t] = g]
    BY DEF Send
  <2> HIDE DEF g
  <2> QED
    BY <2>1, <1>0, NextFrame
<1> HIDE DEF g
<1>3. UNCHANGED <<own, body, handles, linked, kref, fhAt, dhAt, node, made, panicked, faults>>
  BY DEF rest
<1>4. Turn(t)
  BY <1>0, <1>1, <1>2, <1>3 DEF Turn
<1>5. Sane(op'[t])
  BY <1>0, <1>1, <1>2 DEF Sane
<1>6. (\A i \in Inodes, n \in Nodes : Keeps(i, n)' <=> Keeps(i, n)) /\ \A n \in Nodes : Located(n)' <=> Located(n)
  BY <1>3 DEF Keeps, Located
<1> QED
  BY <1>0, <1>1, <1>2, <1>3, <1>4, <1>5, <1>6, MovesInv

(* A node answers a request that it does not carry out. *)
LEMMA AnsweredMoves ==
    ASSUME OwnInv, OwnInv', RefInv, NEW t \in Threads, op[t].pc \in {"steal", "call"},
           NEW r \in AnswerRec, NEW pc \in {"stolen", "reply"},
           op' = [op EXCEPT ![t] = [op[t] EXCEPT !.pc = pc, !.resp = r]],
           \/ pc = "stolen" /\ r.tag \in {"other", "nil"}
           \/ pc = "reply" /\ r.tag = "other" /\ op[t].pc = "call",
           UNCHANGED <<own, body, handles, linked, kref, fhAt, dhAt, node, made, panicked, faults>>
    PROVE  RefInv'
<1> DEFINE g == [op[t] EXCEPT !.pc = pc, !.resp = r]
<1>0. Shape /\ op[t] \in FrameRec /\ Sane(op[t]) /\ op[t].resp.tag = "none"
  BY NoResult DEF OwnInv, Shape, RefInv, Sanes
<1>1. g.kind = op[t].kind /\ g.n = op[t].n /\ g.pc = pc /\ g.nested = op[t].nested /\ g.at = op[t].at
      /\ g.resp = r
  BY <1>0 DEF FrameRec
<1>2. op'[t] = g /\ \A u \in Threads : u # t => op'[u] = op[u]
  <2>1. op' = [op EXCEPT ![t] = g]
    OBVIOUS
  <2> HIDE DEF g
  <2> QED
    BY <2>1, <1>0, NextFrame
<1> HIDE DEF g
<1>4. Turn(t)
  BY <1>0, <1>1, <1>2 DEF Turn
<1>5. Sane(op'[t])
  BY <1>0, <1>1, <1>2 DEF Sane
<1>6. (\A i \in Inodes, n \in Nodes : Keeps(i, n)' <=> Keeps(i, n)) /\ \A n \in Nodes : Located(n)' <=> Located(n)
  BY DEF Keeps, Located
<1> QED
  BY <1>0, <1>1, <1>2, <1>4, <1>5, <1>6, MovesInv

(* The frame of a thread that goes on after an answer. *)
LEMMA ResumeTurn ==
    ASSUME OwnInv, RefInv, NEW t \in Threads, op[t].pc \in {"stolen", "reply"}, op[t].resp.tag # "done",
           NEW pc \in {"route", "exec"}, op[t].nested => pc = "route",
           op' = [op EXCEPT ![t] = [op[t] EXCEPT !.pc = pc, !.resp = NoAnswer]],
           UNCHANGED <<handles, kref, fhAt, dhAt, node, panicked, faults>>
    PROVE  /\ Turn(t) /\ Sane(op'[t]) /\ op'[t].nested = op[t].nested /\ op'[t].at = op[t].at
           /\ op'[t].resp.tag = "none"
<1> DEFINE g == [op[t] EXCEPT !.pc = pc, !.resp = NoAnswer]
<1>0. Shape /\ op[t] \in FrameRec /\ Sane(op[t]) /\ NoAnswer.tag = "none"
  BY NoAnswerType DEF OwnInv, Shape, RefInv, Sanes
<1>1. g.kind = op[t].kind /\ g.n = op[t].n /\ g.pc = pc /\ g.nested = op[t].nested /\ g.at = op[t].at
      /\ g.resp = NoAnswer
  BY <1>0 DEF FrameRec
<1>2. op'[t] = g /\ \A u \in Threads : u # t => op'[u] = op[u]
  <2>1. op' = [op EXCEPT ![t] = g]
    OBVIOUS
  <2> HIDE DEF g
  <2> QED
    BY <2>1, <1>0, NextFrame
<1> HIDE DEF g
<1>4. Turn(t)
  BY <1>0, <1>1, <1>2 DEF Turn
<1>5. Sane(op'[t])
  BY <1>0, <1>1, <1>2 DEF Sane
<1> QED
  BY <1>0, <1>1, <1>2, <1>4, <1>5

(* trySteal was refused. *)
LEMMA RefusedMoves ==
    ASSUME OwnInv, OwnInv', RefInv, NEW t \in Threads, op[t].pc = "stolen", op[t].resp.tag = "nil",
           NEW pc \in {"route", "exec"}, op[t].nested => pc = "route",
           op' = [op EXCEPT ![t] = [op[t] EXCEPT !.pc = pc, !.resp = NoAnswer]],
           UNCHANGED <<own, body, handles, linked, kref, fhAt, dhAt, node, made, panicked, faults>>
    PROVE  RefInv'
<1>1. /\ Turn(t) /\ Sane(op'[t]) /\ op'[t].nested = op[t].nested /\ op'[t].at = op[t].at
      /\ op'[t].resp.tag = "none"
  BY ResumeTurn
<1>2. (\A i \in Inodes, n \in Nodes : Keeps(i, n)' <=> Keeps(i, n)) /\ \A n \in Nodes : Located(n)' <=> Located(n)
  BY DEF Keeps, Located
<1> QED
  BY <1>1, <1>2, MovesInv

(* applyOwner. *)
LEMMA RedirectMoves ==
    ASSUME OwnInv, OwnInv', RefInv, ~early', NEW t \in Threads, Redirect(t),
           UNCHANGED <<handles, dhAt, panicked, faults>>
    PROVE  RefInv'
<1>0. /\ op[t].pc \in {"stolen", "reply"} /\ op[t].resp.tag = "other"
      /\ op' = [op EXCEPT ![t] = [op[t] EXCEPT !.pc = "route", !.resp = NoAnswer]]
      /\ own' = [own EXCEPT ![Target(op[t])][op[t].at] = applyOwner(@, op[t].resp)]
      /\ UNCHANGED <<body, linked, kref, fhAt, node, made>>
  BY DEF Redirect
<1>1. /\ Turn(t) /\ Sane(op'[t]) /\ op'[t].nested = op[t].nested /\ op'[t].at = op[t].at
      /\ op'[t].resp.tag = "none"
  BY <1>0, ResumeTurn
<1>2. /\ CalmStep
      /\ \A j \in Inodes, n \in Nodes : own[j][n].owner = n /\ own[j][n].ready => own'[j][n] = own[j][n]
  BY RedirectCalm
<1>3. \A i \in Inodes, n \in Nodes : Keeps(i, n)' <=> Keeps(i, n)
  BY <1>2 DEF Keeps, CalmStep, Follows
<1>4. \A n \in Nodes : Located(n) => Located(n)'
  BY <1>2, CalmLocated
<1>5. \A n \in Nodes : Located(n)' => Located(n)
  <2> TAKE n \in Nodes
  <2>1. op[t].at \in Nodes /\ Target(op[t]) \in Inodes /\ FrameLocated(op[t]) /\ own \in [Inodes -> [Nodes -> CopyRec]]
    BY FrameType DEF OwnInv, Shape, Names
  <2>2. CASE n = op[t].at /\ Target(op[t]) = "file"
    BY <2>1, <2>2, <1>0 DEF FrameLocated, InUse
  <2>3. CASE ~(n = op[t].at /\ Target(op[t]) = "file")
    BY <2>1, <2>3, <1>0, NodesFacts DEF Located
  <2> QED
    BY <2>2, <2>3
<1> QED
  BY <1>0, <1>1, <1>3, <1>4, <1>5, MovesInv

(* A thread that goes on in a step that takes an inode with it: everything but the places of *)
(* the inodes and the references.                                                            *)
LEMMA TurnRest ==
    ASSUME OwnInv, OwnInv', RefInv, NEW t \in Threads, Turn(t), Sane(op'[t]),
           \A n \in Nodes : Located(n) => Located(n)',
           \A i \in Inodes, y \in Nodes : Users(i, y) # {} /\ Keeps(i, y) => Keeps(i, y)'
    PROVE  More' /\ Sanes' /\ Solo' /\ Kernels' /\ Handled' /\ ~panicked'
<1>0. Shape /\ Shape' /\ IsFiniteSet(Nodes) /\ handles \in [Inodes -> [Nodes -> Int]]
  BY NodesAssumption DEF OwnInv, RefInv, More
<1>1. More' /\ ~panicked'
  BY DEF RefInv, More, Turn
<1>2. Sanes'
  BY DEF RefInv, Sanes, Turn
<1>3. Solo' /\ Kernels'
  BY TurnKernels DEF RefInv
<1>4. Handled'
  BY <1>0, TurnUsers, QuietUsers DEF RefInv, Turn
<1> QED
  BY <1>1, <1>2, <1>3, <1>4

(* A node without handles has no users. *)
LEMMA NoUsers ==
    ASSUME Handled, NEW i \in Inodes, NEW y \in Nodes, handles[i][y] = 0
    PROVE  Users(i, y) = {}
<1>1. Users(i, y) \subseteq Nodes /\ IsFiniteSet(Nodes)
  BY NodesAssumption DEF Users
<1>2. IsFiniteSet(Users(i, y))
  BY <1>1, FS_Subset
<1>3. Cardinality(Users(i, y)) \in Nat /\ Cardinality(Users(i, y)) <= 0
  BY <1>2, FS_CardinalityType DEF Handled
<1>4. Cardinality(Users(i, y)) = 0
  BY <1>3
<1> QED
  BY <1>2, <1>4, FS_EmptySet

(* tryYield: the name and the references go with the inode. *)
LEMMA YieldMoves ==
    ASSUME OwnInv, OwnInv', RefInv, NEW t \in Threads, Yields(t), NEW i \in Inodes, i = Target(op[t]),
           NEW y \in Nodes, y = op[t].to, CanYield(i, y), i = "dir" => ~DirBusy(y),
           body' = IF i = "file" THEN [body EXCEPT ![y].refcnt = 0] ELSE body,
           linked' = IF i = "dir" THEN [linked EXCEPT ![y] = FALSE] ELSE linked,
           UNCHANGED <<handles, dhAt, panicked, faults>>
    PROVE  RefInv'
<1> DEFINE x == op[t].at
           r == Yielded(i, y)
           g == [op[t] EXCEPT !.pc = "stolen", !.resp = r]
           d == GivenAway(own[i][y], x)
<1>0. /\ Shape /\ Shape' /\ op[t] \in FrameRec /\ Sane(op[t]) /\ op[t].resp.tag = "none" /\ x \in Nodes
      /\ x \in Owners /\ x # UNKNOWN_OWNER
      /\ op[t].pc = "steal" /\ own \in [Inodes -> [Nodes -> CopyRec]] /\ body \in [Nodes -> BodyRec]
      /\ linked \in [Nodes -> BOOLEAN] /\ body' \in [Nodes -> BodyRec] /\ linked' \in [Nodes -> BOOLEAN]
      /\ y \in Holders(i) /\ UNCHANGED <<kref, fhAt, node, made>>
  <2>1. op[t].pc = "steal" /\ y \in Holders(i) /\ UNCHANGED <<kref, fhAt, node, made>>
    BY DEF Yields
  <2>2. op[t].resp.tag = "none"
    BY <2>1, NoResult
  <2>3. Shape /\ Shape' /\ Sane(op[t])
    BY DEF OwnInv, RefInv, Sanes
  <2>4. op[t] \in FrameRec /\ x \in Nodes
    BY <2>3, FrameType DEF Shape
  <2> QED
    BY <2>1, <2>2, <2>3, <2>4, NodesFacts DEF Shape
<1>1. /\ r \in AnswerRec /\ r.tag = "stolen" /\ r.linked = linked[y] /\ r.refcnt = body[y].refcnt
  BY <1>0, YieldedFacts
<1> HIDE DEF r
<1>2. g.kind = op[t].kind /\ g.n = op[t].n /\ g.pc = "stolen" /\ g.nested = op[t].nested /\ g.at = x
      /\ g.resp = r
  BY <1>0 DEF FrameRec
<1>3. op'[t] = g /\ \A u \in Threads : u # t => op'[u] = op[u]
  <2>1. op' = [op EXCEPT ![t] = g]
    BY DEF Yields, r
  <2> HIDE DEF g
  <2> QED
    BY <2>1, <1>0, NextFrame
<1> HIDE DEF g
<1>4. Target(op'[t]) = i
  BY <1>2, <1>3 DEF Target
<1>5. Turn(t) /\ Sane(op'[t])
  <2>1. Turn(t)
    BY <1>0, <1>1, <1>2, <1>3 DEF Turn
  <2>2. Sane(op'[t])
    BY <1>0, <1>1, <1>2, <1>3 DEF Sane
  <2> QED
    BY <2>1, <2>2
<1>6. \A j \in Inodes, n \in Nodes : own'[j][n] = (IF j = i /\ n = y THEN d ELSE own[j][n])
  <2>1. own' = [own EXCEPT ![i][y] = d]
    BY DEF Yields
  <2>2. d \in CopyRec
    BY <1>0, CopyType DEF GivenAway, CopyRec
  <2> HIDE DEF d
  <2>3. \A j \in Inodes, n \in Nodes :
             [own EXCEPT ![i][y] = d][j][n] = (IF j = i /\ n = y THEN d ELSE own[j][n])
    BY <1>0, <2>2, OneCopyChanged
  <2> QED
    BY <2>1, <2>3
<1>7. d.owner = x /\ ~d.ready
  BY DEF GivenAway
<1> HIDE DEF d
<1>8. Keeps(i, y) /\ \A j \in Inodes, n \in Nodes : Keeps(j, n)' <=> Keeps(j, n) /\ ~(j = i /\ n = y)
  BY <1>0, <1>6, <1>7 DEF Keeps, Holders
<1>9. \A n \in Nodes : Located(n)' <=> Located(n)
  BY <1>0, <1>6, <1>7, <1>8, NodesFacts DEF Located, Keeps
<1>10. Users(i, y) = {}
  BY NoUsers DEF RefInv, CanYield
<1>11. More' /\ Sanes' /\ Solo' /\ Kernels' /\ Handled' /\ ~panicked'
  BY <1>5, <1>8, <1>9, <1>10, TurnRest
<1>12. /\ Carriers(i) = {} /\ Holders(i) = {y}
       /\ \A j \in Inodes : Carriers(j)' = Carriers(j) \cup (IF j = i /\ node[x] # "dead" THEN {t} ELSE {})
       /\ \A j \in Inodes : Holders(j)' = Holders(j) \ (IF j = i THEN {y} ELSE {})
  <2>1. Carriers(i) = {} /\ Holders(i) = {y}
    BY <1>0, HolderAlone
  <2>2. ASSUME NEW j \in Inodes
        PROVE  Holders(j)' = Holders(j) \ (IF j = i THEN {y} ELSE {})
    BY <1>0, <1>8 DEF Holders, Keeps
  <2>3. ASSUME NEW j \in Inodes
        PROVE  Carriers(j)' = Carriers(j) \cup (IF j = i /\ node[x] # "dead" THEN {t} ELSE {})
    BY <1>0, <1>1, <1>2, <1>3, <1>4 DEF Carriers
  <2> QED
    BY <2>1, <2>2, <2>3
<1>13. Alone'
  <2> SUFFICES ASSUME NEW j \in Inodes, NEW n \in Nodes, Keeps(j, n)'
               PROVE  Carriers(j)' = {} /\ \A m \in Nodes : Keeps(j, m)' => m = n
    BY DEF Alone
  <2>1. Keeps(j, n) /\ ~(j = i /\ n = y)
    BY <1>8
  <2>2. j # i
    BY <2>1, <1>8 DEF RefInv, Alone
  <2> QED
    BY <2>1, <2>2, <1>8, <1>12 DEF RefInv, Alone
<1>14. \A n \in Nodes : /\ body'[n].state = body[n].state /\ body'[n].known = body[n].known
                        /\ (i = "dir" => body'[n].refcnt = body[n].refcnt)
                        /\ linked'[n] = (IF i = "dir" /\ n = y THEN FALSE ELSE linked[n])
  BY <1>0 DEF BodyRec
<1>15. Placed'
  <2>1. \A n \in Nodes : linked'[n] => Keeps("dir", n)'
    BY <1>8, <1>14, NodesFacts DEF RefInv, Placed
  <2>2. \A n \in Nodes : body'[n].state # "CACHED" => Keeps("file", n)'
    BY <1>8, <1>14, NodesFacts DEF RefInv, Placed, CanYield
  <2>3. \A u \in Threads : op'[u].nested = op[u].nested /\ op'[u].at = op[u].at /\ op[u].at \in Nodes
    BY <1>0, <1>2, <1>3, FrameType DEF Shape
  <2>4. \A u \in Threads : op'[u].nested =>
          /\ linked'[op'[u].at] /\ node'[op'[u].at] # "dead"
          /\ \A v \in Threads : op'[v].nested /\ op'[v].at = op'[u].at => v = u
    BY <2>3, <1>0, <1>14 DEF RefInv, Placed, DirBusy
  <2> QED
    BY <2>1, <2>2, <2>4 DEF Placed
<1>16. (Named' => Named) /\ (faults = 0 => (Named' <=> Named)) /\ \A c \in Nat : Counts(c)' => Counts(c)
  <2>0. faults = 0 => node[x] # "dead"
    BY <1>0 DEF RefInv, Kernels
  <2>1. CASE i = "dir"
    <3>1. Named <=> linked[y]
      BY <1>12, <2>1 DEF Named
    <3>2. Named' <=> node[x] # "dead" /\ linked[y]
      BY <1>1, <1>2, <1>3, <1>12, <2>1, NodesFacts DEF Named
    <3>3. Carriers("file")' = Carriers("file") /\ Holders("file")' = Holders("file")
      BY <1>12, <2>1, NodesFacts
    <3>4. \A u \in Carriers("file") : op'[u] = op[u]
      BY <1>0, <1>3 DEF Carriers
    <3>5. \A c \in Nat : Counts(c)' => Counts(c)
      BY <3>3, <3>4, <1>14, <2>1 DEF Counts, Holders
    <3> QED
      BY <2>0, <3>1, <3>2, <3>5
  <2>2. CASE i = "file"
    <3>1. Carriers("dir")' = Carriers("dir") /\ Holders("dir")' = Holders("dir")
      BY <1>12, <2>2, NodesFacts
    <3>2. \A u \in Carriers("dir") : op'[u] = op[u]
      BY <1>0, <1>3 DEF Carriers
    <3>3. Named' <=> Named
      BY <3>1, <3>2, <1>14, <2>2 DEF Named, Holders
    <3>4. Carriers("file")' \subseteq {t} /\ Holders("file")' = {}
      BY <1>12, <2>2, NodesFacts
    <3>5. \A c \in Nat : Counts(c)' => c = body[y].refcnt
      BY <3>4, <1>1, <1>2, <1>3 DEF Counts
    <3>6. Counts(body[y].refcnt)
      BY <1>12, <2>2 DEF Counts
    <3> QED
      BY <3>3, <3>5, <3>6
  <2> QED
    BY <2>1, <2>2, NodesFacts
<1>17. Counted' /\ Copied' /\ Unborn'
  <2>1. Cardinality(Kept)' = Cardinality(Kept) /\ Cardinality(Kept) \in Nat /\ Cardinality(Kept)' \in Nat
    BY <1>0, <1>5, TurnRefs
  <2> QED
    BY <1>0, <1>9, <1>14, <1>16, <2>1, QuietRefs DEF RefInv
<1> QED
  BY <1>11, <1>13, <1>15, <1>17 DEF RefInv

(* What the next owner of an inode finds in the answer. *)
LEMMA StolenBodies ==
    ASSUME Shape, NEW t \in Threads, NEW i \in Inodes, NEW x \in Nodes, NEW r \in AnswerRec,
           applyStolenInode(i, x, r)
    PROVE  /\ \A n \in Nodes : n # x \/ (i = "dir" /\ ~(r.linked /\ ~body[x].known)) => body'[n] = body[n]
           /\ i = "file" => /\ body'[x].refcnt = r.refcnt /\ body'[x].state = body[x].state
                            /\ body'[x].known = body[x].known /\ body'[x].attr = r.attr
           /\ i = "dir" /\ r.linked /\ ~body[x].known =>
                  body'[x].refcnt = 0 /\ body'[x].state = "CACHED" /\ body'[x].known
           /\ \A n \in Nodes : linked'[n] <=> linked[n] \/ (n = x /\ i = "dir" /\ r.linked)
<1>1. /\ r.refcnt \in Nat /\ r.attr \in Nat /\ r.linked \in BOOLEAN
      /\ body \in [Nodes -> BodyRec] /\ body[x] \in BodyRec /\ linked \in [Nodes -> BOOLEAN]
  BY DEF Shape, AnswerRec
<1>2. /\ body' = IF i = "file" THEN [body EXCEPT ![x].refcnt = r.refcnt, ![x].attr = r.attr]
                 ELSE IF i = "dir" /\ r.linked /\ ~body[x].known
                      THEN [body EXCEPT ![x] = [Blank EXCEPT !.known = TRUE]] ELSE body
      /\ linked' = IF i = "dir" THEN [linked EXCEPT ![x] = @ \/ r.linked] ELSE linked
  BY DEF applyStolenInode
<1>3. \A n \in Nodes : linked'[n] <=> linked[n] \/ (n = x /\ i = "dir" /\ r.linked)
  BY <1>1, <1>2
<1>4. CASE i = "file"
  <2> DEFINE b == [body[x] EXCEPT !.refcnt = r.refcnt, !.attr = r.attr]
  <2>1. b.known = body[x].known /\ b.refcnt = r.refcnt /\ b.state = body[x].state /\ b.attr = r.attr
    BY <1>1 DEF BodyRec
  <2>2. body' = [body EXCEPT ![x] = b]
    BY <1>1, <1>2, <1>4
  <2> HIDE DEF b
  <2> QED
    BY <2>1, <2>2, <1>1, <1>3, <1>4
<1>5. CASE i = "dir"
  BY <1>1, <1>2, <1>3, <1>5 DEF Blank
<1> QED
  BY <1>4, <1>5, NodesFacts

(* applyStolenInode: the next owner goes on with the name and the references. *)
LEMMA ArriveMoves ==
    ASSUME OwnInv, OwnInv', RefInv, NEW t \in Threads, Arrives(t),
           UNCHANGED <<handles, dhAt, panicked, faults>>
    PROVE  RefInv'
<1>i. PICK i \in Inodes, x \in Nodes, r \in AnswerRec :
            i = Target(op[t]) /\ x = op[t].at /\ r = op[t].resp
  BY FrameType DEF OwnInv, Shape
<1> DEFINE new == i = "dir" /\ r.linked /\ ~body[x].known
<1>0. /\ t \in Carriers(i) /\ UNCHANGED <<kref, fhAt, node, made>> /\ op[t].pc = "stolen" /\ r.tag = "stolen"
      /\ node[x] # "dead" /\ Shape /\ Shape' /\ FrameLocated(op[t]) /\ applyStolenInode(i, x, r)
      /\ op' = [op EXCEPT ![t] = [op[t] EXCEPT !.pc = "route", !.resp = NoAnswer]]
  BY <1>i DEF Arrives, Carriers, OwnInv, Names
<1>1. /\ Turn(t) /\ Sane(op'[t]) /\ op'[t].nested = op[t].nested /\ op'[t].at = op[t].at
      /\ op'[t].resp.tag = "none"
  BY <1>i, <1>0, ResumeTurn
<1>2. /\ \A j \in Inodes, n \in Nodes :
            (j # i /\ ~(n = x /\ new)) \/ n # x => own'[j][n] = own[j][n]
      /\ own'[i][x].owner = x /\ own'[i][x].term = r.term /\ own'[i][x].ready
      /\ new => /\ own'["file"][x].owner = r.child.owner
                /\ own'["file"][x].term = r.child.term /\ ~own'["file"][x].ready
  BY <1>i, <1>0, StolenCopies
<1>3. /\ \A n \in Nodes : n # x \/ (i = "dir" /\ ~new) => body'[n] = body[n]
      /\ i = "file" => /\ body'[x].refcnt = r.refcnt /\ body'[x].state = body[x].state
                       /\ body'[x].known = body[x].known
      /\ new => body'[x].refcnt = 0 /\ body'[x].state = "CACHED" /\ body'[x].known
      /\ \A n \in Nodes : linked'[n] <=> linked[n] \/ (n = x /\ i = "dir" /\ r.linked)
  BY <1>0, StolenBodies
<1>4. Holders(i) = {} /\ Carriers(i) = {t} /\ x # UNKNOWN_OWNER /\ \A n \in Nodes : ~Keeps(i, n)
  BY <1>0, CarrierAlone, NodesFacts DEF RefInv, Alone
<1>5. Cardinality(Kept)' = Cardinality(Kept) /\ Cardinality(Kept) \in Nat /\ Cardinality(Kept)' \in Nat
  BY <1>0, <1>1, TurnRefs
<1>6. new => ~Located(x)
  <2> SUFFICES ASSUME new PROVE ~Located(x)
    OBVIOUS
  <2>1. Named
    BY <1>i, <1>0 DEF Named
  <2>2. Need > 0
    BY <2>1, <1>5 DEF Need
  <2> QED
    BY <2>2 DEF RefInv, Copied
<1>7. \A j \in Inodes, n \in Nodes : Keeps(j, n)' <=> Keeps(j, n) \/ (j = i /\ n = x)
  <2> TAKE j \in Inodes, n \in Nodes
  <2>1. CASE j = i /\ n = x
    BY <2>1, <1>2 DEF Keeps
  <2>2. CASE j # i /\ n = x /\ new
    <3>1. j = "file"
      BY <2>2, NodesFacts
    <3> QED
      BY <2>2, <3>1, <1>2, <1>6, NodesFacts DEF Keeps, Located
  <2>3. CASE (j # i /\ ~(n = x /\ new)) \/ n # x
    BY <2>3, <1>2 DEF Keeps
  <2> QED
    BY <2>1, <2>2, <2>3
<1>8. \A n \in Nodes : (Located(n) => Located(n)') /\ (Located(n)' => Located(n) \/ (n = x /\ new))
  <2> TAKE n \in Nodes
  <2>1. CASE n # x
    BY <2>1, <1>2, NodesFacts DEF Located
  <2>2. CASE n = x /\ i = "file"
    <3>1. Located(x) /\ Located(x)'
      BY <1>i, <1>0, <1>2, <1>4, <2>2 DEF FrameLocated, InUse, Located
    <3> QED
      BY <3>1, <2>2
  <2>3. CASE n = x /\ i = "dir"
    BY <2>3, <1>2, <1>6, NodesFacts DEF Located
  <2> QED
    BY <2>1, <2>2, <2>3, NodesFacts
<1>9. More' /\ Sanes' /\ Solo' /\ Kernels' /\ Handled' /\ ~panicked'
  BY <1>1, <1>7, <1>8, TurnRest
<1>10. /\ \A j \in Inodes : Carriers(j)' = Carriers(j) \ (IF j = i THEN {t} ELSE {})
       /\ \A j \in Inodes : Holders(j)' = Holders(j) \cup (IF j = i THEN {x} ELSE {})
       /\ \A u \in Threads : u # t => op'[u] = op[u]
  <2>1. \A u \in Threads : u # t => op'[u] = op[u]
    BY <1>1 DEF Turn
  <2>2. ASSUME NEW j \in Inodes
        PROVE  Holders(j)' = Holders(j) \cup (IF j = i THEN {x} ELSE {})
    BY <1>0, <1>7 DEF Holders, Keeps
  <2>3. ASSUME NEW j \in Inodes
        PROVE  Carriers(j)' = Carriers(j) \ (IF j = i THEN {t} ELSE {})
    BY <1>i, <1>0, <1>1, <2>1 DEF Carriers
  <2> QED
    BY <2>1, <2>2, <2>3
<1>11. Alone'
  <2> SUFFICES ASSUME NEW j \in Inodes, NEW n \in Nodes, Keeps(j, n)'
               PROVE  Carriers(j)' = {} /\ \A m \in Nodes : Keeps(j, m)' => m = n
    BY DEF Alone
  <2>1. CASE j = i
    BY <2>1, <1>4, <1>7, <1>10
  <2>2. CASE j # i
    BY <2>2, <1>7, <1>10 DEF RefInv, Alone
  <2> QED
    BY <2>1, <2>2
<1>12. \A n \in Nodes : body'[n].state # "CACHED" => body[n].state # "CACHED"
  BY <1>3, NodesFacts
<1>13. Placed'
  <2>1. \A n \in Nodes : linked'[n] => Keeps("dir", n)'
    BY <1>3, <1>7, NodesFacts DEF RefInv, Placed
  <2>2. \A n \in Nodes : body'[n].state # "CACHED" => Keeps("file", n)'
    BY <1>7, <1>12, NodesFacts DEF RefInv, Placed
  <2>3. \A u \in Threads : op'[u].nested = op[u].nested /\ op'[u].at = op[u].at /\ op[u].at \in Nodes
    BY <1>0, <1>1, <1>10, FrameType DEF Shape
  <2>4. \A u \in Threads : op'[u].nested =>
          /\ linked'[op'[u].at] /\ node'[op'[u].at] # "dead"
          /\ \A v \in Threads : op'[v].nested /\ op'[v].at = op'[u].at => v = u
    BY <2>3, <1>0, <1>3 DEF RefInv, Placed
  <2> QED
    BY <2>1, <2>2, <2>4 DEF Placed
<1>14. Named' <=> Named
  <2>1. CASE i = "dir"
    <3>1. ~linked[x]
      BY <2>1, <1>4 DEF RefInv, Placed
    <3>2. Named <=> r.linked
      BY <1>i, <1>4, <2>1 DEF Named
    <3>3. Named' <=> linked'[x]
      BY <1>4, <1>10, <2>1, NodesFacts DEF Named
    <3> QED
      BY <3>1, <3>2, <3>3, <1>3, <2>1
  <2>2. CASE i = "file"
    <3>1. Carriers("dir")' = Carriers("dir") /\ Holders("dir")' = Holders("dir") /\ t \notin Carriers("dir")
      BY <1>i, <1>10, <2>2, NodesFacts DEF Carriers
    <3>2. \A u \in Carriers("dir") : op'[u] = op[u]
      BY <3>1, <1>10 DEF Carriers
    <3> QED
      BY <3>1, <3>2, <1>3, <2>2 DEF Named, Holders
  <2> QED
    BY <2>1, <2>2, NodesFacts
<1>15. \A c \in Nat : Counts(c)' => Counts(c)
  <2>1. CASE i = "file"
    <3>1. \A c \in Nat : Counts(c)' => c = r.refcnt
      BY <1>3, <1>4, <1>10, <2>1, NodesFacts DEF Counts
    <3>2. Counts(r.refcnt)
      BY <1>i, <1>0, <2>1 DEF Counts
    <3> QED
      BY <3>1, <3>2
  <2>2. CASE i = "dir"
    <3>1. Carriers("file")' = Carriers("file") /\ Holders("file")' = Holders("file") /\ t \notin Carriers("file")
      BY <1>i, <1>10, <2>2, NodesFacts DEF Carriers
    <3>2. \A u \in Carriers("file") : op'[u] = op[u]
      BY <3>1, <1>10 DEF Carriers
    <3>3. \A h \in Holders("file") : body'[h] = body[h]
      <4> TAKE h \in Holders("file")
      <4>1. h \in Nodes /\ Located(h)
        BY NodesFacts DEF Holders, Located
      <4> QED
        BY <4>1, <1>3, <1>6, <2>2
    <3> QED
      BY <3>1, <3>2, <3>3 DEF Counts
  <2> QED
    BY <2>1, <2>2, NodesFacts
<1>16. \A n \in Nodes : linked'[n] => linked[n] \/ (n = x /\ i = "dir" /\ r.linked)
  BY <1>3
<1>17. Counted' /\ Copied' /\ Unborn'
  <2>1. Need \in Nat /\ Need' = Need
    BY <1>5, <1>14 DEF Need
  <2>2. Counted'
    BY <1>1, <1>15, <2>1 DEF RefInv, Counted, Turn
  <2>3. Copied'
    <3> SUFFICES ASSUME Need > 0, NEW n \in Nodes, Located(n)' PROVE body'[n].known
      BY <2>1 DEF Copied
    <3>1. CASE n = x /\ new
      BY <3>1, <1>3
    <3>2. CASE ~(n = x /\ new)
      <4>1. body[n].known
        BY <3>2, <1>8 DEF RefInv, Copied
      <4> QED
        BY <3>2, <4>1, <1>3, NodesFacts
    <3> QED
      BY <3>1, <3>2
  <2>4. Unborn'
    <3> SUFFICES ASSUME ~made PROVE Cardinality(Kept)' = 0 /\ \A n \in Nodes : ~linked'[n]
      BY <1>0 DEF Unborn
    <3>1. ~(i = "dir" /\ r.linked)
      <4> SUFFICES ASSUME i = "dir", r.linked PROVE FALSE
        OBVIOUS
      <4>1. r.child.owner # UNKNOWN_OWNER /\ r.child.owner \in Owners /\ r.child.term \in Nat
        BY <1>i, <1>0 DEF FrameLocated, AnswerRec
      <4>2. Known("file", r.child.owner, r.child.term)
        BY <4>1, <1>i DEF Known, Says
      <4> QED
        BY <4>1, <4>2 DEF OwnInv, Unmade
    <3> QED
      BY <3>1, <1>3, <1>5 DEF RefInv, Unborn
  <2> QED
    BY <2>2, <2>3, <2>4
<1> QED
  BY <1>9, <1>11, <1>13, <1>17 DEF RefInv

-------------------------------------------------------------------------------
(* Steps in which an operation is done *)

(* A thread that has a result waits for it. *)
LEMMA DoneIsReply ==
    ASSUME OwnInv, NEW u \in Threads, op[u].resp.tag = "done"
    PROVE  op[u].pc = "reply" \/ op[u].pc = "stolen"
BY NoAnswerType DEF OwnInv, Forms, Form

(* The handles once an operation is done: the node that asked has one more, or one less. *)
LEMMA GivenUsers ==
    ASSUME OwnInv, Solo, NEW t \in Threads, NEW y \in Nodes, NEW ok \in BOOLEAN, Given(t, y, ok), node' = node,
           op[t].pc # "idle", op[t].resp.tag = "done" => op[t].kind = "lookup",
           ok \/ op[t].kind \in {"lookup", "unlink", "create"},
           NEW i \in Inodes, NEW n \in Nodes, NEW z \in Nodes, HasHandle(i, n, z)'
    PROVE  \/ HasHandle(i, n, z) /\ ~(op[t].kind = Closes(i) /\ n = NodeOf[t])
           \/ ok /\ op[t].kind \in Opens(i) /\ n = NodeOf[t] /\ z = y
<1> DEFINE c == NodeOf[t]
           k == op[t].kind
<1>0. c \in Nodes /\ z # 0
  BY NodesFacts DEF UNKNOWN_OWNER
<1>1. Idle(t).kind = "lookup" /\ Idle(t).pc = "idle" /\ Idle(t).resp.tag = "none"
  BY IdleType, NoAnswerType
<1>2. "lookup" \notin Opens(i) /\ "lookup" # Closes(i) /\ Opens(i) \subseteq Exclusive /\ Closes(i) \in Exclusive
      /\ Closes(i) \notin Opens(i) /\ "unlink" \notin Opens(i) /\ "unlink" # Closes(i) /\ "create" # Closes(i)
  BY NodesFacts DEF Opens, Closes, Exclusive
<1>3. \A u \in Threads : u # t => op'[u] = op[u]
  BY DEF Given
<1>4. \A u \in Threads : op[u].resp.tag = "done" => op[u].pc # "idle"
  BY DoneIsReply
<1>5. CASE k = Closes(i)
  <2>1. ASSUME n = c PROVE FALSE
    <3>1. ~Opened(i, n, z)'
      <4> SUFFICES ASSUME NEW u \in Threads, NodeOf[u] = n, op'[u].kind \in Opens(i), op'[u].resp.tag = "done" PROVE FALSE
        BY DEF Opened
      <4>1. CASE u = t
        BY <4>1, <1>1, <1>2, <1>5 DEF Given
      <4>2. CASE u # t
        BY <4>2, <1>2, <1>3, <1>4, <1>5, <2>1 DEF Solo, Active
      <4> QED
        BY <4>1, <4>2
    <3>2. ~(HandleAt(i, n)' = z /\ ~Closed(i, n)')
      <4>1. CASE op'[t] = Idle(t) /\ KernelEffect(t, y, ok)
        <5>1. HandleAt(i, n)' = 0
          BY <4>1, <1>5, <1>0, <2>1, NodesFacts DEF HandleAt, KernelEffect, Closes
        <5> QED
          BY <5>1, <1>0
      <4>2. CASE op'[t].kind = k /\ op'[t].pc = "reply" /\ op'[t].resp.tag = (IF ok THEN "done" ELSE "fail")
        <5>1. ok
          BY <1>2, <1>5
        <5>2. Closed(i, n)'
          BY <4>2, <5>1, <2>1, <1>5 DEF Closed, Active
        <5> QED
          BY <5>2
      <4> QED
        BY <4>1, <4>2 DEF Given
    <3> QED
      BY <3>1, <3>2 DEF HasHandle
  <2>2. ASSUME n # c PROVE HasHandle(i, n, z)
    <3>1. HandleAt(i, n)' = HandleAt(i, n)
      BY <2>2, <1>0 DEF HandleAt, Given, KernelEffect
    <3>2. (Opened(i, n, z)' => Opened(i, n, z)) /\ (Closing(i, n)' => Closing(i, n)) /\ (Closed(i, n) => Closed(i, n)')
      BY <2>2, <1>3 DEF Opened, Closing, Closed, Active
    <3> QED
      BY <3>1, <3>2 DEF HasHandle
  <2> QED
    BY <2>1, <2>2
<1>6. CASE k # Closes(i)
  <2>1. Closed(i, n) => Closed(i, n)'
    BY <1>3, <1>6 DEF Closed, Active
  <2>2. Closing(i, n)' => Closing(i, n)
    BY <1>1, <1>2, <1>3, <1>6 DEF Closing, Active, Given
  <2>3. Opened(i, n, z)' => Opened(i, n, z) \/ (ok /\ k \in Opens(i) /\ n = c /\ z = y)
    <3> SUFFICES ASSUME NEW u \in Threads, NodeOf[u] = n, op'[u].kind \in Opens(i), op'[u].resp.tag = "done", op'[u].to = z
                 PROVE  Opened(i, n, z) \/ (ok /\ k \in Opens(i) /\ n = c /\ z = y)
      BY DEF Opened
    <3>1. CASE u = t
      BY <3>1, <1>1, <1>2 DEF Given
    <3>2. CASE u # t
      BY <3>2, <1>3 DEF Opened
    <3> QED
      BY <3>1, <3>2
  <2>4. HandleAt(i, n)' = HandleAt(i, n) \/ (ok /\ k \in Opens(i) /\ n = c /\ HandleAt(i, n)' = y)
    <3>1. CASE i = "file"
      BY <3>1, <1>0, <1>6 DEF HandleAt, Given, KernelEffect, Opens, Closes
    <3>2. CASE i = "dir"
      BY <3>2, <1>0, <1>6 DEF HandleAt, Given, KernelEffect, Opens, Closes
    <3> QED
      BY <3>1, <3>2, NodesFacts
  <2> QED
    BY <2>1, <2>2, <2>3, <2>4, <1>6 DEF HasHandle
<1> QED
  BY <1>5, <1>6

(* A node that closes a handle has it at the node that closes it. *)
LEMMA CloserIsUser ==
    ASSUME OwnInv, RefInv, NEW t \in Threads, NEW y \in Nodes, NEW i \in Inodes, op[t].kind = Closes(i),
           op[t].pc # "idle", op[t].resp.tag # "done", Keeps(i, y)
    PROVE  NodeOf[t] \in Users(i, y)
<1> DEFINE c == NodeOf[t]
           z == HandleAt(i, c)
<1>0. c \in Nodes /\ Asked(t) /\ Closes(i) \in Exclusive /\ fhAt \in [Nodes -> Owners] /\ dhAt \in [Nodes -> Owners]
  BY NodesFacts DEF RefInv, Kernels, More, OwnInv, Shape, Closes, Exclusive
<1>1. z \in Nodes
  <2>1. CASE i = "file"
    <3>1. fhAt[c] # 0 /\ fhAt[c] \in Owners
      BY <2>1, <1>0 DEF Asked, Active, Closes
    <3> QED
      BY <2>1, <3>1, NodesFacts DEF HandleAt, UNKNOWN_OWNER
  <2>2. CASE i = "dir"
    <3>1. dhAt[c] # 0 /\ dhAt[c] \in Owners
      BY <2>2, <1>0 DEF Asked, Active, Closes
    <3> QED
      BY <2>2, <3>1, NodesFacts DEF HandleAt, UNKNOWN_OWNER
  <2> QED
    BY <2>1, <2>2, NodesFacts
<1>2. Closing(i, c)
  BY DEF Closing, Active
<1>3. ~Closed(i, c)
  <2> SUFFICES ASSUME NEW u \in Threads, NodeOf[u] = c, Active(u), op[u].kind = Closes(i), op[u].resp.tag = "done"
               PROVE  FALSE
    BY DEF Closed
  <2>1. u # t /\ Active(t)
    BY DEF Active
  <2> QED
    BY <2>1, <1>0 DEF RefInv, Solo
<1>4. c \in Users(i, z)
  BY <1>0, <1>2, <1>3 DEF Users, HasHandle
<1>5. Keeps(i, z)
  BY <1>1, <1>4 DEF RefInv, Handled
<1>6. z = y
  BY <1>1, <1>5 DEF RefInv, Alone
<1> QED
  BY <1>4, <1>6

(* Handles are counted. *)
LEMMA GivenHandled ==
    ASSUME OwnInv, RefInv, NEW t \in Threads, NEW y \in Nodes, NEW ok \in BOOLEAN, Given(t, y, ok), node' = node,
           op[t].pc # "idle", op[t].resp.tag = "done" => op[t].kind = "lookup",
           ok \/ op[t].kind \in {"lookup", "unlink", "create"},
           \A i \in Inodes, z \in Nodes :
               /\ handles'[i][z] \in Int
               /\ handles'[i][z] >= Cardinality(Users(i, z))
                     + (IF z = y /\ ok /\ op[t].kind \in Opens(i) THEN 1
                        ELSE IF z = y /\ op[t].kind = Closes(i) THEN -1 ELSE 0)
               /\ Keeps(i, z) => Keeps(i, z)'
               /\ z = y /\ ok /\ op[t].kind \in Opens(i) => Keeps(i, z)'
               /\ z = y /\ op[t].kind = Closes(i) => Keeps(i, z)
    PROVE  Handled'
<1> DEFINE c == NodeOf[t]
           k == op[t].kind
<1> SUFFICES ASSUME NEW i \in Inodes, NEW z \in Nodes
             PROVE  Cardinality(Users(i, z)') <= handles'[i][z] /\ (Users(i, z)' # {} => Keeps(i, z)')
  BY DEF Handled
<1>0. c \in Nodes /\ IsFiniteSet(Nodes) /\ Solo
  BY NodesFacts, NodesAssumption DEF RefInv
<1>1. \A n \in Nodes : HasHandle(i, n, z)' =>
        \/ HasHandle(i, n, z) /\ ~(k = Closes(i) /\ n = c)
        \/ ok /\ k \in Opens(i) /\ n = c /\ z = y
  BY <1>0, GivenUsers
<1>2. Users(i, z) \subseteq Nodes /\ Users(i, z)' \subseteq Nodes
  BY DEF Users
<1>3. IsFiniteSet(Users(i, z)) /\ Cardinality(Users(i, z)) \in Nat /\ Cardinality(Users(i, z)') \in Nat
      /\ IsFiniteSet(Users(i, z)')
  BY <1>0, <1>2, FS_Subset, FS_CardinalityType
<1>4. Closes(i) \notin Opens(i) /\ Closes(i) # "lookup"
  BY NodesFacts DEF Closes, Opens
<1>5. CASE z = y /\ ok /\ k \in Opens(i)
  <2>1. Users(i, z)' \subseteq Users(i, z) \cup {c}
    BY <1>1, <1>2 DEF Users
  <2>2. IsFiniteSet(Users(i, z) \cup {c}) /\ Cardinality(Users(i, z) \cup {c}) \in Nat
        /\ Cardinality(Users(i, z) \cup {c}) <= Cardinality(Users(i, z)) + 1
    <3> DEFINE S == Users(i, z)
    <3> HIDE DEF S, c
    <3>1. IsFiniteSet(S) /\ Cardinality(S) \in Nat
      BY <1>3 DEF S
    <3>2. IsFiniteSet(S \cup {c}) /\ Cardinality(S \cup {c}) = (IF c \in S THEN Cardinality(S) ELSE Cardinality(S) + 1)
      BY <3>1, FS_AddElement
    <3>3. IsFiniteSet(S \cup {c}) /\ Cardinality(S \cup {c}) \in Nat /\ Cardinality(S \cup {c}) <= Cardinality(S) + 1
      BY <3>1, <3>2
    <3> QED
      BY <3>3 DEF S
  <2>3. Cardinality(Users(i, z)') <= Cardinality(Users(i, z) \cup {c})
    BY <2>1, <2>2, FS_Subset
  <2>4. handles'[i][z] >= Cardinality(Users(i, z)) + 1 /\ handles'[i][z] \in Int /\ Keeps(i, z)'
    BY <1>5
  <2> QED
    BY <2>2, <2>3, <2>4, <1>3
<1>6. CASE z = y /\ k = Closes(i)
  <2>1. Users(i, z)' \subseteq Users(i, z) \ {c}
    BY <1>1, <1>2, <1>4, <1>6 DEF Users
  <2>2. Keeps(i, y)
    BY <1>6
  <2>3. c \in Users(i, z)
    BY <2>2, <1>4, <1>6, CloserIsUser
  <2>4. IsFiniteSet(Users(i, z) \ {c}) /\ Cardinality(Users(i, z) \ {c}) = Cardinality(Users(i, z)) - 1
    BY <2>3, <1>3, FS_RemoveElement
  <2>5. Cardinality(Users(i, z)') <= Cardinality(Users(i, z) \ {c})
    BY <2>1, <2>4, FS_Subset
  <2>6. handles'[i][z] >= Cardinality(Users(i, z)) + (-1) /\ handles'[i][z] \in Int /\ Keeps(i, z)'
    BY <1>4, <1>6, <2>2
  <2> QED
    BY <2>4, <2>5, <2>6, <1>3
<1>7. CASE ~(z = y /\ ok /\ k \in Opens(i)) /\ ~(z = y /\ k = Closes(i))
  <2>1. Users(i, z)' \subseteq Users(i, z)
    BY <1>1, <1>2, <1>7 DEF Users
  <2>2. Cardinality(Users(i, z)') <= Cardinality(Users(i, z))
    BY <2>1, <1>3, FS_Subset
  <2>3. handles'[i][z] >= Cardinality(Users(i, z)) + 0 /\ handles'[i][z] \in Int
    BY <1>7
  <2>4. Users(i, z)' # {} => Keeps(i, z)'
    BY <2>1 DEF RefInv, Handled
  <2> QED
    BY <2>2, <2>3, <2>4, <1>3
<1> QED
  BY <1>5, <1>6, <1>7

(* What is kept once an operation is done. *)
LEMMA GivenKept ==
    ASSUME OwnInv, OwnInv', RefInv, NEW t \in Threads, NEW y \in Owners, NEW ok \in BOOLEAN, Given(t, y, ok),
           op[t].pc # "idle", node' = node, op[t].kind = "forget" => ok
    PROVE  /\ Cardinality(Kept)' = Cardinality(Kept) - AnswerRefs[t] - ForgetRefs[t]
               + (IF ok /\ op[t].kind \in {"lookup", "create"} /\ node[NodeOf[t]] # "dead" THEN 1 ELSE 0)
           /\ Cardinality(Kept) \in Nat /\ Cardinality(Kept)' \in Nat
           /\ AnswerRefs[t] \in Nat /\ ForgetRefs[t] \in Nat
           /\ AnswerRefs[t] <= Cardinality(Kept) /\ ForgetRefs[t] <= Cardinality(Kept)
<1>0. Shape /\ Shape' /\ Sanes
  BY DEF OwnInv, RefInv
<1>1. KernelSum' + AnswerSum' + ForgetSum' =
             KernelSum + AnswerSum + ForgetSum - AnswerRefs[t] - ForgetRefs[t]
               + (IF ok /\ op[t].kind \in {"lookup", "create"} /\ node[NodeOf[t]] # "dead" THEN 1 ELSE 0)
  BY <1>0, GivenRefs
<1>2. /\ Cardinality(Kept) = KernelSum + AnswerSum + ForgetSum
      /\ KernelSum \in Nat /\ AnswerSum \in Nat /\ ForgetSum \in Nat
  BY <1>0, KeptIsSum
<1>3. /\ Cardinality(Kept)' = KernelSum' + AnswerSum' + ForgetSum'
      /\ KernelSum' \in Nat /\ AnswerSum' \in Nat /\ ForgetSum' \in Nat
  BY <1>0, KeptIsSumNext
<1>4. /\ AnswerRefs \in [Threads -> Nat] /\ ForgetRefs \in [Threads -> Nat] /\ IsFiniteSet(Threads)
  BY <1>0, RefsTypes
<1>5. AnswerRefs[t] <= AnswerSum
  <2>1. PICK nm : nm = "looked up"
    OBVIOUS
  <2>2. AnswerRefs[t] <= Cardinality(Column(Threads, nm, AnswerRefs))
    BY <1>4, ColumnPart
  <2> QED
    BY <2>1, <2>2 DEF AnswerSum
<1>6. ForgetRefs[t] <= ForgetSum
  BY <1>4, ColumnPart DEF ForgetSum
<1>7. AnswerRefs[t] \in Nat /\ ForgetRefs[t] \in Nat
  BY <1>4
<1>8. AnswerRefs[t] <= Cardinality(Kept) /\ ForgetRefs[t] <= Cardinality(Kept)
  BY <1>2, <1>5, <1>6, <1>7
<1> DEFINE D == IF ok /\ op[t].kind \in {"lookup", "create"} /\ node[NodeOf[t]] # "dead" THEN 1 ELSE 0
<1>9. KernelSum' + AnswerSum' + ForgetSum' =
             KernelSum + AnswerSum + ForgetSum - AnswerRefs[t] - ForgetRefs[t] + D
  BY <1>1
<1>10. D \in Nat
  OBVIOUS
<1> HIDE DEF D
<1>11. Cardinality(Kept) \in Nat /\ Cardinality(Kept)' \in Nat
  BY <1>2, <1>3
<1>12. Cardinality(Kept)' = Cardinality(Kept) - AnswerRefs[t] - ForgetRefs[t] + D
  BY <1>2, <1>3, <1>7, <1>9, <1>10
<1> QED
  BY <1>7, <1>8, <1>11, <1>12 DEF D

(* The handles after the operation of thread t on node y. *)
HandlesGiven(t, y, ok) ==
    /\ handles' \in [Inodes -> [Nodes -> Int]]
    /\ \A i \in Inodes, z \in Nodes :
           /\ handles'[i][z] >= Cardinality(Users(i, z))
                 + (IF z = y /\ ok /\ op[t].kind \in Opens(i) THEN 1
                    ELSE IF z = y /\ op[t].kind = Closes(i) THEN -1 ELSE 0)
           /\ Keeps(i, z) => Keeps(i, z)'
           /\ z = y /\ ok /\ op[t].kind \in Opens(i) => Keeps(i, z)'
           /\ z = y /\ op[t].kind = Closes(i) => Keeps(i, z)

(* Everything but the places of the inodes and the references. *)
LEMMA GivenRest ==
    ASSUME OwnInv, OwnInv', RefInv, NEW t \in Threads, NEW y \in Nodes, NEW ok \in BOOLEAN, Given(t, y, ok),
           node' = node, faults' = faults,
           op[t].pc # "idle", op[t].resp.tag = "done" => op[t].kind = "lookup",
           ok \/ op[t].kind \in {"lookup", "unlink", "create"}, HandlesGiven(t, y, ok),
           \A n \in Nodes : Located(n) => Located(n)',
           ok /\ op[t].kind \in {"lookup", "create"} /\ op'[t].pc = "idle" => Located(NodeOf[t])'
    PROVE  More' /\ Sanes' /\ Solo' /\ Kernels' /\ Handled'
<1>0. y \in Owners /\ Sanes /\ Solo /\ Kernels
  BY NodesFacts DEF RefInv
<1>1. Sanes'
  BY <1>0, GivenSane
<1>2. Solo' /\ Kernels'
  BY <1>0, GivenKernels
<1>3. \A i \in Inodes, z \in Nodes : handles'[i][z] \in Int
  BY DEF HandlesGiven
<1>4. Handled'
  BY <1>3, GivenHandled DEF HandlesGiven
<1>5. More'
  BY DEF More, RefInv, HandlesGiven, Given
<1> QED
  BY <1>1, <1>2, <1>4, <1>5

(* The users are no more than the handles. *)
LEMMA UserCount ==
    ASSUME RefInv, NEW i \in Inodes, NEW z \in Nodes
    PROVE  Cardinality(Users(i, z)) \in Nat /\ Cardinality(Users(i, z)) <= handles[i][z] /\ handles[i][z] \in Int
<1>1. Users(i, z) \subseteq Nodes /\ IsFiniteSet(Nodes)
  BY NodesAssumption DEF Users
<1>2. Cardinality(Users(i, z)) \in Nat
  BY <1>1, FS_Subset, FS_CardinalityType
<1> QED
  BY <1>2 DEF RefInv, Handled, More

(* Operations that open and close nothing. *)
LEMMA HandlesSame ==
    ASSUME RefInv, NEW t \in Threads, NEW y \in Nodes, NEW ok \in BOOLEAN, handles' = handles,
           op[t].kind \notin {"open", "release", "opendir", "closedir"}, ~(ok /\ op[t].kind = "create"),
           \A i \in Inodes, z \in Nodes : Keeps(i, z) => Keeps(i, z)'
    PROVE  HandlesGiven(t, y, ok)
<1>1. \A i \in Inodes : op[t].kind # Closes(i) /\ ~(ok /\ op[t].kind \in Opens(i))
  BY NodesFacts DEF Closes, Opens
<1>2. handles' \in [Inodes -> [Nodes -> Int]]
  BY DEF RefInv, More
<1>3. \A i \in Inodes, z \in Nodes : handles'[i][z] >= Cardinality(Users(i, z)) + 0
  BY UserCount
<1> QED
  BY <1>1, <1>2, <1>3 DEF HandlesGiven

(* A node opens or closes a handle. *)
LEMMA HandlesMoved ==
    ASSUME RefInv, NEW t \in Threads, NEW y \in Nodes, NEW j \in Inodes, own' = own, Keeps(j, y), NEW d \in Int,
           handles' = [handles EXCEPT ![j][y] = @ + d],
           (op[t].kind \in Opens(j) /\ d = 1) \/ (op[t].kind = Closes(j) /\ d = -1),
           op[t].kind # "create", NEW ok \in BOOLEAN, ok
    PROVE  HandlesGiven(t, y, ok)
<1>0. handles \in [Inodes -> [Nodes -> Int]]
  BY DEF RefInv, More
<1>1. \A i \in Inodes : /\ i # j => op[t].kind # Closes(i) /\ op[t].kind \notin Opens(i)
                        /\ Closes(i) \notin Opens(i)
  BY NodesFacts DEF Closes, Opens
<1>2. /\ handles' \in [Inodes -> [Nodes -> Int]]
      /\ \A i \in Inodes, z \in Nodes : handles'[i][z] = IF i = j /\ z = y THEN handles[i][z] + d ELSE handles[i][z]
  <2>1. handles' \in [Inodes -> [Nodes -> Int]]
    BY <1>0
  <2>2. ASSUME NEW i \in Inodes, NEW z \in Nodes
        PROVE  handles'[i][z] = IF i = j /\ z = y THEN handles[i][z] + d ELSE handles[i][z]
    <3>1. CASE i = j
      BY <3>1, <1>0
    <3>2. CASE i # j
      BY <3>2, <1>0
    <3> QED
      BY <3>1, <3>2
  <2> QED
    BY <2>1, <2>2
<1>3. \A i \in Inodes, z \in Nodes : Keeps(i, z)' <=> Keeps(i, z)
  BY DEF Keeps
<1>4. ASSUME NEW i \in Inodes, NEW z \in Nodes
      PROVE  handles'[i][z] >= Cardinality(Users(i, z))
                 + (IF z = y /\ ok /\ op[t].kind \in Opens(i) THEN 1
                    ELSE IF z = y /\ op[t].kind = Closes(i) THEN -1 ELSE 0)
  <2>1. Cardinality(Users(i, z)) \in Nat /\ Cardinality(Users(i, z)) <= handles[i][z] /\ handles[i][z] \in Int
    BY UserCount
  <2>2. CASE i = j /\ z = y
    <3>1. handles'[i][z] = handles[i][z] + d
      BY <2>2, <1>2
    <3> QED
      BY <2>1, <2>2, <3>1, <1>1
  <2>3. CASE ~(i = j /\ z = y)
    <3>1. handles'[i][z] = handles[i][z]
      BY <2>3, <1>2
    <3> QED
      BY <2>1, <2>3, <3>1, <1>1
  <2> QED
    BY <2>2, <2>3
<1>5. \A i \in Inodes : op[t].kind \in Opens(i) \/ op[t].kind = Closes(i) => i = j
  BY <1>1
<1> QED
  BY <1>2, <1>3, <1>4, <1>5 DEF HandlesGiven

(* Operations that leave the name and the count alone. *)
LEMMA GivenStill ==
    ASSUME OwnInv, OwnInv', RefInv, NEW t \in Threads, NEW y \in Nodes, NEW ok \in BOOLEAN, Given(t, y, ok),
           UNCHANGED <<own, node, faults, made, linked>>, ~panicked',
           op[t].pc # "idle", op[t].resp.tag = "done" => op[t].kind = "lookup", op[t].resp.tag # "stolen",
           ok \/ op[t].kind \in {"lookup", "unlink", "create"}, HandlesGiven(t, y, ok),
           ok /\ op[t].kind \in {"lookup", "create"} /\ op'[t].pc = "idle" => Located(NodeOf[t]),
           Cardinality(Kept)' = Cardinality(Kept),
           \A n \in Nodes : /\ body'[n].refcnt = body[n].refcnt /\ body'[n].known = body[n].known
                            /\ body'[n].state # "CACHED" => body[n].state # "CACHED" \/ Keeps("file", n)
    PROVE  RefInv'
<1>1. (\A i \in Inodes, n \in Nodes : Keeps(i, n)' <=> Keeps(i, n)) /\ \A n \in Nodes : Located(n)' <=> Located(n)
  BY DEF Keeps, Located
<1>2. More' /\ Sanes' /\ Solo' /\ Kernels' /\ Handled'
  <2>1. NodeOf[t] \in Nodes
    BY NodesFacts
  <2> QED
    BY <1>1, <2>1, GivenRest
<1>3. \A u \in Threads : u # t => op'[u] = op[u]
  BY DEF Given
<1>4. ~op'[t].nested /\ op'[t].resp.tag # "stolen"
  BY IdleType, NoAnswerType DEF Given
<1>5. \A u \in Threads : op'[u] = op[u] \/ (op[u].resp.tag # "stolen" /\ op'[u].resp.tag # "stolen")
  BY <1>3, <1>4
<1>6. \A i \in Inodes : Carriers(i)' \subseteq Carriers(i)
  BY <1>1, <1>5, StillHeld
<1>7. \A u \in Threads : op'[u].nested =>
               op[u].nested /\ op'[u].at = op[u].at /\ linked'[op[u].at] /\ node'[op[u].at] # "dead"
  BY <1>3, <1>4 DEF RefInv, Placed
<1>8. Alone' /\ Placed'
  BY <1>1, <1>6, <1>7, QuietLinks DEF RefInv
<1>9. (Named' <=> Named) /\ \A r \in Nat : Counts(r)' <=> Counts(r)
  BY <1>1, <1>5, StillCounted
<1>10. Counted' /\ Copied' /\ Unborn'
  <2>1. Cardinality(Kept) \in Nat
    BY KeptIsSum DEF OwnInv
  <2> QED
    BY <1>1, <1>9, <2>1, QuietRefs DEF RefInv
<1> QED
  BY <1>2, <1>8, <1>10 DEF RefInv

(* An operation that was run on node y is done, on its node or with an answer to it. *)
LEMMA AnswerStep ==
    ASSUME OwnInv, RefInv, NEW t \in Threads, NEW y \in Nodes, NEW ok \in BOOLEAN,
           Answer(t, y, ok, own["file"][y])
    PROVE  Given(t, y, ok) /\ (op'[t].pc = "idle" => y = NodeOf[t])
<1>1. Shape /\ More /\ own["file"][y] \in CopyRec
  BY CopyType, NodesFacts DEF OwnInv, RefInv
<1>2. Given(t, y, ok)
  BY <1>1, AnswerGiven
<1>3. y # NodeOf[t] => op'[t].pc # "idle"
  <2> SUFFICES ASSUME y # NodeOf[t] PROVE op'[t].pc = "reply"
    OBVIOUS
  <2> DEFINE r == [NoAnswer EXCEPT !.tag = IF ok THEN "done" ELSE "fail", !.child = pbInode(own["file"][y])]
  <2>1. op' = [op EXCEPT ![t] = [op[t] EXCEPT !.pc = "reply", !.nested = FALSE, !.at = NodeOf[t],
                                         !.to = y, !.resp = r]]
    BY DEF Answer
  <2> HIDE DEF r
  <2>2. op \in [Threads -> FrameRec] /\ op[t] \in FrameRec
    BY <1>1 DEF Shape
  <2> QED
    BY <2>1, <2>2 DEF FrameRec
<1> QED
  BY <1>2, <1>3

(* A thread without an answer holds no reference of one, and only forgets give any back. *)
LEMMA NoAnswerRefs ==
    ASSUME OwnInv, RefInv, NEW t \in Threads, op[t].pc \in {"route", "exec", "call"}
    PROVE  /\ AnswerRefs[t] = 0 /\ (op[t].kind # "forget" => ForgetRefs[t] = 0)
           /\ op[t].resp.tag = "none" /\ Sane(op[t]) /\ op[t] \in FrameRec
           /\ op[t].kind = "forget" => ForgetRefs[t] = op[t].n
<1>1. op[t].resp.tag = "none" /\ Sane(op[t]) /\ op[t] \in FrameRec
  BY NoResult DEF RefInv, Sanes, OwnInv, Shape
<1>2. AnswerRefs[t] = 0
  BY <1>1 DEF AnswerRefs, Looked
<1>3. op[t].kind # "forget" => ForgetRefs[t] = 0
  BY <1>1 DEF ForgetRefs, Sane
<1>4. op[t].kind = "forget" => ForgetRefs[t] = op[t].n
  <2>1. op[t].kind = "forget" => node[NodeOf[t]] # "dead"
    BY DEF RefInv, Kernels, Asked, Active
  <2> QED
    BY <1>1, <2>1 DEF ForgetRefs
<1> QED
  BY <1>1, <1>2, <1>3, <1>4

(* A write changes the value and the state. *)
LEMMA ModifiedBody ==
    ASSUME NEW b \in BodyRec
    PROVE  Modified(b).refcnt = b.refcnt /\ Modified(b).known = b.known
<1> DEFINE at == b.attr + 1
           st == IF b.state = "CACHED" THEN "MODIFIED" ELSE b.state
<1>1. Modified(b) = [b EXCEPT !.attr = at, !.state = st]
  BY DEF Modified
<1> HIDE DEF at, st
<1> QED
  BY <1>1 DEF BodyRec

(* Operations on the file that leave its references alone. *)
LEMMA ExecFileStill ==
    ASSUME OwnInv, OwnInv', RefInv, NEW t \in Threads, NEW y \in Nodes, op[t].pc \in {"route", "exec", "call"},
           Keeps("file", y), op[t].kind \notin ByParent, ExecFile(t, y), op[t].kind # "forget"
    PROVE  RefInv'
<1>0. PICK ok \in BOOLEAN : ok /\ Answer(t, y, ok, own["file"][y])
  BY DEF ExecFile
<1>1. Given(t, y, ok)
  BY <1>0, AnswerStep
<1>2. UNCHANGED <<own, node, faults, made, linked>> /\ ~panicked'
  BY DEF ExecFile, RefInv
<1>3. op[t].kind \notin {"lookup", "create", "opendir", "closedir", "unlink"}
  BY DEF ByParent
<1>4. Cardinality(Kept)' = Cardinality(Kept)
  <2>1. /\ Cardinality(Kept)' = Cardinality(Kept) - AnswerRefs[t] - ForgetRefs[t]
               + (IF ok /\ op[t].kind \in {"lookup", "create"} /\ node[NodeOf[t]] # "dead" THEN 1 ELSE 0)
        /\ Cardinality(Kept) \in Nat
    BY <1>1, <1>2, GivenKept, NodesFacts
  <2>2. AnswerRefs[t] = 0 /\ ForgetRefs[t] = 0
    BY NoAnswerRefs
  <2> QED
    BY <2>1, <2>2, <1>3
<1>5. \A n \in Nodes : /\ body'[n].refcnt = body[n].refcnt /\ body'[n].known = body[n].known
                       /\ body'[n].state # "CACHED" => body[n].state # "CACHED" \/ Keeps("file", n)
  <2>1. body \in [Nodes -> BodyRec] /\ body[y] \in BodyRec
    BY DEF OwnInv, Shape
  <2>2. Modified(body[y]).refcnt = body[y].refcnt /\ Modified(body[y]).known = body[y].known
    BY <2>1, ModifiedBody
  <2>3. CASE body' = body
    BY <2>3
  <2>4. CASE body' = [body EXCEPT ![y] = Modified(@)]
    BY <2>1, <2>2, <2>4
  <2> QED
    BY <2>3, <2>4 DEF ExecFile, openFile, releaseFileHandle, readFile, writeFile, getInodeAttributes,
                      setInodeAttributes
<1>6. HandlesGiven(t, y, ok)
  <2>1. \A i \in Inodes, z \in Nodes : Keeps(i, z) => Keeps(i, z)'
    BY <1>2 DEF Keeps
  <2>2. CASE op[t].kind = "open"
    <3>0. PICK d \in Int : d = 1
      OBVIOUS
    <3>1. PICK j \in Inodes : j = "file"
      BY NodesFacts
    <3>2. handles' = [handles EXCEPT ![j][y] = @ + d]
      BY <2>2, <3>0, <3>1 DEF ExecFile, openFile
    <3>3. op[t].kind \in Opens(j) /\ op[t].kind # "create"
      BY <2>2, <3>1 DEF Opens
    <3>4. own' = own /\ ok /\ Keeps(j, y)
      BY <1>0, <1>2, <3>1
    <3> QED
      BY <3>0, <3>2, <3>3, <3>4, HandlesMoved
  <2>3. CASE op[t].kind = "release"
    <3>0. PICK d \in Int : d = -1
      OBVIOUS
    <3>1. handles' = [handles EXCEPT !["file"][y] = @ + d] /\ "release" = Closes("file")
      <4>1. handles' = [handles EXCEPT !["file"][y] = @ - 1]
        BY <2>3 DEF ExecFile, releaseFileHandle
      <4>2. handles["file"][y] - 1 = handles["file"][y] + d
        BY <3>0, NodesFacts DEF RefInv, More
      <4> QED
        BY <4>1, <4>2 DEF Closes
    <3> QED
      BY <1>0, <1>2, <2>3, <3>0, <3>1, HandlesMoved, NodesFacts
  <2>4. CASE op[t].kind \notin {"open", "release"}
    <3>1. handles' = handles
      BY <2>4 DEF ExecFile, readFile, writeFile, getInodeAttributes, setInodeAttributes, ForgetInode
    <3> QED
      BY <1>3, <2>1, <2>4, <3>1, HandlesSame
  <2> QED
    BY <2>2, <2>3, <2>4
<1>7. op[t].resp.tag = "none"
  BY NoAnswerRefs
<1> QED
  BY <1>0, <1>1, <1>2, <1>3, <1>4, <1>5, <1>6, <1>7, GivenStill

(* The count follows what has to be there. *)
LEMMA CountMoved ==
    ASSUME Counted, NEW d \in Int, Need \in Nat, Need' \in Nat, Need' <= Need + d, faults' = faults,
           faults = 0 => Need' = Need + d,
           \A r \in Nat : Counts(r)' => r - d \in Nat /\ Counts(r - d)
    PROVE  Counted'
<1> SUFFICES ASSUME NEW r \in Nat, Counts(r)' PROVE Need' <= r /\ (faults' = 0 => Need' = r)
  BY DEF Counted
<1>1. r - d \in Nat /\ Counts(r - d)
  OBVIOUS
<1>2. PICK q \in Nat : q = r - d
  BY <1>1
<1>3. Need <= q /\ (faults = 0 => Need = q)
  BY <1>1, <1>2 DEF Counted
<1> QED
  BY <1>2, <1>3

(* An operation is done that changes the name or the count. *)
LEMMA GivenMoves ==
    ASSUME OwnInv, OwnInv', RefInv, NEW t \in Threads, NEW y \in Nodes, NEW ok \in BOOLEAN, Given(t, y, ok),
           UNCHANGED <<own, node, faults, made>>, ~panicked',
           op[t].pc # "idle", op[t].resp.tag = "done" => op[t].kind = "lookup", op[t].resp.tag # "stolen",
           ok \/ op[t].kind \in {"lookup", "unlink", "create"}, HandlesGiven(t, y, ok),
           ok /\ op[t].kind \in {"lookup", "create"} /\ op'[t].pc = "idle" => Located(NodeOf[t]),
           \A n \in Nodes : linked'[n] => linked[n],
           \A u \in Threads : u # t /\ op[u].nested => linked'[op[u].at],
           \A n \in Nodes : body'[n].state # "CACHED" => body[n].state # "CACHED" \/ Keeps("file", n),
           Counted', Copied', Cardinality(Kept)' <= Cardinality(Kept) \/ made
    PROVE  RefInv'
<1>1. (\A i \in Inodes, n \in Nodes : Keeps(i, n)' <=> Keeps(i, n)) /\ \A n \in Nodes : Located(n)' <=> Located(n)
  BY DEF Keeps, Located
<1>2. More' /\ Sanes' /\ Solo' /\ Kernels' /\ Handled'
  <2>1. NodeOf[t] \in Nodes
    BY NodesFacts
  <2> QED
    BY <1>1, <2>1, GivenRest
<1>3. \A u \in Threads : u # t => op'[u] = op[u]
  BY DEF Given
<1>4. ~op'[t].nested /\ op'[t].resp.tag # "stolen"
  BY IdleType, NoAnswerType DEF Given
<1>5. \A u \in Threads : op'[u] = op[u] \/ (op[u].resp.tag # "stolen" /\ op'[u].resp.tag # "stolen")
  BY <1>3, <1>4
<1>6. \A i \in Inodes : Carriers(i)' \subseteq Carriers(i)
  BY <1>1, <1>5, StillHeld
<1>7. \A u \in Threads : op'[u].nested =>
               op[u].nested /\ op'[u].at = op[u].at /\ linked'[op[u].at] /\ node'[op[u].at] # "dead"
  BY <1>3, <1>4 DEF RefInv, Placed
<1>8. Alone' /\ Placed'
  BY <1>1, <1>6, <1>7, QuietLinks DEF RefInv
<1>9. Unborn'
  <2>1. Cardinality(Kept) \in Nat /\ Cardinality(Kept)' \in Nat
    BY KeptIsSum, KeptIsSumNext DEF OwnInv
  <2> QED
    BY <2>1 DEF Unborn, RefInv
<1> QED
  BY <1>2, <1>8, <1>9 DEF RefInv

(* The count is with the node that has the file. *)
LEMMA HolderCounts ==
    ASSUME OwnInv, RefInv, NEW y \in Nodes, Keeps("file", y), node[y] # "dead", UNCHANGED <<own, node>>,
           \A u \in Threads : op'[u] = op[u] \/ (op[u].resp.tag # "stolen" /\ op'[u].resp.tag # "stolen")
    PROVE  /\ Counts(body[y].refcnt) /\ \A r \in Nat : Counts(r)' => r = body'[y].refcnt
           /\ Need <= body[y].refcnt /\ body[y].refcnt \in Nat /\ Need \in Nat
           /\ faults = 0 => Need = body[y].refcnt
<1>1. Holders("file") = {y} /\ Carriers("file") = {}
  BY NodesFacts DEF RefInv, Alone, Holders, Keeps
<1>2. \A n \in Nodes : Keeps("file", n)' <=> Keeps("file", n)
  BY DEF Keeps
<1>3. Holders("file")' = {y} /\ Carriers("file")' = {}
  BY <1>1, <1>2, StillHeld, NodesFacts
<1>4. Counts(body[y].refcnt)
  BY <1>1 DEF Counts
<1>5. \A r \in Nat : Counts(r)' => r = body'[y].refcnt
  BY <1>3 DEF Counts
<1>6. body[y].refcnt \in Nat
  BY DEF OwnInv, Shape, BodyRec
<1>7. Need \in Nat
  BY KeptIsSum DEF OwnInv, Need
<1> QED
  BY <1>4, <1>5, <1>6, <1>7 DEF RefInv, Counted

(* The name stays where it is. *)
LEMMA StillNamed ==
    ASSUME UNCHANGED <<own, node, linked>>,
           \A u \in Threads : op'[u] = op[u] \/ (op[u].resp.tag # "stolen" /\ op'[u].resp.tag # "stolen")
    PROVE  Named' <=> Named
<1>1. \A n \in Nodes : Keeps("dir", n)' <=> Keeps("dir", n)
  BY DEF Keeps
<1>2. /\ Holders("dir")' = Holders("dir") /\ Carriers("dir")' = Carriers("dir")
      /\ \A u \in Carriers("dir") : op'[u] = op[u]
  BY <1>1, StillHeld, NodesFacts
<1> QED
  BY <1>2 DEF Named

(* What DeRef leaves. *)
LEMMA DeRefBody ==
    ASSUME NEW b \in BodyRec, NEW k \in Nat, k <= b.refcnt
    PROVE  /\ DeRef(b, k).refcnt = b.refcnt - k /\ DeRef(b, k).state = b.state
           /\ b.refcnt # k => DeRef(b, k).known = b.known
<1> DEFINE res == IF k > b.refcnt THEN 0 ELSE b.refcnt - k
           kn  == b.known /\ ~(res = 0 /\ b.state \in {"CACHED", "DEAD"})
<1>0. b.refcnt \in Nat /\ b.known \in BOOLEAN
  BY DEF BodyRec
<1>1. DeRef(b, k) = [b EXCEPT !.refcnt = res, !.known = kn]
  BY DEF DeRef
<1>2. res = b.refcnt - k
  BY <1>0
<1>3. b.refcnt # k => kn = b.known
  BY <1>0, <1>2
<1> HIDE DEF res, kn
<1>4. DeRef(b, k).refcnt = res /\ DeRef(b, k).state = b.state /\ DeRef(b, k).known = kn
  BY <1>1 DEF BodyRec
<1> QED
  BY <1>2, <1>3, <1>4

(* ForgetInode gives back what was kept. *)
LEMMA ForgetMoves ==
    ASSUME OwnInv, OwnInv', RefInv, NEW t \in Threads, NEW y \in Nodes, op[t].pc \in {"route", "exec", "call"},
           Keeps("file", y), node[y] # "dead", ExecFile(t, y), op[t].kind = "forget"
    PROVE  RefInv'
<1> DEFINE k == op[t].n
           b == DeRef(body[y], k)
<1>0. PICK ok \in BOOLEAN : ok /\ Answer(t, y, ok, own["file"][y])
  BY DEF ExecFile
<1>1. Given(t, y, ok)
  BY <1>0, AnswerStep
<1>2. UNCHANGED <<own, node, faults, made, linked, handles>>
  BY DEF ExecFile, ForgetInode
<1>3. /\ body' = [m \in Nodes |-> IF m = y THEN b ELSE [body[m] EXCEPT !.known = @ /\ b.refcnt # 0]]
      /\ panicked' = (panicked \/ k > body[y].refcnt)
  BY DEF ExecFile, ForgetInode
<1>4. AnswerRefs[t] = 0 /\ ForgetRefs[t] = k /\ op[t].resp.tag = "none" /\ k \in Nat
  BY NoAnswerRefs, FrameType
<1>5. /\ Cardinality(Kept)' = Cardinality(Kept) - k /\ Cardinality(Kept) \in Nat /\ Cardinality(Kept)' \in Nat
      /\ k <= Cardinality(Kept)
  <2>1. /\ Cardinality(Kept)' = Cardinality(Kept) - AnswerRefs[t] - ForgetRefs[t]
               + (IF ok /\ op[t].kind \in {"lookup", "create"} /\ node[NodeOf[t]] # "dead" THEN 1 ELSE 0)
        /\ Cardinality(Kept) \in Nat /\ Cardinality(Kept)' \in Nat /\ ForgetRefs[t] <= Cardinality(Kept)
    BY <1>0, <1>1, <1>2, GivenKept, NodesFacts
  <2> QED
    BY <2>1, <1>4
<1>6. \A u \in Threads : op'[u] = op[u] \/ (op[u].resp.tag # "stolen" /\ op'[u].resp.tag # "stolen")
  BY <1>1, <1>4, IdleType, NoAnswerType DEF Given
<1>7. Named' <=> Named
  BY <1>2, <1>6, StillNamed
<1>8. /\ Counts(body[y].refcnt) /\ \A r \in Nat : Counts(r)' => r = body'[y].refcnt
      /\ Need <= body[y].refcnt /\ body[y].refcnt \in Nat /\ Need \in Nat
  BY <1>2, <1>6, HolderCounts
<1>9. k <= body[y].refcnt /\ Need' = Need - k /\ Need' \in Nat
  <2>1. PICK m \in Nat : m = (IF Named THEN 1 ELSE 0)
    OBVIOUS
  <2>2. Need = Cardinality(Kept) + m /\ Need' = Cardinality(Kept)' + m
    BY <2>1, <1>7 DEF Need
  <2> QED
    BY <2>2, <1>4, <1>5, <1>8
<1>10. ~panicked'
  <2>1. ~(k > body[y].refcnt)
    BY <1>4, <1>8, <1>9
  <2>2. ~panicked
    BY DEF RefInv
  <2> QED
    BY <2>1, <2>2, <1>3, Zenon
<1>11. body[y] \in BodyRec /\ body \in [Nodes -> BodyRec]
  BY DEF OwnInv, Shape
<1>12. /\ b.refcnt = body[y].refcnt - k /\ b.state = body[y].state
       /\ body[y].refcnt # k => b.known = body[y].known
  BY <1>4, <1>9, <1>11, DeRefBody
<1> HIDE DEF b
<1>13. /\ body'[y] = b
       /\ \A m \in Nodes : /\ body'[m].state = body[m].state
                           /\ b.refcnt # 0 /\ m # y => body'[m].known = body[m].known
  BY <1>3, <1>11, <1>12 DEF BodyRec
<1>14. Counted'
  <2>1. PICK d \in Int : d = -k
    BY <1>4
  <2>2. \A r \in Nat : Counts(r)' => r - d \in Nat /\ Counts(r - d)
    <3> SUFFICES ASSUME NEW r \in Nat, Counts(r)' PROVE r - d \in Nat /\ Counts(r - d)
      OBVIOUS
    <3>1. r = body[y].refcnt - k
      BY <1>8, <1>12, <1>13
    <3>2. r - d = body[y].refcnt
      BY <2>1, <3>1, <1>4, <1>8
    <3> QED
      BY <3>2, <1>8
  <2>3. Need' <= Need + d /\ Need' = Need + d /\ Counted
    BY <2>1, <1>4, <1>8, <1>9 DEF RefInv
  <2> QED
    BY <1>2, <1>8, <1>9, <2>2, <2>3, CountMoved
<1>15. Copied'
  <2> SUFFICES ASSUME Need' > 0, NEW m \in Nodes, Located(m)' PROVE body'[m].known
    BY DEF Copied
  <2>1. Need > 0 /\ b.refcnt # 0 /\ body[y].refcnt # k
    BY <1>4, <1>8, <1>9, <1>12
  <2>2. body[m].known
    BY <2>1, <1>2 DEF RefInv, Copied, Located
  <2> QED
    BY <2>1, <2>2, <1>12, <1>13
<1>16. HandlesGiven(t, y, ok)
  <2>1. \A i \in Inodes, z \in Nodes : Keeps(i, z) => Keeps(i, z)'
    BY <1>2 DEF Keeps
  <2> QED
    BY <1>2, <2>1, HandlesSame
<1>17. Cardinality(Kept)' <= Cardinality(Kept)
  BY <1>4, <1>5
<1>18. \A u \in Threads : u # t /\ op[u].nested => linked'[op[u].at]
  BY <1>2 DEF RefInv, Placed
<1> QED
  BY <1>0, <1>1, <1>2, <1>4, <1>10, <1>13, <1>14, <1>15, <1>16, <1>17, <1>18, GivenMoves

(* A frame that works on the file for the directory has the name in its hands. *)
LEMMA NestedNamed ==
    ASSUME OwnInv, RefInv, NEW t \in Threads, op[t].nested
    PROVE  /\ Named /\ Need > 0 /\ made /\ Keeps("dir", op[t].at) /\ node[op[t].at] # "dead"
           /\ linked[op[t].at] /\ op[t].at \in Nodes
<1>1. op[t].at \in Nodes
  BY FrameType DEF OwnInv, Shape
<1>2. linked[op[t].at] /\ node[op[t].at] # "dead" /\ Keeps("dir", op[t].at)
  BY <1>1 DEF RefInv, Placed
<1>3. Named
  BY <1>1, <1>2 DEF Named, Holders, Keeps
<1>4. Cardinality(Kept) \in Nat
  BY KeptIsSum DEF OwnInv
<1>5. Need > 0
  BY <1>3, <1>4 DEF Need
<1>6. made
  BY <1>1, <1>2 DEF RefInv, Unborn
<1> QED
  BY <1>1, <1>2, <1>3, <1>5, <1>6

(* One reference more at the owner of the file. *)
LEMMA CountUp ==
    ASSUME OwnInv, OwnInv', RefInv, NEW t \in Threads, NEW y \in Nodes, Keeps("file", y), node[y] # "dead",
           UNCHANGED <<own, node, linked, faults>>, Need > 0,
           \A u \in Threads : op'[u] = op[u] \/ (op[u].resp.tag # "stolen" /\ op'[u].resp.tag # "stolen"),
           body' = [body EXCEPT ![y].refcnt = @ + 1],
           Cardinality(Kept)' = Cardinality(Kept) + (IF node[NodeOf[t]] # "dead" THEN 1 ELSE 0)
    PROVE  /\ Counted' /\ Copied'
           /\ \A n \in Nodes : body'[n].state = body[n].state /\ body'[n].known = body[n].known
<1>0. Cardinality(Kept) \in Nat /\ body[y] \in BodyRec /\ body \in [Nodes -> BodyRec]
  BY KeptIsSum DEF OwnInv, Shape
<1>1. Named' <=> Named
  BY StillNamed
<1>2. /\ Counts(body[y].refcnt) /\ \A r \in Nat : Counts(r)' => r = body'[y].refcnt
      /\ Need <= body[y].refcnt /\ body[y].refcnt \in Nat /\ Need \in Nat
  BY HolderCounts
<1>3. faults = 0 => node[NodeOf[t]] # "dead"
  BY NodesFacts DEF RefInv, Kernels
<1>4. PICK D \in {0, 1} : D = IF node[NodeOf[t]] # "dead" THEN 1 ELSE 0
  OBVIOUS
<1>5. Need' = Need + D /\ (faults = 0 => D = 1)
  <2>1. PICK m \in Nat : m = (IF Named THEN 1 ELSE 0)
    OBVIOUS
  <2>2. Need = Cardinality(Kept) + m /\ Need' = Cardinality(Kept)' + m
    BY <2>1, <1>1 DEF Need
  <2> QED
    BY <2>2, <1>0, <1>3, <1>4
<1>6. body'[y].refcnt = body[y].refcnt + 1
      /\ \A n \in Nodes : body'[n].state = body[n].state /\ body'[n].known = body[n].known
  <2> DEFINE rc == body[y].refcnt + 1
             b == [body[y] EXCEPT !.refcnt = rc]
  <2>1. body' = [body EXCEPT ![y] = b]
    BY <1>0
  <2>2. b.refcnt = rc /\ b.state = body[y].state /\ b.known = body[y].known
    BY <1>0 DEF BodyRec
  <2> HIDE DEF b
  <2> QED
    BY <2>1, <2>2, <1>0
<1>7. Counted'
  <2>1. PICK d \in Int : d = 1
    OBVIOUS
  <2>2. \A r \in Nat : Counts(r)' => r - d \in Nat /\ Counts(r - d)
    <3> SUFFICES ASSUME NEW r \in Nat, Counts(r)' PROVE r - d \in Nat /\ Counts(r - d)
      OBVIOUS
    <3>1. r - d = body[y].refcnt
      BY <1>2, <1>6, <2>1
    <3> QED
      BY <3>1, <1>2
  <2>3. Need' <= Need + d /\ (faults = 0 => Need' = Need + d) /\ Counted /\ Need' \in Nat
    BY <1>2, <1>4, <1>5, <2>1 DEF RefInv
  <2> QED
    BY <1>2, <2>2, <2>3, CountMoved
<1>8. Copied'
  BY <1>6 DEF Copied, RefInv, Located
<1> QED
  BY <1>6, <1>7, <1>8

(* LookUpInode2 on the node that has the directory, too. *)
LEMMA LookUpHere ==
    ASSUME OwnInv, OwnInv', RefInv, NEW t \in Threads, NEW y \in Nodes, op[t].pc \in {"route", "exec", "call"},
           Keeps("file", y), node[y] # "dead", op[t].nested, op[t].kind = "lookup", lookUpInode2(t, y), y = op[t].at
    PROVE  RefInv'
<1>0. PICK ok \in BOOLEAN : ok /\ Answer(t, y, ok, own["file"][y])
  BY DEF lookUpInode2
<1>1. Given(t, y, ok) /\ (op'[t].pc = "idle" => y = NodeOf[t])
  BY <1>0, AnswerStep
<1>2. /\ UNCHANGED <<own, node, faults, made, linked, handles>> /\ body' = [body EXCEPT ![y].refcnt = @ + 1]
      /\ ~panicked'
  BY DEF lookUpInode2, RefInv
<1>3. AnswerRefs[t] = 0 /\ ForgetRefs[t] = 0 /\ op[t].resp.tag = "none"
  BY NoAnswerRefs
<1>4. Cardinality(Kept)' = Cardinality(Kept) + (IF node[NodeOf[t]] # "dead" THEN 1 ELSE 0)
  <2>1. /\ Cardinality(Kept)' = Cardinality(Kept) - AnswerRefs[t] - ForgetRefs[t]
               + (IF ok /\ op[t].kind \in {"lookup", "create"} /\ node[NodeOf[t]] # "dead" THEN 1 ELSE 0)
        /\ Cardinality(Kept) \in Nat
    BY <1>0, <1>1, <1>2, GivenKept, NodesFacts
  <2> QED
    BY <2>1, <1>0, <1>3
<1>5. \A u \in Threads : op'[u] = op[u] \/ (op[u].resp.tag # "stolen" /\ op'[u].resp.tag # "stolen")
  BY <1>1, <1>3, IdleType, NoAnswerType DEF Given
<1>6. Need > 0 /\ made
  BY NestedNamed
<1>7. /\ Counted' /\ Copied'
      /\ \A n \in Nodes : body'[n].state = body[n].state /\ body'[n].known = body[n].known
  BY <1>2, <1>4, <1>5, <1>6, CountUp
<1>8. HandlesGiven(t, y, ok)
  <2>1. \A i \in Inodes, z \in Nodes : Keeps(i, z) => Keeps(i, z)'
    BY <1>2 DEF Keeps
  <2> QED
    BY <1>2, <2>1, HandlesSame
<1>9. \A u \in Threads : u # t /\ op[u].nested => linked'[op[u].at]
  BY <1>2 DEF RefInv, Placed
<1>10. op'[t].pc = "idle" => Located(NodeOf[t])
  BY <1>1, NodesFacts DEF Located, Keeps
<1> QED
  BY <1>0, <1>1, <1>2, <1>3, <1>6, <1>7, <1>8, <1>9, <1>10, GivenMoves

(* The frame of a lookup that has its answer from the owner of the file. *)
LEMMA LookUpThere ==
    ASSUME OwnInv, OwnInv', RefInv, NEW t \in Threads, NEW y \in Nodes, op[t].pc \in {"route", "exec", "call"},
           Keeps("file", y), node[y] # "dead", op[t].nested, op[t].kind = "lookup", lookUpInode2(t, y), y # op[t].at
    PROVE  RefInv'
<1> DEFINE r == [NoAnswer EXCEPT !.tag = "done"]
           g == [op[t] EXCEPT !.pc = "reply", !.resp = r]
<1>0. /\ UNCHANGED <<own, node, faults, made, linked, handles, kref, fhAt, dhAt>>
      /\ body' = [body EXCEPT ![y].refcnt = @ + 1] /\ ~panicked' /\ op' = [op EXCEPT ![t] = g]
  BY DEF lookUpInode2, RefInv
<1>1. /\ AnswerRefs[t] = 0 /\ ForgetRefs[t] = 0 /\ op[t].resp.tag = "none" /\ op[t] \in FrameRec /\ Sane(op[t])
      /\ Shape /\ Shape'
  BY NoAnswerRefs DEF OwnInv
<1>2. r \in AnswerRec /\ r.tag = "done"
  BY NoAnswerType DEF AnswerRec
<1> HIDE DEF r
<1>3. g.kind = "lookup" /\ g.n = op[t].n /\ g.pc = "reply" /\ g.nested /\ g.at = op[t].at /\ g.resp = r
  BY <1>1 DEF FrameRec
<1> HIDE DEF g
<1>4. op'[t] = g /\ \A u \in Threads : u # t => op'[u] = op[u]
  BY <1>0, <1>1, NextFrame
<1>5. \A u \in Threads : op'[u] = op[u] \/ (op[u].resp.tag # "stolen" /\ op'[u].resp.tag # "stolen")
  BY <1>1, <1>2, <1>3, <1>4
<1>6. Cardinality(Kept)' = Cardinality(Kept) + (IF node[NodeOf[t]] # "dead" THEN 1 ELSE 0)
  <2> DEFINE c == NodeOf[t]
             D == IF node[c] # "dead" THEN 1 ELSE 0
  <2>1. c \in Nodes
    BY NodesFacts
  <2>2. \A n \in Nodes : KernelRefs'[n] = KernelRefs[n]
    BY <1>0 DEF KernelRefs
  <2>3. \A u \in Threads : u # t => AnswerRefs'[u] = AnswerRefs[u] /\ ForgetRefs'[u] = ForgetRefs[u]
    BY <1>0, <1>4 DEF AnswerRefs, ForgetRefs, Looked
  <2>4. AnswerRefs'[t] = D /\ ForgetRefs'[t] = 0
    BY <1>0, <1>2, <1>3, <1>4 DEF AnswerRefs, ForgetRefs, Looked
  <2>5. KernelSum' + AnswerSum' + ForgetSum' =
             KernelSum + AnswerSum + ForgetSum
               - KernelRefs[c] - AnswerRefs[t] - ForgetRefs[t]
               + KernelRefs'[c] + AnswerRefs'[t] + ForgetRefs'[t]
    BY <1>1, <2>1, <2>2, <2>3, SumChange
  <2>6. /\ Cardinality(Kept) = KernelSum + AnswerSum + ForgetSum
        /\ KernelSum \in Nat /\ AnswerSum \in Nat /\ ForgetSum \in Nat /\ KernelRefs[c] \in Nat
    BY <1>1, <2>1, KeptIsSum, RefsTypes
  <2>7. Cardinality(Kept)' = KernelSum' + AnswerSum' + ForgetSum'
    BY <1>1, KeptIsSumNext
  <2>8. D \in Nat
    OBVIOUS
  <2> HIDE DEF D, c
  <2>9. Cardinality(Kept)' = Cardinality(Kept) + D
    BY <1>1, <2>1, <2>2, <2>4, <2>5, <2>6, <2>7, <2>8
  <2> QED
    BY <2>9 DEF D, c
<1>7. Need > 0 /\ made /\ op[t].at \in Nodes
  BY NestedNamed
<1>8. /\ Counted' /\ Copied'
      /\ \A n \in Nodes : body'[n].state = body[n].state /\ body'[n].known = body[n].known
  BY <1>0, <1>5, <1>6, <1>7, CountUp
<1>9. More' /\ Sanes'
  <2>1. Sane(op'[t])
    BY <1>1, <1>2, <1>3, <1>4 DEF Sane
  <2> QED
    BY <2>1, <1>0, <1>4 DEF More, RefInv, Sanes
<1>10. /\ \A i \in Inodes, n \in Nodes : Keeps(i, n)' <=> Keeps(i, n)
       /\ \A n \in Nodes : Located(n)' <=> Located(n)
  BY <1>0 DEF Keeps, Located
<1>11. \A u \in Threads : (Active(u)' <=> Active(u)) /\ op'[u].kind = op[u].kind
  BY <1>3, <1>4 DEF Active
<1>12. Solo' /\ Kernels'
  <2>1. Solo'
    BY <1>11 DEF Solo, RefInv
  <2>2. \A u \in Threads : NodeOf[u] \in Nodes
    BY NodesFacts
  <2>3. \A u \in Threads : Asked(u)'
    BY <1>0, <1>10, <1>11, <2>2 DEF RefInv, Kernels, Asked
  <2>4. \A u \in Threads : op'[u].resp.tag = "error" => faults' # 0
    BY <1>0, <1>2, <1>3, <1>4 DEF RefInv, Kernels
  <2> QED
    BY <2>1, <2>3, <2>4, <1>0, <1>10 DEF RefInv, Kernels
<1>13. Alone' /\ Placed'
  <2>1. \A i \in Inodes : Carriers(i)' \subseteq Carriers(i)
    BY <1>0, <1>5, <1>10, StillHeld
  <2>2. \A u \in Threads : op'[u].nested => op[u].nested /\ op'[u].at = op[u].at
    BY <1>3, <1>4
  <2>3. \A u \in Threads : op'[u].nested => linked'[op[u].at] /\ node'[op[u].at] # "dead"
    BY <1>0, <2>2 DEF RefInv, Placed
  <2> QED
    BY <1>0, <1>8, <1>10, <2>1, <2>2, <2>3, QuietLinks DEF RefInv
<1>14. Handled'
  <2>1. ASSUME NEW i \in Inodes, NEW n \in Nodes, NEW z \in Nodes, HasHandle(i, n, z)' PROVE HasHandle(i, n, z)
    <3>1. "lookup" \notin Opens(i) /\ "lookup" # Closes(i)
      BY NodesFacts DEF Opens, Closes
    <3>2. (Closing(i, n)' <=> Closing(i, n)) /\ (Closed(i, n)' <=> Closed(i, n))
      BY <3>1, <1>3, <1>4, <1>11 DEF Closing, Closed
    <3>3. Opened(i, n, z)' <=> Opened(i, n, z)
      BY <3>1, <1>3, <1>4, <1>11 DEF Opened
    <3>4. HandleAt(i, n)' = HandleAt(i, n)
      BY <1>0 DEF HandleAt
    <3> QED
      BY <2>1, <3>2, <3>3, <3>4, <1>0 DEF HasHandle
  <2>2. IsFiniteSet(Nodes) /\ handles \in [Inodes -> [Nodes -> Int]]
    BY NodesAssumption DEF RefInv, More
  <2> QED
    BY <1>0, <1>10, <2>1, <2>2, QuietUsers DEF RefInv
<1>15. Unborn'
  BY <1>0, <1>7 DEF Unborn
<1> QED
  BY <1>0, <1>8, <1>9, <1>12, <1>13, <1>14, <1>15 DEF RefInv

(* doUnlink takes the name, and the reference that goes with it. *)
LEMMA UnlinkMoves ==
    ASSUME OwnInv, OwnInv', RefInv, NEW t \in Threads, NEW y \in Nodes, op[t].pc \in {"route", "exec", "call"},
           Keeps("file", y), op[t].nested, op[t].kind = "unlink", doUnlink(t, y), y = op[t].at
    PROVE  RefInv'
<1> DEFINE st == IF body[y].state = "CREATED" THEN "DEAD" ELSE "DELETED"
           gone == [body[y] EXCEPT !.state = st]
           b == DeRef(gone, 1)
<1>0. PICK ok \in BOOLEAN : ok /\ Answer(t, y, ok, own["file"][y])
  BY DEF doUnlink
<1>1. Given(t, y, ok)
  BY <1>0, AnswerStep
<1>2. /\ UNCHANGED <<own, node, faults, made, handles>> /\ ~panicked' /\ linked' = [linked EXCEPT ![y] = FALSE]
      /\ body' = [body EXCEPT ![y] = b]
  BY DEF doUnlink, RefInv
<1>3. AnswerRefs[t] = 0 /\ ForgetRefs[t] = 0 /\ op[t].resp.tag = "none"
  BY NoAnswerRefs
<1>4. Cardinality(Kept)' = Cardinality(Kept) /\ Cardinality(Kept) \in Nat
  <2>1. /\ Cardinality(Kept)' = Cardinality(Kept) - AnswerRefs[t] - ForgetRefs[t]
               + (IF ok /\ op[t].kind \in {"lookup", "create"} /\ node[NodeOf[t]] # "dead" THEN 1 ELSE 0)
        /\ Cardinality(Kept) \in Nat
    BY <1>0, <1>1, <1>2, GivenKept, NodesFacts
  <2> QED
    BY <2>1, <1>0, <1>3
<1>5. \A u \in Threads : op'[u] = op[u] \/ (op[u].resp.tag # "stolen" /\ op'[u].resp.tag # "stolen")
  BY <1>1, <1>3, IdleType, NoAnswerType DEF Given
<1>6. Named /\ Need > 0 /\ made /\ Keeps("dir", y) /\ node[y] # "dead"
  BY NestedNamed
<1>7. linked \in [Nodes -> BOOLEAN] /\ body \in [Nodes -> BodyRec] /\ body[y] \in BodyRec
  BY DEF OwnInv, Shape
<1>8. ~Named'
  <2>1. Holders("dir") = {y} /\ Carriers("dir") = {}
    BY <1>6, NodesFacts DEF RefInv, Alone, Holders, Keeps
  <2>2. \A n \in Nodes : Keeps("dir", n)' <=> Keeps("dir", n)
    BY <1>2 DEF Keeps
  <2>3. Holders("dir")' = {y} /\ Carriers("dir")' = {}
    BY <1>2, <1>5, <2>1, <2>2, StillHeld, NodesFacts
  <2>4. ~linked'[y]
    BY <1>2, <1>7
  <2> QED
    BY <2>3, <2>4 DEF Named
<1>9. Need' = Need - 1 /\ Need' \in Nat
  BY <1>4, <1>6, <1>8 DEF Need
<1>10. /\ Counts(body[y].refcnt) /\ \A r \in Nat : Counts(r)' => r = body'[y].refcnt
       /\ Need <= body[y].refcnt /\ body[y].refcnt \in Nat /\ Need \in Nat
  BY <1>2, <1>5, <1>6, HolderCounts
<1>11. gone \in BodyRec /\ gone.refcnt = body[y].refcnt /\ gone.known = body[y].known
  <2>1. st \in States
    BY DEF States
  <2> HIDE DEF st
  <2> QED
    BY <2>1, <1>7 DEF BodyRec
<1> HIDE DEF gone
<1>12. /\ b.refcnt = body[y].refcnt - 1
       /\ body[y].refcnt # 1 => b.known = body[y].known
  <2>1. PICK k \in Nat : k = 1
    OBVIOUS
  <2>2. k <= gone.refcnt
    BY <2>1, <1>6, <1>10, <1>11
  <2>3. DeRef(gone, k).refcnt = gone.refcnt - k /\ (gone.refcnt # k => DeRef(gone, k).known = gone.known)
    BY <2>2, <1>11, DeRefBody
  <2> QED
    BY <2>1, <2>3, <1>11
<1> HIDE DEF b
<1>13. body'[y] = b /\ \A m \in Nodes : m # y => body'[m] = body[m]
  BY <1>2, <1>7
<1>14. Counted'
  <2>1. PICK d \in Int : d = -1
    OBVIOUS
  <2>2. \A r \in Nat : Counts(r)' => r - d \in Nat /\ Counts(r - d)
    <3> SUFFICES ASSUME NEW r \in Nat, Counts(r)' PROVE r - d \in Nat /\ Counts(r - d)
      OBVIOUS
    <3>1. r - d = body[y].refcnt
      BY <2>1, <1>10, <1>12, <1>13
    <3> QED
      BY <3>1, <1>10
  <2>3. Need' <= Need + d /\ Need' = Need + d /\ Counted
    BY <2>1, <1>9, <1>10 DEF RefInv
  <2> QED
    BY <1>2, <1>9, <1>10, <2>2, <2>3, CountMoved
<1>15. Copied'
  <2> SUFFICES ASSUME Need' > 0, NEW m \in Nodes, Located(m)' PROVE body'[m].known
    BY DEF Copied
  <2>1. body[y].refcnt # 1
    BY <1>9, <1>10
  <2>2. body[m].known
    BY <1>2, <1>6 DEF RefInv, Copied, Located
  <2> QED
    BY <2>1, <2>2, <1>12, <1>13
<1>16. HandlesGiven(t, y, ok)
  <2>1. \A i \in Inodes, z \in Nodes : Keeps(i, z) => Keeps(i, z)'
    BY <1>2 DEF Keeps
  <2> QED
    BY <1>2, <2>1, HandlesSame
<1>17. \A n \in Nodes : (linked'[n] => linked[n]) /\ (n # y => linked'[n] = linked[n])
  BY <1>2, <1>7
<1>18. \A u \in Threads : u # t /\ op[u].nested => linked'[op[u].at]
  <2> SUFFICES ASSUME NEW u \in Threads, u # t, op[u].nested PROVE linked'[op[u].at]
    OBVIOUS
  <2>1. op[u].at # y /\ linked[op[u].at] /\ op[u].at \in Nodes
    BY NestedNamed DEF RefInv, Placed
  <2> QED
    BY <2>1, <1>17
<1>19. \A n \in Nodes : body'[n].state # "CACHED" => body[n].state # "CACHED" \/ Keeps("file", n)
  BY <1>13
<1> QED
  BY <1>0, <1>1, <1>2, <1>3, <1>6, <1>14, <1>15, <1>16, <1>17, <1>18, <1>19, GivenMoves

-------------------------------------------------------------------------------
(* Operations on the directory *)

(* Nobody has a file that is not made. *)
LEMMA NobodyHas ==
    ASSUME OwnInv, RefInv, ~made
    PROVE  /\ \A n \in Nodes : /\ ~Located(n) /\ ~Keeps("file", n) /\ body[n].state = "CACHED" /\ ~linked[n]
                               /\ Users("file", n) = {}
           /\ Carriers("file") = {} /\ Cardinality(Kept) = 0 /\ ~Named
           /\ \A u \in Threads : ~op[u].nested
<1>0. Shape /\ \A o \in Owners, k \in Nat : Known("file", o, k) => o = UNKNOWN_OWNER /\ k = 0
  BY DEF OwnInv, Unmade
<1>1. \A n \in Nodes : ~Located(n)
  <2> TAKE n \in Nodes
  <2>1. own["file"][n].owner \in Owners /\ own["file"][n].term \in Nat
        /\ Known("file", own["file"][n].owner, own["file"][n].term)
    BY <1>0, CopyType, NodesFacts DEF Known
  <2> QED
    BY <2>1, <1>0 DEF Located
<1>2. \A n \in Nodes : ~Keeps("file", n) /\ body[n].state = "CACHED" /\ Users("file", n) = {}
  BY <1>1, NodesFacts DEF Keeps, Located, RefInv, Placed, Handled
<1>3. Cardinality(Kept) = 0 /\ \A n \in Nodes : ~linked[n]
  BY DEF RefInv, Unborn
<1>4. \A u \in Threads : op[u] \in FrameRec /\ op[u].at \in Nodes /\ op[u].resp.term \in Nat
             /\ op[u].resp.child.owner \in Owners /\ op[u].resp.child.term \in Nat
  BY <1>0, FrameType DEF Shape
<1>5. Carriers("file") = {}
  <2> SUFFICES ASSUME NEW u \in Carriers("file") PROVE FALSE
    OBVIOUS
  <2>1. u \in Threads /\ Target(op[u]) = "file" /\ op[u].resp.tag = "stolen"
    BY DEF Carriers
  <2>2. Known("file", op[u].at, op[u].resp.term)
    BY <2>1 DEF Known, Says
  <2> QED
    BY <2>1, <2>2, <1>0, <1>4, NodesFacts
<1>6. ~Named
  <2>1. ASSUME NEW u \in Carriers("dir"), op[u].resp.linked PROVE FALSE
    <3>1. u \in Threads /\ op[u].resp.tag = "stolen" /\ op[u].resp.child.owner # UNKNOWN_OWNER
      BY <2>1 DEF Carriers, OwnInv, Names, FrameLocated
    <3>2. Known("file", op[u].resp.child.owner, op[u].resp.child.term)
      BY <3>1 DEF Known, Says
    <3> QED
      BY <3>1, <3>2, <1>0, <1>4
  <2> QED
    BY <2>1, <1>3 DEF Named, Holders
<1>7. \A u \in Threads : ~op[u].nested
  BY <1>3, <1>4 DEF RefInv, Placed
<1> QED
  BY <1>1, <1>2, <1>3, <1>5, <1>6, <1>7

(* The file gets its inode, its name and its references at node p. *)
LEMMA Appears ==
    ASSUME OwnInv, OwnInv', RefInv, ~made, NEW t \in Threads, NEW p \in Nodes, Keeps("dir", p), node[p] # "dead",
           own' = [own EXCEPT !["file"][p] = [owner |-> p, term |-> 0, ready |-> TRUE]],
           linked' = [linked EXCEPT ![p] = TRUE], node' = node, made',
           \A u \in Threads : u # t => op'[u] = op[u],
           op[t].resp.tag # "stolen", op'[t].resp.tag # "stolen",
           op'[t].nested => op'[t].at = p,
           body'[p].known, \A n \in Nodes : n # p => body'[n] = body[n],
           Cardinality(Kept)' + 1 = body'[p].refcnt, Cardinality(Kept)' \in Nat
    PROVE  /\ \A i \in Inodes, n \in Nodes : Keeps(i, n)' <=> Keeps(i, n) \/ (i = "file" /\ n = p)
           /\ \A n \in Nodes : Located(n)' <=> n = p
           /\ Alone' /\ Placed' /\ Counted' /\ Copied' /\ Unborn'
<1>0. /\ own \in [Inodes -> [Nodes -> CopyRec]] /\ linked \in [Nodes -> BOOLEAN]
      /\ \A n \in Nodes : ~Located(n) /\ ~Keeps("file", n) /\ body[n].state = "CACHED" /\ ~linked[n]
      /\ Carriers("file") = {} /\ \A u \in Threads : ~op[u].nested
  BY NobodyHas DEF OwnInv, Shape
<1>1. /\ \A n \in Nodes : own'["dir"][n] = own["dir"][n]
      /\ \A n \in Nodes : n # p => own'["file"][n] = own["file"][n]
      /\ own'["file"][p].owner = p /\ own'["file"][p].ready
  BY <1>0, NodesFacts
<1>2. \A i \in Inodes, n \in Nodes : Keeps(i, n)' <=> Keeps(i, n) \/ (i = "file" /\ n = p)
  BY <1>1, NodesFacts DEF Keeps
<1>3. \A n \in Nodes : Located(n)' <=> n = p
  BY <1>0, <1>1, NodesFacts DEF Located
<1>4. \A u \in Threads : op'[u] = op[u] \/ (op[u].resp.tag # "stolen" /\ op'[u].resp.tag # "stolen")
  OBVIOUS
<1>5. Holders("dir")' = Holders("dir") /\ Carriers("dir")' = Carriers("dir")
  <2>1. \A n \in Nodes : Keeps("dir", n)' <=> Keeps("dir", n)
    BY <1>2, NodesFacts
  <2> QED
    BY <1>4, <2>1, StillHeld, NodesFacts
<1>6. Holders("file")' = {p} /\ Carriers("file")' = {}
  <2>1. Holders("file")' = {p}
    BY <1>0, <1>2, NodesFacts DEF Holders, Keeps
  <2>2. \A u \in Threads : op'[u].resp.tag = "stolen" => op'[u] = op[u]
    OBVIOUS
  <2>3. Carriers("file")' \subseteq Carriers("file")
    BY <2>2 DEF Carriers
  <2> QED
    BY <1>0, <2>1, <2>3
<1>7. Alone'
  <2> SUFFICES ASSUME NEW i \in Inodes, NEW n \in Nodes, Keeps(i, n)'
               PROVE  Carriers(i)' = {} /\ \A m \in Nodes : Keeps(i, m)' => m = n
    BY DEF Alone
  <2>1. CASE i = "dir"
    BY <2>1, <1>2, <1>5 DEF RefInv, Alone
  <2>2. CASE i = "file"
    BY <2>2, <1>0, <1>2, <1>6
  <2> QED
    BY <2>1, <2>2, NodesFacts
<1>8. linked'[p] /\ \A n \in Nodes : linked'[n] => n = p
  BY <1>0
<1>9. Placed'
  <2>1. \A n \in Nodes : linked'[n] => Keeps("dir", n)'
    BY <1>2, <1>8, NodesFacts
  <2>2. \A n \in Nodes : body'[n].state # "CACHED" => Keeps("file", n)'
    BY <1>0, <1>2, NodesFacts
  <2>3. \A u \in Threads : op'[u].nested =>
          /\ linked'[op'[u].at] /\ node'[op'[u].at] # "dead"
          /\ \A v \in Threads : op'[v].nested /\ op'[v].at = op'[u].at => v = u
    BY <1>0, <1>8
  <2> QED
    BY <2>1, <2>2, <2>3 DEF Placed
<1>10. Named'
  BY <1>5, <1>8 DEF Named, Holders, Keeps
<1>11. Need' = body'[p].refcnt
  BY <1>10 DEF Need
<1>12. Counted'
  <2>1. \A r \in Nat : Counts(r)' => r = body'[p].refcnt
    BY <1>6 DEF Counts
  <2> QED
    BY <1>11, <2>1 DEF Counted
<1>13. Copied' /\ Unborn'
  BY <1>3 DEF Copied, Unborn
<1> QED
  BY <1>2, <1>3, <1>7, <1>9, <1>12, <1>13

(* The frame that goes on with the file. *)
LEMMA DescendTurn ==
    ASSUME OwnInv, RefInv, NEW t \in Threads, NEW p \in Nodes, op[t].pc \in {"route", "exec", "call"},
           op[t].kind \in {"lookup", "unlink"}, Descend(t, p),
           UNCHANGED <<kref, fhAt, dhAt, node, faults, handles, panicked>>
    PROVE  /\ Turn(t) /\ Sane(op'[t]) /\ op'[t].nested /\ op'[t].at = p
           /\ op[t].resp.tag # "stolen" /\ op'[t].resp.tag = "none"
<1> DEFINE g == [op[t] EXCEPT !.pc = "route", !.nested = TRUE, !.at = p]
<1>1. op' = [op EXCEPT ![t] = g] /\ Shape /\ op[t] \in FrameRec /\ op[t].resp.tag = "none" /\ Sane(op[t])
  BY NoAnswerRefs DEF Descend, OwnInv
<1>2. g.kind = op[t].kind /\ g.pc = "route" /\ g.nested /\ g.at = p /\ g.resp = op[t].resp /\ g.n = op[t].n
  BY <1>1 DEF FrameRec
<1> HIDE DEF g
<1>3. op'[t] = g /\ \A u \in Threads : u # t => op'[u] = op[u]
  BY <1>1, NextFrame
<1>4. Turn(t)
  BY <1>1, <1>2, <1>3 DEF Turn
<1>5. Sane(op'[t])
  BY <1>1, <1>2, <1>3 DEF Sane
<1> QED
  BY <1>1, <1>2, <1>3, <1>4, <1>5

(* lookUpInode1 and unlink find the name. *)
LEMMA DescendMoves ==
    ASSUME OwnInv, OwnInv', RefInv, NEW t \in Threads, NEW p \in Nodes, op[t].pc \in {"route", "exec", "call"},
           op[t].kind \in {"lookup", "unlink"}, Descend(t, p), linked[p], node[p] # "dead", ~DirBusy(p),
           UNCHANGED <<own, body, linked, made, kref, fhAt, dhAt, node, faults, handles, panicked>>
    PROVE  RefInv'
<1>1. /\ Turn(t) /\ Sane(op'[t]) /\ op'[t].nested /\ op'[t].at = p
      /\ op[t].resp.tag # "stolen" /\ op'[t].resp.tag = "none"
  BY DescendTurn
<1>2. (\A i \in Inodes, n \in Nodes : Keeps(i, n)' <=> Keeps(i, n)) /\ \A n \in Nodes : Located(n)' <=> Located(n)
  BY DEF Keeps, Located
<1>3. More' /\ Sanes' /\ Solo' /\ Kernels' /\ Handled' /\ ~panicked'
  BY <1>1, <1>2, TurnRest
<1>4. \A u \in Threads : op'[u] = op[u] \/ (op[u].resp.tag # "stolen" /\ op'[u].resp.tag # "stolen")
  BY <1>1 DEF Turn
<1>5. \A i \in Inodes : Carriers(i)' = Carriers(i)
  BY <1>2, <1>4, StillHeld
<1>6. Alone'
  BY <1>2, <1>5 DEF RefInv, Alone
<1>7. Placed'
  <2>1. \A u \in Threads : op'[u].nested =>
          /\ linked'[op'[u].at] /\ node'[op'[u].at] # "dead"
          /\ \A v \in Threads : op'[v].nested /\ op'[v].at = op'[u].at => v = u
    <3> SUFFICES ASSUME NEW u \in Threads, op'[u].nested
                 PROVE  /\ linked'[op'[u].at] /\ node'[op'[u].at] # "dead"
                        /\ \A v \in Threads : op'[v].nested /\ op'[v].at = op'[u].at => v = u
      OBVIOUS
    <3>1. \A v \in Threads : v # t => op'[v] = op[v]
      BY <1>1 DEF Turn
    <3>2. CASE u = t
      BY <3>1, <3>2, <1>1 DEF DirBusy
    <3>3. CASE u # t
      BY <3>1, <3>3, <1>1 DEF DirBusy, RefInv, Placed
    <3> QED
      BY <3>2, <3>3
  <2> QED
    BY <1>2, <2>1, NodesFacts DEF RefInv, Placed
<1>8. (Named' <=> Named) /\ \A r \in Nat : Counts(r)' <=> Counts(r)
  BY <1>2, <1>4, StillCounted
<1>9. Counted' /\ Copied' /\ Unborn'
  <2>1. Cardinality(Kept)' = Cardinality(Kept) /\ Cardinality(Kept) \in Nat /\ Cardinality(Kept)' \in Nat
    BY <1>1, TurnRefs DEF OwnInv
  <2> QED
    BY <1>2, <1>8, <2>1, QuietRefs DEF RefInv
<1> QED
  BY <1>3, <1>6, <1>7, <1>9 DEF RefInv

(* loadChild: the lookup finds the object. *)
LEMMA LoadMoves ==
    ASSUME OwnInv, OwnInv', RefInv, NEW t \in Threads, NEW p \in Nodes, op[t].pc \in {"route", "exec", "call"},
           op[t].kind = "lookup", ~made, loadChild(p), Descend(t, p), Keeps("dir", p), node[p] # "dead",
           UNCHANGED <<kref, fhAt, dhAt, node, faults, panicked>>
    PROVE  RefInv'
<1> DEFINE b == [Blank EXCEPT !.known = TRUE, !.refcnt = 1]
<1>0. /\ made' = TRUE /\ linked' = [linked EXCEPT ![p] = TRUE] /\ handles' = handles
      /\ own' = [own EXCEPT !["file"][p] = [owner |-> p, term |-> 0, ready |-> TRUE]]
      /\ body' = [body EXCEPT ![p] = b]
  BY DEF loadChild
<1>1. /\ Turn(t) /\ Sane(op'[t]) /\ op'[t].nested /\ op'[t].at = p
      /\ op[t].resp.tag # "stolen" /\ op'[t].resp.tag = "none"
  BY <1>0, DescendTurn
<1>2. b.known /\ b.refcnt = 1
  BY DEF Blank
<1> HIDE DEF b
<1>3. body'[p] = b /\ \A n \in Nodes : n # p => body'[n] = body[n]
  BY <1>0 DEF OwnInv, Shape
<1>4. Cardinality(Kept)' = 0
  BY <1>1, TurnRefs, NobodyHas DEF OwnInv
<1>5. \A u \in Threads : u # t => op'[u] = op[u]
  BY <1>1 DEF Turn
<1>6. /\ \A i \in Inodes, n \in Nodes : Keeps(i, n)' <=> Keeps(i, n) \/ (i = "file" /\ n = p)
      /\ \A n \in Nodes : Located(n)' <=> n = p
      /\ Alone' /\ Placed' /\ Counted' /\ Copied' /\ Unborn'
  <2>1. body'[p].known /\ Cardinality(Kept)' + 1 = body'[p].refcnt /\ Cardinality(Kept)' \in Nat
    BY <1>2, <1>3, <1>4
  <2> QED
    BY <1>0, <1>1, <1>3, <1>5, <2>1, Appears
<1>7. \A n \in Nodes : ~Located(n)
  BY NobodyHas
<1>8. More' /\ Sanes' /\ Solo' /\ Kernels' /\ Handled' /\ ~panicked'
  BY <1>1, <1>6, <1>7, TurnRest
<1> QED
  BY <1>6, <1>8 DEF RefInv

(* A thread is idle only when its own node has answered it. *)
LEMMA AnswerIdle ==
    ASSUME Shape, NEW t \in Threads, NEW y \in Nodes, NEW ok \in BOOLEAN, NEW pair \in CopyRec,
           Answer(t, y, ok, pair), op'[t].pc = "idle"
    PROVE  y = NodeOf[t]
<1> SUFFICES ASSUME y # NodeOf[t] PROVE FALSE
  OBVIOUS
<1> DEFINE r == [NoAnswer EXCEPT !.tag = IF ok THEN "done" ELSE "fail", !.child = pbInode(pair)]
<1>1. op' = [op EXCEPT ![t] = [op[t] EXCEPT !.pc = "reply", !.nested = FALSE, !.at = NodeOf[t],
                                         !.to = y, !.resp = r]]
  BY DEF Answer
<1> HIDE DEF r
<1>2. op \in [Threads -> FrameRec] /\ op[t] \in FrameRec
  BY DEF Shape
<1> QED
  BY <1>1, <1>2 DEF FrameRec

(* createFile: the name, the kernel's reference and its handle. *)
LEMMA CreateMoves ==
    ASSUME OwnInv, OwnInv', RefInv, NEW t \in Threads, NEW p \in Nodes, op[t].pc \in {"route", "exec", "call"},
           op[t].kind = "create", ~made, createFile(p), Answer(t, p, TRUE, own'["file"][p]),
           Keeps("dir", p), node[p] # "dead", UNCHANGED <<node, faults, panicked>>
    PROVE  RefInv'
<1> DEFINE b == [Blank EXCEPT !.known = TRUE, !.refcnt = 2, !.state = "CREATED"]
<1>0. /\ made' = TRUE /\ linked' = [linked EXCEPT ![p] = TRUE] /\ handles' = [handles EXCEPT !["file"][p] = 1]
      /\ own' = [own EXCEPT !["file"][p] = [owner |-> p, term |-> 0, ready |-> TRUE]]
      /\ body' = [body EXCEPT ![p] = b]
  BY DEF createFile, createChild
<1>1. Shape /\ Shape' /\ More /\ own'["file"][p] \in CopyRec
  BY NodesFacts DEF OwnInv, Shape, RefInv
<1>2. PICK ok \in BOOLEAN : ok /\ Answer(t, p, ok, own'["file"][p])
  OBVIOUS
<1>3. Given(t, p, ok) /\ (op'[t].pc = "idle" => p = NodeOf[t])
  <2>1. PICK pair \in CopyRec : pair = own'["file"][p]
    BY <1>1
  <2>2. Answer(t, p, ok, pair)
    BY <1>2, <2>1
  <2> QED
    BY <1>1, <2>2, AnswerGiven, AnswerIdle
<1>4. AnswerRefs[t] = 0 /\ ForgetRefs[t] = 0 /\ op[t].resp.tag = "none"
  BY NoAnswerRefs
<1>5. node[NodeOf[t]] # "dead"
  BY DEF RefInv, Kernels, Asked, Active
<1>6. Cardinality(Kept)' = 1
  <2>1. /\ Cardinality(Kept)' = Cardinality(Kept) - AnswerRefs[t] - ForgetRefs[t]
               + (IF ok /\ op[t].kind \in {"lookup", "create"} /\ node[NodeOf[t]] # "dead" THEN 1 ELSE 0)
    BY <1>3, GivenKept, NodesFacts
  <2>2. Cardinality(Kept) = 0
    BY NobodyHas
  <2> QED
    BY <2>1, <2>2, <1>2, <1>4, <1>5
<1>7. b.known /\ b.refcnt = 2
  BY DEF Blank
<1> HIDE DEF b
<1>8. body'[p] = b /\ \A n \in Nodes : n # p => body'[n] = body[n]
  BY <1>0, <1>1 DEF Shape
<1>9. (\A u \in Threads : u # t => op'[u] = op[u]) /\ ~op'[t].nested /\ op'[t].resp.tag # "stolen"
  BY <1>3, IdleType, NoAnswerType DEF Given
<1>10. /\ \A i \in Inodes, n \in Nodes : Keeps(i, n)' <=> Keeps(i, n) \/ (i = "file" /\ n = p)
       /\ \A n \in Nodes : Located(n)' <=> n = p
       /\ Alone' /\ Placed' /\ Counted' /\ Copied' /\ Unborn'
  <2>1. body'[p].known /\ Cardinality(Kept)' + 1 = body'[p].refcnt /\ Cardinality(Kept)' \in Nat
    BY <1>6, <1>7, <1>8
  <2> QED
    BY <1>0, <1>4, <1>8, <1>9, <2>1, Appears
<1>11. \A n \in Nodes : ~Located(n) /\ Users("file", n) = {}
  BY NobodyHas
<1>12. HandlesGiven(t, p, ok)
  <2>1. handles \in [Inodes -> [Nodes -> Int]]
    BY <1>1 DEF More
  <2>2. /\ handles' \in [Inodes -> [Nodes -> Int]] /\ handles'["file"][p] = 1
        /\ \A n \in Nodes : handles'["dir"][n] = handles["dir"][n]
        /\ \A n \in Nodes : n # p => handles'["file"][n] = handles["file"][n]
    BY <1>0, <2>1, NodesFacts
  <2>3. \A i \in Inodes : /\ Closes(i) # "create" /\ ("create" \in Opens(i) <=> i = "file")
    BY NodesFacts DEF Closes, Opens
  <2>4. ASSUME NEW i \in Inodes, NEW z \in Nodes
        PROVE  handles'[i][z] >= Cardinality(Users(i, z)) + (IF z = p /\ ok /\ op[t].kind \in Opens(i) THEN 1
                    ELSE IF z = p /\ op[t].kind = Closes(i) THEN -1 ELSE 0)
    <3>1. Cardinality(Users(i, z)) \in Nat /\ Cardinality(Users(i, z)) <= handles[i][z] /\ handles[i][z] \in Int
      BY UserCount
    <3>2. CASE i = "file" /\ z = p
      <4>1. Cardinality(Users(i, z)) = 0
        BY <3>2, <1>11, FS_EmptySet
      <4> QED
        BY <3>2, <4>1, <2>2, <2>3
    <3>3. CASE ~(i = "file" /\ z = p)
      <4>1. handles'[i][z] = handles[i][z]
        BY <3>3, <2>2, NodesFacts
      <4>2. ~(z = p /\ ok /\ op[t].kind \in Opens(i)) /\ ~(z = p /\ op[t].kind = Closes(i))
        BY <3>3, <2>3
      <4> QED
        BY <3>1, <4>1, <4>2
    <3> QED
      BY <3>2, <3>3
  <2> QED
    BY <1>10, <2>2, <2>3, <2>4 DEF HandlesGiven
<1>13. More' /\ Sanes' /\ Solo' /\ Kernels' /\ Handled'
  <2>1. NodeOf[t] \in Nodes
    BY NodesFacts
  <2> QED
    BY <1>2, <1>3, <1>4, <1>10, <1>11, <1>12, <2>1, GivenRest
<1>14. ~panicked'
  BY DEF RefInv
<1> QED
  BY <1>10, <1>13, <1>14 DEF RefInv

(* An answer that leaves the file alone. *)
LEMMA AnswerStill ==
    ASSUME OwnInv, OwnInv', RefInv, NEW t \in Threads, NEW p \in Nodes, NEW ok \in BOOLEAN,
           op[t].pc \in {"route", "exec", "call"}, Answer(t, p, ok, own["file"][p]),
           ~(ok /\ op[t].kind \in {"lookup", "create"}), op[t].kind # "forget",
           ok \/ op[t].kind \in {"lookup", "unlink", "create"}, HandlesGiven(t, p, ok),
           UNCHANGED <<own, body, linked, made, node, faults, panicked>>
    PROVE  RefInv'
<1>1. Given(t, p, ok)
  BY AnswerStep
<1>2. AnswerRefs[t] = 0 /\ ForgetRefs[t] = 0 /\ op[t].resp.tag = "none"
  BY NoAnswerRefs
<1>3. Cardinality(Kept)' = Cardinality(Kept)
  <2>1. /\ Cardinality(Kept)' = Cardinality(Kept) - AnswerRefs[t] - ForgetRefs[t]
               + (IF ok /\ op[t].kind \in {"lookup", "create"} /\ node[NodeOf[t]] # "dead" THEN 1 ELSE 0)
        /\ Cardinality(Kept) \in Nat
    BY <1>1, GivenKept, NodesFacts
  <2> QED
    BY <2>1, <1>2
<1>4. ~panicked'
  BY DEF RefInv
<1> QED
  BY <1>1, <1>2, <1>3, <1>4, GivenStill

(* The operations on the directory. *)
LEMMA ExecDirMoves ==
    ASSUME OwnInv, OwnInv', RefInv, NEW t \in Threads, NEW p \in Nodes, op[t].pc \in {"route", "exec", "call"},
           Target(op[t]) = "dir", ExecDir(t, p), Keeps("dir", p), node[p] # "dead"
    PROVE  RefInv'
<1>0. UNCHANGED <<node, faults, panicked>> /\ ~DirBusy(p)
  BY DEF ExecDir
<1>1. CASE /\ op[t].kind \in {"lookup", "unlink"} /\ linked[p]
           /\ Descend(t, p) /\ UNCHANGED <<own, body, linked, made, handles, kref, fhAt, dhAt>>
  BY <1>0, <1>1, DescendMoves
<1>2. CASE /\ op[t].kind = "lookup" /\ ~made
           /\ loadChild(p) /\ Descend(t, p) /\ UNCHANGED <<kref, fhAt, dhAt>>
  BY <1>0, <1>2, LoadMoves
<1>3. CASE op[t].kind = "create" /\ ~made /\ createFile(p) /\ Answer(t, p, TRUE, own'["file"][p])
  BY <1>0, <1>3, CreateMoves
<1>4. CASE /\ op[t].kind \in {"lookup", "create", "unlink"} /\ Answer(t, p, FALSE, own["file"][p])
           /\ UNCHANGED <<own, body, linked, made, handles>>
  <2>1. PICK ok \in BOOLEAN : ~ok /\ Answer(t, p, ok, own["file"][p])
    BY <1>4
  <2>2. \A i \in Inodes, z \in Nodes : Keeps(i, z) => Keeps(i, z)'
    BY <1>4 DEF Keeps
  <2>3. HandlesGiven(t, p, ok)
    BY <1>4, <2>1, <2>2, HandlesSame
  <2> QED
    BY <1>0, <1>4, <2>1, <2>3, AnswerStill
<1>5. CASE /\ op[t].kind \in {"opendir", "closedir"} /\ UNCHANGED <<own, body, linked, made>>
           /\ handles' = [handles EXCEPT !["dir"][p] = IF op[t].kind = "opendir" THEN @ + 1 ELSE @ - 1]
           /\ Answer(t, p, TRUE, own["file"][p])
  <2>1. PICK ok \in BOOLEAN : ok /\ Answer(t, p, ok, own["file"][p])
    BY <1>5
  <2>2. PICK j \in Inodes : j = "dir"
    BY NodesFacts
  <2>3. PICK d \in Int : d = IF op[t].kind = "opendir" THEN 1 ELSE -1
    OBVIOUS
  <2>4. handles' = [handles EXCEPT ![j][p] = @ + d]
    <3>1. handles["dir"][p] \in Int
      BY NodesFacts DEF RefInv, More
    <3>2. (IF op[t].kind = "opendir" THEN handles["dir"][p] + 1 ELSE handles["dir"][p] - 1) = handles["dir"][p] + d
      BY <2>3, <3>1
    <3> QED
      BY <1>5, <2>2, <3>2
  <2>5. (op[t].kind \in Opens(j) /\ d = 1) \/ (op[t].kind = Closes(j) /\ d = -1)
    BY <1>5, <2>2, <2>3 DEF Opens, Closes
  <2>6. HandlesGiven(t, p, ok)
    <3>1. own' = own /\ Keeps(j, p) /\ op[t].kind # "create" /\ ok
      BY <1>5, <2>1, <2>2
    <3> QED
      BY <2>4, <2>5, <3>1, HandlesMoved
  <2> QED
    BY <1>0, <1>5, <2>1, <2>6, AnswerStill
<1> QED
  BY <1>1, <1>2, <1>3, <1>4, <1>5 DEF ExecDir

(* Whatever a node runs as the owner. *)
LEMMA ExecMoves ==
    ASSUME OwnInv, OwnInv', RefInv, NEW t \in Threads, NEW y \in Nodes, op[t].pc \in {"route", "exec", "call"},
           Exec(t, y), Keeps(Target(op[t]), y), node[y] # "dead", op[t].pc # "call" => y = op[t].at
    PROVE  RefInv'
<1>1. CASE op[t].nested /\ op[t].kind = "lookup" /\ lookUpInode2(t, y)
  <2>1. Keeps("file", y)
    BY <1>1 DEF Target
  <2> QED
    BY <1>1, <2>1, LookUpHere, LookUpThere
<1>2. CASE op[t].nested /\ op[t].kind = "unlink" /\ doUnlink(t, y)
  <2>1. Keeps("file", y)
    BY <1>2 DEF Target
  <2>2. y = op[t].at
    BY <1>2 DEF RefInv, Sanes, Sane
  <2> QED
    BY <1>2, <2>1, <2>2, UnlinkMoves
<1>3. CASE Target(op[t]) = "dir" /\ ExecDir(t, y)
  BY <1>3, ExecDirMoves
<1>4. CASE ~op[t].nested /\ op[t].kind \notin ByParent /\ ExecFile(t, y)
  <2>1. Keeps("file", y)
    BY <1>4 DEF Target
  <2> QED
    BY <1>4, <2>1, ExecFileStill, ForgetMoves
<1> QED
  BY <1>1, <1>2, <1>3, <1>4 DEF Exec

(* route. *)
LEMMA RouteMoves ==
    ASSUME OwnInv, OwnInv', RefInv, ~early', NEW t \in Threads, Route(t)
    PROVE  RefInv'
<1> DEFINE x == op[t].at
           c == own[Target(op[t])][x]
<1>0. /\ op[t].pc \in {"route", "exec"} /\ node[x] # "dead" /\ x \in Nodes
  BY FrameType DEF Route, OwnInv, Shape
<1>1. CASE Steals(op[t]) /\ op[t].pc = "route" /\ Send(t, "steal", c.owner) /\ UNCHANGED rest
  <2>1. PICK pc \in {"steal", "call"} : pc = "steal"
    OBVIOUS
  <2> QED
    BY <1>0, <1>1, <2>1, SendMoves
<1>2. CASE ~(Steals(op[t]) /\ op[t].pc = "route") /\ Send(t, "call", c.owner) /\ UNCHANGED rest
  <2>1. PICK pc \in {"steal", "call"} : pc = "call"
    OBVIOUS
  <2>2. ~(op[t].nested /\ op[t].kind = "unlink")
    BY <1>0, <1>2 DEF Steals, RefInv, Sanes, Sane
  <2> QED
    BY <1>0, <1>2, <2>1, <2>2, SendMoves
<1>3. CASE c.owner = x /\ Relies(c) /\ Exec(t, x)
  <2>1. Keeps(Target(op[t]), x)
    BY <1>3 DEF Relies, Keeps
  <2> QED
    BY <1>0, <1>3, <2>1, ExecMoves
<1> QED
  BY <1>1, <1>2, <1>3 DEF Route

(* The handling of a request. *)
LEMMA ServeCallMoves ==
    ASSUME OwnInv, OwnInv', RefInv, ~early', NEW t \in Threads, ServeCall(t)
    PROVE  RefInv'
<1> DEFINE y == op[t].to
           i == Target(op[t])
           c == own[i][y]
<1>0. /\ op[t].pc = "call" /\ node[y] # "dead" /\ y \in Nodes /\ i \in Inodes
  BY FrameType DEF ServeCall, OwnInv, Shape, Names, FrameLocated
<1>1. CASE op' = [op EXCEPT ![t] = [op[t] EXCEPT !.pc = "reply", !.resp = Other(c)]] /\ UNCHANGED rest
  <2>1. PICK pc \in {"stolen", "reply"} : pc = "reply"
    OBVIOUS
  <2>2. PICK r \in AnswerRec : r = Other(c) /\ r.tag = "other"
    BY <1>0, CopyType, OtherFacts DEF OwnInv
  <2>3. op' = [op EXCEPT ![t] = [op[t] EXCEPT !.pc = pc, !.resp = r]]
    BY <1>1, <2>1, <2>2
  <2>4. UNCHANGED <<own, body, handles, linked, kref, fhAt, dhAt, node, made, panicked, faults>>
    BY <1>1 DEF rest
  <2> QED
    BY <1>0, <2>1, <2>2, <2>3, <2>4, AnsweredMoves
<1>2. CASE c.owner = y /\ Relies(c) /\ Exec(t, y)
  <2>1. Keeps(Target(op[t]), y)
    BY <1>2 DEF Relies, Keeps
  <2> QED
    BY <1>0, <1>2, <2>1, ExecMoves
<1> QED
  BY <1>1, <1>2 DEF ServeCall

(* A lookup for the directory has its answer from the owner of the file. *)
LEMMA FoundMoves ==
    ASSUME OwnInv, OwnInv', RefInv, NEW t \in Threads, op[t].pc = "reply", op[t].resp.tag = "done", op[t].nested,
           Answer(t, op[t].at, TRUE, own["file"][op[t].at]),
           UNCHANGED <<own, body, handles, linked, node, made, panicked, faults>>
    PROVE  RefInv'
<1>x. PICK x \in Nodes, ok \in BOOLEAN : x = op[t].at /\ ok /\ Answer(t, x, ok, own["file"][x])
  BY FrameType DEF OwnInv, Shape
<1>1. Sane(op[t]) /\ Form(t, op[t]) /\ FrameLocated(op[t])
  BY DEF RefInv, Sanes, OwnInv, Forms, Names
<1>2. op[t].kind = "lookup" /\ op[t].n = 0
  BY <1>1 DEF Sane, Form
<1>3. Given(t, x, ok) /\ (op'[t].pc = "idle" => x = NodeOf[t])
  BY <1>x, AnswerStep
<1>4. Located(x)
  BY <1>x, <1>1 DEF FrameLocated, InUse
<1>5. Cardinality(Kept)' = Cardinality(Kept)
  <2>1. /\ Cardinality(Kept)' = Cardinality(Kept) - AnswerRefs[t] - ForgetRefs[t]
               + (IF ok /\ op[t].kind \in {"lookup", "create"} /\ node[NodeOf[t]] # "dead" THEN 1 ELSE 0)
        /\ Cardinality(Kept) \in Nat
    BY <1>2, <1>3, GivenKept, NodesFacts
  <2>2. AnswerRefs[t] = IF node[NodeOf[t]] # "dead" THEN 1 ELSE 0
    BY <1>2 DEF AnswerRefs, Looked
  <2>3. ForgetRefs[t] = 0
    BY DEF ForgetRefs
  <2>4. CASE node[NodeOf[t]] = "dead"
    BY <2>1, <2>2, <2>3, <2>4
  <2>5. CASE node[NodeOf[t]] # "dead"
    BY <2>1, <2>2, <2>3, <2>5, <1>x, <1>2
  <2> QED
    BY <2>4, <2>5
<1>6. HandlesGiven(t, x, ok)
  <2>1. \A i \in Inodes, z \in Nodes : Keeps(i, z) => Keeps(i, z)'
    BY DEF Keeps
  <2> QED
    BY <1>2, <2>1, HandlesSame
<1>7. ~panicked'
  BY DEF RefInv
<1> QED
  BY <1>x, <1>2, <1>3, <1>4, <1>5, <1>6, <1>7, GivenStill

-------------------------------------------------------------------------------
(* An answer comes back to the node that asked *)

(* The thread is done, and its kernel has what it asked for. *)
LEMMA ReturnGiven ==
    ASSUME OwnInv, RefInv, NEW t \in Threads, op[t].pc = "reply", ~op[t].nested,
           op[t].resp.tag \in {"done", "fail"}, op' = [op EXCEPT ![t] = Idle(t)],
           NEW ok \in BOOLEAN, ok = (op[t].resp.tag = "done"), Kernel(t, op[t].to, ok)
    PROVE  /\ Given(t, op[t].to, ok) /\ KernelEffect(t, op[t].to, ok) /\ op[t].to \in Owners
           /\ op'[t] = Idle(t) /\ \A u \in Threads : u # t => op'[u] = op[u]
           /\ Sane(op[t]) /\ op[t].at = NodeOf[t] /\ op[t] \in FrameRec
           /\ ok \/ op[t].kind \in {"lookup", "unlink", "create"}
<1>1. Shape /\ More /\ op[t] \in FrameRec /\ op[t].to \in Owners /\ Sane(op[t]) /\ Form(t, op[t])
  BY FrameType DEF OwnInv, Shape, Forms, RefInv, Sanes
<1>2. KernelEffect(t, op[t].to, ok)
  BY <1>1, KernelEffects
<1>3. op'[t] = Idle(t) /\ \A u \in Threads : u # t => op'[u] = op[u]
  BY <1>1 DEF Shape
<1>4. ok \/ op[t].kind \in {"lookup", "unlink", "create"}
  BY <1>1 DEF Sane
<1> QED
  BY <1>1, <1>2, <1>3, <1>4 DEF Given, KernelEffect, Form

(* The handle the kernel gets was there with the answer. *)
LEMMA ReturnUsers ==
    ASSUME OwnInv, RefInv, NEW t \in Threads, op[t].pc = "reply", op'[t] = Idle(t),
           \A u \in Threads : u # t => op'[u] = op[u], Sane(op[t]), node' = node,
           op[t].resp.tag \in {"done", "fail"}, NEW ok \in BOOLEAN, ok = (op[t].resp.tag = "done"),
           KernelEffect(t, op[t].to, ok),
           NEW i \in Inodes, NEW n \in Nodes, NEW z \in Nodes, HasHandle(i, n, z)'
    PROVE  HasHandle(i, n, z)
<1> DEFINE c == NodeOf[t]
           k == op[t].kind
<1>0. Idle(t).pc = "idle" /\ Idle(t).kind = "lookup" /\ "lookup" \notin Opens(i) /\ z # 0
      /\ Idle(t).resp.tag = "none"
  BY IdleType, NoAnswerType, NodesFacts DEF Opens, UNKNOWN_OWNER
<1>1. Opened(i, n, z)' => Opened(i, n, z)
  BY <1>0 DEF Opened
<1>2. k # Closes(i) \/ n # c => (Closing(i, n)' <=> Closing(i, n)) /\ (Closed(i, n)' <=> Closed(i, n))
  BY <1>0 DEF Closing, Closed, Active
<1>3. n # c \/ (k # Closes(i) /\ ~(ok /\ k \in Opens(i))) => HandleAt(i, n)' = HandleAt(i, n)
  <2>1. CASE i = "file"
    BY <2>1 DEF HandleAt, KernelEffect, Closes, Opens
  <2>2. CASE i = "dir"
    <3>1. k = "opendir" => ok
      BY DEF Sane
    <3> QED
      BY <2>2, <3>1 DEF HandleAt, KernelEffect, Closes, Opens
  <2> QED
    BY <2>1, <2>2, NodesFacts
<1>4. CASE n # c \/ (k # Closes(i) /\ ~(ok /\ k \in Opens(i)))
  BY <1>1, <1>2, <1>3, <1>4 DEF HasHandle
<1>5. CASE n = c /\ k = Closes(i)
  <2>1. HandleAt(i, n)' = 0
    <3>1. CASE i = "file"
      BY <3>1, <1>5 DEF HandleAt, KernelEffect, Closes
    <3>2. CASE i = "dir"
      BY <3>2, <1>5 DEF HandleAt, KernelEffect, Closes
    <3> QED
      BY <3>1, <3>2, NodesFacts
  <2> QED
    BY <2>1, <1>0, <1>1 DEF HasHandle
<1>6. CASE n = c /\ ok /\ k \in Opens(i)
  <2>1. HandleAt(i, n)' = op[t].to
    <3>1. CASE i = "file"
      BY <3>1, <1>6 DEF HandleAt, KernelEffect, Opens
    <3>2. CASE i = "dir"
      BY <3>2, <1>6 DEF HandleAt, KernelEffect, Opens
    <3> QED
      BY <3>1, <3>2, NodesFacts
  <2>2. ~Closing(i, n)'
    <3> SUFFICES ASSUME NEW u \in Threads, NodeOf[u] = n, Active(u)', op'[u].kind = Closes(i) PROVE FALSE
      BY DEF Closing
    <3>1. u # t
      BY <1>0 DEF Active
    <3>2. Active(u) /\ Active(t) /\ op[u].kind = Closes(i)
      BY <3>1 DEF Active
    <3>3. k \in Exclusive /\ Closes(i) \in Exclusive
      BY <1>6 DEF Exclusive, Opens, Closes
    <3> QED
      BY <3>1, <3>2, <3>3, <1>6 DEF RefInv, Solo
  <2>3. Opened(i, n, op[t].to)
    BY <1>6 DEF Opened
  <2> QED
    BY <2>1, <2>2, <2>3, <1>1 DEF HasHandle
<1> QED
  BY <1>4, <1>5, <1>6

(* A node that hears of the file makes a copy, and nobody has the file there. *)
LEMMA ReturnCopies ==
    ASSUME OwnInv, RefInv, NEW t \in Threads, op[t].pc = "reply", ~op[t].nested, node[op[t].at] # "dead",
           IF op[t].resp.tag = "done" /\ op[t].kind \in {"lookup", "create"}
           THEN ensure(op[t].at, op[t].resp.child) ELSE UNCHANGED <<own, body>>
    PROVE  /\ \A i \in Inodes, n \in Nodes : Keeps(i, n)' <=> Keeps(i, n)
           /\ \A n \in Nodes : /\ Located(n) => Located(n)' /\ body'[n] = body[n]
                               /\ ~Located(n) => body'[n] = body[n] \/ (body'[n].known /\ body'[n].state = "CACHED")
                               /\ Located(n)' => Located(n) \/ body'[n].known
           /\ op[t].resp.tag = "done" /\ op[t].kind \in {"lookup", "create"} => Located(NodeOf[t])'
<1>x. PICK x \in Nodes : x = op[t].at /\ x = NodeOf[t]
  BY FrameType DEF OwnInv, Shape, Forms, Form
<1>0. /\ own \in [Inodes -> [Nodes -> CopyRec]] /\ body \in [Nodes -> BodyRec] /\ op[t] \in FrameRec
      /\ FrameLocated(op[t]) /\ \A n \in Nodes : body[n].known => Located(n)
  BY DEF OwnInv, Shape, Names
<1>1. CASE own' = own /\ body' = body /\ (op[t].resp.tag = "done" /\ op[t].kind \in {"lookup", "create"} => body[x].known)
  BY <1>x, <1>0, <1>1 DEF Keeps, Located
<1> DEFINE r == op[t].resp
           d == [owner |-> r.child.owner, term |-> r.child.term, ready |-> FALSE]
           b == [Blank EXCEPT !.known = TRUE]
<1>2. CASE /\ r.tag = "done" /\ op[t].kind \in {"lookup", "create"} /\ ~body[x].known
           /\ own' = [own EXCEPT !["file"][x] = d] /\ body' = [body EXCEPT ![x] = b]
  <2>1. AnswerRefs[t] = 1
    BY <1>2, <1>x DEF AnswerRefs, Looked
  <2>2. AnswerSum \in Nat /\ KernelSum \in Nat /\ ForgetSum \in Nat /\ AnswerRefs \in [Threads -> Nat]
        /\ IsFiniteSet(Threads) /\ Cardinality(Kept) = KernelSum + AnswerSum + ForgetSum
    BY RefsTypes, KeptSum DEF OwnInv
  <2>3. 1 <= AnswerSum
    <3>1. PICK nm : nm = "looked up"
      OBVIOUS
    <3>2. AnswerRefs[t] <= Cardinality(Column(Threads, nm, AnswerRefs))
      BY <2>2, ColumnPart
    <3> QED
      BY <3>1, <3>2, <2>1 DEF AnswerSum
  <2>4. Need > 0
    BY <2>2, <2>3 DEF Need
  <2>5. ~Located(x)
    BY <2>4, <1>2 DEF RefInv, Copied
  <2>6. d \in CopyRec /\ d.owner # UNKNOWN_OWNER /\ ~d.ready /\ d.owner = r.child.owner
    <3>1. r.child.owner \in Owners /\ r.child.term \in Nat /\ r.child.owner # UNKNOWN_OWNER
      BY <1>0, <1>2, FrameType DEF FrameLocated
    <3> QED
      BY <3>1 DEF CopyRec
  <2>7. b.known /\ b.state = "CACHED"
    BY DEF Blank
  <2> HIDE DEF d, b
  <2>8. \A j \in Inodes, n \in Nodes : own'[j][n] = (IF j = "file" /\ n = x THEN d ELSE own[j][n])
    BY <2>6, <1>0, <1>2, NodesFacts, OneCopyChanged
  <2>9. body'[x] = b /\ \A n \in Nodes : n # x => body'[n] = body[n]
    BY <1>0, <1>2
  <2>10. \A i \in Inodes, n \in Nodes : Keeps(i, n)' <=> Keeps(i, n)
    BY <2>5, <2>6, <2>8, NodesFacts DEF Keeps, Located
  <2>11. \A n \in Nodes : Located(n)' <=> Located(n) \/ n = x
    BY <2>6, <2>8, NodesFacts DEF Located
  <2>12. \A n \in Nodes : Located(n) => body'[n] = body[n]
    BY <2>5, <2>9
  <2> QED
    BY <1>x, <2>7, <2>9, <2>10, <2>11, <2>12
<1> QED
  BY <1>x, <1>0, <1>1, <1>2 DEF ensure

(* The second phase of an operation, at the node that asked for it. *)
LEMMA ReturnMoves ==
    ASSUME OwnInv, OwnInv', RefInv, NEW t \in Threads, op[t].pc = "reply", ~op[t].nested, node[op[t].at] # "dead",
           op[t].resp.tag \in {"done", "fail"},
           op' = [op EXCEPT ![t] = Idle(t)],
           Kernel(t, op[t].to, op[t].resp.tag = "done"),
           IF op[t].resp.tag = "done" /\ op[t].kind \in {"lookup", "create"}
           THEN ensure(op[t].at, op[t].resp.child) ELSE UNCHANGED <<own, body>>,
           UNCHANGED <<handles, linked, node, made, panicked, faults>>
    PROVE  RefInv'
<1>y. PICK ok \in BOOLEAN : ok = (op[t].resp.tag = "done")
  OBVIOUS
<1>1. /\ Given(t, op[t].to, ok) /\ KernelEffect(t, op[t].to, ok) /\ op[t].to \in Owners
      /\ op'[t] = Idle(t) /\ \A u \in Threads : u # t => op'[u] = op[u]
      /\ Sane(op[t]) /\ op[t].at = NodeOf[t] /\ op[t] \in FrameRec
      /\ ok \/ op[t].kind \in {"lookup", "unlink", "create"}
  BY <1>y, ReturnGiven
<1>2. /\ \A i \in Inodes, n \in Nodes : Keeps(i, n)' <=> Keeps(i, n)
      /\ \A n \in Nodes : /\ Located(n) => Located(n)' /\ body'[n] = body[n]
                          /\ ~Located(n) => body'[n] = body[n] \/ (body'[n].known /\ body'[n].state = "CACHED")
                          /\ Located(n)' => Located(n) \/ body'[n].known
      /\ op[t].resp.tag = "done" /\ op[t].kind \in {"lookup", "create"} => Located(NodeOf[t])'
  BY ReturnCopies
<1>3. Sanes'
  BY <1>1, GivenSane DEF RefInv
<1>4. Solo' /\ Kernels'
  <2>1. \A n \in Nodes : Located(n) => Located(n)'
    BY <1>2
  <2> QED
    BY <1>1, <1>2, <1>y, <2>1, GivenKernels DEF RefInv
<1>5. More' /\ ~panicked'
  BY <1>1 DEF RefInv, More, KernelEffect
<1>6. op[t].resp.tag # "stolen" /\ op'[t].resp.tag # "stolen" /\ ~op'[t].nested
  BY <1>1, IdleType, NoAnswerType
<1>7. \A u \in Threads : op'[u] = op[u] \/ (op[u].resp.tag # "stolen" /\ op'[u].resp.tag # "stolen")
  BY <1>1, <1>6
<1>8. \A i \in Inodes : /\ Holders(i)' = Holders(i) /\ Carriers(i)' = Carriers(i)
                        /\ \A u \in Carriers(i) : op'[u] = op[u]
  BY <1>2, <1>7, StillHeld
<1>9. Alone' /\ Placed'
  <2>1. \A u \in Threads : op'[u].nested =>
               op[u].nested /\ op'[u].at = op[u].at /\ linked'[op[u].at] /\ node'[op[u].at] # "dead"
    BY <1>1, <1>6 DEF RefInv, Placed
  <2>2. \A n \in Nodes : body'[n].state # "CACHED" => body[n].state # "CACHED"
    BY <1>2
  <2>3. \A i \in Inodes : Carriers(i)' \subseteq Carriers(i)
    BY <1>8
  <2>4. \A i \in Inodes, n \in Nodes : Keeps(i, n)' <=> Keeps(i, n)
    BY <1>2
  <2> QED
    BY <2>1, <2>2, <2>3, <2>4, QuietLinks DEF RefInv
<1>10. Cardinality(Kept)' = Cardinality(Kept) /\ Cardinality(Kept) \in Nat /\ Cardinality(Kept)' \in Nat
  <2>0. op[t].kind = "forget" => ok
    BY <1>1
  <2>1. /\ Cardinality(Kept)' = Cardinality(Kept) - AnswerRefs[t] - ForgetRefs[t]
               + (IF ok /\ op[t].kind \in {"lookup", "create"} /\ node[NodeOf[t]] # "dead" THEN 1 ELSE 0)
        /\ Cardinality(Kept) \in Nat /\ Cardinality(Kept)' \in Nat
    BY <1>1, <2>0, GivenKept
  <2>2. CASE ok /\ op[t].kind \in {"lookup", "create"}
    <3>1. AnswerRefs[t] = 1 /\ ForgetRefs[t] = 0
      BY <2>2, <1>1, <1>y DEF AnswerRefs, ForgetRefs, Looked
    <3> QED
      BY <2>1, <2>2, <3>1, <1>1
  <2>3. CASE ~(ok /\ op[t].kind \in {"lookup", "create"})
    <3>1. AnswerRefs[t] = 0
      BY <2>3, <1>y DEF AnswerRefs, Looked
    <3>2. ForgetRefs[t] = 0
      BY <1>1, <1>y DEF ForgetRefs, Sane
    <3> QED
      BY <2>1, <2>3, <3>1, <3>2
  <2> QED
    BY <2>2, <2>3
<1>11. Named' <=> Named
  BY <1>8, NodesFacts DEF Named
<1>12. \A r \in Nat : Counts(r)' => Counts(r)
  <2>1. \A h \in Holders("file") : body'[h] = body[h]
    BY <1>2, NodesFacts DEF Holders, Located
  <2> QED
    BY <2>1, <1>8, NodesFacts DEF Counts
<1>13. Counted' /\ Copied' /\ Unborn'
  <2>1. \A n \in Nodes : Located(n)' /\ Need > 0 => body'[n].known \/ (Located(n) /\ (body[n].known => body'[n].known))
    BY <1>2
  <2> QED
    BY <2>1, <1>10, <1>11, <1>12, QuietRefs DEF RefInv
<1>14. Handled'
  <2>1. \A i \in Inodes, n \in Nodes, z \in Nodes : HasHandle(i, n, z)' => HasHandle(i, n, z)
    BY <1>1, <1>y, ReturnUsers
  <2>2. IsFiniteSet(Nodes) /\ handles \in [Inodes -> [Nodes -> Int]]
    BY NodesAssumption DEF RefInv, More
  <2> QED
    BY <1>2, <2>1, <2>2, QuietUsers DEF RefInv
<1> QED
  BY <1>3, <1>4, <1>5, <1>9, <1>13, <1>14 DEF RefInv

-------------------------------------------------------------------------------
(* Failures *)

(* Nobody has more references than before. *)
FewerRefs ==
    /\ \A n \in Nodes : KernelRefs'[n] <= KernelRefs[n]
    /\ \A u \in Threads : AnswerRefs'[u] <= AnswerRefs[u] /\ ForgetRefs'[u] <= ForgetRefs[u]

(* So no kind of them is more. *)
LEMMA SumsFewer ==
    ASSUME Shape, Shape', FewerRefs
    PROVE  KernelSum' <= KernelSum /\ AnswerSum' <= AnswerSum /\ ForgetSum' <= ForgetSum
<1>0. /\ KernelRefs \in [Nodes -> Nat] /\ AnswerRefs \in [Threads -> Nat] /\ ForgetRefs \in [Threads -> Nat]
      /\ IsFiniteSet(Nodes) /\ IsFiniteSet(Threads)
  BY RefsTypes
<1>1. KernelRefs' \in [Nodes -> Nat] /\ AnswerRefs' \in [Threads -> Nat] /\ ForgetRefs' \in [Threads -> Nat]
  <2>1. op' \in [Threads -> FrameRec] /\ kref' \in [Nodes -> Nat]
    BY DEF Shape
  <2>2. \A u \in Threads : op'[u].n \in Nat
    BY <2>1, FrameType
  <2> QED
    BY <2>1, <2>2 DEF KernelRefs, AnswerRefs, ForgetRefs
<1>2. KernelSum' <= KernelSum
  <2>1. PICK nm : nm = "kernel"
    OBVIOUS
  <2>2. Cardinality(Column(Nodes, nm, KernelRefs')) <= Cardinality(Column(Nodes, nm, KernelRefs))
    BY <1>0, <1>1, ColumnFewer DEF FewerRefs
  <2> QED
    BY <2>1, <2>2 DEF KernelSum
<1>3. AnswerSum' <= AnswerSum
  <2>1. PICK nm : nm = "looked up"
    OBVIOUS
  <2>2. Cardinality(Column(Threads, nm, AnswerRefs')) <= Cardinality(Column(Threads, nm, AnswerRefs))
    BY <1>0, <1>1, ColumnFewer DEF FewerRefs
  <2> QED
    BY <2>1, <2>2 DEF AnswerSum
<1>4. ForgetSum' <= ForgetSum
  <2>1. PICK nm : nm = "forget"
    OBVIOUS
  <2>2. Cardinality(Column(Threads, nm, ForgetRefs')) <= Cardinality(Column(Threads, nm, ForgetRefs))
    BY <1>0, <1>1, ColumnFewer DEF FewerRefs
  <2> QED
    BY <2>1, <2>2 DEF ForgetSum
<1> QED
  BY <1>2, <1>3, <1>4

(* So no more are kept. *)
LEMMA KeptFewer ==
    ASSUME Shape, Shape', FewerRefs
    PROVE  /\ Cardinality(Kept)' <= Cardinality(Kept)
           /\ Cardinality(Kept) \in Nat /\ Cardinality(Kept)' \in Nat
<1>1. KernelSum' <= KernelSum /\ AnswerSum' <= AnswerSum /\ ForgetSum' <= ForgetSum
  BY SumsFewer
<1>2. /\ Cardinality(Kept) = KernelSum + AnswerSum + ForgetSum
      /\ KernelSum \in Nat /\ AnswerSum \in Nat /\ ForgetSum \in Nat
  BY KeptIsSum
<1>3. /\ Cardinality(Kept)' = KernelSum' + AnswerSum' + ForgetSum'
      /\ KernelSum' \in Nat /\ AnswerSum' \in Nat /\ ForgetSum' \in Nat
  BY KeptIsSumNext
<1>4. PICK a, b, c, d, e, f \in Nat :
        /\ a = KernelSum /\ b = AnswerSum /\ c = ForgetSum
        /\ d = KernelSum' /\ e = AnswerSum' /\ f = ForgetSum'
  BY <1>2, <1>3, Zenon
<1>5. d <= a /\ e <= b /\ f <= c
  BY <1>1, <1>4, Zenon
<1>6. d + e + f <= a + b + c /\ a + b + c \in Nat /\ d + e + f \in Nat
  BY <1>5
<1> QED
  BY <1>2, <1>3, <1>4, <1>6, Zenon

(* Operations are given up, and no process ends. *)
LEMMA QuietDown ==
    ASSUME OwnInv, OwnInv', RefInv,
           \A n \in Nodes : node'[n] = "dead" <=> node[n] = "dead",
           \A u \in Threads : op'[u] = op[u] \/ (op[u].resp.tag # "stolen" /\ op'[u] = Idle(u)),
           UNCHANGED <<own, body, handles, linked, kref, fhAt, dhAt, made, panicked>>,
           faults' \in Nat, faults' # 0,
           \A i \in Inodes, n \in Nodes, z \in Nodes : HasHandle(i, n, z)' => HasHandle(i, n, z)
    PROVE  RefInv'
<1>0. Shape /\ Shape' /\ \A u \in Threads : NodeOf[u] \in Nodes /\ op[u].at \in Nodes
  BY NodesFacts, FrameType DEF OwnInv, Shape
<1>1. (\A i \in Inodes, n \in Nodes : Keeps(i, n)' <=> Keeps(i, n)) /\ \A n \in Nodes : Located(n)' <=> Located(n)
  BY DEF Keeps, Located
<1>2. \A u \in Threads : op'[u] = op[u] \/ ( /\ op[u].resp.tag # "stolen" /\ op'[u].resp.tag = "none" /\ ~op'[u].nested
                                             /\ op'[u].pc = "idle" /\ Sane(op'[u]))
  BY IdleType, IdleSane, NoAnswerType
<1>3. More' /\ ~panicked'
  BY DEF RefInv, More
<1>4. Sanes'
  BY <1>2 DEF RefInv, Sanes
<1>5. \A u \in Threads : Active(u)' => op'[u] = op[u] /\ Active(u)
  BY <1>2 DEF Active
<1>6. Solo'
  BY <1>5 DEF RefInv, Solo
<1>7. \A u \in Threads : Asked(u)'
  BY <1>0, <1>1, <1>5 DEF RefInv, Kernels, Asked
<1>8. Kernels'
  BY <1>1, <1>7 DEF RefInv, Kernels
<1>9. ASSUME NEW i \in Inodes
      PROVE  Holders(i)' = Holders(i) /\ Carriers(i)' = Carriers(i) /\ \A u \in Carriers(i) : op'[u] = op[u]
  <2>1. Holders(i)' = Holders(i)
    BY DEF Holders
  <2>2. \A u \in Threads : op[u].resp.tag = "stolen" \/ op'[u].resp.tag = "stolen" => op'[u] = op[u]
    BY <1>2
  <2> QED
    BY <1>0, <2>1, <2>2 DEF Carriers
<1>10. Alone' /\ Placed'
  <2>1. \A u \in Threads : op'[u].nested =>
               op[u].nested /\ op'[u].at = op[u].at /\ linked'[op[u].at] /\ node'[op[u].at] # "dead"
    BY <1>0, <1>2 DEF RefInv, Placed
  <2>2. \A i \in Inodes : Carriers(i)' \subseteq Carriers(i)
    BY <1>9
  <2> QED
    BY <1>1, <2>1, <2>2, QuietLinks DEF RefInv
<1>11. Cardinality(Kept)' <= Cardinality(Kept) /\ Cardinality(Kept) \in Nat /\ Cardinality(Kept)' \in Nat
  <2>0. \A n \in Nodes : kref[n] \in Nat
    BY <1>0 DEF Shape
  <2>1. \A n \in Nodes : KernelRefs'[n] <= KernelRefs[n]
    BY <2>0 DEF KernelRefs
  <2>2. \A u \in Threads : AnswerRefs[u] \in Nat /\ ForgetRefs[u] \in Nat
    BY <1>0, RefsTypes
  <2>3. ASSUME NEW u \in Threads PROVE AnswerRefs'[u] <= AnswerRefs[u] /\ ForgetRefs'[u] <= ForgetRefs[u]
    <3>1. CASE op'[u] = op[u]
      <4>1. AnswerRefs'[u] = AnswerRefs[u] /\ ForgetRefs'[u] = ForgetRefs[u]
        BY <1>0, <3>1 DEF AnswerRefs, ForgetRefs, Looked
      <4> QED
        BY <4>1, <2>2
    <3>2. CASE op'[u].pc = "idle"
      <4>1. AnswerRefs'[u] = 0 /\ ForgetRefs'[u] = 0
        BY <3>2 DEF AnswerRefs, ForgetRefs, Looked
      <4> QED
        BY <4>1, <2>2
    <3> QED
      BY <3>1, <3>2, <1>2
  <2> QED
    BY <1>0, <2>1, <2>3, KeptFewer DEF FewerRefs
<1>12. Named' <=> Named
  BY <1>9, NodesFacts DEF Named
<1>13. \A r \in Nat : Counts(r)' => Counts(r)
  BY <1>9, NodesFacts DEF Counts
<1>14. Counted' /\ Copied' /\ Unborn'
  BY <1>1, <1>11, <1>12, <1>13, QuietRefs DEF RefInv
<1>15. Handled'
  <2>1. IsFiniteSet(Nodes) /\ handles \in [Inodes -> [Nodes -> Int]]
    BY NodesAssumption DEF RefInv, More
  <2> QED
    BY <1>1, <2>1, QuietUsers DEF RefInv
<1> QED
  BY <1>3, <1>4, <1>6, <1>8, <1>10, <1>14, <1>15 DEF RefInv

(* A thread gives up, and its node unmounts. *)
LEMMA DropMoves ==
    ASSUME OwnInv, OwnInv', RefInv, NEW t \in Threads, ~op[t].nested, op[t].pc # "idle", op[t].resp.tag # "stolen",
           op' = [op EXCEPT ![t] = Idle(t)],
           node' = [node EXCEPT ![op[t].at] = IF @ = "up" THEN "unmounted" ELSE @],
           faults' \in Nat, faults' # 0,
           UNCHANGED <<own, body, handles, linked, kref, fhAt, dhAt, made, panicked>>
    PROVE  RefInv'
<1> DEFINE c == NodeOf[t]
<1>1. c \in Nodes /\ op[t].at = c /\ op \in [Threads -> FrameRec]
      /\ node \in [Nodes -> {"up", "unmounted", "joined", "dead"}]
  BY NodesFacts DEF OwnInv, Shape, Forms, Form
<1>2. op'[t] = Idle(t) /\ \A u \in Threads : u # t => op'[u] = op[u]
  BY <1>1
<1>3. node'[c] # "up" /\ \A n \in Nodes : (n # c => node'[n] = node[n]) /\ (node'[n] = "dead" <=> node[n] = "dead")
  BY <1>1
<1>4. ASSUME NEW i \in Inodes, NEW n \in Nodes, NEW z \in Nodes, HasHandle(i, n, z)' PROVE HasHandle(i, n, z)
  <2>0. Idle(t).pc = "idle" /\ Idle(t).kind = "lookup" /\ "lookup" \notin Opens(i)
    BY IdleType DEF Opens
  <2>1. HandleAt(i, n)' = HandleAt(i, n)
    BY DEF HandleAt
  <2>2. CASE n # c
    <3>1. (Closing(i, n)' <=> Closing(i, n)) /\ (Closed(i, n)' <=> Closed(i, n)) /\ (Opened(i, n, z)' => Opened(i, n, z))
      BY <2>0, <2>2, <1>2 DEF Closing, Closed, Opened, Active
    <3> QED
      BY <2>1, <2>2, <3>1, <1>3, <1>4 DEF HasHandle
  <2>3. CASE n = c
    <3>1. HandleAt(i, n) = z /\ Closing(i, n)' /\ ~Closed(i, n)'
      BY <2>1, <2>3, <1>3, <1>4 DEF HasHandle
    <3>2. PICK u \in Threads : NodeOf[u] = n /\ Active(u)' /\ op'[u].kind = Closes(i) /\ op'[u].resp.tag # "done"
      BY <3>1 DEF Closing
    <3>3. u # t /\ op'[u] = op[u] /\ Active(u) /\ Active(t)
      BY <3>2, <2>0, <1>2 DEF Active
    <3>4. Closing(i, n)
      BY <3>2, <3>3 DEF Closing
    <3>5. Closes(i) \in Exclusive
      BY DEF Closes, Exclusive
    <3>6. op[t].kind # Closes(i)
      BY <3>2, <3>3, <3>5, <2>3 DEF RefInv, Solo
    <3>7. Closed(i, n) => Closed(i, n)'
      BY <3>6, <1>2 DEF Closed, Active
    <3> QED
      BY <3>1, <3>4, <3>7 DEF HasHandle
  <2> QED
    BY <2>2, <2>3
<1>5. \A u \in Threads : op'[u] = op[u] \/ (op[u].resp.tag # "stolen" /\ op'[u] = Idle(u))
  BY <1>2
<1> QED
  BY <1>3, <1>4, <1>5, QuietDown

(* A node that was unmounted has the others unmount. *)
LEMMA JoinMoves ==
    ASSUME OwnInv, OwnInv', RefInv, NEW n \in Nodes, Join(n)
    PROVE  RefInv'
<1>1. /\ node[n] = "unmounted" /\ UNCHANGED <<own, body, handles, linked, kref, fhAt, dhAt, op, made, panicked, faults>>
      /\ node \in [Nodes -> {"up", "unmounted", "joined", "dead"}]
  BY DEF Join, OwnInv, Shape
<1>2. \A m \in Nodes : node'[m] # "up" /\ (node'[m] = "dead" <=> node[m] = "dead")
  BY <1>1 DEF Join
<1>3. faults' \in Nat /\ faults' # 0
  BY <1>1 DEF RefInv, More, Kernels
<1>4. ASSUME NEW i \in Inodes, NEW m \in Nodes, NEW z \in Nodes, HasHandle(i, m, z)' PROVE HasHandle(i, m, z)
  BY <1>1, <1>2, <1>4 DEF HasHandle, HandleAt, Closing, Closed, Active
<1> QED
  BY <1>1, <1>2, <1>3, <1>4, QuietDown

(* The frames that are left when the process of node x ends. *)
LEMMA CutFrames ==
    ASSUME OwnInv, RefInv, NEW x \in Nodes, op' = Cut(x), NEW u \in Threads
    PROVE  \/ op'[u] = op[u] /\ (op[u].pc = "idle" \/ op[u].at # x)
           \/ NodeOf[u] = x /\ op[u].pc # "idle" /\ op'[u] = Idle(u)
           \/ /\ NodeOf[u] # x /\ op[u].nested /\ op[u].pc # "idle" /\ op[u].kind \in {"lookup", "unlink"}
              /\ op'[u].kind = op[u].kind /\ op'[u].pc = "reply" /\ ~op'[u].nested /\ op'[u].n = op[u].n
              /\ op'[u].resp.tag = "error"
<1> DEFINE e == [NoAnswer EXCEPT !.tag = "error"]
           g == [op[u] EXCEPT !.pc = "reply", !.nested = FALSE, !.at = NodeOf[u], !.to = x, !.resp = e]
<1>1. op'[u] = (IF ~Active(u) \/ op[u].at # x THEN op[u] ELSE IF NodeOf[u] = x THEN Idle(u) ELSE g)
  BY DEF Cut
<1>2. op[u] \in FrameRec /\ Form(u, op[u])
  BY DEF OwnInv, Shape, Forms
<1>3. e.tag = "error"
  BY NoAnswerType DEF AnswerRec
<1> HIDE DEF e
<1>4. g.kind = op[u].kind /\ g.pc = "reply" /\ ~g.nested /\ g.n = op[u].n /\ g.resp = e
  BY <1>2 DEF FrameRec
<1> HIDE DEF g
<1>5. op[u].at = x /\ NodeOf[u] # x => op[u].nested /\ op[u].kind \in {"lookup", "unlink"}
  BY <1>2 DEF Form
<1> QED
  BY <1>1, <1>3, <1>4, <1>5 DEF Active

(* The process of a node ends. *)
LEMMA CutMoves ==
    ASSUME OwnInv, OwnInv', RefInv, NEW x \in Nodes, op' = Cut(x), node' = [node EXCEPT ![x] = "dead"],
           faults' \in Nat, faults' # 0,
           UNCHANGED <<own, body, handles, linked, kref, fhAt, dhAt, made, panicked>>
    PROVE  RefInv'
<1>0. /\ Shape /\ Shape' /\ \A u \in Threads : NodeOf[u] \in Nodes /\ op[u].at \in Nodes /\ Sane(op[u]) /\ Form(u, op[u])
      /\ node \in [Nodes -> {"up", "unmounted", "joined", "dead"}]
  BY NodesFacts, FrameType DEF OwnInv, Shape, RefInv, Sanes, Forms
<1>1. node'[x] = "dead" /\ \A n \in Nodes : n # x => node'[n] = node[n]
  BY <1>0
<1>2. \A u \in Threads :
           \/ op'[u] = op[u] /\ (op[u].pc = "idle" \/ op[u].at # x)
           \/ NodeOf[u] = x /\ op[u].pc # "idle" /\ op'[u] = Idle(u)
           \/ /\ NodeOf[u] # x /\ op[u].nested /\ op[u].pc # "idle" /\ op[u].kind \in {"lookup", "unlink"}
              /\ op'[u].kind = op[u].kind /\ op'[u].pc = "reply" /\ ~op'[u].nested /\ op'[u].n = op[u].n
              /\ op'[u].resp.tag = "error"
  BY CutFrames
<1>3. \A u \in Threads : /\ Idle(u).pc = "idle" /\ Idle(u).kind = "lookup" /\ ~Idle(u).nested
                         /\ Idle(u).resp.tag = "none" /\ Sane(Idle(u))
  BY IdleType, IdleSane, NoAnswerType
<1>4. (\A i \in Inodes, n \in Nodes : Keeps(i, n)' <=> Keeps(i, n)) /\ \A n \in Nodes : Located(n)' <=> Located(n)
  BY DEF Keeps, Located
<1>5. More' /\ ~panicked'
  BY DEF RefInv, More
<1>6. Sanes'
  <2> SUFFICES ASSUME NEW u \in Threads PROVE Sane(op'[u])
    BY DEF Sanes
  <2>1. CASE op'[u] = op[u] \/ op'[u] = Idle(u)
    BY <2>1, <1>0, <1>3
  <2>2. CASE /\ op[u].kind \in {"lookup", "unlink"} /\ op[u].pc # "idle"
             /\ op'[u].kind = op[u].kind /\ op'[u].pc = "reply" /\ ~op'[u].nested /\ op'[u].n = op[u].n
             /\ op'[u].resp.tag = "error"
    BY <2>2, <1>0 DEF Sane
  <2> QED
    BY <2>1, <2>2, <1>2
<1>7. \A u \in Threads : Active(u)' => Active(u) /\ op'[u].kind = op[u].kind
  BY <1>2, <1>3 DEF Active
<1>8. Solo'
  BY <1>7 DEF RefInv, Solo
<1>9. \A u \in Threads : Active(u)' /\ node'[NodeOf[u]] = "dead" => op[u].kind \in {"lookup", "unlink"}
  <2> TAKE u \in Threads
  <2>1. CASE NodeOf[u] = x
    BY <2>1, <1>0, <1>2, <1>3 DEF Active, Form
  <2>2. CASE NodeOf[u] # x
    BY <2>2, <1>0, <1>1, <1>7 DEF RefInv, Kernels, Asked
  <2> QED
    BY <2>1, <2>2
<1>10. Kernels'
  <2>1. \A u \in Threads : Asked(u)'
    BY <1>0, <1>4, <1>7, <1>9 DEF RefInv, Kernels, Asked
  <2> QED
    BY <2>1, <1>4 DEF RefInv, Kernels
<1>11. ASSUME NEW i \in Inodes
       PROVE  Holders(i)' \subseteq Holders(i) /\ Carriers(i)' \subseteq Carriers(i) /\ \A u \in Carriers(i)' : op'[u] = op[u]
  <2>1. Holders(i)' \subseteq Holders(i)
    BY <1>1 DEF Holders
  <2>2. \A u \in Threads : op'[u].resp.tag = "stolen" => op'[u] = op[u]
    BY <1>2, <1>3
  <2> QED
    BY <2>1, <2>2, <1>0, <1>1 DEF Carriers
<1>12. Alone' /\ Placed'
  <2>1. \A u \in Threads : op'[u].nested =>
               op[u].nested /\ op'[u].at = op[u].at /\ linked'[op[u].at] /\ node'[op[u].at] # "dead"
    <3> SUFFICES ASSUME NEW u \in Threads, op'[u].nested
                 PROVE  op[u].nested /\ op'[u].at = op[u].at /\ linked'[op[u].at] /\ node'[op[u].at] # "dead"
      OBVIOUS
    <3>1. op'[u] = op[u] /\ op[u].at # x
      BY <1>0, <1>2, <1>3 DEF Sane
    <3> QED
      BY <3>1, <1>0, <1>1 DEF RefInv, Placed
  <2>2. \A i \in Inodes : Carriers(i)' \subseteq Carriers(i)
    BY <1>11
  <2> QED
    BY <1>4, <2>1, <2>2, QuietLinks DEF RefInv
<1>13. Cardinality(Kept)' <= Cardinality(Kept) /\ Cardinality(Kept) \in Nat /\ Cardinality(Kept)' \in Nat
  <2>0. \A n \in Nodes : kref[n] \in Nat
    BY <1>0 DEF Shape
  <2>1. \A n \in Nodes : KernelRefs'[n] <= KernelRefs[n]
    BY <2>0, <1>1 DEF KernelRefs
  <2>2. \A u \in Threads : AnswerRefs[u] \in Nat /\ ForgetRefs[u] \in Nat
    BY <1>0, RefsTypes
  <2>3. ASSUME NEW u \in Threads PROVE AnswerRefs'[u] <= AnswerRefs[u] /\ ForgetRefs'[u] <= ForgetRefs[u]
    <3>1. CASE op'[u] = op[u]
      <4>1. AnswerRefs'[u] = AnswerRefs[u] \/ AnswerRefs'[u] = 0
        BY <1>0, <1>1, <3>1 DEF AnswerRefs, Looked
      <4>2. ForgetRefs'[u] = ForgetRefs[u] \/ ForgetRefs'[u] = 0
        BY <1>0, <1>1, <3>1 DEF ForgetRefs
      <4> QED
        BY <4>1, <4>2, <2>2
    <3>2. CASE op'[u] = Idle(u)
      <4>1. AnswerRefs'[u] = 0 /\ ForgetRefs'[u] = 0
        BY <3>2, <1>3 DEF AnswerRefs, ForgetRefs, Looked
      <4> QED
        BY <4>1, <2>2
    <3>3. CASE op'[u].resp.tag = "error" /\ op'[u].n = op[u].n /\ op[u].kind \in {"lookup", "unlink"}
      <4>1. op[u].n = 0
        BY <3>3, <1>0 DEF Sane
      <4>2. AnswerRefs'[u] = 0 /\ ForgetRefs'[u] = 0
        BY <3>3, <4>1 DEF AnswerRefs, ForgetRefs, Looked
      <4> QED
        BY <4>2, <2>2
    <3> QED
      BY <3>1, <3>2, <3>3, <1>2
  <2> QED
    BY <1>0, <2>1, <2>3, KeptFewer DEF FewerRefs
<1>14. Named' => Named
  BY <1>11, NodesFacts DEF Named
<1>15. \A r \in Nat : Counts(r)' => Counts(r)
  BY <1>11, NodesFacts DEF Counts
<1>16. Counted' /\ Copied' /\ Unborn'
  BY <1>4, <1>13, <1>14, <1>15, QuietRefs DEF RefInv
<1>17. ASSUME NEW i \in Inodes, NEW n \in Nodes, NEW z \in Nodes, HasHandle(i, n, z)' PROVE HasHandle(i, n, z)
  <2>0. /\ Closes(i) \notin {"lookup", "unlink"} /\ "lookup" \notin Opens(i) /\ "unlink" \notin Opens(i)
        /\ HandleAt(i, n)' = HandleAt(i, n)
    BY DEF Closes, Opens, HandleAt
  <2>1. CASE n = x
    <3>1. ~Closing(i, n)'
      BY <2>0, <2>1, <1>1, <1>7, <1>9 DEF Closing
    <3> QED
      BY <2>1, <3>1, <1>1, <1>17 DEF HasHandle
  <2>2. CASE n # x
    <3>1. \A u \in Threads : NodeOf[u] = n => op'[u] = op[u] \/
            (op'[u].kind \in {"lookup", "unlink"} /\ op[u].kind \in {"lookup", "unlink"})
      BY <2>2, <1>2
    <3>2. (Closing(i, n)' <=> Closing(i, n)) /\ (Closed(i, n)' <=> Closed(i, n)) /\ (Opened(i, n, z)' <=> Opened(i, n, z))
      BY <2>0, <3>1 DEF Closing, Closed, Opened, Active
    <3> QED
      BY <2>0, <2>2, <3>2, <1>1, <1>17 DEF HasHandle
  <2> QED
    BY <2>1, <2>2
<1>18. Handled'
  <2>1. IsFiniteSet(Nodes) /\ handles \in [Inodes -> [Nodes -> Int]]
    BY NodesAssumption DEF RefInv, More
  <2> QED
    BY <1>4, <1>17, <2>1, QuietUsers DEF RefInv
<1> QED
  BY <1>5, <1>6, <1>8, <1>10, <1>12, <1>16, <1>18 DEF RefInv

(* A request or an answer is lost. *)
LEMMA FailMoves ==
    ASSUME OwnInv, OwnInv', RefInv, NEW t \in Threads, Fail(t)
    PROVE  RefInv'
<1>0. /\ UNCHANGED <<own, body, handles, linked, kref, fhAt, dhAt, made, panicked>>
      /\ op[t].pc \in {"steal", "stolen", "call", "reply"} /\ op[t].resp.tag # "error" /\ node[op[t].at] # "dead"
  BY DEF Fail
<1>1. op[t].at \in Nodes /\ faults \in Nat /\ FrameLocated(op[t]) /\ Form(t, op[t])
  BY FrameType DEF OwnInv, Shape, RefInv, More, Forms, Names
<1>2. faults' \in Nat /\ faults' # 0
  <2>1. CASE op[t].pc \in {"steal", "call"} /\ node[op[t].to] = "dead" /\ UNCHANGED faults
    <3>1. op[t].to \in Nodes
      BY <2>1, <1>1 DEF FrameLocated
    <3> QED
      BY <2>1, <3>1, <1>1 DEF RefInv, Kernels
  <2>2. CASE faults' = faults + 1
    BY <2>2, <1>1
  <2> QED
    BY <2>1, <2>2 DEF Fail
<1>3. CASE op' = Cut(op[t].at) /\ node' = [node EXCEPT ![op[t].at] = "dead"]
  BY <1>0, <1>1, <1>2, <1>3, CutMoves
<1>4. CASE /\ ~(op[t].nested \/ op[t].pc \in {"steal", "stolen"})
           /\ op' = [op EXCEPT ![t] = Idle(t)]
           /\ node' = [node EXCEPT ![op[t].at] = IF @ = "up" THEN "unmounted" ELSE @]
  <2>1. op[t].resp.tag # "stolen" /\ op[t].pc # "idle" /\ ~op[t].nested
    BY <1>0, <1>1, <1>4 DEF Form
  <2> QED
    BY <1>0, <1>2, <1>4, <2>1, DropMoves
<1> QED
  BY <1>3, <1>4 DEF Fail

(* A node leaves. *)
LEMMA ExitMoves ==
    ASSUME OwnInv, OwnInv', RefInv, NEW n \in Nodes, Exit(n)
    PROVE  RefInv'
<1>1. node[n] = "joined" /\ UNCHANGED <<own, body, handles, linked, kref, fhAt, dhAt, made, panicked, faults>>
      /\ op' = Cut(n) /\ node' = [node EXCEPT ![n] = "dead"]
  BY DEF Exit
<1>2. faults' \in Nat /\ faults' # 0
  BY <1>1 DEF RefInv, More, Kernels
<1> QED
  BY <1>1, <1>2, CutMoves

-------------------------------------------------------------------------------
(* The kernels and the flusher *)

(* Nothing that is kept changes. *)
LEMMA StillKept ==
    ASSUME Shape, Shape', UNCHANGED <<kref, node, op>>
    PROVE  Cardinality(Kept)' = Cardinality(Kept) /\ Cardinality(Kept) \in Nat /\ Cardinality(Kept)' \in Nat
<1>1. KernelRefs' = KernelRefs /\ AnswerRefs' = AnswerRefs /\ ForgetRefs' = ForgetRefs
  BY DEF KernelRefs, AnswerRefs, ForgetRefs, Looked
<1>2. KernelSum' = KernelSum /\ AnswerSum' = AnswerSum /\ ForgetSum' = ForgetSum
  BY <1>1, Zenon DEF KernelSum, AnswerSum, ForgetSum
<1>3. /\ Cardinality(Kept) = KernelSum + AnswerSum + ForgetSum
      /\ KernelSum \in Nat /\ AnswerSum \in Nat /\ ForgetSum \in Nat
  BY KeptIsSum
<1>4. Cardinality(Kept)' = KernelSum' + AnswerSum' + ForgetSum'
  BY KeptIsSumNext
<1> QED
  BY <1>2, <1>3, <1>4

(* Only copies of the file change: the count stays, and while there is a reference so do the *)
(* copies.                                                                                    *)
LEMMA BodyMoves ==
    ASSUME OwnInv, OwnInv', RefInv,
           UNCHANGED <<own, handles, linked, kref, fhAt, dhAt, op, node, made, panicked, faults>>,
           \A n \in Nodes : /\ body'[n].refcnt = body[n].refcnt
                            /\ body'[n].state # "CACHED" => body[n].state # "CACHED"
                            /\ Need > 0 /\ body[n].known => body'[n].known
    PROVE  RefInv'
<1>0. Shape /\ Shape'
  BY DEF OwnInv
<1>1. (\A i \in Inodes, n \in Nodes : Keeps(i, n)' <=> Keeps(i, n)) /\ \A n \in Nodes : Located(n)' <=> Located(n)
  BY DEF Keeps, Located
<1>2. More' /\ Sanes' /\ Solo' /\ ~panicked'
  BY DEF RefInv, More, Sanes, Solo, Active
<1>3. Kernels'
  BY <1>1, NodesFacts DEF RefInv, Kernels, Asked, Active
<1>4. \A i \in Inodes : Carriers(i)' \subseteq Carriers(i)
  BY DEF Carriers
<1>5. Alone' /\ Placed'
  <2>1. \A u \in Threads : op'[u].nested =>
               op[u].nested /\ op'[u].at = op[u].at /\ linked'[op[u].at] /\ node'[op[u].at] # "dead"
    BY DEF RefInv, Placed
  <2> QED
    BY <1>1, <1>4, <2>1, QuietLinks DEF RefInv
<1>6. (Named' <=> Named) /\ \A r \in Nat : Counts(r)' <=> Counts(r)
  BY <1>1, StillCounted
<1>7. Counted' /\ Copied' /\ Unborn'
  <2>1. Cardinality(Kept)' = Cardinality(Kept) /\ Cardinality(Kept) \in Nat /\ Cardinality(Kept)' \in Nat
    BY <1>0, StillKept
  <2> QED
    BY <1>1, <1>6, <2>1, QuietRefs DEF RefInv
<1>8. Handled'
  <2>1. IsFiniteSet(Nodes) /\ handles \in [Inodes -> [Nodes -> Int]]
    BY NodesAssumption DEF RefInv, More
  <2>2. \A i \in Inodes, n \in Nodes, z \in Nodes : HasHandle(i, n, z)' => HasHandle(i, n, z)
    BY DEF HasHandle, HandleAt, Closing, Closed, Opened, Active
  <2> QED
    BY <1>1, <2>1, <2>2, QuietUsers DEF RefInv
<1> QED
  BY <1>2, <1>3, <1>5, <1>7, <1>8 DEF RefInv

(* The flusher lets go of a file that is deleted, when there is no reference to it. *)
LEMMA FlushMoves ==
    ASSUME OwnInv, OwnInv', RefInv, NEW n \in Nodes, Flush(n)
    PROVE  RefInv'
<1>0. /\ node[n] # "dead" /\ UNCHANGED <<own, handles, linked, kref, fhAt, dhAt, op, node, made, panicked, faults>>
      /\ body \in [Nodes -> BodyRec] /\ body[n] \in BodyRec
  BY DEF Flush, OwnInv, Shape
<1>1. CASE body[n].state \in {"CREATED", "MODIFIED"} /\ body' = [body EXCEPT ![n].state = "CACHED"]
  <2>1. \A m \in Nodes : /\ body'[m].refcnt = body[m].refcnt
                         /\ body'[m].state # "CACHED" => body[m].state # "CACHED"
                         /\ Need > 0 /\ body[m].known => body'[m].known
    BY <1>0, <1>1 DEF BodyRec
  <2> QED
    BY <1>0, <2>1, BodyMoves
<1>2. CASE body[n].state = "DELETED" /\ body' = [body EXCEPT ![n] = DeRef([@ EXCEPT !.state = "DEAD"], 0)]
  <2> DEFINE b == [body[n] EXCEPT !.state = "DEAD"]
  <2>1. b \in BodyRec /\ b.known = body[n].known /\ b.refcnt = body[n].refcnt /\ b.state = "DEAD"
    BY <1>0 DEF BodyRec, States
  <2> HIDE DEF b
  <2>k. PICK k \in Nat : k = 0
    OBVIOUS
  <2>2. body' = [body EXCEPT ![n] = DeRef(b, k)]
    BY <1>2, <2>k DEF b
  <2>3. b.refcnt \in Nat /\ k <= b.refcnt
    BY <2>1, <2>k DEF BodyRec
  <2>4. /\ DeRef(b, k).refcnt = b.refcnt - k /\ DeRef(b, k).state = b.state
        /\ b.refcnt # k => DeRef(b, k).known = b.known
    BY <2>1, <2>3, DeRefBody
  <2>5. Need > 0 => b.refcnt # k
    <3>1. n \in Holders("file")
      BY <1>0, <1>2 DEF RefInv, Placed, Holders, Keeps
    <3>2. Counts(body[n].refcnt)
      BY <3>1 DEF Counts
    <3>3. Need <= body[n].refcnt
      BY <3>2, <2>1, <2>3 DEF RefInv, Counted
    <3>4. Cardinality(Kept) \in Nat
      BY KeptIsSum DEF OwnInv
    <3>5. Need \in Nat
      BY <3>4 DEF Need
    <3> QED
      BY <3>3, <3>5, <2>1, <2>k
  <2>6. /\ body'[n] = DeRef(b, k) /\ \A m \in Nodes : m # n => body'[m] = body[m]
    BY <1>0, <2>2
  <2>7. b.refcnt - k = body[n].refcnt
    BY <2>1, <2>3, <2>k
  <2>8. \A m \in Nodes : /\ body'[m].refcnt = body[m].refcnt
                         /\ body'[m].state # "CACHED" => body[m].state # "CACHED"
                         /\ Need > 0 /\ body[m].known => body'[m].known
    BY <1>2, <2>1, <2>4, <2>5, <2>6, <2>7
  <2> QED
    BY <1>0, <2>8, BodyMoves
<1> QED
  BY <1>1, <1>2 DEF Flush

(* Steps that change nothing. *)
LEMMA StutterMoves ==
    ASSUME OwnInv, OwnInv', RefInv, UNCHANGED vars
    PROVE  RefInv'
<1>1. UNCHANGED <<own, handles, linked, kref, fhAt, dhAt, op, node, made, panicked, faults, body>>
  BY DEF vars
<1> QED
  BY <1>1, BodyMoves

(* The kernel asks for something. *)
LEMMA BeginMoves ==
    ASSUME OwnInv, OwnInv', RefInv, NEW t \in Threads, NEW k \in Kinds, Begin(t, k)
    PROVE  RefInv'
<1> DEFINE c == NodeOf[t]
           m == IF k = "forget" THEN kref[c] ELSE 0
           g == [Idle(t) EXCEPT !.kind = k, !.pc = "route", !.n = m]
<1>1. /\ op[t].pc = "idle" /\ Wants(c, k) /\ op' = [op EXCEPT ![t] = g] /\ node[c] = "up"
      /\ kref' = IF k = "forget" THEN [kref EXCEPT ![c] = 0] ELSE kref
      /\ UNCHANGED <<own, body, handles, linked, fhAt, dhAt, node, made, panicked, faults>>
      /\ \A u \in Threads : NodeOf[u] = c /\ Active(u) => op[u].kind \notin Exclusive
  BY DEF Begin, Active, Uses, Exclusive
<1>2. /\ op \in [Threads -> FrameRec] /\ kref \in [Nodes -> Nat] /\ c \in Nodes /\ Shape /\ Shape'
      /\ op[t].resp.tag = "none" /\ Sane(op[t]) /\ kref[c] \in Nat
      /\ \A u \in Threads : NodeOf[u] \in Nodes
  BY <1>1, NodesFacts, NoResult DEF OwnInv, Shape, RefInv, Sanes
<1>3. k = "forget" => kref[c] > 0 /\ fhAt[c] = 0 /\ \A u \in Threads : NodeOf[u] = c => ~Active(u)
  BY <1>1 DEF Wants, ByHandle
<1>4. m \in Nat /\ (m # 0 <=> k = "forget") /\ (k = "forget" => m = kref[c])
  BY <1>2, <1>3
<1> HIDE DEF m
<1>5. g.kind = k /\ g.pc = "route" /\ ~g.nested /\ g.at = c /\ g.resp.tag = "none" /\ g.n = m
  BY <1>4, IdleType, NoAnswerType DEF FrameRec
<1> HIDE DEF g
<1>6. op'[t] = g /\ \A u \in Threads : u # t => op'[u] = op[u]
  BY <1>1, <1>2
<1>7. Sanes'
  <2>1. Sane(g)
    BY <1>4, <1>5 DEF Sane
  <2> QED
    BY <2>1, <1>6 DEF RefInv, Sanes
<1>8. More' /\ ~panicked'
  BY <1>1 DEF RefInv, More
<1>9. Solo'
  <2> SUFFICES ASSUME NEW u \in Threads, NEW v \in Threads, u # v, NodeOf[u] = NodeOf[v], Active(u)', Active(v)',
                      op'[u].kind \in Exclusive
               PROVE  op'[v].kind \notin Exclusive
    BY DEF Solo
  <2>1. CASE u # t /\ v # t
    BY <2>1, <1>6 DEF RefInv, Solo, Active
  <2>2. CASE u = t
    BY <2>2, <1>1, <1>6 DEF Active
  <2>3. CASE v = t
    BY <2>3, <1>1, <1>6 DEF Active
  <2> QED
    BY <2>1, <2>2, <2>3
<1>10. \A n \in Nodes : kref'[n] = (IF k = "forget" /\ n = c THEN 0 ELSE kref[n])
  BY <1>1, <1>2
<1>11. (\A i \in Inodes, n \in Nodes : Keeps(i, n)' <=> Keeps(i, n)) /\ \A n \in Nodes : Located(n)' <=> Located(n)
  BY <1>1 DEF Keeps, Located
<1>12. Kernels'
  <2>1. Asked(t)'
    <3>1. k \in ById \ {"forget"} => kref'[c] > 0
      BY <1>1, <1>2, <1>10 DEF Wants, ById, ByHandle
    <3>2. k = "forget" => Located(c)'
      BY <1>2, <1>3, <1>11 DEF RefInv, Kernels
    <3>3. k = "release" => fhAt'[c] # 0
      BY <1>1 DEF Wants, ByHandle
    <3>4. k = "closedir" => dhAt'[c] # 0
      BY <1>1 DEF Wants, ByHandle
    <3> QED
      BY <3>1, <3>2, <3>3, <3>4, <1>1, <1>5, <1>6 DEF Asked
  <2>2. ASSUME NEW u \in Threads, u # t PROVE Asked(u)'
    <3> SUFFICES ASSUME Active(u)' PROVE Asked(u)'
      BY DEF Asked
    <3>1. Active(u) /\ op'[u] = op[u] /\ Asked(u) /\ NodeOf[u] \in Nodes
      BY <2>2, <1>2, <1>6 DEF Active, RefInv, Kernels
    <3>2. kref'[NodeOf[u]] = kref[NodeOf[u]]
      BY <3>1, <1>3, <1>10
    <3> QED
      BY <3>1, <3>2, <1>1, <1>11 DEF Asked
  <2>3. \A n \in Nodes : fhAt'[n] # 0 => kref'[n] > 0
    BY <1>1, <1>3, <1>10 DEF RefInv, Kernels
  <2>4. \A n \in Nodes : kref'[n] > 0 => Located(n)'
    BY <1>10, <1>11 DEF RefInv, Kernels
  <2>5. \A u \in Threads : op'[u].resp.tag = "error" => faults' # 0
    BY <1>1, <1>5, <1>6 DEF RefInv, Kernels
  <2> QED
    BY <2>1, <2>2, <2>3, <2>4, <2>5, <1>1 DEF RefInv, Kernels
<1>13. \A u \in Threads : op'[u] = op[u] \/ (op[u].resp.tag # "stolen" /\ op'[u].resp.tag # "stolen")
  BY <1>2, <1>5, <1>6
<1>14. \A i \in Inodes : Carriers(i)' \subseteq Carriers(i)
  BY <1>1, <1>11, <1>13, StillHeld
<1>15. Alone' /\ Placed'
  <2>1. \A u \in Threads : op'[u].nested =>
               op[u].nested /\ op'[u].at = op[u].at /\ linked'[op[u].at] /\ node'[op[u].at] # "dead"
    BY <1>1, <1>5, <1>6 DEF RefInv, Placed
  <2> QED
    BY <1>1, <1>11, <1>14, <2>1, QuietLinks DEF RefInv
<1>16. (Named' <=> Named) /\ \A r \in Nat : Counts(r)' <=> Counts(r)
  BY <1>1, <1>11, <1>13, StillCounted
<1>17. Cardinality(Kept)' = Cardinality(Kept) /\ Cardinality(Kept) \in Nat /\ Cardinality(Kept)' \in Nat
  <2>1. \A n \in Nodes : n # c => KernelRefs'[n] = KernelRefs[n]
    BY <1>1, <1>10 DEF KernelRefs
  <2>2. \A u \in Threads : u # t => AnswerRefs'[u] = AnswerRefs[u] /\ ForgetRefs'[u] = ForgetRefs[u]
    BY <1>1, <1>6 DEF AnswerRefs, ForgetRefs, Looked
  <2>3. AnswerRefs[t] = 0 /\ AnswerRefs'[t] = 0 /\ ForgetRefs[t] = 0
    BY <1>1, <1>5, <1>6 DEF AnswerRefs, ForgetRefs, Looked
  <2>4. ForgetRefs'[t] = m
    BY <1>1, <1>5, <1>6 DEF ForgetRefs
  <2>5. KernelRefs[c] = kref[c] /\ KernelRefs'[c] = (IF k = "forget" THEN 0 ELSE kref[c])
    BY <1>1, <1>2, <1>10 DEF KernelRefs
  <2>6. KernelRefs'[c] + ForgetRefs'[t] = KernelRefs[c] /\ KernelRefs'[c] \in Nat /\ ForgetRefs'[t] \in Nat
        /\ KernelRefs[c] \in Nat
    BY <2>4, <2>5, <1>2, <1>4
  <2>7. KernelSum' + AnswerSum' + ForgetSum' =
             KernelSum + AnswerSum + ForgetSum
               - KernelRefs[c] - AnswerRefs[t] - ForgetRefs[t]
               + KernelRefs'[c] + AnswerRefs'[t] + ForgetRefs'[t]
    BY <1>2, <2>1, <2>2, SumChange
  <2>8. /\ Cardinality(Kept) = KernelSum + AnswerSum + ForgetSum
        /\ KernelSum \in Nat /\ AnswerSum \in Nat /\ ForgetSum \in Nat
    BY <1>2, KeptIsSum
  <2>9. Cardinality(Kept)' = KernelSum' + AnswerSum' + ForgetSum'
    BY <1>2, KeptIsSumNext
  <2>10. KernelSum' + AnswerSum' + ForgetSum' = KernelSum + AnswerSum + ForgetSum
    BY <2>3, <2>6, <2>7, <2>8
  <2> QED
    BY <2>8, <2>9, <2>10
<1>18. Counted' /\ Copied' /\ Unborn'
  BY <1>1, <1>11, <1>16, <1>17, QuietRefs DEF RefInv
<1>19. Handled'
  <2>1. IsFiniteSet(Nodes) /\ handles \in [Inodes -> [Nodes -> Int]]
    BY NodesAssumption DEF RefInv, More
  <2>2. ASSUME NEW i \in Inodes, NEW n \in Nodes, NEW z \in Nodes, HasHandle(i, n, z)' PROVE HasHandle(i, n, z)
    <3>1. HandleAt(i, n)' = HandleAt(i, n) /\ node' = node
      BY <1>1 DEF HandleAt
    <3>2. Closed(i, n) => Closed(i, n)'
      BY <1>1, <1>6 DEF Closed, Active
    <3>3. Opened(i, n, z)' => Opened(i, n, z)
      BY <1>5, <1>6 DEF Opened
    <3>4. Closing(i, n)' => Closing(i, n) \/ node[n] = "up"
      BY <1>1, <1>6 DEF Closing, Active
    <3> QED
      BY <2>2, <3>1, <3>2, <3>3, <3>4 DEF HasHandle
  <2> QED
    BY <1>1, <1>11, <2>1, <2>2, QuietUsers DEF RefInv
<1> QED
  BY <1>7, <1>8, <1>9, <1>12, <1>15, <1>18, <1>19 DEF RefInv

-------------------------------------------------------------------------------
(* The references and handles in every step *)

(* The answers to requests. *)
LEMMA ApplyReplyMoves ==
    ASSUME OwnInv, OwnInv', RefInv, ~early', NEW t \in Threads, ApplyReply(t)
    PROVE  RefInv'
<1>1. op[t].pc = "reply" /\ node[op[t].at] # "dead" /\ UNCHANGED <<handles, linked, made, panicked, faults>>
  BY DEF ApplyReply
<1>2. Sane(op[t]) /\ faults \in Nat
  BY DEF RefInv, Sanes, More
<1>3. CASE /\ op[t].resp.tag = "other"
           /\ own' = [own EXCEPT ![Target(op[t])][op[t].at] = applyOwner(@, op[t].resp)]
           /\ Hears(own[Target(op[t])][op[t].at], op[t].resp, op[t].at)
           /\ op' = [op EXCEPT ![t] = [@ EXCEPT !.pc = "route", !.resp = NoAnswer]]
           /\ UNCHANGED <<body, kref, fhAt, dhAt, node>>
  <2>1. Redirect(t)
    BY <1>1, <1>3 DEF Redirect
  <2> QED
    BY <1>1, <1>3, <2>1, RedirectMoves
<1>4. CASE /\ op[t].resp.tag = "done" /\ op[t].nested
           /\ Answer(t, op[t].at, TRUE, own["file"][op[t].at]) /\ UNCHANGED <<own, body, node>>
  BY <1>1, <1>4, FoundMoves
<1>5. CASE /\ op[t].resp.tag \in {"done", "fail"} /\ ~op[t].nested
           /\ op' = [op EXCEPT ![t] = Idle(t)]
           /\ Kernel(t, op[t].to, op[t].resp.tag = "done")
           /\ IF op[t].resp.tag = "done" /\ op[t].kind \in {"lookup", "create"}
              THEN ensure(op[t].at, op[t].resp.child) ELSE UNCHANGED <<own, body>>
           /\ UNCHANGED node
  BY <1>1, <1>5, ReturnMoves
<1>6. CASE /\ op[t].resp.tag = "error" /\ op' = [op EXCEPT ![t] = Idle(t)]
           /\ node' = [node EXCEPT ![op[t].at] = IF @ = "up" THEN "unmounted" ELSE @]
           /\ UNCHANGED <<own, body, kref, fhAt, dhAt>>
  <2>1. ~op[t].nested /\ faults' \in Nat /\ faults' # 0
    BY <1>1, <1>2, <1>6 DEF Sane, RefInv, Kernels
  <2> QED
    BY <1>1, <1>6, <2>1, DropMoves
<1> QED
  BY <1>3, <1>4, <1>5, <1>6 DEF ApplyReply

(* A node is asked for an inode. *)
LEMMA TryStealMoves ==
    ASSUME OwnInv, OwnInv', RefInv, ~early', NEW t \in Threads, TryStealInodeOwnership(t)
    PROVE  RefInv'
<1>i. PICK i \in Inodes, y \in Nodes : i = Target(op[t]) /\ y = op[t].to
  BY FrameType DEF OwnInv, Shape, Names, FrameLocated, TryStealInodeOwnership
<1>1. /\ op[t].pc = "steal" /\ node[y] # "dead" /\ (i = "dir" => ~DirBusy(y))
      /\ UNCHANGED <<handles, kref, fhAt, dhAt, node, made, panicked, faults>>
  BY <1>i DEF TryStealInodeOwnership
<1>2. Shape /\ own[i][y] \in CopyRec
  BY CopyType DEF OwnInv
<1>3. ASSUME NEW r \in AnswerRec, r.tag \in {"other", "nil"}, UNCHANGED <<own, body, linked>>,
             op' = [op EXCEPT ![t] = [@ EXCEPT !.pc = "stolen", !.resp = r]]
      PROVE  RefInv'
  <2>1. PICK pc \in {"stolen", "reply"} : pc = "stolen"
    OBVIOUS
  <2>2. op' = [op EXCEPT ![t] = [op[t] EXCEPT !.pc = pc, !.resp = r]]
    BY <1>3, <2>1
  <2> QED
    BY <1>1, <1>3, <2>1, <2>2, AnsweredMoves
<1>4. CASE /\ op' = [op EXCEPT ![t] = [@ EXCEPT !.pc = "stolen", !.resp = Other(own[i][y])]]
           /\ UNCHANGED <<own, body, linked>>
  <2>1. Other(own[i][y]) \in AnswerRec /\ Other(own[i][y]).tag = "other"
    BY <1>2, OtherFacts
  <2> QED
    BY <1>3, <1>4, <2>1
<1>5. CASE /\ op' = [op EXCEPT ![t] = [@ EXCEPT !.pc = "stolen", !.resp = [NoAnswer EXCEPT !.tag = "nil"]]]
           /\ UNCHANGED <<own, body, linked>>
  <2> DEFINE r == [NoAnswer EXCEPT !.tag = "nil"]
  <2>1. r \in AnswerRec /\ r.tag = "nil"
    BY NoAnswerType DEF AnswerRec
  <2>2. op' = [op EXCEPT ![t] = [@ EXCEPT !.pc = "stolen", !.resp = r]]
    BY <1>5
  <2> HIDE DEF r
  <2> QED
    BY <1>3, <1>5, <2>1, <2>2
<1>6. CASE /\ own[i][y].owner = y /\ CanYield(i, y) /\ Relies(own[i][y])
           /\ op' = [op EXCEPT ![t] = [@ EXCEPT !.pc = "stolen", !.resp = Yielded(i, y)]]
           /\ own' = [own EXCEPT ![i][y] = GivenAway(own[i][y], op[t].at)]
           /\ body' = IF i = "file" THEN [body EXCEPT ![y].refcnt = 0] ELSE body
           /\ linked' = IF i = "dir" THEN [linked EXCEPT ![y] = FALSE] ELSE linked
  <2>1. y \in Holders(i)
    BY <1>1, <1>6 DEF Holders, Relies
  <2>2. body \in [Nodes -> BodyRec] /\ body[y] \in BodyRec /\ linked \in [Nodes -> BOOLEAN]
    BY <1>2 DEF Shape
  <2>3. [body[y] EXCEPT !.refcnt = 0] \in BodyRec
        /\ [body[y] EXCEPT !.refcnt = 0].known = body[y].known
    BY <2>2 DEF BodyRec
  <2>4. body' \in [Nodes -> BodyRec] /\ \A n \in Nodes : body'[n].known => body[n].known
    BY <2>2, <2>3, <1>6
  <2>5. linked' \in [Nodes -> BOOLEAN] /\ \A n \in Nodes : linked'[n] => linked[n]
    BY <2>2, <1>6
  <2>6. Yields(t)
    BY <2>1, <2>4, <2>5, <1>i, <1>1, <1>6 DEF Yields
  <2> QED
    BY <1>i, <1>1, <1>6, <2>6, YieldMoves
<1> QED
  BY <1>i, <1>4, <1>5, <1>6 DEF TryStealInodeOwnership

(* trySteal goes on. *)
LEMMA ApplyStealMoves ==
    ASSUME OwnInv, OwnInv', RefInv, ~early', NEW t \in Threads, ApplySteal(t)
    PROVE  RefInv'
<1>1. /\ op[t].pc = "stolen" /\ node[op[t].at] # "dead"
      /\ UNCHANGED <<handles, kref, fhAt, dhAt, node, made, panicked, faults>>
  BY DEF ApplySteal
<1>2. CASE /\ op[t].resp.tag = "other"
           /\ op' = [op EXCEPT ![t] = [@ EXCEPT !.pc = "route", !.resp = NoAnswer]]
           /\ own' = [own EXCEPT ![Target(op[t])][op[t].at] = applyOwner(@, op[t].resp)]
           /\ Hears(own[Target(op[t])][op[t].at], op[t].resp, op[t].at)
           /\ UNCHANGED <<body, linked>>
  <2>1. Redirect(t)
    BY <1>1, <1>2 DEF Redirect
  <2> QED
    BY <1>1, <2>1, RedirectMoves
<1>3. CASE /\ op[t].resp.tag = "stolen"
           /\ op' = [op EXCEPT ![t] = [@ EXCEPT !.pc = "route", !.resp = NoAnswer]]
           /\ applyStolenInode(Target(op[t]), op[t].at, op[t].resp)
  <2>1. Arrives(t)
    BY <1>1, <1>3 DEF Arrives
  <2> QED
    BY <1>1, <2>1, ArriveMoves
<1>4. CASE /\ op[t].resp.tag = "nil" /\ UNCHANGED <<own, body, linked>>
           /\ op' = [op EXCEPT ![t] = [@ EXCEPT !.pc = IF op[t].nested THEN "route" ELSE "exec",
                                                !.resp = NoAnswer]]
  <2>1. PICK pc \in {"route", "exec"} : pc = IF op[t].nested THEN "route" ELSE "exec"
    OBVIOUS
  <2>2. op' = [op EXCEPT ![t] = [op[t] EXCEPT !.pc = pc, !.resp = NoAnswer]]
    BY <1>4, <2>1
  <2>3. op[t].nested => pc = "route"
    BY <2>1
  <2> QED
    BY <1>1, <1>4, <2>2, <2>3, RefusedMoves
<1> QED
  BY <1>2, <1>3, <1>4 DEF ApplySteal

(* Every step that uses no inode before it has come. *)
LEMMA NextRefs ==
    ASSUME OwnInv, RefInv, ~early', [Next]_vars
    PROVE  RefInv'
<1>0. OwnInv'
  BY NextInv
<1>1. ASSUME NEW t \in Threads, Step(t) PROVE RefInv'
  BY <1>0, <1>1, RouteMoves, ServeCallMoves, ApplyReplyMoves, TryStealMoves, ApplyStealMoves DEF Step
<1>2. ASSUME NEW t \in Threads, Fail(t) PROVE RefInv'
  BY <1>0, <1>2, FailMoves
<1>3. ASSUME NEW t \in Threads, NEW k \in Kinds, Begin(t, k) PROVE RefInv'
  BY <1>0, <1>3, BeginMoves
<1>4. ASSUME NEW n \in Nodes, Flush(n) \/ Join(n) \/ Exit(n) PROVE RefInv'
  BY <1>0, <1>4, FlushMoves, JoinMoves, ExitMoves
<1>5. CASE UNCHANGED vars
  BY <1>0, <1>5, StutterMoves
<1> QED
  BY <1>1, <1>2, <1>3, <1>4, <1>5 DEF Next

(* What no one has is not counted. *)
LEMMA ColumnZero ==
    ASSUME NEW D, NEW nm, NEW f, \A d \in D : f[d] = 0
    PROVE  Cardinality(Column(D, nm, f)) = 0
<1>1. \A d \in D : 1..f[d] = {}
  OBVIOUS
<1>2. Column(D, nm, f) = {}
  BY <1>1, ColumnMember
<1> QED
  BY <1>2, FS_EmptySet

(* What everyone has once is counted once for each. *)
LEMMA ColumnOnes ==
    ASSUME NEW D, IsFiniteSet(D), NEW nm, NEW f, \A d \in D : f[d] = 1
    PROVE  Cardinality(Column(D, nm, f)) = Cardinality(D)
<1> DEFINE S == Column(D, nm, f)
           h == [d \in D |-> <<d, nm, 1>>]
<1>0. \A d \in D : 1..f[d] = {1}
  OBVIOUS
<1>1. \A e : e \in S <=> \E d \in D : e = <<d, nm, 1>>
  BY <1>0, ColumnMember
<1> HIDE DEF S
<1>2. h \in Bijection(D, S)
  <2>1. h \in [D -> S]
    BY <1>1
  <2>2. \A c, d \in D : h[c] = h[d] => c = d
    OBVIOUS
  <2>3. \A e \in S : \E d \in D : h[d] = e
    BY <1>1
  <2> QED
    BY <2>1, <2>2, <2>3 DEF Bijection, Injection, Surjection, IsInjective
<1>3. ExistsBijection(D, S)
  BY <1>2 DEF ExistsBijection
<1> QED
  BY <1>3, FS_Bijection DEF S

(* What holds of the initial states, node by node; q: the kernels have looked the file up. *)
LEMMA InitFacts ==
    ASSUME Init
    PROVE  \E q \in BOOLEAN :
             /\ \A i \in Inodes, n \in Nodes :
                   /\ own[i][n].owner = (IF i = "file" /\ ~q THEN UNKNOWN_OWNER ELSE RootOwner)
                   /\ i = "dir" \/ q => own[i][RootOwner].ready
             /\ \A n \in Nodes :
                   /\ body[n].state = "CACHED" /\ (q => body[n].known)
                   /\ q /\ n = RootOwner => body[n].refcnt = 1 + Cardinality(Nodes)
                   /\ linked[n] <=> q /\ n = RootOwner
                   /\ kref[n] = (IF q THEN 1 ELSE 0) /\ fhAt[n] = 0 /\ dhAt[n] = 0 /\ node[n] = "up"
             /\ handles \in [Inodes -> [Nodes -> Int]] /\ \A i \in Inodes, n \in Nodes : handles[i][n] = 0
             /\ dhAt \in [Nodes -> Owners]
             /\ \A t \in Threads : op[t] = Idle(t)
             /\ made = q /\ ~panicked /\ faults = 0
<1>1. PICK s \in Start :
        /\ own = [i \in Inodes |-> [n \in Nodes |->
                     IF i = "file" /\ s # "looked up"
                     THEN [owner |-> UNKNOWN_OWNER, term |-> 0, ready |-> FALSE]
                     ELSE [owner |-> RootOwner, term |-> 0,
                           ready |-> (i = "dir" /\ Root) \/ n = RootOwner]]]
        /\ body = [n \in Nodes |->
                     IF s # "looked up" THEN Blank
                     ELSE [Blank EXCEPT !.known = TRUE,
                               !.refcnt = IF n = RootOwner THEN 1 + Cardinality(Nodes) ELSE 0]]
        /\ handles = [i \in Inodes |-> [n \in Nodes |-> 0]]
        /\ linked = [n \in Nodes |-> s = "looked up" /\ n = RootOwner]
        /\ kref = [n \in Nodes |-> IF s = "looked up" THEN 1 ELSE 0]
        /\ fhAt = [n \in Nodes |-> 0] /\ dhAt = [n \in Nodes |-> 0]
        /\ op = [t \in Threads |-> Idle(t)]
        /\ node = [n \in Nodes |-> "up"]
        /\ made = (s = "looked up")
        /\ panicked = FALSE /\ faults = 0
  BY DEF Init
<1>2. PICK lu : lu = "looked up"
  OBVIOUS
<1>3. PICK q \in BOOLEAN : q <=> s = lu
  OBVIOUS
<1>4. RootOwner \in Nodes /\ 0 \in Owners
  BY RootOwnerIsNode, NodesFacts DEF UNKNOWN_OWNER
<1>5. own = [i \in Inodes |-> [n \in Nodes |->
                     IF i = "file" /\ s # lu
                     THEN [owner |-> UNKNOWN_OWNER, term |-> 0, ready |-> FALSE]
                     ELSE [owner |-> RootOwner, term |-> 0,
                           ready |-> (i = "dir" /\ Root) \/ n = RootOwner]]]
  BY <1>1, <1>2, Zenon
<1>6. body = [n \in Nodes |->
                     IF s # lu THEN Blank
                     ELSE [Blank EXCEPT !.known = TRUE,
                               !.refcnt = IF n = RootOwner THEN 1 + Cardinality(Nodes) ELSE 0]]
  BY <1>1, <1>2, Zenon
<1>7. /\ linked = [n \in Nodes |-> s = lu /\ n = RootOwner]
      /\ kref = [n \in Nodes |-> IF s = lu THEN 1 ELSE 0] /\ made = (s = lu)
  BY <1>1, <1>2, Zenon
<1>8. /\ handles = [i \in Inodes |-> [n \in Nodes |-> 0]] /\ fhAt = [n \in Nodes |-> 0] /\ dhAt = [n \in Nodes |-> 0]
      /\ op = [t \in Threads |-> Idle(t)] /\ node = [n \in Nodes |-> "up"]
      /\ panicked = FALSE /\ faults = 0
  BY <1>1, Zenon
<1>9. \A i \in Inodes, n \in Nodes :
                   /\ own[i][n].owner = (IF i = "file" /\ ~q THEN UNKNOWN_OWNER ELSE RootOwner)
                   /\ i = "dir" \/ q => own[i][RootOwner].ready
  BY <1>3, <1>4, <1>5, NodesFacts
<1>10. \A n \in Nodes : /\ body[n].state = "CACHED" /\ (q => body[n].known)
                        /\ q /\ n = RootOwner => body[n].refcnt = 1 + Cardinality(Nodes)
  <2> SUFFICES ASSUME NEW n \in Nodes
               PROVE  /\ body[n].state = "CACHED" /\ (q => body[n].known)
                      /\ q /\ n = RootOwner => body[n].refcnt = 1 + Cardinality(Nodes)
    OBVIOUS
  <2>1. PICK k : k = IF n = RootOwner THEN 1 + Cardinality(Nodes) ELSE 0
    OBVIOUS
  <2>2. body[n] = IF q THEN [Blank EXCEPT !.known = TRUE, !.refcnt = k] ELSE Blank
    BY <1>3, <1>6, <2>1
  <2> QED
    BY <2>1, <2>2 DEF Blank
<1>11. \A n \in Nodes : (linked[n] <=> q /\ n = RootOwner) /\ kref[n] = (IF q THEN 1 ELSE 0)
  BY <1>3, <1>7
<1>12. made = q
  BY <1>3, <1>7, Zenon
<1>13. /\ handles \in [Inodes -> [Nodes -> Int]] /\ \A i \in Inodes, n \in Nodes : handles[i][n] = 0
       /\ dhAt \in [Nodes -> Owners] /\ \A n \in Nodes : fhAt[n] = 0 /\ dhAt[n] = 0 /\ node[n] = "up"
       /\ (\A t \in Threads : op[t] = Idle(t))
  BY <1>4, <1>8
<1>14. ~panicked /\ faults = 0
  BY <1>8
<1> QED
  BY <1>9, <1>10, <1>11, <1>12, <1>13, <1>14

(* The initial states. *)
LEMMA InitRefs ==
    ASSUME Init
    PROVE  RefInv
<1>1. PICK q \in BOOLEAN :
             /\ \A i \in Inodes, n \in Nodes :
                   /\ own[i][n].owner = (IF i = "file" /\ ~q THEN UNKNOWN_OWNER ELSE RootOwner)
                   /\ i = "dir" \/ q => own[i][RootOwner].ready
             /\ \A n \in Nodes :
                   /\ body[n].state = "CACHED" /\ (q => body[n].known)
                   /\ q /\ n = RootOwner => body[n].refcnt = 1 + Cardinality(Nodes)
                   /\ linked[n] <=> q /\ n = RootOwner
                   /\ kref[n] = (IF q THEN 1 ELSE 0) /\ fhAt[n] = 0 /\ dhAt[n] = 0 /\ node[n] = "up"
             /\ handles \in [Inodes -> [Nodes -> Int]] /\ \A i \in Inodes, n \in Nodes : handles[i][n] = 0
             /\ dhAt \in [Nodes -> Owners]
             /\ \A t \in Threads : op[t] = Idle(t)
             /\ made = q /\ ~panicked /\ faults = 0
  BY InitFacts
<1>2. OwnInv /\ Shape
  BY InitInv DEF OwnInv
<1>3. RootOwner \in Nodes /\ RootOwner # UNKNOWN_OWNER /\ UNKNOWN_OWNER \notin Nodes /\ IsFiniteSet(Nodes)
      /\ Cardinality(Nodes) \in Nat
  BY RootOwnerIsNode, NodesFacts, NodesAssumption, FS_CardinalityType
<1>4. \A t \in Threads : /\ op[t].pc = "idle" /\ op[t].resp.tag = "none" /\ ~op[t].nested /\ Sane(op[t])
                         /\ NodeOf[t] \in Nodes /\ op[t].kind = "lookup"
  BY <1>1, IdleType, IdleSane, NoAnswerType, NodesFacts
<1>5. More /\ Sanes /\ Solo
  BY <1>1, <1>4 DEF More, Sanes, Solo, Active
<1>6. \A n \in Nodes : Located(n) <=> q
  BY <1>1, <1>3, NodesFacts DEF Located
<1>7. Kernels
  BY <1>1, <1>4, <1>6 DEF Kernels, Asked, Active
<1>8. \A i \in Inodes, n \in Nodes : Keeps(i, n) => n = RootOwner /\ (i = "file" => q)
  BY <1>1, <1>3 DEF Keeps
<1>9. Keeps("dir", RootOwner) /\ (q => Keeps("file", RootOwner))
  BY <1>1, <1>3, NodesFacts DEF Keeps
<1>10. \A i \in Inodes : Carriers(i) = {}
  BY <1>4 DEF Carriers
<1>11. Alone /\ Placed
  <2>1. Alone
    BY <1>8, <1>10 DEF Alone
  <2>2. Placed
    BY <1>1, <1>4, <1>9 DEF Placed
  <2> QED
    BY <2>1, <2>2
<1>12. AnswerSum = 0 /\ ForgetSum = 0
  <2>1. \A t \in Threads : AnswerRefs[t] = 0 /\ ForgetRefs[t] = 0
    BY <1>4 DEF AnswerRefs, ForgetRefs, Looked
  <2>2. PICK a, b : a = "looked up" /\ b = "forget"
    OBVIOUS
  <2>3. Cardinality(Column(Threads, a, AnswerRefs)) = 0 /\ Cardinality(Column(Threads, b, ForgetRefs)) = 0
    BY <2>1, ColumnZero
  <2> QED
    BY <2>2, <2>3 DEF AnswerSum, ForgetSum
<1>13. KernelSum = IF q THEN Cardinality(Nodes) ELSE 0
  <2>1. \A n \in Nodes : KernelRefs[n] = IF q THEN 1 ELSE 0
    BY <1>1 DEF KernelRefs
  <2>2. CASE q
    BY <2>1, <2>2, <1>3, ColumnOnes DEF KernelSum
  <2>3. CASE ~q
    BY <2>1, <2>3, ColumnZero DEF KernelSum
  <2> QED
    BY <2>2, <2>3
<1>14. Cardinality(Kept) = IF q THEN Cardinality(Nodes) ELSE 0
  <2>1. Cardinality(Kept) = KernelSum + AnswerSum + ForgetSum /\ KernelSum \in Nat
    BY <1>2, KeptIsSum
  <2> QED
    BY <2>1, <1>12, <1>13
<1>15. Unborn
  BY <1>1, <1>14 DEF Unborn
<1>16. Counted
  <2> SUFFICES ASSUME NEW r \in Nat, Counts(r) PROVE Need <= r /\ (faults = 0 => Need = r)
    BY DEF Counted
  <2>1. PICK h \in Holders("file") : body[h].refcnt = r
    BY <1>10, NodesFacts DEF Counts
  <2>2. h = RootOwner /\ q
    BY <1>8, NodesFacts DEF Holders, Keeps
  <2>3. r = 1 + Cardinality(Nodes)
    BY <2>1, <2>2, <1>1, <1>3
  <2>4. RootOwner \in Holders("dir") /\ linked[RootOwner]
    BY <2>2, <1>1, <1>3, <1>9 DEF Holders, Keeps
  <2>5. Named
    BY <2>4 DEF Named
  <2> QED
    BY <2>2, <2>3, <2>5, <1>3, <1>14 DEF Need
<1>17. Copied
  BY <1>1, <1>6 DEF Copied
<1>18. Handled
  <2>1. \A i \in Inodes, n \in Nodes, y \in Nodes : ~HasHandle(i, n, y)
    BY <1>1, <1>3, <1>4 DEF HasHandle, HandleAt, Opened, UNKNOWN_OWNER
  <2>2. \A i \in Inodes, y \in Nodes : Users(i, y) = {}
    BY <2>1 DEF Users
  <2>3. Cardinality({}) = 0
    BY FS_EmptySet
  <2>4. \A i \in Inodes, y \in Nodes : handles[i][y] = 0
    BY <1>1
  <2>5. \A i \in Inodes, y \in Nodes : Cardinality(Users(i, y)) = 0
    BY <2>2, <2>3
  <2>6. \A i \in Inodes, y \in Nodes : Cardinality(Users(i, y)) <= handles[i][y]
    BY <2>4, <2>5
  <2> QED
    BY <2>2, <2>6 DEF Handled
<1> QED
  BY <1>1, <1>5, <1>7, <1>11, <1>15, <1>16, <1>17, <1>18 DEF RefInv

-------------------------------------------------------------------------------
(* What the invariant says *)

(* The count covers what is kept. *)
LEMMA InvRefsConserved ==
    ASSUME OwnInv, RefInv
    PROVE  RefsConserved
<1>1. \A h \in Holders("file") : body[h].refcnt \in Nat /\ Counts(body[h].refcnt)
  BY DEF OwnInv, Shape, BodyRec, Holders, Counts
<1>2. \A t \in Carriers("file") : op[t].resp.refcnt \in Nat /\ Counts(op[t].resp.refcnt)
  BY FrameType DEF OwnInv, Shape, Carriers, Counts
<1>3. \A r \in Nat : Counts(r) => Need <= r /\ (faults = 0 => Need = r)
  BY DEF RefInv, Counted
<1> QED
  BY <1>1, <1>2, <1>3 DEF RefsConserved, Need

(* A handle is on the owner. *)
LEMMA InvHandlesServed ==
    ASSUME OwnInv, RefInv
    PROVE  HandlesServed
<1>1. ASSUME NEW i \in Inodes, NEW n \in Nodes, NEW y, y = HandleAt(i, n), y # 0, node[n] = "up", node[y] # "dead",
             ~\E t \in Threads : NodeOf[t] = n /\ Active(t) /\ op[t].kind = Closes(i)
      PROVE  y \in Holders(i)
  <2>1. y \in Nodes
    BY <1>1, NodesFacts DEF HandleAt, OwnInv, Shape, RefInv, More, UNKNOWN_OWNER
  <2>2. ~Closed(i, n)
    BY <1>1 DEF Closed
  <2>3. n \in Users(i, y)
    BY <1>1, <2>2 DEF Users, HasHandle
  <2>4. Keeps(i, y)
    BY <2>1, <2>3 DEF RefInv, Handled
  <2> QED
    BY <1>1, <2>1, <2>4 DEF Holders, Keeps
<1>2. ASSUME NEW n \in Nodes, fhAt[n] # 0, node[n] = "up", node[fhAt[n]] # "dead",
             ~\E t \in Threads : NodeOf[t] = n /\ Active(t) /\ op[t].kind = "release"
      PROVE  fhAt[n] \in Holders("file")
  BY <1>1, <1>2, NodesFacts DEF HandleAt, Closes
<1>3. ASSUME NEW n \in Nodes, dhAt[n] # 0, node[n] = "up", node[dhAt[n]] # "dead",
             ~\E t \in Threads : NodeOf[t] = n /\ Active(t) /\ op[t].kind = "closedir"
      PROVE  dhAt[n] \in Holders("dir")
  <2>1. HandleAt("dir", n) = dhAt[n] /\ Closes("dir") = "closedir"
    BY DEF HandleAt, Closes
  <2> QED
    BY <1>1, <1>3, <2>1, NodesFacts
<1> QED
  BY <1>2, <1>3 DEF HandlesServed

(* An operation that names the file by its id comes with a reference. *)
LEMMA AskedNeeds ==
    ASSUME OwnInv, RefInv, NEW t \in Threads, op[t].pc \notin {"idle", "stolen", "reply"}, op[t].kind \in ById
    PROVE  Need > 0 /\ Located(NodeOf[t])
<1> DEFINE c == NodeOf[t]
<1>1. c \in Nodes /\ Shape /\ Asked(t) /\ Active(t) /\ Sane(op[t]) /\ op[t].resp.tag = "none" /\ op[t].n \in Nat
      /\ kref[c] \in Nat
  BY NodesFacts, NoResult, FrameType DEF OwnInv, Shape, RefInv, Kernels, Sanes, Active
<1>2. node[c] # "dead"
  BY <1>1 DEF Asked, ById
<1>3. /\ Cardinality(Kept) = KernelSum + AnswerSum + ForgetSum
      /\ KernelSum \in Nat /\ AnswerSum \in Nat /\ ForgetSum \in Nat
      /\ KernelRefs \in [Nodes -> Nat] /\ ForgetRefs \in [Threads -> Nat] /\ IsFiniteSet(Nodes) /\ IsFiniteSet(Threads)
  BY <1>1, KeptIsSum, RefsTypes
<1>4. KernelRefs[c] <= KernelSum /\ ForgetRefs[t] <= ForgetSum
  BY <1>1, <1>3, ColumnPart DEF KernelSum, ForgetSum
<1>5. KernelRefs[c] = kref[c] /\ ForgetRefs[t] = op[t].n
  BY <1>1, <1>2 DEF KernelRefs, ForgetRefs, Active
<1>6. kref[c] > 0 \/ op[t].n > 0
  BY <1>1 DEF Asked, Sane
<1>7. Cardinality(Kept) > 0 /\ Cardinality(Kept) \in Nat
  BY <1>1, <1>3, <1>4, <1>5, <1>6
<1>8. Located(c)
  BY <1>1 DEF Asked, RefInv, Kernels
<1> QED
  BY <1>7, <1>8 DEF Need

(* A node that is asked for the file by its id has it. *)
LEMMA InvNoPanic ==
    ASSUME OwnInv, RefInv
    PROVE  NoPanic
<1>0. ~panicked
  BY DEF RefInv
<1>1. ASSUME NEW t \in Threads, op[t].pc \in {"route", "exec"}, Unknown(t, op[t].at) PROVE FALSE
  <2>1. op[t].at = NodeOf[t] /\ op[t].kind \in ById /\ ~body[op[t].at].known /\ op[t].at \in Nodes
    BY <1>1, FrameType DEF Unknown, OwnInv, Shape, Forms, Form
  <2>2. Need > 0 /\ Located(NodeOf[t])
    BY <1>1, <2>1, AskedNeeds
  <2> QED
    BY <2>1, <2>2 DEF RefInv, Copied
<1>2. ASSUME NEW t \in Threads, op[t].pc \in {"steal", "call"}, Unknown(t, op[t].to) PROVE FALSE
  <2>1. op[t].kind \in ById /\ ~body[op[t].to].known /\ op[t].to \in Nodes /\ Located(op[t].to)
    BY <1>2 DEF Unknown, OwnInv, Names, FrameLocated
  <2>2. Need > 0
    BY <1>2, <2>1, AskedNeeds
  <2> QED
    BY <2>1, <2>2 DEF RefInv, Copied
<1> QED
  BY <1>0, <1>1, <1>2 DEF NoPanic

-------------------------------------------------------------------------------
(* The theorems about references and handles *)

(* Both invariants hold until a node uses an inode that has not come to it. *)
THEOREM ReferenceInvariant == Spec => [](early \/ (OwnInv /\ RefInv))
<1>1. Init => early \/ (OwnInv /\ RefInv)
  BY InitInv, InitRefs
<1>2. (early \/ (OwnInv /\ RefInv)) /\ [Next]_vars => (early \/ (OwnInv /\ RefInv))'
  BY NextInv, NextRefs, EarlyStays
<1> QED
  BY <1>1, <1>2, PTL DEF Spec

(* Until then, the reference count that wanders with the file covers every lookup that was  *)
(* not given back, and is exact while no request has failed: no node drops an inode that     *)
(* another uses (DeRef, ForgetInode2), and the last forget does drop it.                     *)
THEOREM ReferencesAreConserved == Spec => []RefsConserved
<1>1. Spec => [](early \/ (OwnInv /\ RefInv))
  BY ReferenceInvariant
<1>2. early \/ (OwnInv /\ RefInv) => RefsConserved
  BY InvRefsConserved DEF RefsConserved
<1> QED
  BY <1>1, <1>2, PTL

(* Until then, a handle stays with the node it was opened on, and that node stays the owner: *)
(* reads and writes through the handle find it (tryYield refuses while fileHandles is not 0). *)
THEOREM HandlesAreServed == Spec => []HandlesServed
<1>1. Spec => [](early \/ (OwnInv /\ RefInv))
  BY ReferenceInvariant
<1>2. early \/ (OwnInv /\ RefInv) => HandlesServed
  BY InvHandlesServed DEF HandlesServed
<1> QED
  BY <1>1, <1>2, PTL

(* Until then, no request names an inode its receiver does not have, and no forget gives     *)
(* back more than there is: getInodeOrDie does not panic and DeRef reports no underflow.      *)
THEOREM NobodyPanics == Spec => []NoPanic
<1>1. Spec => [](early \/ (OwnInv /\ RefInv))
  BY ReferenceInvariant
<1>2. early \/ (OwnInv /\ RefInv) => NoPanic
  BY InvNoPanic DEF NoPanic
<1> QED
  BY <1>1, <1>2, PTL
===============================================================================
