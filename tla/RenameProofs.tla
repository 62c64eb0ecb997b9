----------------------------- MODULE RenameProofs -----------------------------
(***************************************************************************)
(* The directory cache of module Rename is consistent for every set of     *)
(* directories and names and every bound: whatever requests are in flight, *)
(* a listed inode carries the name it is listed under and is alive.        *)
(*                                                                         *)
(* When files only move forward (Forward), the object store agrees with    *)
(* it: a clean file is stored, nothing is lost or left behind, no DELETE   *)
(* meets another file's object, no PUT a name that is being left, and the  *)
(* counters of the directories return to zero.                             *)
(***************************************************************************)
EXTENDS Rename, FiniteSetTheorems, TLAPS

Live == {"CREATED", "MODIFIED", "CACHED"}

(* A copy in flight knows its source. *)
CopiesHaveSource == \A w \in Workers : job[w].pc = "copy" => job[w].from \in Paths
(* Inodes are numbered in the order they are created: the next one is listed nowhere. *)
NextIsUnlisted == used \in Nat /\ \A p \in Paths : child[p] <= used
NamesInv == TypeOK /\ CopiesHaveSource /\ NextIsUnlisted /\ ChildrenNamed

-------------------------------------------------------------------------------
(* Inodes are workers, and so are the uploads of their StagedFiles. *)
LEMMA WorkersOfInodes ==
    /\ \A i \in Inodes : i \in Workers /\ -i \in Workers
    /\ \A w \in Workers : Owner(w) \in Inodes
BY BoundsAssumption DEF Workers, Inodes, Owner

(* The counters of the directories stay integers (SetCacheState, addModified). *)
LEMMA CountersType ==
    ASSUME NEW m \in [Dirs -> Int], NEW p, NEW n \in Int
    PROVE  addModified(m, p, n) \in [Dirs -> Int]
<1>1. CASE Dir(p) \in Dirs
  <2>1. m[Dir(p)] + n \in Int
    BY <1>1
  <2> QED
    BY <2>1 DEF addModified
<1>2. CASE Dir(p) \notin Dirs
  BY <1>2 DEF addModified
<1> QED
  BY <1>1, <1>2

(* The same for a change of state. *)
LEMMA RecountType ==
    ASSUME NEW m \in [Dirs -> Int], NEW x, NEW st
    PROVE  Recount(m, x, st) \in [Dirs -> Int]
BY CountersType DEF Recount, Counted

(* resetCache keeps the type of an inode and its name. *)
LEMMA ResetType ==
    ASSUME NEW x \in NodeSet, NEW st \in States
    PROVE  /\ Reset(x, st) \in NodeSet
           /\ Reset(x, st).path = x.path /\ Reset(x, st).st = st
BY DEF Reset, NodeSet

(* The values that inodes and jobs start from have their types. *)
LEMMA InitialTypes ==
    /\ 0 \in Versions /\ 0 \in Known /\ Versions \subseteq Known /\ NoPath \in Place
    /\ Paths \subseteq Place /\ \A q \in Place : q # NoPath => q \in Paths
    /\ Live \subseteq States /\ "CACHED" \in Live /\ "MODIFIED" \in Live /\ "CREATED" \in Live
    /\ "DELETED" \in States /\ "DEAD" \in States
    /\ NoNode \in NodeSet /\ NoJob \in JobSet
<1>1. 0 \in Versions /\ 0 \in Known /\ Versions \subseteq Known /\ -1 \in Known
  BY BoundsAssumption DEF Versions, Known
<1>2. NoPath \in Place /\ Paths \subseteq Place /\ \A q \in Place : q # NoPath => q \in Paths
  BY DEF Place
<1>3. /\ Live \subseteq States /\ "CACHED" \in Live /\ "MODIFIED" \in Live /\ "CREATED" \in Live
      /\ "DELETED" \in States /\ "DEAD" \in States /\ "NONE" \in States
  BY DEF Live, States
<1>4. NoNode \in NodeSet
  BY <1>1, <1>2, <1>3 DEF NoNode, NodeSet
<1>5. NoJob \in JobSet
  BY <1>1, <1>2 DEF NoJob, JobSet, Pcs
<1> QED
  BY <1>1, <1>2, <1>3, <1>4, <1>5

(* A file of the initial listing is listed under its name. *)
LEMMA NamesInit == Init => NamesInv
<1> SUFFICES ASSUME Init PROVE NamesInv
  OBVIOUS
<1>1. Cardinality(Initial) \in Nat /\ Listed \subseteq Inodes
  <2>1. IsFiniteSet(Initial)
    BY PathsAssumption, FS_Subset
  <2>2. Cardinality(Initial) \in Nat
    BY <2>1, FS_CardinalityType
  <2> QED
    BY <2>2, BoundsAssumption DEF Inodes, Listed
<1>2. PICK f \in [Listed -> Initial] :
        /\ \A p \in Initial : \E i \in Listed : f[i] = p
        /\ ino = [i \in Inodes |-> IF i \in Listed
                    THEN [NoNode EXCEPT !.st = "CACHED", !.path = f[i], !.known = 0]
                    ELSE NoNode]
        /\ child = [p \in Paths |-> IF p \in Initial THEN CHOOSE i \in Listed : f[i] = p ELSE 0]
  BY Zenon DEF Init
<1>4. \A p \in Paths : IF p \in Initial THEN child[p] \in Listed /\ f[child[p]] = p ELSE child[p] = 0
  BY <1>2, Zenon
<1>5. ino \in [Inodes -> NodeSet]
  <2>1. NoNode \in NodeSet
    BY InitialTypes
  <2>2. ASSUME NEW p \in Paths
        PROVE  [NoNode EXCEPT !.st = "CACHED", !.path = p, !.known = 0] \in NodeSet
    BY <2>1, InitialTypes DEF NodeSet, Place
  <2>3. \A i \in Listed : f[i] \in Paths
    BY <1>2, PathsAssumption
  <2> QED
    BY <1>2, <2>1, <2>2, <2>3, Zenon
<1>6. store \in [Paths -> Objects \cup {NoObject}]
  <2>1. \A p \in Initial : [ino |-> child[p], ver |-> 0] \in Objects
    BY <1>1, <1>4, PathsAssumption, InitialTypes DEF Objects
  <2> QED
    BY <2>1 DEF Init
<1>7. /\ job \in [Workers -> JobSet] /\ \A w \in Workers : job[w].pc = "idle"
      /\ deleted \in [Paths -> Inodes \cup {0}] /\ modified \in [Dirs -> Int]
      /\ look.ino \in Inodes \cup {0}
  <2>1. NoJob \in JobSet /\ NoJob.pc = "idle" /\ NoLook.ino = 0
    BY InitialTypes DEF NoJob, NoLook
  <2>2. 0 \in Int
    OBVIOUS
  <2> QED
    BY <2>1, <2>2, Zenon DEF Init
<1>8. TypeOK
  <2>1. child \in [Paths -> Inodes \cup {0}]
    BY <1>1, <1>2, <1>4
  <2> QED
    BY <2>1, <1>5, <1>6, <1>7 DEF TypeOK
<1>9. NextIsUnlisted
  <2>1. used = Cardinality(Initial)
    BY DEF Init
  <2> QED
    BY <2>1, <1>1, <1>4 DEF NextIsUnlisted, Listed
<1>10. ChildrenNamed
  <2> SUFFICES ASSUME NEW p \in Paths, child[p] # 0
               PROVE  /\ ino[child[p]].path = p
                      /\ ino[child[p]].st \in Live
    BY DEF ChildrenNamed, Live
  <2>1. child[p] \in Listed /\ f[child[p]] = p
    BY <1>4
  <2> QED
    BY <2>1, <1>1, <1>2 DEF NoNode, Live
<1> QED
  BY <1>7, <1>8, <1>9, <1>10 DEF NamesInv, CopiesHaveSource

-------------------------------------------------------------------------------
(* A step that replaces one inode by another of its name that is alive if it was. *)
LEMMA NodeStep ==
    ASSUME NamesInv, NEW i \in Inodes, NEW y \in NodeSet,
           y.path = ino[i].path, ino[i].st \in Live => y.st \in Live,
           ino' = [ino EXCEPT ![i] = y], child' = child, used' = used
    PROVE  ino' \in [Inodes -> NodeSet] /\ ChildrenNamed' /\ NextIsUnlisted'
<1>1. ino \in [Inodes -> NodeSet] /\ child \in [Paths -> Inodes \cup {0}]
  BY DEF NamesInv, TypeOK
<1>2. ino' \in [Inodes -> NodeSet]
  BY <1>1
<1>3. ChildrenNamed'
  BY <1>1 DEF NamesInv, ChildrenNamed, Live
<1>4. NextIsUnlisted'
  BY DEF NamesInv, NextIsUnlisted
<1> QED
  BY <1>2, <1>3, <1>4

(* A step that leaves the names alone. *)
LEMMA NamesKept ==
    ASSUME NamesInv, UNCHANGED <<ino, child, used>>
    PROVE  ino' \in [Inodes -> NodeSet] /\ ChildrenNamed' /\ NextIsUnlisted'
BY DEF NamesInv, TypeOK, ChildrenNamed, NextIsUnlisted

(* A step of one goroutine. *)
LEMMA JobStep ==
    ASSUME NamesInv, NEW w \in Workers, NEW j \in JobSet,
           j.pc = "copy" => j.from \in Paths, job' = [job EXCEPT ![w] = j]
    PROVE  job' \in [Workers -> JobSet] /\ CopiesHaveSource'
BY DEF NamesInv, TypeOK, CopiesHaveSource

(* A goroutine that goes on to another step than a copy keeps the types. *)
LEMMA JobGoesOn ==
    ASSUME NamesInv, NEW w \in Workers, NEW pc \in Pcs \ {"copy"}, NEW ok \in BOOLEAN
    PROVE  /\ job' = [job EXCEPT ![w].pc = pc] => job' \in [Workers -> JobSet] /\ CopiesHaveSource'
           /\ job' = [job EXCEPT ![w].pc = pc, ![w].ok = ok]
                => job' \in [Workers -> JobSet] /\ CopiesHaveSource'
<1>1. job \in [Workers -> JobSet] /\ CopiesHaveSource
  BY DEF NamesInv, TypeOK
<1>2. ASSUME job' = [job EXCEPT ![w].pc = pc] PROVE job' \in [Workers -> JobSet] /\ CopiesHaveSource'
  <2>1. [job[w] EXCEPT !.pc = pc] \in JobSet /\ [job[w] EXCEPT !.pc = pc].pc = pc
    BY <1>1 DEF JobSet
  <2> QED
    BY <1>2, <2>1, JobStep
<1>3. ASSUME job' = [job EXCEPT ![w].pc = pc, ![w].ok = ok]
      PROVE  job' \in [Workers -> JobSet] /\ CopiesHaveSource'
  <2>1. [job[w] EXCEPT !.pc = pc, !.ok = ok] \in JobSet /\ [job[w] EXCEPT !.pc = pc, !.ok = ok].pc = pc
    BY <1>1 DEF JobSet
  <2>2. job' = [job EXCEPT ![w] = [job[w] EXCEPT !.pc = pc, !.ok = ok]]
    BY <1>1, <1>3
  <2> QED
    BY <2>1, <2>2, JobStep
<1> QED
  BY <1>2, <1>3

(* So does one that ends. *)
LEMMA JobEnds ==
    ASSUME NamesInv, NEW w \in Workers, job' = [job EXCEPT ![w] = NoJob]
    PROVE  job' \in [Workers -> JobSet] /\ CopiesHaveSource'
<1>1. NoJob.pc = "idle"
  BY DEF NoJob
<1> QED
  BY <1>1, InitialTypes, JobStep

-------------------------------------------------------------------------------
(* Application requests *)

(* A new file is listed under its name, and its inode was listed nowhere before. *)
LEMMA NamesCreate ==
    ASSUME NamesInv, NEW p \in Creates, Create(p) PROVE NamesInv'
<1> DEFINE i == used + 1
           x == [NoNode EXCEPT !.st = "CREATED", !.path = p, !.cached = TRUE, !.staged = Staged]
<1>1. p \in Paths /\ used \in Nat /\ i \in Inodes
  BY PathsAssumption, BoundsAssumption DEF NamesInv, NextIsUnlisted, Create, Inodes
<1>2. x \in NodeSet /\ x.path = p /\ x.st = "CREATED"
  BY <1>1, InitialTypes, BoundsAssumption DEF NodeSet
<1>3. /\ ino' = [ino EXCEPT ![i] = x] /\ child' = [child EXCEPT ![p] = i] /\ used' = i
      /\ modified' = addModified(modified, p, 1)
      /\ UNCHANGED <<deleted, look, job, store>>
  BY DEF Create
<1> HIDE DEF x
<1>4. ino \in [Inodes -> NodeSet] /\ child \in [Paths -> Inodes \cup {0}]
  BY DEF NamesInv, TypeOK
<1>5. TypeOK'
  BY <1>1, <1>2, <1>3, <1>4, CountersType DEF NamesInv, TypeOK
<1>6. NextIsUnlisted'
  BY <1>1, <1>3, <1>4 DEF NamesInv, NextIsUnlisted, Inodes
<1>7. ChildrenNamed'
  <2> SUFFICES ASSUME NEW q \in Paths, child'[q] # 0
               PROVE  ino'[child'[q]].path = q /\ ino'[child'[q]].st \in Live
    BY DEF ChildrenNamed, Live
  <2>1. CASE q = p
    BY <2>1, <1>1, <1>2, <1>3, <1>4 DEF Live
  <2>2. CASE q # p
    <3>1. child'[q] = child[q] /\ child[q] # i
      BY <2>2, <1>1, <1>3, <1>4 DEF NamesInv, NextIsUnlisted, Inodes
    <3> QED
      BY <3>1, <1>3, <1>4 DEF NamesInv, ChildrenNamed, Live
  <2> QED
    BY <2>1, <2>2
<1>8. CopiesHaveSource'
  BY <1>3 DEF NamesInv, CopiesHaveSource
<1> QED
  BY <1>5, <1>6, <1>7, <1>8 DEF NamesInv

(* WriteFile keeps the name. *)
LEMMA NamesWrite ==
    ASSUME NamesInv, NEW i \in Inodes, Write(i) PROVE NamesInv'
<1> DEFINE st == IF ino[i].st = "CACHED" THEN "MODIFIED" ELSE ino[i].st
           y == [ino[i] EXCEPT !.ver = @ + 1, !.st = st, !.cached = TRUE,
                               !.staged = Staged, !.awaiting = FALSE]
<1>1. ino[i] \in NodeSet /\ ino[i].st \in States /\ ino[i].ver \in Versions
  BY DEF NamesInv, TypeOK, NodeSet
<1>2. ino[i].ver + 1 \in Versions
  BY <1>1, BoundsAssumption DEF Write, Versions
<1>3. st \in States /\ (ino[i].st \in Live => st \in Live)
  BY <1>1, InitialTypes
<1>4. ino' = [ino EXCEPT ![i] = y] /\ modified' = Recount(modified, ino[i], st)
      /\ UNCHANGED <<child, deleted, look, job, store, used>>
  BY DEF Write
<1> HIDE DEF st
<1>5. y \in NodeSet /\ y.path = ino[i].path /\ y.st = st
  BY <1>1, <1>2, <1>3, BoundsAssumption DEF NodeSet
<1> HIDE DEF y
<1>6. ino' \in [Inodes -> NodeSet] /\ ChildrenNamed' /\ NextIsUnlisted'
  BY <1>3, <1>4, <1>5, NodeStep
<1> QED
  BY <1>4, <1>6, RecountType DEF NamesInv, TypeOK, CopiesHaveSource

(* doUnlink removes the name of an inode that dies. *)
LEMMA NamesUnlink ==
    ASSUME NamesInv, NEW p \in Unlinks, Unlink(p) PROVE NamesInv'
<1> DEFINE i == child[p]
<1>1. p \in Paths /\ i \in Inodes /\ ino[i] \in NodeSet /\ child \in [Paths -> Inodes \cup {0}]
  BY PathsAssumption DEF NamesInv, TypeOK, Unlink
<1>2. PICK st \in {"DELETED", "DEAD"} :
        /\ ino' = [ino EXCEPT ![i] = Reset(ino[i], st)]
        /\ modified' = Recount(modified, ino[i], st)
  BY DEF Unlink
<1>3. deleted' = deleted \/ deleted' = [deleted EXCEPT ![p] = i]
  BY DEF Unlink
<1>4. child' = [child EXCEPT ![p] = 0] /\ UNCHANGED <<look, job, store, used>>
  BY DEF Unlink
<1>5. Reset(ino[i], st) \in NodeSet
  BY <1>1, <1>2, ResetType, InitialTypes
<1>6. TypeOK'
  BY <1>1, <1>2, <1>3, <1>4, <1>5, RecountType DEF NamesInv, TypeOK
<1>7. NextIsUnlisted'
  BY <1>1, <1>4 DEF NamesInv, NextIsUnlisted
<1>8. ChildrenNamed'
  <2> SUFFICES ASSUME NEW q \in Paths, child'[q] # 0
               PROVE  ino'[child'[q]].path = q /\ ino'[child'[q]].st \in Live
    BY DEF ChildrenNamed, Live
  <2>1. q # p /\ child'[q] = child[q]
    BY <1>1, <1>4
  <2>2. child[q] # i
    BY <2>1, <1>1 DEF NamesInv, ChildrenNamed
  <2> QED
    BY <2>1, <2>2, <1>1, <1>2 DEF NamesInv, TypeOK, ChildrenNamed, Live
<1>9. CopiesHaveSource'
  BY <1>4 DEF NamesInv, CopiesHaveSource
<1> QED
  BY <1>6, <1>7, <1>8, <1>9 DEF NamesInv

(* renameInCache keeps the types of the inode and of the directories. *)
LEMMA MovedTypes ==
    ASSUME TypeOK, NEW i \in Inodes, NEW q \in Paths, NEW m \in [Dirs -> Int]
    PROVE  /\ MovedInode(ino[i], i, q) \in NodeSet
           /\ MovedInode(ino[i], i, q).path = q
           /\ ino[i].st \in Live => MovedInode(ino[i], i, q).st \in Live
           /\ MovedDeleted(ino[i], i, q) \in [Paths -> Inodes \cup {0}]
           /\ MovedModified(m, ino[i], i, q) \in [Dirs -> Int]
<1> DEFINE x == ino[i]
           st == IF x.st = "CACHED" THEN "MODIFIED" ELSE x.st
           old == IF ~MovesFreely(x, i) THEN x.path
                  ELSE IF x.old # NoPath /\ ~x.renamingTo /\ Unrenamed(x, q) THEN NoPath ELSE x.old
<1>1. x \in NodeSet /\ x.st \in States /\ x.path \in Place /\ x.old \in Place
  BY DEF TypeOK, NodeSet
<1>2. st \in States /\ (x.st \in Live => st \in Live) /\ old \in Place /\ q \in Place
  BY <1>1, InitialTypes
<1>3. MovedInode(x, i, q) = [x EXCEPT !.path = q, !.st = st, !.renamingTo = FALSE, !.old = old]
  BY DEF MovedInode
<1> HIDE DEF st, old
<1>4. MovedInode(x, i, q) \in NodeSet /\ MovedInode(x, i, q).path = q /\ MovedInode(x, i, q).st = st
  BY <1>1, <1>2, <1>3 DEF NodeSet
<1>5. MovedDeleted(x, i, q) \in [Paths -> Inodes \cup {0}]
  BY DEF TypeOK, MovedDeleted
<1>6. MovedModified(m, x, i, q) \in [Dirs -> Int]
  <2>1. /\ addModified(m, x.path, -1) \in [Dirs -> Int]
        /\ addModified(m, x.path, 1) \in [Dirs -> Int]
    BY CountersType
  <2>2. (CASE MovesFreely(x, i) /\ ~x.renamingTo -> addModified(m, x.path, -1)
          [] ~MovesFreely(x, i) /\ x.st = "CACHED" -> addModified(m, x.path, 1)
          [] OTHER -> m) \in [Dirs -> Int]
    BY <2>1
  <2> QED
    BY <2>2, CountersType DEF MovedModified
<1> QED
  BY <1>2, <1>4, <1>5, <1>6

(* Rename: the file takes the new name, the one it overwrites loses it. *)
LEMMA NamesRename ==
    ASSUME NamesInv, NEW p \in Paths, NEW q \in Paths, RenameFile(p, q) PROVE NamesInv'
<1> DEFINE i == child[p]
           j == child[q]
           m == IF j = 0 THEN modified ELSE Recount(modified, ino[j], "DEAD")
<1>1. /\ i \in Inodes /\ ino \in [Inodes -> NodeSet] /\ child \in [Paths -> Inodes \cup {0}]
      /\ modified \in [Dirs -> Int]
  BY DEF NamesInv, TypeOK, RenameFile
<1>2. /\ ino' = [k \in Inodes |-> IF k = i THEN MovedInode(ino[i], i, q)
                                  ELSE IF k = j THEN Reset(ino[j], "DEAD") ELSE ino[k]]
      /\ child' = [child EXCEPT ![p] = 0, ![q] = i]
      /\ deleted' = MovedDeleted(ino[i], i, q)
      /\ modified' = MovedModified(m, ino[i], i, q)
      /\ UNCHANGED <<look, job, store, used>>
  BY DEF RenameFile
<1>3. m \in [Dirs -> Int]
  BY <1>1, RecountType
<1> HIDE DEF m
<1>4. /\ MovedInode(ino[i], i, q) \in NodeSet /\ MovedInode(ino[i], i, q).path = q
      /\ ino[i].st \in Live => MovedInode(ino[i], i, q).st \in Live
      /\ MovedDeleted(ino[i], i, q) \in [Paths -> Inodes \cup {0}]
      /\ MovedModified(m, ino[i], i, q) \in [Dirs -> Int]
  BY <1>1, <1>3, MovedTypes DEF NamesInv
<1>5. \A k \in Inodes : Reset(ino[k], "DEAD") \in NodeSet
  BY <1>1, ResetType, InitialTypes
<1>6. ino' \in [Inodes -> NodeSet]
  BY <1>1, <1>2, <1>4, <1>5
<1>7. TypeOK'
  BY <1>1, <1>2, <1>4, <1>6 DEF NamesInv, TypeOK
<1>8. NextIsUnlisted'
  BY <1>1, <1>2 DEF NamesInv, NextIsUnlisted
<1>9. ChildrenNamed'
  <2> SUFFICES ASSUME NEW r \in Paths, child'[r] # 0
               PROVE  ino'[child'[r]].path = r /\ ino'[child'[r]].st \in Live
    BY DEF ChildrenNamed, Live
  <2>1. ino[i].st \in Live
    BY <1>1 DEF NamesInv, ChildrenNamed, Live, RenameFile
  <2>2. CASE r = q
    <3>1. child'[r] = i
      BY <2>2, <1>1, <1>2
    <3> QED
      BY <3>1, <2>1, <2>2, <1>1, <1>2, <1>4
  <2>3. CASE r # q
    <3>1. r # p /\ child'[r] = child[r]
      BY <2>3, <1>1, <1>2
    <3>2. child[r] # i /\ child[r] # j
      BY <3>1, <2>3, <1>1 DEF NamesInv, ChildrenNamed
    <3> QED
      BY <3>1, <3>2, <1>1, <1>2 DEF NamesInv, ChildrenNamed, Live
  <2> QED
    BY <2>2, <2>3
<1>10. CopiesHaveSource'
  BY <1>2 DEF NamesInv, CopiesHaveSource
<1> QED
  BY <1>7, <1>8, <1>9, <1>10 DEF NamesInv

-------------------------------------------------------------------------------
(* The flusher and its goroutines *)

(* TryFlush and what it starts: an inode may forget its old name (SendDelete) or be
   marked as being renamed (sendRename). *)
LEMMA NamesFlusher ==
    ASSUME NamesInv, Flusher PROVE NamesInv'
<1>1. /\ ino \in [Inodes -> NodeSet] /\ job \in [Workers -> JobSet]
      /\ \A i \in Inodes : i \in Workers /\ ino[i].old \in Place /\ ino[i].path \in Place
  BY WorkersOfInodes DEF NamesInv, TypeOK, NodeSet
<1>2. CASE FlushNothing
  BY <1>2 DEF FlushNothing, LookEnds, NoLook, NamesInv, TypeOK, CopiesHaveSource, NextIsUnlisted,
              ChildrenNamed
<1>3. ASSUME NEW i \in Inodes, TryFlush(i) PROVE NamesInv'
  BY <1>3 DEF TryFlush, NamesInv, TypeOK, CopiesHaveSource, NextIsUnlisted, ChildrenNamed
<1>4. ASSUME NEW i \in Inodes, StartDelete(i) PROVE NamesInv'
  <2> DEFINE k == [NoJob EXCEPT !.pc = "delete", !.from = SourceKey(ino[i]), !.to = ino[i].old]
             y == [ino[i] EXCEPT !.old = NoPath]
  <2>1. /\ job' = [job EXCEPT ![i] = k] /\ ino' = [ino EXCEPT ![i] = y]
        /\ look' = NoLook /\ UNCHANGED <<child, deleted, modified, store, used>>
    BY <1>4 DEF StartDelete, LookEnds
  <2>2. SourceKey(ino[i]) \in Place
    BY <1>1 DEF SourceKey
  <2>3. k \in JobSet /\ k.pc = "delete"
    BY <1>1, <2>2, InitialTypes DEF JobSet, Pcs
  <2>4. y \in NodeSet /\ y.path = ino[i].path /\ y.st = ino[i].st
    BY <1>1, InitialTypes DEF NodeSet
  <2> HIDE DEF k, y
  <2>5. job' \in [Workers -> JobSet] /\ CopiesHaveSource'
    BY <1>1, <2>1, <2>3, JobStep
  <2>6. ino' \in [Inodes -> NodeSet] /\ ChildrenNamed' /\ NextIsUnlisted'
    BY <2>1, <2>4, NodeStep
  <2> QED
    BY <2>1, <2>5, <2>6 DEF NamesInv, TypeOK, NoLook
<1>5. ASSUME NEW i \in Inodes, StartRename(i) PROVE NamesInv'
  <2> DEFINE k == [NoJob EXCEPT !.pc = "copy", !.from = ino[i].old, !.to = ino[i].path]
             y == [ino[i] EXCEPT !.renamingTo = TRUE]
  <2>1. /\ job' = [job EXCEPT ![i] = k] /\ ino' = [ino EXCEPT ![i] = y]
        /\ look' = NoLook /\ UNCHANGED <<child, deleted, modified, store, used>>
        /\ ino[i].old # NoPath
    BY <1>5 DEF StartRename, LookEnds
  <2>2. ino[i].old \in Paths
    BY <1>1, <2>1, InitialTypes
  <2>3. k \in JobSet /\ k.from = ino[i].old
    BY <1>1, InitialTypes DEF JobSet, Pcs
  <2>4. y \in NodeSet /\ y.path = ino[i].path /\ y.st = ino[i].st
    BY <1>1 DEF NodeSet
  <2> HIDE DEF k, y
  <2>5. job' \in [Workers -> JobSet] /\ CopiesHaveSource'
    BY <1>1, <2>1, <2>2, <2>3, JobStep
  <2>6. ino' \in [Inodes -> NodeSet] /\ ChildrenNamed' /\ NextIsUnlisted'
    BY <2>1, <2>4, NodeStep
  <2> QED
    BY <2>1, <2>5, <2>6 DEF NamesInv, TypeOK, NoLook
<1>6. ASSUME NEW i \in Inodes, StartPut(i) PROVE NamesInv'
  <2> DEFINE k == [NoJob EXCEPT !.pc = "put"]
  <2>1. /\ job' = [job EXCEPT ![i] = k]
        /\ look' = NoLook /\ UNCHANGED <<ino, child, deleted, modified, store, used>>
    BY <1>6 DEF StartPut, LookEnds
  <2>2. k \in JobSet /\ k.pc = "put"
    BY InitialTypes DEF JobSet, Pcs
  <2> HIDE DEF k
  <2>3. job' \in [Workers -> JobSet] /\ CopiesHaveSource'
    BY <1>1, <2>1, <2>2, JobStep
  <2>4. ino' \in [Inodes -> NodeSet] /\ ChildrenNamed' /\ NextIsUnlisted'
    BY <2>1, NamesKept
  <2> QED
    BY <2>1, <2>3, <2>4 DEF NamesInv, TypeOK, NoLook
<1> QED
  BY <1>2, <1>3, <1>4, <1>5, <1>6 DEF Flusher

(* flushSmallObject and flushStagedFileDirect keep the names. *)
LEMMA NamesPut ==
    ASSUME NamesInv, NEW i \in Inodes,
           PutPrepare(i) \/ StagedFlush(i) \/ (\E w \in {i, -i} : Put(w) \/ PutReturns(w))
    PROVE  NamesInv'
<1>1. /\ ino \in [Inodes -> NodeSet] /\ job \in [Workers -> JobSet]
      /\ i \in Workers /\ -i \in Workers
      /\ \A n \in Inodes : ino[n] \in NodeSet /\ ino[n].old \in Place /\ ino[n].path \in Place
                             /\ ino[n].ver \in Versions /\ SourceKey(ino[n]) \in Place
      /\ modified \in [Dirs -> Int]
  BY WorkersOfInodes DEF NamesInv, TypeOK, NodeSet, SourceKey
<1>2. CASE PutPrepare(i)
  <2>1. UNCHANGED <<child, deleted, look, store, used>>
    BY <1>2 DEF PutPrepare
  <2>2. CASE UNCHANGED <<ino, modified>> /\ job' = [job EXCEPT ![i] = NoJob]
    <3>1. job' \in [Workers -> JobSet] /\ CopiesHaveSource'
      BY <2>2, <1>1, JobEnds
    <3> QED
      BY <2>1, <2>2, <3>1, NamesKept DEF NamesInv, TypeOK
  <2>3. CASE /\ job' = [job EXCEPT ![i] = [@ EXCEPT !.pc = "send", !.to = SourceKey(ino[i]),
                                                    !.ver = ino[i].ver]]
             /\ ino' = [ino EXCEPT ![i].cached = TRUE]
             /\ UNCHANGED modified
    <3> DEFINE k == [job[i] EXCEPT !.pc = "send", !.to = SourceKey(ino[i]), !.ver = ino[i].ver]
               y == [ino[i] EXCEPT !.cached = TRUE]
    <3>1. job' = [job EXCEPT ![i] = k] /\ ino' = [ino EXCEPT ![i] = y]
      BY <2>3
    <3>2. k \in JobSet /\ k.pc = "send"
      BY <1>1 DEF JobSet, Pcs
    <3>3. y \in NodeSet /\ y.path = ino[i].path /\ y.st = ino[i].st
      BY <1>1 DEF NodeSet
    <3> HIDE DEF k, y
    <3>4. job' \in [Workers -> JobSet] /\ CopiesHaveSource'
      BY <1>1, <3>1, <3>2, JobStep
    <3>5. ino' \in [Inodes -> NodeSet] /\ ChildrenNamed' /\ NextIsUnlisted'
      BY <2>1, <3>1, <3>3, NodeStep
    <3> QED
      BY <2>1, <2>3, <3>4, <3>5 DEF NamesInv, TypeOK
  <2>4. CASE /\ job' = [job EXCEPT ![i] = NoJob]
             /\ ino' = [ino EXCEPT ![i] = Reset(ino[i], "CACHED")]
             /\ modified' = Recount(modified, ino[i], "CACHED")
    <3>1. job' \in [Workers -> JobSet] /\ CopiesHaveSource'
      BY <2>4, <1>1, JobEnds
    <3>2. ino' \in [Inodes -> NodeSet] /\ ChildrenNamed' /\ NextIsUnlisted'
      BY <1>1, <2>1, <2>4, NodeStep, ResetType, InitialTypes
    <3>3. modified' \in [Dirs -> Int]
      BY <1>1, <2>4, RecountType
    <3> QED
      BY <2>1, <3>1, <3>2, <3>3 DEF NamesInv, TypeOK
  <2> QED
    BY <1>2, <2>2, <2>3, <2>4 DEF PutPrepare
<1>3. CASE StagedFlush(i)
  <2> DEFINE k == [NoJob EXCEPT !.pc = "send", !.to = SourceKey(ino[i]), !.ver = ino[i].ver]
  <2>1. /\ job' = [job EXCEPT ![-i] = k]
        /\ UNCHANGED <<ino, child, deleted, modified, look, store, used>>
    BY <1>3 DEF StagedFlush
  <2>2. k \in JobSet /\ k.pc = "send"
    BY <1>1, InitialTypes DEF JobSet, Pcs
  <2> HIDE DEF k
  <2>3. job' \in [Workers -> JobSet] /\ CopiesHaveSource'
    BY <1>1, <2>1, <2>2, JobStep
  <2> QED
    BY <2>1, <2>3, NamesKept DEF NamesInv, TypeOK
<1>4. ASSUME NEW w \in Workers, Put(w) PROVE NamesInv'
  <2>1. UNCHANGED <<ino, child, deleted, modified, look, used>>
    BY <1>4 DEF Put
  <2>2. job' \in [Workers -> JobSet] /\ CopiesHaveSource'
    BY <1>4, JobGoesOn DEF Put, Pcs
  <2>3. [ino |-> Owner(w), ver |-> job[w].ver] \in Objects
    BY <1>1, WorkersOfInodes DEF Objects, JobSet
  <2>4. store' \in [Paths -> Objects \cup {NoObject}]
    BY <1>4, <2>3 DEF Put, NamesInv, TypeOK
  <2> QED
    BY <2>1, <2>2, <2>4, NamesKept DEF NamesInv, TypeOK
<1>5. ASSUME NEW w \in Workers, PutReturns(w) PROVE NamesInv'
  <2> DEFINE n == Owner(w)
             current == w < 0 /\ ino[n].ver = job[w].ver
             sg == ino[n].staged /\ ~current
             aw == ino[n].awaiting \/ (current /\ ino[n].old # NoPath)
             x == [ino[n] EXCEPT !.known = job[w].ver, !.staged = sg, !.awaiting = aw]
             st == IF ~Flushable(x) THEN x.st
                   ELSE IF isStillDirty(x) THEN "MODIFIED" ELSE "CACHED"
  <2>1. n \in Inodes /\ job[w].ver \in Known
    BY <1>1, WorkersOfInodes, InitialTypes DEF JobSet
  <2>2. sg \in BOOLEAN /\ aw \in BOOLEAN
    BY <1>1, <2>1 DEF NodeSet
  <2>3. UNCHANGED <<child, deleted, look, store, used>> /\ job' = [job EXCEPT ![w] = NoJob]
    BY <1>5 DEF PutReturns
  <2>4. \/ ino' = [ino EXCEPT ![n] = [x EXCEPT !.st = st]] /\ modified' = Recount(modified, x, st)
        \/ UNCHANGED <<ino, modified>>
    BY <1>5 DEF PutReturns
  <2>5. job' \in [Workers -> JobSet] /\ CopiesHaveSource'
    BY <2>3, JobEnds
  <2> HIDE DEF sg, aw
  <2>6. x \in NodeSet /\ x.path = ino[n].path /\ x.st = ino[n].st /\ x.st \in States
    BY <1>1, <2>1, <2>2 DEF NodeSet
  <2> HIDE DEF x
  <2>7. st \in States /\ (x.st \in Live => st \in Live)
    BY <2>6, InitialTypes
  <2> HIDE DEF st
  <2>8. CASE ino' = [ino EXCEPT ![n] = [x EXCEPT !.st = st]] /\ modified' = Recount(modified, x, st)
    <3>1. [x EXCEPT !.st = st] \in NodeSet /\ [x EXCEPT !.st = st].path = ino[n].path
          /\ [x EXCEPT !.st = st].st = st
      BY <2>6, <2>7 DEF NodeSet
    <3>2. ino' \in [Inodes -> NodeSet] /\ ChildrenNamed' /\ NextIsUnlisted'
      BY <2>1, <2>3, <2>6, <2>7, <2>8, <3>1, NodeStep
    <3>3. modified' \in [Dirs -> Int]
      BY <1>1, <2>8, RecountType
    <3> QED
      BY <2>3, <2>5, <3>2, <3>3 DEF NamesInv, TypeOK
  <2>9. CASE UNCHANGED <<ino, modified>>
    BY <2>3, <2>5, <2>9, NamesKept DEF NamesInv, TypeOK
  <2> QED
    BY <2>4, <2>8, <2>9
<1> QED
  BY <1>1, <1>2, <1>3, <1>4, <1>5

(* A DELETE, answered or not, keeps the names. *)
LEMMA NamesDeleteBlob ==
    ASSUME NamesInv, NEW i \in Inodes, NEW pc \in Pcs \ {"copy"}, DeleteBlob(i, pc)
    PROVE  NamesInv'
<1>1. UNCHANGED <<ino, child, deleted, modified, look, used>>
  BY DEF DeleteBlob
<1>2. store' = store \/ store' = [store EXCEPT ![job[i].from] = NoObject]
  BY DEF DeleteBlob
<1>3. store' \in [Paths -> Objects \cup {NoObject}]
  BY <1>2 DEF NamesInv, TypeOK
<1>4. i \in Workers
  BY WorkersOfInodes
<1>5. job' \in [Workers -> JobSet] /\ CopiesHaveSource'
  BY <1>4, JobGoesOn DEF DeleteBlob
<1> QED
  BY <1>1, <1>3, <1>5, NamesKept DEF NamesInv, TypeOK

(* sendRename: copies, deletes and the new state of the inode keep the names; only a
   file whose object is missing loses its name. *)
LEMMA NamesSendRename ==
    ASSUME NamesInv, NEW i \in Inodes,
           \/ CopyBlob(i) \/ RenameCopied(i) \/ RenameRemove(i) \/ RenameRemoved(i)
           \/ RenameRetries(i) \/ RenameMissing(i) \/ RenameUnlinks(i) \/ RenameFrees(i)
           \/ RenameError(i) \/ RenameReturns(i)
    PROVE  NamesInv'
<1>1. /\ ino \in [Inodes -> NodeSet] /\ job \in [Workers -> JobSet] /\ i \in Workers
      /\ ino[i] \in NodeSet /\ ino[i].old \in Place /\ ino[i].path \in Place
      /\ ino[i].st \in States /\ ino[i].awaiting \in BOOLEAN
      /\ job[i] \in JobSet /\ job[i].from \in Place /\ job[i].to \in Place
      /\ modified \in [Dirs -> Int] /\ deleted \in [Paths -> Inodes \cup {0}]
      /\ store \in [Paths -> Objects \cup {NoObject}] /\ child \in [Paths -> Inodes \cup {0}]
  BY WorkersOfInodes DEF NamesInv, TypeOK, NodeSet, JobSet
<1>2. CASE CopyBlob(i)
  <2>1. UNCHANGED <<ino, child, deleted, modified, look, used>>
    BY <1>2 DEF CopyBlob
  <2>2. job[i].from \in Paths
    BY <1>1, <1>2 DEF CopyBlob, NamesInv, CopiesHaveSource
  <2>3. store' = store \/ store' = [store EXCEPT ![job[i].to] = store[job[i].from]]
    BY <1>2 DEF CopyBlob
  <2>4. store' \in [Paths -> Objects \cup {NoObject}]
    BY <1>1, <2>2, <2>3
  <2>5. PICK pc \in {"copied", "missing", "error"} : job' = [job EXCEPT ![i].pc = pc]
    BY <1>2 DEF CopyBlob
  <2>6. job' \in [Workers -> JobSet] /\ CopiesHaveSource'
    BY <1>1, <2>5, JobGoesOn DEF Pcs
  <2> QED
    BY <2>1, <2>4, <2>6, NamesKept DEF NamesInv, TypeOK
<1>3. CASE RenameCopied(i)
  <2> DEFINE from == job[i].from
             to   == job[i].to
             old  == IF ino[i].path \in {from, to} THEN NoPath ELSE to
             aw   == ino[i].awaiting /\ old # NoPath
             x == [ino[i] EXCEPT !.renamingTo = FALSE, !.old = old, !.awaiting = aw]
             st == IF Flushable(x) /\ ~isStillDirty(x) /\ ~x.staged THEN "CACHED" ELSE x.st
             del == IF x.path # to /\ x.path = from THEN to ELSE from
             k == [job[i] EXCEPT !.pc = "remove", !.from = del]
             y == [x EXCEPT !.st = st]
  <2>1. /\ ino' = [ino EXCEPT ![i] = y] /\ modified' = Recount(modified, x, st)
        /\ job' = [job EXCEPT ![i] = k] /\ UNCHANGED <<child, deleted, look, store, used>>
    BY <1>3 DEF RenameCopied
  <2>2. old \in Place /\ aw \in BOOLEAN /\ del \in Place
    BY <1>1, InitialTypes
  <2>3. k \in JobSet /\ k.pc = "remove"
    BY <1>1, <2>2 DEF JobSet, Pcs
  <2> HIDE DEF k, del, old, aw
  <2>4. x \in NodeSet /\ x.path = ino[i].path /\ x.st = ino[i].st
    BY <1>1, <2>2 DEF NodeSet
  <2> HIDE DEF x
  <2>5. st \in States /\ (ino[i].st \in Live => st \in Live)
    BY <1>1, <2>4, InitialTypes
  <2> HIDE DEF st
  <2>6. y \in NodeSet /\ y.path = ino[i].path /\ y.st = st
    BY <2>4, <2>5 DEF NodeSet
  <2> HIDE DEF y
  <2>7. ino' \in [Inodes -> NodeSet] /\ ChildrenNamed' /\ NextIsUnlisted'
    BY <2>1, <2>5, <2>6, NodeStep
  <2>8. job' \in [Workers -> JobSet] /\ CopiesHaveSource'
    BY <1>1, <2>1, <2>3, JobStep
  <2>9. modified' \in [Dirs -> Int]
    BY <1>1, <2>1, RecountType
  <2> QED
    BY <2>1, <2>7, <2>8, <2>9 DEF NamesInv, TypeOK
<1>4. CASE RenameRemove(i)
  <2>1. DeleteBlob(i, "removed")
    BY <1>4 DEF RenameRemove
  <2> QED
    BY <2>1, NamesDeleteBlob DEF Pcs
<1>5. CASE RenameRemoved(i)
  <2> DEFINE del == job[i].from
  <2>1. job' = [job EXCEPT ![i].pc = "end"] /\ UNCHANGED <<child, look, store>>
    BY <1>5 DEF RenameRemoved
  <2>2. job' \in [Workers -> JobSet] /\ CopiesHaveSource'
    BY <1>1, <2>1, JobGoesOn DEF Pcs
  <2>3. CASE /\ deleted' = [deleted EXCEPT ![del] = 0]
             /\ modified' = addModified(modified, del, -1) /\ UNCHANGED <<ino, used>>
    <3>1. modified' \in [Dirs -> Int]
      BY <1>1, <2>3, CountersType
    <3>2. deleted' \in [Paths -> Inodes \cup {0}]
      BY <1>1, <2>3
    <3> QED
      BY <2>1, <2>2, <2>3, <3>1, <3>2, NamesKept DEF NamesInv, TypeOK
  <2>4. CASE /\ used < MaxInodes /\ used' = used + 1
             /\ ino' = [ino EXCEPT ![used + 1] = [NoNode EXCEPT !.st = "DELETED", !.path = del]]
             /\ deleted' = [deleted EXCEPT ![del] = used + 1]
             /\ modified' = addModified(modified, del, 1)
    <3> DEFINE tomb == [NoNode EXCEPT !.st = "DELETED", !.path = del]
    <3>1. used \in Nat /\ used + 1 \in Inodes
      BY <2>4, BoundsAssumption DEF NamesInv, NextIsUnlisted, Inodes
    <3>2. tomb \in NodeSet
      BY <1>1, InitialTypes DEF NodeSet
    <3> HIDE DEF tomb
    <3>3. ino' \in [Inodes -> NodeSet] /\ deleted' \in [Paths -> Inodes \cup {0}]
      BY <1>1, <2>4, <3>1, <3>2 DEF tomb
    <3>4. modified' \in [Dirs -> Int]
      BY <1>1, <2>4, CountersType
    <3>5. NextIsUnlisted'
      BY <1>1, <2>1, <2>4, <3>1 DEF NamesInv, NextIsUnlisted, Inodes
    <3>6. \A p \in Paths : child[p] # used + 1
      BY <1>1, <3>1 DEF NamesInv, NextIsUnlisted, Inodes
    <3>7. ChildrenNamed'
      BY <1>1, <2>1, <2>4, <3>6 DEF NamesInv, ChildrenNamed
    <3> QED
      BY <2>1, <2>2, <3>3, <3>4, <3>5, <3>7 DEF NamesInv, TypeOK
  <2> QED
    BY <1>5, <2>3, <2>4 DEF RenameRemoved
<1>6. CASE RenameRetries(i)
  <2> DEFINE x == [ino[i] EXCEPT !.old = NoPath, !.renamingTo = FALSE, !.awaiting = FALSE,
                                 !.staged = TRUE]
             st == IF x.st = "CACHED" THEN "MODIFIED" ELSE x.st
             y == [x EXCEPT !.st = st]
             m == Recount(modified, x, st)
             g == [job[i] EXCEPT !.pc = "retried", !.from = ino[i].old]
  <2>1. /\ job' = [job EXCEPT ![i] = g] /\ ino' = [ino EXCEPT ![i] = y]
        /\ modified' = m /\ UNCHANGED <<child, deleted, look, store, used>>
    BY <1>6 DEF RenameRetries
  <2>2. g \in JobSet /\ g.pc # "copy"
    BY <1>1 DEF JobSet, Pcs
  <2>4. x \in NodeSet /\ x.path = ino[i].path /\ x.st = ino[i].st
    BY <1>1, InitialTypes DEF NodeSet
  <2>5. m \in [Dirs -> Int]
    BY <1>1, RecountType
  <2> HIDE DEF x, m, g
  <2>6. st \in States /\ (ino[i].st \in Live => st \in Live)
    BY <1>1, <2>4, InitialTypes
  <2> HIDE DEF st
  <2>7. y \in NodeSet /\ y.path = ino[i].path /\ y.st = st
    BY <2>4, <2>6 DEF NodeSet
  <2> HIDE DEF y
  <2>8. ino' \in [Inodes -> NodeSet] /\ ChildrenNamed' /\ NextIsUnlisted'
    BY <2>1, <2>6, <2>7, NodeStep
  <2>9. job' \in [Workers -> JobSet] /\ CopiesHaveSource'
    BY <1>1, <2>1, <2>2, JobStep
  <2> QED
    BY <2>1, <2>5, <2>8, <2>9 DEF NamesInv, TypeOK
<1>7. CASE RenameMissing(i)
  <2> DEFINE y == [Reset(ino[i], "CACHED") EXCEPT !.old = NoPath, !.renamingTo = FALSE,
                                                  !.dropped = TRUE]
             m == Recount(modified, ino[i], "CACHED")
             g == [job[i] EXCEPT !.pc = "dropped", !.from = ino[i].old, !.to = ino[i].path]
  <2>1. /\ job' = [job EXCEPT ![i] = g] /\ ino' = [ino EXCEPT ![i] = y]
        /\ modified' = m /\ UNCHANGED <<child, deleted, look, store, used>>
    BY <1>7 DEF RenameMissing
  <2>2. g \in JobSet /\ g.pc # "copy"
    BY <1>1 DEF JobSet, Pcs
  <2>5. Reset(ino[i], "CACHED") \in NodeSet /\ Reset(ino[i], "CACHED").path = ino[i].path
        /\ Reset(ino[i], "CACHED").st = "CACHED"
    BY <1>1, ResetType, InitialTypes
  <2>6. y \in NodeSet /\ y.path = ino[i].path /\ y.st = "CACHED"
    BY <2>5, InitialTypes DEF NodeSet
  <2>7. m \in [Dirs -> Int]
    BY <1>1, RecountType
  <2> HIDE DEF y, m, g
  <2>8. job' \in [Workers -> JobSet] /\ CopiesHaveSource'
    BY <1>1, <2>1, <2>2, JobStep
  <2>9. ino' \in [Inodes -> NodeSet] /\ ChildrenNamed' /\ NextIsUnlisted'
    BY <2>1, <2>6, NodeStep DEF Live
  <2> QED
    BY <2>1, <2>7, <2>8, <2>9 DEF NamesInv, TypeOK
<1>10. CASE RenameUnlinks(i)
  <2>1. /\ job' = [job EXCEPT ![i].pc = "unlinked"]
        /\ UNCHANGED <<ino, deleted, modified, look, store, used>>
    BY <1>10 DEF RenameUnlinks
  <2>2. child' = child \/ child' = [child EXCEPT ![ino[i].path] = 0]
    BY <1>10 DEF RenameUnlinks
  <2>3. job' \in [Workers -> JobSet] /\ CopiesHaveSource'
    BY <1>1, <2>1, JobGoesOn DEF Pcs
  <2>4. \A p \in Paths : child'[p] = 0 \/ child'[p] = child[p]
    BY <1>1, <2>2
  <2>5. child' \in [Paths -> Inodes \cup {0}]
    BY <1>1, <2>2
  <2>6. NextIsUnlisted' /\ ChildrenNamed'
    BY <1>1, <2>1, <2>4 DEF NamesInv, NextIsUnlisted, ChildrenNamed
  <2> QED
    BY <2>1, <2>3, <2>5, <2>6 DEF NamesInv, TypeOK
<1>11. CASE RenameFrees(i)
  <2>1. job' = [job EXCEPT ![i].pc = "end"] /\ UNCHANGED <<ino, child, look, store, used>>
    BY <1>11 DEF RenameFrees
  <2>2. deleted' = deleted \/ deleted' = [deleted EXCEPT ![job[i].from] = 0]
    BY <1>11 DEF RenameFrees
  <2>3. modified' = modified \/ modified' = addModified(modified, job[i].from, -1)
    BY <1>11 DEF RenameFrees
  <2>4. job' \in [Workers -> JobSet] /\ CopiesHaveSource'
    BY <1>1, <2>1, JobGoesOn DEF Pcs
  <2>5. addModified(modified, job[i].from, -1) \in [Dirs -> Int]
    BY <1>1, CountersType
  <2>6. deleted' \in [Paths -> Inodes \cup {0}] /\ modified' \in [Dirs -> Int]
    BY <1>1, <2>2, <2>3, <2>5
  <2> QED
    BY <2>1, <2>4, <2>6, NamesKept DEF NamesInv, TypeOK
<1>8. CASE RenameError(i)
  <2> DEFINE back == ino[i].path = job[i].from
             old == IF back THEN NoPath ELSE ino[i].old
             aw == ino[i].awaiting /\ ~back
             x == [ino[i] EXCEPT !.renamingTo = FALSE, !.old = old, !.awaiting = aw]
             st == IF back /\ Flushable(x) /\ ~isStillDirty(x) /\ ~x.staged THEN "CACHED" ELSE x.st
             y == [x EXCEPT !.st = st]
             m == Recount(modified, x, st)
  <2>1. /\ job' = [job EXCEPT ![i].pc = "end"] /\ ino' = [ino EXCEPT ![i] = y]
        /\ UNCHANGED <<child, deleted, look, store, used>>
    BY <1>8 DEF RenameError
  <2>2. modified' = m \/ modified' = addModified(m, x.path, -1)
    BY <1>8 DEF RenameError
  <2>3. old \in Place /\ aw \in BOOLEAN
    BY <1>1, InitialTypes
  <2> HIDE DEF old, aw
  <2>4. x \in NodeSet /\ x.path = ino[i].path /\ x.st = ino[i].st
    BY <1>1, <2>3 DEF NodeSet
  <2>5. m \in [Dirs -> Int] /\ addModified(m, x.path, -1) \in [Dirs -> Int]
    BY <1>1, RecountType, CountersType
  <2> HIDE DEF x, m
  <2>6. st \in States /\ (ino[i].st \in Live => st \in Live)
    BY <1>1, <2>4, InitialTypes
  <2> HIDE DEF st
  <2>7. y \in NodeSet /\ y.path = ino[i].path /\ y.st = st
    BY <2>4, <2>6 DEF NodeSet
  <2> HIDE DEF y
  <2>8. ino' \in [Inodes -> NodeSet] /\ ChildrenNamed' /\ NextIsUnlisted'
    BY <2>1, <2>6, <2>7, NodeStep
  <2>9. job' \in [Workers -> JobSet] /\ CopiesHaveSource'
    BY <1>1, <2>1, JobGoesOn DEF Pcs
  <2> QED
    BY <2>1, <2>2, <2>5, <2>8, <2>9 DEF NamesInv, TypeOK
<1>9. CASE RenameReturns(i)
  <2>1. /\ job' = [job EXCEPT ![i] = NoJob]
        /\ UNCHANGED <<ino, child, deleted, modified, look, store, used>>
    BY <1>9 DEF RenameReturns
  <2>2. job' \in [Workers -> JobSet] /\ CopiesHaveSource'
    BY <1>1, <2>1, JobEnds
  <2> QED
    BY <2>1, <2>2, NamesKept DEF NamesInv, TypeOK
<1> QED
  BY <1>2, <1>3, <1>4, <1>5, <1>6, <1>7, <1>8, <1>9, <1>10, <1>11

(* SendDelete's goroutine lets the inode die; it has no name any more. *)
LEMMA NamesSendDelete ==
    ASSUME NamesInv, NEW i \in Inodes, SendDelete(i) \/ DeleteReturns(i)
    PROVE  NamesInv'
<1>1. /\ ino \in [Inodes -> NodeSet] /\ job \in [Workers -> JobSet] /\ i \in Workers
      /\ ino[i] \in NodeSet /\ ino[i].st \in States
      /\ modified \in [Dirs -> Int] /\ deleted \in [Paths -> Inodes \cup {0}]
  BY WorkersOfInodes DEF NamesInv, TypeOK, NodeSet
<1>2. CASE SendDelete(i)
  <2>1. DeleteBlob(i, "gone")
    BY <1>2 DEF SendDelete
  <2> QED
    BY <2>1, NamesDeleteBlob DEF Pcs
<1>3. CASE DeleteReturns(i)
  <2> DEFINE st == IF ino[i].st = "DELETED" THEN "DEAD" ELSE ino[i].st
             old == job[i].to
             m == Recount(modified, ino[i], st)
  <2>1. job' = [job EXCEPT ![i] = NoJob] /\ UNCHANGED <<child, look, store, used>>
    BY <1>3 DEF DeleteReturns
  <2>2. job' \in [Workers -> JobSet] /\ CopiesHaveSource'
    BY <1>1, <2>1, JobEnds
  <2>3. st \in States /\ (ino[i].st \in Live => st \in Live)
    BY <1>1, InitialTypes DEF Live
  <2>4. m \in [Dirs -> Int] /\ addModified(m, old, -1) \in [Dirs -> Int]
    BY <1>1, RecountType, CountersType
  <2>5. \/ /\ ino' = [ino EXCEPT ![i] = Reset(ino[i], st)]
           /\ deleted' = [p \in Paths |-> IF p \in {old, ino[i].path} THEN 0 ELSE deleted[p]]
           /\ modified' = m \/ modified' = addModified(m, old, -1)
        \/ UNCHANGED <<ino, deleted, modified>>
    BY <1>3 DEF DeleteReturns
  <2> HIDE DEF st, m
  <2>6. CASE /\ ino' = [ino EXCEPT ![i] = Reset(ino[i], st)]
             /\ deleted' = [p \in Paths |-> IF p \in {old, ino[i].path} THEN 0 ELSE deleted[p]]
             /\ modified' = m \/ modified' = addModified(m, old, -1)
    <3>1. Reset(ino[i], st) \in NodeSet /\ Reset(ino[i], st).path = ino[i].path
          /\ Reset(ino[i], st).st = st
      BY <1>1, <2>3, ResetType
    <3>2. ino' \in [Inodes -> NodeSet] /\ ChildrenNamed' /\ NextIsUnlisted'
      BY <2>1, <2>3, <2>6, <3>1, NodeStep
    <3>3. deleted' \in [Paths -> Inodes \cup {0}]
      BY <1>1, <2>6
    <3> QED
      BY <2>1, <2>2, <2>4, <2>6, <3>2, <3>3 DEF NamesInv, TypeOK
  <2>7. CASE UNCHANGED <<ino, deleted, modified>>
    BY <2>1, <2>2, <2>7, NamesKept DEF NamesInv, TypeOK
  <2> QED
    BY <2>5, <2>6, <2>7
<1> QED
  BY <1>2, <1>3

-------------------------------------------------------------------------------
(* The invariant of the names is inductive. *)
LEMMA NamesStep == NamesInv /\ [Next]_vars => NamesInv'
<1> SUFFICES ASSUME NamesInv, [Next]_vars PROVE NamesInv'
  OBVIOUS
<1>1. CASE Application
  <2>1. \A m \in Moves : m[1] \in Paths /\ m[2] \in Paths
    BY PathsAssumption
  <2> QED
    BY <1>1, <2>1, NamesCreate, NamesWrite, NamesRename, NamesUnlink DEF Application
<1>2. CASE Flusher
  BY <1>2, NamesFlusher
<1>3. ASSUME NEW i \in Inodes, Work(i) PROVE NamesInv'
  BY <1>3, NamesPut, NamesSendRename, NamesSendDelete DEF Work
<1>4. CASE Remote
  BY <1>4 DEF Remote, RemoteDelete, NamesInv, TypeOK, CopiesHaveSource, NextIsUnlisted, ChildrenNamed
<1>5. CASE UNCHANGED vars
  BY <1>5 DEF vars, NamesInv, TypeOK, CopiesHaveSource, NextIsUnlisted, ChildrenNamed
<1> QED
  BY <1>1, <1>2, <1>3, <1>4, <1>5 DEF Next

(* Whatever is created, renamed, removed and flushed in whatever order, the directory
   cache lists every live file under exactly the name it carries, so that
   removeChildUnlocked finds the child it is asked to remove. *)
THEOREM NamesCorrect == Spec => []NamesAgree
<1>1. NamesInv => NamesAgree
  BY DEF NamesInv, NamesAgree
<1> QED
  BY <1>1, NamesInit, NamesStep, PTL DEF Spec
-------------------------------------------------------------------------------
(* Files and their objects.  No request fails, nothing is staged or overwritten, files only
   move to directories of a higher rank, and are not removed from where they were moved to.
   Other clients may remove objects, and then sendRename gives up files it does not find; the
   numbers of files, writes and renames are left open.
   Without any one of these conditions one of the properties below fails (README.md, the
   list after the runs). *)

Ordered(rank) == \A m \in Moves : rank[Dir(m[1])] < rank[Dir(m[2])]
Targets == {m[2] : m \in Moves}
Forward ==
    /\ ~Overwrite /\ ~Staged /\ MaxFaults = 0
    /\ \E rank \in [Dirs -> Nat] : Ordered(rank)
    /\ Unlinks \cap Targets = {}

Level == CHOOSE rank \in [Dirs -> Nat] : Ordered(rank)
At(p) == Level[Dir(p)]

Puts    == {"put", "send", "sent"}
Copies  == {"copy", "copied", "missing"}
Removes == {"remove", "removed"}
Deletes == {"delete", "gone"}

(* The inode that may write or remove the object at p. *)
Holder(p) == IF deleted[p] # 0 THEN deleted[p] ELSE child[p]

(* An inode that has, or may get, an object at the path it is listed under. *)
Uses(i) ==
    /\ Linked(i) /\ (ino[i].st # "CREATED" \/ job[i].pc # "idle")
    /\ ino[i].old = NoPath \/ ino[i].renamingTo

NodeInv(i) ==
    LET x == ino[i]
        j == job[i]
    IN  /\ ~x.staged /\ ~x.awaiting /\ job[-i].pc = "idle"
        /\ i > used => x = NoNode
        /\ x.known <= x.ver
        /\ x.st \in {"NONE", "DEAD"} => j.pc = "idle"
        /\ x.st \in {"CREATED", "MODIFIED"} =>
               x.path \in Paths /\ child[x.path] = i /\ (x.ver # x.known => x.cached)
        /\ x.st = "CREATED" => /\ x.known = -1 /\ j.pc \in {"idle"} \cup Puts
                               /\ x.old # NoPath => j.pc \in Puts
        /\ x.st = "MODIFIED" => x.known >= 0 /\ (x.old # NoPath \/ x.ver # x.known)
        /\ x.st = "CACHED" => /\ x.old = NoPath /\ j.pc \in {"idle", "end"} \cup Removes
                              /\ x.path \in Paths /\ (child[x.path] = i => x.ver = x.known)
        /\ x.st = "DELETED" => /\ x.path \in Paths /\ deleted[x.path] = i
                               /\ j.pc \in {"idle"} \cup Puts \cup Deletes
        /\ x.old # NoPath => /\ x.st \in {"CREATED", "MODIFIED"} /\ x.path \in Targets
                             /\ At(x.old) < At(x.path) /\ deleted[x.old] = i
        /\ x.renamingTo => j.pc \in Copies
        /\ Uses(i) => deleted[x.path] = 0

JobInv(i) ==
    LET x == ino[i]
        j == job[i]
    IN  /\ j.ok /\ j.pc \notin {"error", "dropped", "unlinked", "retried"}
        /\ j.pc = "missing" => remote # 0
        /\ j.pc \in Puts /\ x.st # "DELETED" => x.ver # x.known
        /\ j.pc \in {"send", "sent"} => j.to = SourceKey(x) /\ j.to \in Paths /\ j.ver <= x.ver
        /\ j.pc \in Copies =>
             /\ x.st = "MODIFIED" /\ x.old = j.from /\ j.from \in Paths /\ j.to \in Paths
             /\ At(j.from) < At(j.to)
             /\ x.renamingTo => j.to = x.path
             /\ ~x.renamingTo => At(j.to) < At(x.path) /\ deleted[j.to] = i
        /\ j.pc \in Removes => /\ j.from \in Paths /\ deleted[j.from] = i
                               /\ At(j.from) < At(SourceKey(x)) /\ x.st \in {"MODIFIED", "CACHED"}
        /\ j.pc \in Copies \cup Removes \cup {"end"} => x.path \in Targets
        /\ j.pc \in Deletes => x.st = "DELETED" /\ j.from = x.path /\ j.to = NoPath

(* The object of inode i at p is there with a version in V, unless another client removed it. *)
Holds(i, p, V) ==
    \/ remote # 0 /\ store[p] = NoObject
    \/ store[p] \in Objects /\ store[p].ino = i /\ store[p].ver \in V

(* The versions an object may have: the last one, if the inode has nothing to upload. *)
Current(x) == IF x.ver = x.known THEN {x.ver} ELSE Versions

StoredInv(i) ==
    LET x == ino[i]
        j == job[i]
    IN  /\ j.pc = "missing" => store[j.from] = NoObject
        /\ j.pc = "sent" /\ x.st # "DELETED" => Holds(i, j.to, {j.ver})
        /\ j.pc = "copied" => Holds(i, j.to, Current(x))
        /\ Linked(i) /\ x.st # "CREATED" => Holds(i, SourceKey(x), Current(x))

(* Marks stay behind. *)
MarksInv(i) ==
    \A p \in Paths : deleted[p] = i => ino[i].path \in Paths /\ At(p) <= At(ino[i].path)

(* The flusher between its look at the directory and its lock of the inode. *)
LookInv(i) ==
    look.ino = i =>
        /\ look.dir \in Dirs /\ ino[i].path \in Paths /\ Level[look.dir] <= At(ino[i].path)
        /\ ~look.over /\ Dir(ino[i].path) = look.dir /\ Linked(i) => deleted[ino[i].path] = 0

(* Why an object of inode i is at p. *)
Owes(i, p) ==
    \/ Linked(i) /\ p = SourceKey(ino[i]) /\ (ino[i].st # "CREATED" \/ job[i].pc = "sent")
    \/ ino[i].st = "DELETED" /\ ino[i].path = p /\ job[i].pc # "gone"
    \/ job[i].pc = "remove" /\ job[i].from = p
    \/ job[i].pc = "copied" /\ job[i].to = p
ObjectsInv(i) ==
    \A p \in Paths : store[p] # NoObject /\ store[p].ino = i => Owes(i, p)

(* Why inode i keeps a mark at p. *)
Reason(i, p) ==
    \/ ino[i].st = "DELETED" /\ ino[i].path = p
    \/ ino[i].old = p
    \/ job[i].pc \in Copies /\ job[i].to = p /\ ~ino[i].renamingTo
    \/ job[i].pc \in Removes /\ job[i].from = p
ReasonsInv(i) ==
    remote = 0 => \A p \in Paths : deleted[p] = i => Reason(i, p)

FileInv(i) ==
    /\ NodeInv(i) /\ JobInv(i) /\ StoredInv(i) /\ MarksInv(i) /\ LookInv(i) /\ ObjectsInv(i)
    /\ ReasonsInv(i)
FilesInv == faults = 0 /\ remote \in Nat /\ \A i \in Inodes : FileInv(i)

(* Another client has removed an object and sendRename has given up its file: what was written
   to the file meanwhile may still be uploaded, and FilesInv is no longer kept. *)
Gone ==
    /\ remote \in Nat \ {0} /\ used \in Nat
    /\ \E k \in Inodes : k <= used /\ ino[k].dropped

(* A step of inode i: what it may change of the directories and the store. *)
StepOf(i) ==
    /\ \A k \in Inodes \ {i} : ino'[k] = ino[k] /\ job'[k] = job[k] /\ job'[-k] = job[-k]
    /\ \A p \in Paths : \/ child'[p] = child[p]
                        \/ child[p] \in {0, i} /\ child'[p] \in {0, i}
    /\ \A p \in Paths : \/ deleted'[p] = deleted[p]
                        \/ deleted[p] = i /\ deleted'[p] = 0
                        \/ deleted[p] = 0 /\ child[p] = i /\ deleted'[p] = i
    /\ \A p \in Paths : \/ store'[p] = store[p]
                        \/ Holder(p) = i /\ (store'[p] = NoObject \/ store'[p].ino = i)
    /\ used' \in {used, used + 1} /\ remote' = remote
    /\ look' = look \/ look'.ino \in {0, i}

(* The ranks of the directories increase with every move. *)
LEMMA LevelUp ==
    ASSUME Forward
    PROVE  /\ Level \in [Dirs -> Nat]
           /\ \A m \in Moves : At(m[1]) < At(m[2])
<1>1. PICK rank \in [Dirs -> Nat] : Ordered(rank)
  BY DEF Forward
<1>2. Level \in [Dirs -> Nat] /\ Ordered(Level)
  BY <1>1 DEF Level
<1> QED
  BY <1>2 DEF Ordered, At

(* The rank of a path is a natural number. *)
LEMMA AtNat ==
    ASSUME Forward
    PROVE  \A p \in Paths : Dir(p) \in Dirs /\ At(p) \in Nat
BY LevelUp DEF At, Dir, Paths

(* The types of the parts of an inode and a job. *)
LEMMA PartTypes ==
    ASSUME NamesInv, NEW i \in Inodes
    PROVE  /\ ino[i] \in NodeSet /\ job[i] \in JobSet /\ job[-i] \in JobSet
           /\ i \in Nat /\ i # 0 /\ used \in Nat
           /\ ino[i].st \in States /\ ino[i].path \in Place /\ ino[i].old \in Place
           /\ ino[i].ver \in Nat /\ ino[i].known \in Int /\ job[i].ver \in Nat
           /\ job[i].pc \in Pcs /\ job[i].from \in Place /\ job[i].to \in Place
           /\ ino[i].ver \in Versions /\ ino[i].known \in Known /\ job[i].ver \in Versions
           /\ ino[i].old # NoPath => ino[i].old \in Paths
           /\ ino[i].renamingTo \in BOOLEAN /\ ino[i].cached \in BOOLEAN
           /\ ino[i].staged \in BOOLEAN /\ ino[i].awaiting \in BOOLEAN /\ job[i].ok \in BOOLEAN
<1>1. ino[i] \in NodeSet /\ job[i] \in JobSet /\ job[-i] \in JobSet
  BY WorkersOfInodes DEF NamesInv, TypeOK
<1>2. i \in Nat /\ i # 0 /\ used \in Nat
  BY BoundsAssumption DEF Inodes, NamesInv, NextIsUnlisted
<1>3. \A v \in Versions : v \in Nat
  BY BoundsAssumption DEF Versions
<1>4. \A v \in Known : v \in Int
  BY BoundsAssumption DEF Known
<1>5. \A q \in Place : q # NoPath => q \in Paths
  BY InitialTypes
<1>6. ino[i].ver \in Versions /\ ino[i].known \in Known /\ job[i].ver \in Versions
  BY <1>1 DEF NodeSet, JobSet
<1>7. ino[i].st \in States /\ ino[i].path \in Place /\ ino[i].old \in Place
  BY <1>1 DEF NodeSet
<1>8. job[i].pc \in Pcs /\ job[i].from \in Place /\ job[i].to \in Place
  BY <1>1 DEF JobSet
<1>9. /\ ino[i].renamingTo \in BOOLEAN /\ ino[i].cached \in BOOLEAN
      /\ ino[i].staged \in BOOLEAN /\ ino[i].awaiting \in BOOLEAN /\ job[i].ok \in BOOLEAN
  BY <1>1 DEF NodeSet, JobSet
<1> QED
  BY <1>1, <1>2, <1>3, <1>4, <1>5, <1>6, <1>7, <1>8, <1>9

(* Every key an inode's requests or its content depend on is held by it. *)
KeysHeld(i) ==
    /\ job[i].pc \in {"send", "sent"} => job[i].to \in Paths /\ Holder(job[i].to) = i
    /\ job[i].pc \in Copies =>
         /\ job[i].from \in Paths /\ Holder(job[i].from) = i /\ job[i].to \in Paths /\ Holder(job[i].to) = i
    /\ job[i].pc \in Removes \cup Deletes => job[i].from \in Paths /\ Holder(job[i].from) = i
    /\ Linked(i) /\ ino[i].st # "CREATED"
         => SourceKey(ino[i]) \in Paths /\ Holder(SourceKey(ino[i])) = i

(* An inode at a path that another one has yet to leave has no object there. *)
LEMMA KeysAreHeld ==
    ASSUME NamesInv, NEW i \in Inodes, NodeInv(i), JobInv(i)
    PROVE  KeysHeld(i)
<1> DEFINE x == ino[i]
           j == job[i]
<1>1. i # 0 /\ x.path \in Place /\ (x.old # NoPath => x.old \in Paths) /\ x.st \in States
  BY PartTypes
<1>2. x.old # NoPath => x.old \in Paths /\ Holder(x.old) = i
  BY <1>1 DEF NodeInv, Holder
<1>3. Uses(i) => x.path \in Paths /\ Holder(x.path) = i
  BY DEF NodeInv, Holder, Uses, Linked
<1>4. Linked(i) => x.st \in {"CREATED", "MODIFIED", "CACHED"}
  BY <1>1 DEF Linked, NamesInv, ChildrenNamed
<1>5. x.st = "DELETED" => x.path \in Paths /\ Holder(x.path) = i
  BY <1>1 DEF NodeInv, Holder
<1>6. ASSUME j.pc \in {"send", "sent"} PROVE j.to \in Paths /\ Holder(j.to) = i
  <2>1. j.to = SourceKey(x) /\ j.to \in Paths /\ j.pc \in Puts /\ j.pc # "idle"
    BY <1>6 DEF JobInv, Puts
  <2>2. CASE x.old # NoPath
    BY <1>2, <2>1, <2>2 DEF SourceKey
  <2>3. CASE x.old = NoPath
    <3>1. j.to = x.path
      BY <2>1, <2>3 DEF SourceKey
    <3>2. x.st \notin {"NONE", "DEAD", "CACHED"}
      BY <1>6 DEF NodeInv, Removes
    <3>3. CASE x.st = "DELETED"
      BY <1>5, <3>1, <3>3
    <3>4. CASE x.st \in {"CREATED", "MODIFIED"}
      <4>1. Uses(i)
        BY <2>1, <2>3, <3>4 DEF NodeInv, Uses, Linked
      <4> QED
        BY <1>3, <3>1, <4>1
    <3> QED
      BY <1>1, <3>2, <3>3, <3>4 DEF States
  <2> QED
    BY <2>2, <2>3
<1>7. ASSUME j.pc \in Copies
      PROVE  j.from \in Paths /\ Holder(j.from) = i /\ j.to \in Paths /\ Holder(j.to) = i
  <2>1. /\ x.st = "MODIFIED" /\ x.old = j.from /\ j.from \in Paths /\ j.to \in Paths
        /\ x.renamingTo => j.to = x.path
        /\ ~x.renamingTo => deleted[j.to] = i
    BY <1>7 DEF JobInv
  <2>2. x.old # NoPath
    BY <2>1, PathsAssumption
  <2>3. x.renamingTo => Uses(i)
    BY <2>1 DEF Uses, NodeInv, Linked
  <2>4. ~x.renamingTo => Holder(j.to) = i
    BY <1>1, <2>1 DEF Holder
  <2> QED
    BY <1>2, <1>3, <2>1, <2>2, <2>3, <2>4
<1>8. ASSUME j.pc \in Removes \cup Deletes PROVE j.from \in Paths /\ Holder(j.from) = i
  <2>1. CASE j.pc \in Removes
    BY <1>1, <2>1 DEF JobInv, Holder
  <2>2. CASE j.pc \in Deletes
    BY <1>5, <2>2 DEF JobInv
  <2> QED
    BY <1>8, <2>1, <2>2
<1>9. ASSUME Linked(i), x.st # "CREATED" PROVE SourceKey(x) \in Paths /\ Holder(SourceKey(x)) = i
  <2>1. x.old = NoPath => Uses(i)
    BY <1>9 DEF Uses
  <2> QED
    BY <1>2, <1>3, <2>1 DEF SourceKey
<1> QED
  BY <1>6, <1>7, <1>8, <1>9 DEF KeysHeld

(* A path has one holder. *)
LEMMA OthersKeys ==
    ASSUME NamesInv, NEW i \in Inodes, StepOf(i), NEW k \in Inodes \ {i}, KeysHeld(k)
    PROVE  /\ job[k].pc \in {"send", "sent"} => store'[job[k].to] = store[job[k].to]
           /\ job[k].pc \in Copies => store'[job[k].from] = store[job[k].from]
                                      /\ store'[job[k].to] = store[job[k].to]
           /\ Linked(k) /\ ino[k].st # "CREATED"
                => store'[SourceKey(ino[k])] = store[SourceKey(ino[k])]
<1>1. \A p \in Paths : Holder(p) = k => store'[p] = store[p]
  BY DEF StepOf
<1> QED
  BY <1>1 DEF KeysHeld

(* What a step of one inode leaves to the others. *)
LEMMA OthersLinks ==
    ASSUME NamesInv, NEW i \in Inodes, StepOf(i), NEW k \in Inodes \ {i}
    PROVE  /\ ino'[k] = ino[k] /\ job'[k] = job[k] /\ job'[-k] = job[-k] /\ k # 0
           /\ \A p \in Paths : child'[p] = k <=> child[p] = k
           /\ \A p \in Paths : deleted'[p] = k <=> deleted[p] = k
           /\ \A p \in Paths : child[p] = k /\ deleted[p] = 0 => deleted'[p] = 0
           /\ k > used' => k > used
           /\ Linked(k)' <=> Linked(k)
           /\ look'.ino = k => look' = look
<1>1. k \in Nat /\ k # 0 /\ used \in Nat /\ i # 0
  BY PartTypes
<1>2. ino'[k] = ino[k] /\ job'[k] = job[k] /\ job'[-k] = job[-k]
  BY DEF StepOf
<1>3. \A p \in Paths : child'[p] = k <=> child[p] = k
  BY <1>1 DEF StepOf
<1>4. \A p \in Paths : deleted'[p] = k <=> deleted[p] = k
  BY <1>1 DEF StepOf
<1>5. \A p \in Paths : child[p] = k /\ deleted[p] = 0 => deleted'[p] = 0
  BY <1>1 DEF StepOf
<1>6. k > used' => k > used
  BY <1>1 DEF StepOf
<1>7. Linked(k)' <=> Linked(k)
  BY <1>2, <1>3 DEF Linked
<1>8. look'.ino = k => look' = look
  BY <1>1 DEF StepOf
<1> QED
  BY <1>1, <1>2, <1>3, <1>4, <1>5, <1>6, <1>7, <1>8

(* A step of one inode keeps the invariant of the others. *)
LEMMA OthersKept ==
    ASSUME NamesInv, NEW i \in Inodes, StepOf(i), NEW k \in Inodes \ {i}, FileInv(k)
    PROVE  FileInv(k)'
<1>1. /\ ino'[k] = ino[k] /\ job'[k] = job[k] /\ job'[-k] = job[-k] /\ k # 0
      /\ \A p \in Paths : child'[p] = k <=> child[p] = k
      /\ \A p \in Paths : deleted'[p] = k <=> deleted[p] = k
      /\ \A p \in Paths : child[p] = k /\ deleted[p] = 0 => deleted'[p] = 0
      /\ k > used' => k > used
      /\ Linked(k)' <=> Linked(k)
      /\ look'.ino = k => look' = look
  BY OthersLinks
<1>2. NodeInv(k) /\ JobInv(k) /\ StoredInv(k) /\ MarksInv(k) /\ LookInv(k) /\ ObjectsInv(k)
      /\ ReasonsInv(k)
  BY DEF FileInv
<1>3. remote' = remote
  BY DEF StepOf
<1>4. ino[k].path \in Place /\ (ino[k].old # NoPath => ino[k].old \in Paths) /\ k \in Inodes
  BY PartTypes
<1>5. NodeInv(k)'
  <2>1. Uses(k)' => deleted'[ino'[k].path] = 0
    <3>1. Uses(k)' => Uses(k)
      BY <1>1 DEF Uses
    <3>2. Uses(k) => ino[k].path \in Paths /\ child[ino[k].path] = k /\ deleted[ino[k].path] = 0
      BY <1>2 DEF NodeInv, Uses, Linked
    <3> QED
      BY <1>1, <3>1, <3>2
  <2>2. ino'[k].st = "CACHED" =>
           /\ ino'[k].old = NoPath /\ job'[k].pc \in {"idle", "end"} \cup Removes
           /\ ino'[k].path \in Paths /\ (child'[ino'[k].path] = k => ino'[k].ver = ino'[k].known)
    BY <1>1, <1>2 DEF NodeInv
  <2>3. ino'[k].st \in {"CREATED", "MODIFIED"} =>
           /\ ino'[k].path \in Paths /\ child'[ino'[k].path] = k
           /\ (ino'[k].ver # ino'[k].known => ino'[k].cached)
    BY <1>1, <1>2 DEF NodeInv
  <2>4. ino'[k].st = "DELETED" => /\ ino'[k].path \in Paths /\ deleted'[ino'[k].path] = k
                                  /\ job'[k].pc \in {"idle"} \cup Puts \cup Deletes
    BY <1>1, <1>2 DEF NodeInv
  <2>5. ino'[k].old # NoPath =>
           /\ ino'[k].st \in {"CREATED", "MODIFIED"} /\ ino'[k].path \in Targets
           /\ At(ino'[k].old) < At(ino'[k].path) /\ deleted'[ino'[k].old] = k
    BY <1>1, <1>2, <1>4 DEF NodeInv
  <2> QED
    BY <1>1, <1>2, <2>1, <2>2, <2>3, <2>4, <2>5 DEF NodeInv
<1>6. JobInv(k)'
  BY <1>1, <1>2, <1>3 DEF JobInv
<1>7. StoredInv(k)'
  <2>1. KeysHeld(k)
    BY <1>2, KeysAreHeld
  <2>2. /\ job[k].pc \in {"send", "sent"} => store'[job[k].to] = store[job[k].to]
        /\ job[k].pc \in Copies => store'[job[k].from] = store[job[k].from]
                                   /\ store'[job[k].to] = store[job[k].to]
        /\ Linked(k) /\ ino[k].st # "CREATED"
             => store'[SourceKey(ino[k])] = store[SourceKey(ino[k])]
    BY <2>1, OthersKeys
  <2> QED
    BY <1>1, <1>2, <1>3, <2>2 DEF StoredInv, Holds, Copies
<1>8. MarksInv(k)'
  BY <1>1, <1>2 DEF MarksInv
<1>9. LookInv(k)'
  <2> SUFFICES ASSUME look'.ino = k PROVE LookInv(k)'
    BY DEF LookInv
  <2>1. look' = look
    BY <1>1
  <2>2. Linked(k) => ino[k].path \in Paths /\ child[ino[k].path] = k
    BY DEF Linked
  <2> QED
    BY <1>1, <1>2, <2>1, <2>2 DEF LookInv
<1>10. ObjectsInv(k)'
  <2>1. \A p \in Paths : store'[p] # NoObject /\ store'[p].ino = k => store'[p] = store[p]
    BY DEF StepOf
  <2>2. \A p \in Paths : Owes(k, p) => Owes(k, p)'
    BY <1>1 DEF Owes
  <2> QED
    BY <1>2, <2>1, <2>2 DEF ObjectsInv
<1>11. ReasonsInv(k)'
  BY <1>1, <1>2, <1>3 DEF ReasonsInv, Reason
<1> QED
  BY <1>5, <1>6, <1>7, <1>8, <1>9, <1>10, <1>11 DEF FileInv

(* So a step of inode i keeps the invariant of all files if it keeps its own. *)
LEMMA FilesStep ==
    ASSUME NamesInv, FilesInv, NEW i \in Inodes, StepOf(i), FileInv(i)', faults' = faults
    PROVE  FilesInv'
<1>1. \A k \in Inodes \ {i} : FileInv(k)'
  BY OthersKept DEF FilesInv
<1>2. remote' = remote
  BY DEF StepOf
<1> QED
  BY <1>1, <1>2 DEF FilesInv

-------------------------------------------------------------------------------
(* The files that were listed are stored. *)
LEMMA FilesInit ==
    ASSUME Forward, Init, NamesInv
    PROVE  FilesInv
<1>1. PICK f \in [Listed -> Initial] :
          /\ \A p \in Initial : \E i \in Listed : f[i] = p
          /\ ino = [i \in Inodes |-> IF i \in Listed
                      THEN [NoNode EXCEPT !.st = "CACHED", !.path = f[i], !.known = 0]
                      ELSE NoNode]
          /\ child = [p \in Paths |-> IF p \in Initial THEN CHOOSE i \in Listed : f[i] = p ELSE 0]
  BY DEF Init
<1>2. /\ store = [p \in Paths |-> IF p \in Initial THEN [ino |-> child[p], ver |-> 0] ELSE NoObject]
      /\ used = Cardinality(Initial) /\ deleted = [p \in Paths |-> 0]
      /\ look = NoLook /\ job = [w \in Workers |-> NoJob] /\ faults = 0 /\ remote = 0
  BY DEF Init
<1>3. IsFiniteSet(Initial) /\ Cardinality(Initial) \in Nat
  BY PathsAssumption, FS_Subset, FS_CardinalityType
<1>4. ASSUME NEW i \in Inodes PROVE FileInv(i)
  <2>1. i \in Nat /\ i # 0 /\ job[i] = NoJob /\ job[-i] = NoJob
    BY <1>2, BoundsAssumption, WorkersOfInodes DEF Inodes
  <2>2. /\ i \in Listed => ino[i] = [NoNode EXCEPT !.st = "CACHED", !.path = f[i], !.known = 0]
        /\ i \notin Listed => ino[i] = NoNode
    BY <1>1
  <2>3. i \in Listed => f[i] \in Paths
    BY <1>1, PathsAssumption
  <2>4. i > used => i \notin Listed
    BY <1>2, <1>3, <2>1 DEF Listed
  <2>5. /\ ino[i].old = NoPath /\ ~ino[i].staged /\ ~ino[i].awaiting /\ ~ino[i].renamingTo
        /\ ino[i].ver = 0 /\ ino[i].st \in {"NONE", "CACHED"}
        /\ ino[i].known \in {-1, 0}
        /\ ino[i].st = "CACHED" => ino[i].path \in Paths /\ ino[i].known = 0
        /\ ino[i].st = "NONE" => ino[i].path = NoPath
    <3>1. CASE i \in Listed
      <4>1. /\ ino[i].old = NoPath /\ ino[i].ver = 0 /\ ino[i].st = "CACHED"
            /\ ino[i].known = 0 /\ ino[i].path = f[i]
        BY <2>2, <3>1 DEF NoNode
      <4>2. ~ino[i].staged /\ ~ino[i].awaiting /\ ~ino[i].renamingTo
        BY <2>2, <3>1 DEF NoNode
      <4> QED
        BY <2>3, <3>1, <4>1, <4>2
    <3>2. CASE i \notin Listed
      <4>1. /\ ino[i].old = NoPath /\ ino[i].ver = 0 /\ ino[i].st = "NONE"
            /\ ino[i].known = -1 /\ ino[i].path = NoPath
        BY <2>2, <3>2 DEF NoNode
      <4>2. ~ino[i].staged /\ ~ino[i].awaiting /\ ~ino[i].renamingTo
        BY <2>2, <3>2 DEF NoNode
      <4> QED
        BY <4>1, <4>2
    <3> QED
      BY <3>1, <3>2
  <2>6. /\ job[i].pc = "idle" /\ job[-i].pc = "idle" /\ job[i].ok
    BY <2>1 DEF NoJob
  <2>7. \A p \in Paths : deleted[p] = 0
    BY <1>2
  <2>8. Linked(i) => ino[i].st = "CACHED" /\ store[ino[i].path] = [ino |-> i, ver |-> 0]
    <3> SUFFICES ASSUME Linked(i)
                 PROVE  ino[i].st = "CACHED" /\ store[ino[i].path] = [ino |-> i, ver |-> 0]
      OBVIOUS
    <3>1. ino[i].path \in Paths /\ child[ino[i].path] = i
      BY DEF Linked
    <3>2. ino[i].path \in Initial
      BY <1>1, <2>1, <3>1
    <3> QED
      BY <1>2, <2>5, <3>1, <3>2, PathsAssumption
  <2>9. NodeInv(i)
    <3>1. i > used => ino[i] = NoNode
      BY <2>2, <2>4
    <3>2. ino[i].known <= ino[i].ver
      BY <2>5
    <3>3. Uses(i) => deleted[ino[i].path] = 0
      BY <2>7 DEF Uses, Linked
    <3> QED
      BY <2>5, <2>6, <3>1, <3>2, <3>3 DEF NodeInv
  <2>10. JobInv(i)
    BY <2>6 DEF JobInv, Puts, Copies, Removes, Deletes
  <2>11. StoredInv(i)
    <3>1. Linked(i) => Holds(i, SourceKey(ino[i]), Current(ino[i]))
      <4> SUFFICES ASSUME Linked(i) PROVE Holds(i, SourceKey(ino[i]), Current(ino[i]))
        OBVIOUS
      <4>1. SourceKey(ino[i]) = ino[i].path /\ Current(ino[i]) = {0}
        BY <2>5, <2>8 DEF SourceKey, Current
      <4>2. [ino |-> i, ver |-> 0] \in Objects
        BY InitialTypes DEF Objects
      <4> QED
        BY <2>8, <4>1, <4>2 DEF Holds
    <3> QED
      BY <2>6, <3>1 DEF StoredInv
  <2>12. MarksInv(i) /\ ReasonsInv(i)
    BY <2>1, <2>7 DEF MarksInv, ReasonsInv
  <2>13. LookInv(i)
    BY <1>2, <2>1 DEF LookInv, NoLook
  <2>14. ObjectsInv(i)
    <3> SUFFICES ASSUME NEW p \in Paths, store[p] # NoObject, store[p].ino = i PROVE Owes(i, p)
      BY DEF ObjectsInv
    <3>1. p \in Initial /\ child[p] = i
      BY <1>2
    <3>2. ino[i].path = p /\ ino[i].st \in {"CREATED", "MODIFIED", "CACHED"}
      BY <2>1, <3>1 DEF NamesInv, ChildrenNamed
    <3> QED
      BY <2>5, <3>1, <3>2 DEF Owes, Linked, SourceKey
  <2> QED
    BY <2>9, <2>10, <2>11, <2>12, <2>13, <2>14 DEF FileInv
<1> QED
  BY <1>2, <1>4 DEF FilesInv

(* A step that changes nothing but the flusher's look. *)
LEMMA LookStep ==
    ASSUME NamesInv, FilesInv, NEW i \in Inodes,
           UNCHANGED <<ino, job, child, deleted, store, used, faults, remote>>,
           look'.ino \in {0, i}, LookInv(i)'
    PROVE  FilesInv'
<1>1. StepOf(i)
  BY DEF StepOf
<1>2. FileInv(i)
  BY DEF FilesInv
<1>3. NodeInv(i)' /\ JobInv(i)'
  BY <1>2 DEF FileInv, NodeInv, JobInv, Uses, Linked
<1>4. StoredInv(i)' /\ MarksInv(i)'
  BY <1>2 DEF FileInv, StoredInv, MarksInv, Holds, Linked
<1>5. ObjectsInv(i)' /\ ReasonsInv(i)'
  BY <1>2 DEF FileInv, ObjectsInv, ReasonsInv, Owes, Reason, Linked
<1>6. FileInv(i)'
  BY <1>3, <1>4, <1>5 DEF FileInv
<1> QED
  BY <1>1, <1>6, FilesStep

(* TryFlush looks whether the name is still left by another file. *)
LEMMA FilesTryFlush ==
    ASSUME Forward, NamesInv, FilesInv, NEW i \in Inodes, TryFlush(i)
    PROVE  FilesInv'
<1>1. /\ look' = [ino |-> i, dir |-> Dir(ino[i].path), over |-> deleted[ino[i].path] # 0]
      /\ ino[i].st \in {"CREATED", "MODIFIED", "DELETED"}
      /\ UNCHANGED <<ino, job, child, deleted, store, used, faults, remote>>
  BY DEF TryFlush, Counted
<1>2. ino[i].path \in Paths
  BY <1>1 DEF FilesInv, FileInv, NodeInv
<1>3. Dir(ino[i].path) \in Dirs /\ At(ino[i].path) \in Nat
  BY <1>2, AtNat
<1>4. look'.dir = Dir(ino[i].path) /\ look'.ino = i
  BY <1>1
<1>5. ~look'.over => deleted[ino[i].path] = 0
  BY <1>1
<1>6. LookInv(i)'
  BY <1>1, <1>2, <1>3, <1>4, <1>5 DEF LookInv, At
<1> QED
  BY <1>1, <1>4, <1>6, LookStep

(* The flusher leaves the inode alone. *)
LEMMA FilesFlushNothing ==
    ASSUME NamesInv, FilesInv, FlushNothing
    PROVE  FilesInv'
<1>1. PICK i \in Inodes : look.ino = i
  BY DEF FlushNothing, NamesInv, TypeOK
<1>2. /\ look'.ino = 0
      /\ UNCHANGED <<ino, job, child, deleted, store, used, faults, remote>>
  BY DEF FlushNothing, LookEnds, NoLook
<1>3. LookInv(i)'
  BY <1>2, PartTypes DEF LookInv
<1> QED
  BY <1>2, <1>3, LookStep

(* The two kinds of goroutines of different inodes are different. *)
LEMMA WorkersDiffer ==
    ASSUME NEW i \in Inodes, NEW k \in Inodes
    PROVE  i # -k /\ (k # i => -k # -i) /\ i \in Workers /\ -i \in Workers
BY BoundsAssumption, WorkersOfInodes DEF Inodes

(* A step that changes one inode and its job only. *)
LEMMA OwnStep ==
    ASSUME NamesInv, NEW i \in Inodes, NEW y, NEW g,
           ino' = [ino EXCEPT ![i] = y], job' = [job EXCEPT ![i] = g]
    PROVE  /\ ino'[i] = y /\ job'[i] = g /\ job'[-i] = job[-i]
           /\ UNCHANGED <<child, deleted, store, used, remote>> /\ (look' = look \/ look'.ino \in {0, i})
                => StepOf(i)
<1>1. \A k \in Inodes : -k # i /\ k \in Workers /\ -k \in Workers
  BY WorkersDiffer
<1>2. ino \in [Inodes -> NodeSet] /\ job \in [Workers -> JobSet]
  BY DEF NamesInv, TypeOK
<1>3. \A k \in Inodes \ {i} : ino'[k] = ino[k] /\ job'[k] = job[k] /\ job'[-k] = job[-k]
  BY <1>1, <1>2
<1> QED
  BY <1>1, <1>2, <1>3 DEF StepOf

(* The same when the inode stays as it is. *)
LEMMA OwnJobStep ==
    ASSUME NamesInv, NEW i \in Inodes, NEW g,
           ino' = ino, job' = [job EXCEPT ![i] = g]
    PROVE  /\ job'[i] = g /\ job'[-i] = job[-i]
           /\ UNCHANGED <<child, deleted, store, used, remote>> /\ (look' = look \/ look'.ino \in {0, i})
                => StepOf(i)
<1>1. ino' = [ino EXCEPT ![i] = ino[i]]
  BY DEF NamesInv, TypeOK
<1>2. PICK y : y = ino[i]
  OBVIOUS
<1>3. ino' = [ino EXCEPT ![i] = y]
  BY <1>1, <1>2
<1>4. /\ ino'[i] = y /\ job'[i] = g /\ job'[-i] = job[-i]
      /\ UNCHANGED <<child, deleted, store, used, remote>> /\ (look' = look \/ look'.ino \in {0, i})
           => StepOf(i)
  BY <1>3, OwnStep
<1> QED
  BY <1>4

(* SendDelete starts for the one path whose object the inode has. *)
LEMMA FilesStartDelete ==
    ASSUME Forward, NamesInv, FilesInv, NEW i \in Inodes, StartDelete(i)
    PROVE  FilesInv'
<1> DEFINE x == ino[i]
<1>1. FileInv(i) /\ i # 0 /\ faults' = faults
  BY PartTypes DEF FilesInv, StartDelete, LookEnds
<1>2. NodeInv(i) /\ JobInv(i) /\ StoredInv(i) /\ MarksInv(i) /\ ObjectsInv(i) /\ ReasonsInv(i)
  BY <1>1 DEF FileInv
<1>3. x.st = "DELETED" /\ x.old = NoPath /\ x.path \in Paths /\ deleted[x.path] = i
      /\ job[i].pc = "idle"
  BY <1>2 DEF StartDelete, Starts, Idle, NodeInv
<1>4. PICK g : g = [NoJob EXCEPT !.pc = "delete", !.from = SourceKey(x), !.to = x.old]
  OBVIOUS
<1>5. g.pc = "delete" /\ g.from = x.path /\ g.to = NoPath /\ g.ok
  BY <1>3, <1>4 DEF NoJob, SourceKey
<1>6. [x EXCEPT !.old = NoPath] = x
  BY <1>3, PartTypes DEF NodeSet
<1>7. ino' = ino /\ job' = [job EXCEPT ![i] = g] /\ look'.ino = 0
      /\ UNCHANGED <<child, deleted, store, used, remote>>
  BY <1>4, <1>6 DEF StartDelete, LookEnds, NoLook, NamesInv, TypeOK
<1>8. StepOf(i) /\ job'[i] = g /\ job'[-i] = job[-i]
  BY <1>7, OwnJobStep
<1>9. ~Linked(i)
  BY <1>1, <1>3 DEF Linked, NamesInv, ChildrenNamed
<1>10. NodeInv(i)'
  <2>1. ~Uses(i)'
    BY <1>7, <1>9 DEF Uses, Linked
  <2>2. ~x.renamingTo
    BY <1>2, <1>3 DEF NodeInv, Copies
  <2> QED
    BY <1>2, <1>3, <1>5, <1>7, <1>8, <2>1, <2>2 DEF NodeInv, Deletes
<1>11. JobInv(i)'
  BY <1>3, <1>5, <1>7, <1>8 DEF JobInv, Deletes, Puts, Copies, Removes
<1>12. StoredInv(i)'
  BY <1>5, <1>7, <1>8, <1>9 DEF StoredInv, Linked
<1>13. MarksInv(i)' /\ LookInv(i)'
  BY <1>1, <1>2, <1>7 DEF MarksInv, LookInv
<1>14. ObjectsInv(i)'
  BY <1>2, <1>3, <1>5, <1>7, <1>8, <1>9 DEF ObjectsInv, Owes, Linked
<1>15. ReasonsInv(i)'
  BY <1>2, <1>3, <1>7, <1>8, PathsAssumption DEF ReasonsInv, Reason, Copies, Removes
<1>16. FileInv(i)'
  BY <1>10, <1>11, <1>12, <1>13, <1>14, <1>15 DEF FileInv
<1> QED
  BY <1>1, <1>8, <1>16, FilesStep

(* sendRename starts at a path no other file has yet to leave. *)
LEMMA FilesStartRename ==
    ASSUME Forward, NamesInv, FilesInv, NEW i \in Inodes, StartRename(i)
    PROVE  FilesInv'
<1> DEFINE x == ino[i]
<1>1. FileInv(i) /\ i # 0 /\ faults' = faults
  BY PartTypes DEF FilesInv, StartRename, LookEnds
<1>2. NodeInv(i) /\ JobInv(i) /\ StoredInv(i) /\ MarksInv(i) /\ ObjectsInv(i) /\ ReasonsInv(i)
      /\ LookInv(i)
  BY <1>1 DEF FileInv
<1>3. /\ x.st = "MODIFIED" /\ x.old # NoPath /\ x.path \in Paths /\ child[x.path] = i
      /\ job[i].pc = "idle" /\ x.path \in Targets /\ deleted[x.old] = i /\ At(x.old) < At(x.path)
      /\ deleted[x.path] = 0
  <2>1. x.old # NoPath /\ job[i].pc = "idle" /\ x.st \in {"CREATED", "MODIFIED"}
        /\ look.ino = i /\ ~look.over /\ Dir(x.path) = look.dir
    BY DEF StartRename, Starts, Idle, Flushable
  <2>2. x.st = "MODIFIED"
    BY <1>2, <2>1 DEF NodeInv, Puts
  <2>3. x.path \in Paths /\ child[x.path] = i /\ x.path \in Targets /\ deleted[x.old] = i
        /\ At(x.old) < At(x.path)
    BY <1>2, <2>1 DEF NodeInv
  <2>4. deleted[x.path] = 0
    BY <1>2, <2>1, <2>3 DEF LookInv, Linked
  <2> QED
    BY <2>1, <2>2, <2>3, <2>4
<1>4. x.old \in Paths
  BY <1>3, PartTypes
<1>5. PICK g : g = [NoJob EXCEPT !.pc = "copy", !.from = x.old, !.to = x.path]
  OBVIOUS
<1>6. g.pc = "copy" /\ g.from = x.old /\ g.to = x.path /\ g.ok
  BY <1>5 DEF NoJob
<1>7. PICK y : y = [x EXCEPT !.renamingTo = TRUE]
  OBVIOUS
<1>8. /\ y.st = x.st /\ y.path = x.path /\ y.old = x.old /\ y.ver = x.ver /\ y.known = x.known
      /\ y.renamingTo
  BY <1>7, PartTypes DEF NodeSet
<1>9. y.cached = x.cached /\ y.staged = x.staged /\ y.awaiting = x.awaiting
  BY <1>7, PartTypes DEF NodeSet
<1>10. ino' = [ino EXCEPT ![i] = y] /\ job' = [job EXCEPT ![i] = g] /\ look'.ino = 0
       /\ UNCHANGED <<child, deleted, store, used, remote>>
  BY <1>5, <1>7 DEF StartRename, LookEnds, NoLook
<1>11. StepOf(i) /\ ino'[i] = y /\ job'[i] = g /\ job'[-i] = job[-i]
  BY <1>10, OwnStep
<1>12. SourceKey(y) = SourceKey(x) /\ Current(y) = Current(x) /\ SourceKey(x) = x.old
  BY <1>3, <1>8 DEF SourceKey, Current
<1>13. Linked(i)' /\ Linked(i)
  BY <1>3, <1>8, <1>10, <1>11 DEF Linked
<1>14. NodeInv(i)'
  <2>1. i > used => y = NoNode
    <3>1. i > used => x = NoNode
      BY <1>2 DEF NodeInv
    <3> QED
      BY <1>3, <3>1 DEF NoNode
  <2> QED
    BY <1>2, <1>3, <1>6, <1>8, <1>9, <1>10, <1>11, <2>1 DEF NodeInv, Copies
<1>15. JobInv(i)'
  BY <1>3, <1>4, <1>6, <1>8, <1>10, <1>11 DEF JobInv, Deletes, Puts, Copies, Removes
<1>16. StoredInv(i)'
  BY <1>2, <1>3, <1>6, <1>8, <1>10, <1>11, <1>12, <1>13 DEF StoredInv, Holds
<1>17. MarksInv(i)' /\ LookInv(i)'
  BY <1>1, <1>2, <1>8, <1>10, <1>11 DEF MarksInv, LookInv
<1>18. ObjectsInv(i)'
  BY <1>2, <1>3, <1>6, <1>8, <1>10, <1>11, <1>12, <1>13 DEF ObjectsInv, Owes
<1>19. ReasonsInv(i)'
  BY <1>2, <1>3, <1>8, <1>10, <1>11 DEF ReasonsInv, Reason, Copies, Removes
<1>20. FileInv(i)'
  BY <1>14, <1>15, <1>16, <1>17, <1>18, <1>19 DEF FileInv
<1> QED
  BY <1>1, <1>11, <1>20, FilesStep

(* flushSmallObject starts for a path no other file has yet to leave. *)
LEMMA FilesStartPut ==
    ASSUME Forward, NamesInv, FilesInv, NEW i \in Inodes, StartPut(i)
    PROVE  FilesInv'
<1> DEFINE x == ino[i]
<1>1. FileInv(i) /\ i # 0 /\ faults' = faults /\ x.ver \in Nat
  BY PartTypes DEF FilesInv, StartPut, LookEnds
<1>2. NodeInv(i) /\ JobInv(i) /\ StoredInv(i) /\ MarksInv(i) /\ ObjectsInv(i) /\ ReasonsInv(i)
      /\ LookInv(i)
  BY <1>1 DEF FileInv
<1>3. x.old = NoPath /\ job[i].pc = "idle" /\ x.st \in {"CREATED", "MODIFIED"}
      /\ look.ino = i /\ ~look.over /\ Dir(x.path) = look.dir
  BY DEF StartPut, Starts, Idle, Flushable
<1>4. x.path \in Paths /\ child[x.path] = i /\ ~x.renamingTo
  BY <1>2, <1>3 DEF NodeInv, Copies
<1>5. deleted[x.path] = 0
  BY <1>2, <1>3, <1>4 DEF LookInv, Linked
<1>6. x.ver # x.known
  BY <1>1, <1>2, <1>3 DEF NodeInv
<1>7. PICK g : g = [NoJob EXCEPT !.pc = "put"]
  OBVIOUS
<1>8. g.pc = "put" /\ g.ok
  BY <1>7 DEF NoJob
<1>9. ino' = ino /\ job' = [job EXCEPT ![i] = g] /\ look'.ino = 0
      /\ UNCHANGED <<child, deleted, store, used, remote>>
  BY <1>7 DEF StartPut, LookEnds, NoLook
<1>10. StepOf(i) /\ job'[i] = g /\ job'[-i] = job[-i]
  BY <1>9, OwnJobStep
<1>11. NodeInv(i)'
  BY <1>2, <1>3, <1>4, <1>5, <1>8, <1>9, <1>10 DEF NodeInv, Puts
<1>12. JobInv(i)'
  BY <1>3, <1>6, <1>8, <1>9, <1>10 DEF JobInv, Deletes, Puts, Copies, Removes
<1>13. StoredInv(i)'
  BY <1>2, <1>8, <1>9, <1>10 DEF StoredInv, Holds, Linked
<1>14. MarksInv(i)' /\ LookInv(i)'
  BY <1>1, <1>2, <1>9 DEF MarksInv, LookInv
<1>15. ObjectsInv(i)'
  BY <1>2, <1>3, <1>8, <1>9, <1>10 DEF ObjectsInv, Owes, Linked
<1>16. ReasonsInv(i)'
  BY <1>2, <1>3, <1>8, <1>9, <1>10 DEF ReasonsInv, Reason, Copies, Removes
<1>17. FileInv(i)'
  BY <1>11, <1>12, <1>13, <1>14, <1>15, <1>16 DEF FileInv
<1> QED
  BY <1>1, <1>10, <1>17, FilesStep

(* A request for a key the inode holds. *)
LEMMA OwnRequest ==
    ASSUME NamesInv, NEW i \in Inodes, NEW g, NEW p \in Paths,
           ino' = ino, job' = [job EXCEPT ![i] = g],
           \A q \in Paths : q # p => store'[q] = store[q],
           child' = child, deleted' = deleted, used' = used, look' = look, remote' = remote,
           Holder(p) = i, store'[p] = NoObject \/ store'[p].ino = i
    PROVE  StepOf(i) /\ job'[i] = g /\ job'[-i] = job[-i]
<1>1. \A k \in Inodes : -k # i /\ k \in Workers /\ -k \in Workers
  BY WorkersDiffer
<1>2. job \in [Workers -> JobSet]
  BY DEF NamesInv, TypeOK
<1>3. \A k \in Inodes \ {i} : ino'[k] = ino[k] /\ job'[k] = job[k] /\ job'[-k] = job[-k]
  BY <1>1, <1>2
<1>4. StepOf(i)
  BY <1>3 DEF StepOf
<1> QED
  BY <1>1, <1>2, <1>4

(* flushSmallObject takes the key and the version under the lock; what it uploads is in
   memory, so no local change is given up. *)
LEMMA FilesPutPrepare ==
    ASSUME Forward, NamesInv, FilesInv, NEW i \in Inodes, PutPrepare(i)
    PROVE  FilesInv'
<1> DEFINE x == ino[i]
<1>1. FileInv(i) /\ i # 0 /\ faults' = faults /\ x.st \in States /\ x \in NodeSet /\ job[i] \in JobSet
  BY PartTypes DEF FilesInv, PutPrepare
<1>2. NodeInv(i) /\ JobInv(i) /\ StoredInv(i) /\ MarksInv(i) /\ ObjectsInv(i) /\ ReasonsInv(i)
      /\ LookInv(i)
  BY <1>1 DEF FileInv
<1>3. job[i].pc = "put" /\ UNCHANGED <<child, deleted, store, used, remote, look>>
  BY DEF PutPrepare
<1>4. ~x.renamingTo
  BY <1>2, <1>3 DEF NodeInv, Copies
<1>5. CASE ~Flushable(x)
  <2>1. ino' = ino /\ job' = [job EXCEPT ![i] = NoJob]
    BY <1>5 DEF PutPrepare
  <2>2. StepOf(i) /\ job'[i] = NoJob /\ job'[-i] = job[-i]
    BY <1>3, <2>1, OwnJobStep
  <2>3. x.st = "DELETED"
    BY <1>1, <1>2, <1>3, <1>5 DEF Flushable, NodeInv, States, Removes
  <2>4. ~Linked(i) /\ x.old = NoPath
    BY <1>1, <1>2, <2>3 DEF Linked, NamesInv, ChildrenNamed, NodeInv
  <2>5. job'[i].pc = "idle" /\ job'[i].ok
    BY <2>2 DEF NoJob
  <2>6. ~Linked(i)'
    BY <1>3, <2>1, <2>4 DEF Linked
  <2>7. NodeInv(i)'
    <3>1. ~Uses(i)'
      BY <2>6 DEF Uses
    <3> QED
      BY <1>2, <1>3, <1>4, <2>1, <2>2, <2>3, <2>4, <2>5, <3>1 DEF NodeInv
  <2>8. JobInv(i)'
    BY <2>5 DEF JobInv, Deletes, Puts, Copies, Removes
  <2>9. StoredInv(i)'
    BY <2>5, <2>6 DEF StoredInv
  <2>10. MarksInv(i)' /\ LookInv(i)'
    BY <1>2, <1>3, <2>1 DEF MarksInv, LookInv, Linked
  <2>11. ObjectsInv(i)'
    BY <1>2, <1>3, <2>1, <2>3, <2>4, <2>5 DEF ObjectsInv, Owes
  <2>12. ReasonsInv(i)'
    BY <1>2, <1>3, <2>1, <2>3, <2>5 DEF ReasonsInv, Reason, Copies, Removes
  <2>13. FileInv(i)'
    BY <2>7, <2>8, <2>9, <2>10, <2>11, <2>12 DEF FileInv
  <2> QED
    BY <1>1, <2>2, <2>13, FilesStep
<1>6. CASE Flushable(x)
  <2>1. x.st \in {"CREATED", "MODIFIED"} /\ x.ver # x.known
    BY <1>2, <1>3, <1>6 DEF Flushable, JobInv, Puts
  <2>2. x.cached /\ x.path \in Paths /\ child[x.path] = i
    BY <1>2, <2>1 DEF NodeInv
  <2>3. Readable(x, i)
    BY <2>2 DEF Readable
  <2>4. [x EXCEPT !.cached = TRUE] = x
    <3>1. x.cached = TRUE
      BY <1>1, <2>2 DEF NodeSet
    <3> QED
      BY <1>1, <3>1 DEF NodeSet
  <2>5. PICK g : g = [job[i] EXCEPT !.pc = "send", !.to = SourceKey(x), !.ver = x.ver]
    OBVIOUS
  <2>6. g.pc = "send" /\ g.to = SourceKey(x) /\ g.ver = x.ver /\ g.from = job[i].from
    BY <1>1, <2>5 DEF JobSet
  <2>7. g.ok = job[i].ok
    BY <1>1, <2>5 DEF JobSet
  <2>8. /\ job' = [job EXCEPT ![i] = [@ EXCEPT !.pc = "send", !.to = SourceKey(x), !.ver = x.ver]]
        /\ ino' = [ino EXCEPT ![i].cached = TRUE]
    BY <1>6, <2>3 DEF PutPrepare
  <2>9. job' = [job EXCEPT ![i] = g] /\ ino' = ino
    BY <2>4, <2>5, <2>8 DEF NamesInv, TypeOK
  <2>10. StepOf(i) /\ job'[i] = g /\ job'[-i] = job[-i]
    BY <1>3, <2>9, OwnJobStep
  <2>11. SourceKey(x) \in Paths
    BY <2>2, PartTypes DEF SourceKey
  <2>12. NodeInv(i)'
    <3>1. Uses(i)' => Uses(i)
      BY <1>3, <2>9 DEF Uses, Linked
    <3> QED
      BY <1>2, <1>3, <1>4, <2>1, <2>2, <2>6, <2>9, <2>10, <3>1 DEF NodeInv, Puts
  <2>13. JobInv(i)'
    <3>1. x.ver <= x.ver
      BY PartTypes
    <3> QED
      BY <1>2, <2>1, <2>6, <2>7, <2>9, <2>10, <2>11, <3>1 DEF JobInv, Deletes, Puts, Copies, Removes
  <2>14. StoredInv(i)'
    BY <1>2, <1>3, <2>6, <2>9, <2>10 DEF StoredInv, Holds, Linked
  <2>15. MarksInv(i)' /\ LookInv(i)'
    BY <1>2, <1>3, <2>9 DEF MarksInv, LookInv, Linked
  <2>16. ObjectsInv(i)'
    BY <1>2, <1>3, <2>6, <2>9, <2>10 DEF ObjectsInv, Owes, Linked
  <2>17. ReasonsInv(i)'
    BY <1>2, <1>3, <2>9, <2>10 DEF ReasonsInv, Reason, Copies, Removes
  <2>18. FileInv(i)'
    BY <2>12, <2>13, <2>14, <2>15, <2>16, <2>17 DEF FileInv
  <2> QED
    BY <1>1, <2>10, <2>18, FilesStep
<1> QED
  BY <1>5, <1>6

(* There is no staged upload, and no request fails. *)
LEMMA NothingStaged ==
    ASSUME Forward, NamesInv, FilesInv, NEW i \in Inodes
    PROVE  ~StagedFlush(i) /\ ~Put(-i) /\ ~PutReturns(-i) /\ ~Fault
<1>1. ~ino[i].staged /\ job[-i].pc = "idle" /\ faults = 0
  BY DEF FilesInv, FileInv, NodeInv
<1> QED
  BY <1>1 DEF StagedFlush, Put, PutReturns, Fault, Forward

(* An upload goes to a key the inode holds. *)
LEMMA FilesPut ==
    ASSUME Forward, NamesInv, FilesInv, NEW i \in Inodes, Put(i)
    PROVE  FilesInv'
<1> DEFINE x == ino[i]
<1>0. PICK to : to = job[i].to
  OBVIOUS
<1>1. FileInv(i) /\ i # 0 /\ i \in Nat /\ x.st \in States /\ job[i] \in JobSet /\ job[i].ver \in Versions
  BY PartTypes DEF FilesInv
<1>2. NodeInv(i) /\ JobInv(i) /\ StoredInv(i) /\ MarksInv(i) /\ ObjectsInv(i) /\ ReasonsInv(i)
      /\ LookInv(i)
  BY <1>1 DEF FileInv
<1>3. PICK g : g = [job[i] EXCEPT !.pc = "sent"]
  OBVIOUS
<1>4. g.pc = "sent" /\ g.to = to /\ g.ver = job[i].ver /\ g.from = job[i].from
  BY <1>0, <1>1, <1>3 DEF JobSet
<1>5. g.ok = job[i].ok
  BY <1>1, <1>3 DEF JobSet
<1>6. job[i].pc = "send" /\ to \in Paths /\ Holder(to) = i
  BY <1>0, <1>2, KeysAreHeld DEF Put, KeysHeld
<1>7. i \in Workers /\ job \in [Workers -> JobSet]
  BY WorkersDiffer DEF NamesInv, TypeOK
<1>8. PICK v : v = [ino |-> i, ver |-> job[i].ver]
  OBVIOUS
<1>9. v \in Objects /\ v.ino = i /\ v.ver = job[i].ver /\ v # NoObject
  <2>1. v \in Objects /\ v.ino = i /\ v.ver = job[i].ver
    BY <1>1, <1>8 DEF Objects
  <2> QED
    BY <2>1, ObjectAssumption
<1>10. /\ job' = [job EXCEPT ![i] = g] /\ store' = [store EXCEPT ![to] = v]
       /\ UNCHANGED <<ino, child, deleted, used, look, remote, faults>>
  <2>1. ~Fault /\ job[i].ok /\ Owner(i) = i
    BY <1>1, <1>2, NothingStaged DEF JobInv, Owner
  <2>2. job' = [job EXCEPT ![i] = g] /\ UNCHANGED faults
    BY <1>3, <2>1 DEF Put
  <2>3. job'[i] = g
    BY <1>7, <2>2
  <2>4. store' = [store EXCEPT ![to] = v]
    BY <1>0, <1>5, <1>8, <2>1, <2>3 DEF Put
  <2> QED
    BY <2>2, <2>4 DEF Put
<1>11. /\ StepOf(i) /\ job'[i] = g /\ job'[-i] = job[-i]
       /\ store'[to] = v /\ \A q \in Paths : q # to => store'[q] = store[q]
  <2>1. ino' = ino /\ child' = child /\ deleted' = deleted /\ used' = used /\ look' = look
        /\ remote' = remote
    BY <1>10
  <2>2. store'[to] = v /\ \A q \in Paths : q # to => store'[q] = store[q]
    BY <1>6, <1>10 DEF NamesInv, TypeOK
  <2>3. StepOf(i) /\ job'[i] = g /\ job'[-i] = job[-i]
    BY <1>6, <1>9, <1>10, <2>1, <2>2, OwnRequest
  <2> QED
    BY <2>2, <2>3
<1>12. ~x.renamingTo /\ to = SourceKey(x)
  BY <1>0, <1>2, <1>6 DEF NodeInv, JobInv, Copies
<1>13. NodeInv(i)'
  <2>1. Uses(i)' => Uses(i)
    BY <1>6, <1>10 DEF Uses, Linked
  <2> QED
    BY <1>2, <1>4, <1>6, <1>10, <1>11, <1>12, <2>1 DEF NodeInv, Puts, Removes, Deletes
<1>14. JobInv(i)'
  <2>1. job[i].ok /\ (x.st # "DELETED" => x.ver # x.known) /\ job[i].ver <= x.ver
    BY <1>2, <1>6 DEF JobInv, Puts
  <2> QED
    BY <1>4, <1>5, <1>6, <1>10, <1>11, <1>12, <2>1 DEF JobInv, Deletes, Puts, Copies, Removes
<1>15. StoredInv(i)'
  <2>1. Holds(i, to, {g.ver})'
    BY <1>4, <1>9, <1>11 DEF Holds
  <2>2. Linked(i)' /\ x.st # "CREATED" => Holds(i, SourceKey(x), Current(x))'
    <3> SUFFICES ASSUME Linked(i)', x.st # "CREATED" PROVE Holds(i, SourceKey(x), Current(x))'
      OBVIOUS
    <3>1. Linked(i)
      BY <1>10 DEF Linked
    <3>2. x.st # "DELETED"
      BY <1>1, <3>1 DEF Linked, NamesInv, ChildrenNamed
    <3>3. Current(x) = Versions
      BY <1>2, <1>6, <3>2 DEF JobInv, Puts, Current
    <3> QED
      BY <1>1, <1>9, <1>10, <1>11, <1>12, <3>3 DEF Holds
  <2> QED
    BY <1>4, <1>10, <1>11, <2>1, <2>2 DEF StoredInv
<1>16. MarksInv(i)' /\ LookInv(i)'
  BY <1>2, <1>10 DEF MarksInv, LookInv, Linked
<1>17. ObjectsInv(i)'
  <2>1. Owes(i, to)'
    <3>1. CASE x.st = "DELETED"
      <4>1. x.old = NoPath
        BY <1>2, <3>1 DEF NodeInv
      <4> QED
        BY <1>4, <1>10, <1>11, <1>12, <3>1, <4>1 DEF Owes, SourceKey
    <3>2. CASE x.st # "DELETED"
      <4>1. x.st \in {"CREATED", "MODIFIED"}
        BY <1>1, <1>2, <1>6, <3>2 DEF NodeInv, States, Removes
      <4>2. Linked(i)'
        BY <1>2, <1>10, <4>1 DEF NodeInv, Linked
      <4> QED
        BY <1>4, <1>10, <1>11, <1>12, <4>2 DEF Owes
    <3> QED
      BY <3>1, <3>2
  <2>2. \A p \in Paths : Owes(i, p) => Owes(i, p)'
    BY <1>4, <1>6, <1>10, <1>11 DEF Owes, Linked
  <2>3. ASSUME NEW p \in Paths, store'[p] # NoObject, store'[p].ino = i PROVE Owes(i, p)'
    <3>1. CASE p = to
      BY <2>1, <3>1
    <3>2. CASE p # to
      BY <1>2, <1>11, <2>2, <2>3, <3>2 DEF ObjectsInv
    <3> QED
      BY <3>1, <3>2
  <2> QED
    BY <2>3 DEF ObjectsInv
<1>18. ReasonsInv(i)'
  BY <1>2, <1>4, <1>6, <1>10, <1>11 DEF ReasonsInv, Reason, Copies, Removes
<1>19. FileInv(i)'
  BY <1>13, <1>14, <1>15, <1>16, <1>17, <1>18 DEF FileInv
<1> QED
  BY <1>10, <1>11, <1>19, FilesStep

(* An upload that returns leaves the file clean only if it was the last version and went
   to the path the file has. *)
LEMMA FilesPutReturns ==
    ASSUME Forward, NamesInv, FilesInv, NEW i \in Inodes, PutReturns(i)
    PROVE  FilesInv'
<1> DEFINE x == ino[i]
           v == job[i].ver
           cur == i < 0 /\ x.ver = v
           z == [x EXCEPT !.known = v, !.staged = @ /\ ~cur, !.awaiting = @ \/ (cur /\ x.old # NoPath)]
           st == IF ~Flushable(z) THEN z.st ELSE IF isStillDirty(z) THEN "MODIFIED" ELSE "CACHED"
<1>1. /\ FileInv(i) /\ i # 0 /\ i \in Nat /\ x.st \in States /\ x \in NodeSet /\ job[i] \in JobSet
      /\ v \in Versions /\ v \in Nat /\ x.ver \in Nat
  BY PartTypes DEF FilesInv
<1>2. NodeInv(i) /\ JobInv(i) /\ StoredInv(i) /\ MarksInv(i) /\ ObjectsInv(i) /\ ReasonsInv(i)
      /\ LookInv(i)
  BY <1>1 DEF FileInv
<1>3. /\ job[i].pc = "sent" /\ job' = [job EXCEPT ![i] = NoJob]
      /\ UNCHANGED <<child, deleted, look, store, used, faults, remote>>
      /\ ino' = [ino EXCEPT ![i] = [z EXCEPT !.st = st]]
  <2>1. job[i].ok /\ ~(i < 0) /\ Owner(i) = i
    BY <1>1, <1>2 DEF JobInv, Owner
  <2> QED
    BY <2>1 DEF PutReturns
<1>4. /\ z.st = x.st /\ z.path = x.path /\ z.old = x.old /\ z.ver = x.ver /\ z.known = v
      /\ z.renamingTo = x.renamingTo /\ z.cached = x.cached /\ z \in [st: States, path: Place, old: Place,
           renamingTo: BOOLEAN, ver: Versions, known: Versions, cached: BOOLEAN, staged: BOOLEAN, awaiting: BOOLEAN,
           dropped: BOOLEAN]
  BY <1>1 DEF NodeSet
<1>5. ~z.staged /\ ~z.awaiting
  <2>1. ~x.staged /\ ~x.awaiting /\ ~cur
    BY <1>1, <1>2 DEF NodeInv
  <2> QED
    BY <1>1, <2>1 DEF NodeSet
<1>6. PICK y : y = [z EXCEPT !.st = st]
  OBVIOUS
<1> HIDE DEF z
<1>7. /\ y.st = st /\ y.path = x.path /\ y.old = x.old /\ y.ver = x.ver /\ y.known = v
      /\ y.renamingTo = x.renamingTo /\ y.cached = x.cached
  BY <1>4, <1>6
<1>8. ~y.staged /\ ~y.awaiting
  BY <1>4, <1>5, <1>6
<1>9. /\ x.st = "DELETED" => st = "DELETED"
      /\ x.st # "DELETED" => /\ x.st \in {"CREATED", "MODIFIED"}
                             /\ st = IF x.old # NoPath \/ x.ver # v THEN "MODIFIED" ELSE "CACHED"
  <2>1. x.st \in {"CREATED", "MODIFIED", "DELETED"}
    BY <1>1, <1>2, <1>3 DEF NodeInv, States, Removes
  <2> QED
    BY <1>4, <2>1 DEF Flushable, isStillDirty
<1> HIDE DEF st
<1>10. ino' = [ino EXCEPT ![i] = y]
  BY <1>3, <1>6
<1>11. StepOf(i) /\ ino'[i] = y /\ job'[i] = NoJob /\ job'[-i] = job[-i]
  <2>1. PICK g : g = NoJob
    OBVIOUS
  <2>2. job' = [job EXCEPT ![i] = g]
    BY <1>3, <2>1
  <2>3. /\ ino'[i] = y /\ job'[i] = g /\ job'[-i] = job[-i]
        /\ UNCHANGED <<child, deleted, store, used, remote>> /\ (look' = look \/ look'.ino \in {0, i})
             => StepOf(i)
    BY <1>10, <2>2, OwnStep
  <2> QED
    BY <1>3, <2>1, <2>3
<1>12. job'[i].pc = "idle" /\ job'[i].ok
  BY <1>11 DEF NoJob
<1>13. ~x.renamingTo /\ job[i].to = SourceKey(x) /\ v <= x.ver
  BY <1>2, <1>3 DEF NodeInv, JobInv, Copies
<1>14. SourceKey(y) = SourceKey(x)
  BY <1>7 DEF SourceKey
<1>15. Linked(i)' <=> Linked(i)
  BY <1>3, <1>7, <1>11 DEF Linked
<1>16. NodeInv(i)'
  <2>1. Uses(i)' => Uses(i)
    BY <1>3, <1>7, <1>11, <1>13, <1>15 DEF Uses
  <2>2. i > used => y = NoNode
    <3>1. i > used => x = NoNode
      BY <1>2 DEF NodeInv
    <3> QED
      BY <1>2, <1>3, <3>1 DEF NoNode, NodeInv
  <2>3. y.ver # y.known /\ x.st # "DELETED" => x.cached
    <3>1. x.st # "DELETED" => x.ver # x.known
      BY <1>2, <1>3 DEF JobInv, Puts
    <3> QED
      BY <1>2, <1>9, <3>1 DEF NodeInv
  <2>4. CASE x.st = "DELETED"
    BY <1>2, <1>3, <1>7, <1>8, <1>9, <1>11, <1>12, <1>13, <2>1, <2>2, <2>4 DEF NodeInv
  <2>5. CASE x.st # "DELETED"
    <3>1. st \in {"MODIFIED", "CACHED"} /\ (st = "CACHED" => x.old = NoPath /\ x.ver = v)
          /\ (st = "MODIFIED" => x.old # NoPath \/ x.ver # v)
      BY <1>9, <2>5
    <3>2. x.path \in Paths /\ child[x.path] = i
      BY <1>2, <1>9, <2>5 DEF NodeInv
    <3>3. x.old # NoPath => x.path \in Targets /\ At(x.old) < At(x.path) /\ deleted[x.old] = i
      BY <1>2 DEF NodeInv
    <3>4. job[-i].pc = "idle" /\ (Uses(i) => deleted[x.path] = 0)
      BY <1>2 DEF NodeInv
    <3>5. (y.ver # y.known => y.cached) /\ ~y.renamingTo /\ y.known <= y.ver /\ y.known >= 0
      BY <1>1, <1>7, <1>13, <2>3, <2>5
    <3>6. /\ y.st \in {"MODIFIED", "CACHED"} /\ (y.st = "CACHED" => y.old = NoPath /\ y.ver = y.known)
          /\ (y.st = "MODIFIED" => y.old # NoPath \/ y.ver # y.known)
      BY <1>7, <3>1
    <3>7. y.old # NoPath => /\ y.st \in {"CREATED", "MODIFIED"} /\ y.path \in Targets
                            /\ At(y.old) < At(y.path) /\ deleted[y.old] = i
      BY <1>7, <3>1, <3>3
    <3> QED
      BY <1>3, <1>7, <1>8, <1>11, <1>12, <2>1, <2>2, <3>2, <3>4, <3>5, <3>6, <3>7 DEF NodeInv
  <2> QED
    BY <2>4, <2>5
<1>17. JobInv(i)'
  BY <1>12 DEF JobInv, Deletes, Puts, Copies, Removes
<1>18. StoredInv(i)'
  <2> SUFFICES ASSUME Linked(i)' PROVE Holds(i, SourceKey(y), Current(y))'
    BY <1>11, <1>12 DEF StoredInv
  <2>1. x.st # "DELETED"
    BY <1>1, <1>15 DEF Linked, NamesInv, ChildrenNamed
  <2>2. Holds(i, SourceKey(x), {v})
    BY <1>2, <1>3, <1>13, <2>1 DEF StoredInv
  <2>3. v \in Current(y)
    BY <1>1, <1>7 DEF Current
  <2> QED
    BY <1>3, <1>14, <2>2, <2>3 DEF Holds
<1>19. MarksInv(i)' /\ LookInv(i)'
  BY <1>2, <1>3, <1>7, <1>11, <1>15 DEF MarksInv, LookInv
<1>20. ObjectsInv(i)'
  <2>1. st # "CREATED"
    BY <1>9
  <2>2. \A p \in Paths : Owes(i, p) => Owes(i, p)'
    BY <1>3, <1>7, <1>9, <1>11, <1>12, <1>14, <1>15, <2>1 DEF Owes
  <2> QED
    BY <1>2, <1>3, <2>2 DEF ObjectsInv
<1>21. ReasonsInv(i)'
  BY <1>2, <1>3, <1>7, <1>9, <1>11 DEF ReasonsInv, Reason, Copies, Removes
<1>22. FileInv(i)'
  BY <1>16, <1>17, <1>18, <1>19, <1>20, <1>21 DEF FileInv
<1> QED
  BY <1>3, <1>11, <1>22, FilesStep

(* sendRename ends. *)
LEMMA FilesRenameReturns ==
    ASSUME Forward, NamesInv, FilesInv, NEW i \in Inodes, RenameReturns(i)
    PROVE  FilesInv'
<1>1. FileInv(i) /\ i # 0
  BY PartTypes DEF FilesInv
<1>2. NodeInv(i) /\ JobInv(i) /\ StoredInv(i) /\ MarksInv(i) /\ ObjectsInv(i) /\ ReasonsInv(i)
      /\ LookInv(i)
  BY <1>1 DEF FileInv
<1>3. /\ job[i].pc = "end" /\ job' = [job EXCEPT ![i] = NoJob] /\ ino' = ino
      /\ UNCHANGED <<child, deleted, look, store, used, faults, remote>>
  BY DEF RenameReturns
<1>4. StepOf(i) /\ job'[i] = NoJob /\ job'[-i] = job[-i]
  BY <1>3, OwnJobStep
<1>5. job'[i].pc = "idle" /\ job'[i].ok
  BY <1>4 DEF NoJob
<1>6. NodeInv(i)'
  <2>1. Uses(i)' => Uses(i)
    BY <1>3 DEF Uses, Linked
  <2>2. ~ino[i].renamingTo /\ ino[i].st \notin {"CREATED", "DELETED"}
    BY <1>2, <1>3 DEF NodeInv, Copies, Puts, Deletes
  <2> QED
    BY <1>2, <1>3, <1>4, <1>5, <2>1, <2>2 DEF NodeInv
<1>7. JobInv(i)'
  BY <1>5 DEF JobInv, Deletes, Puts, Copies, Removes
<1>8. StoredInv(i)'
  BY <1>2, <1>3, <1>5 DEF StoredInv, Holds, Linked
<1>9. MarksInv(i)' /\ LookInv(i)'
  BY <1>2, <1>3 DEF MarksInv, LookInv, Linked
<1>10. ObjectsInv(i)'
  BY <1>2, <1>3, <1>5 DEF ObjectsInv, Owes, Linked
<1>11. ReasonsInv(i)'
  BY <1>2, <1>3, <1>5 DEF ReasonsInv, Reason, Copies, Removes
<1>12. FileInv(i)'
  BY <1>6, <1>7, <1>8, <1>9, <1>10, <1>11 DEF FileInv
<1> QED
  BY <1>3, <1>4, <1>12, FilesStep

(* A rename in flight copies the inode's own object. *)
LEMMA CopyFacts ==
    ASSUME Forward, NamesInv, NEW i \in Inodes, NodeInv(i), JobInv(i), StoredInv(i), job[i].pc \in Copies
    PROVE  /\ ino[i].st = "MODIFIED" /\ ino[i].old = job[i].from /\ ino[i].old # NoPath
           /\ SourceKey(ino[i]) = job[i].from /\ Linked(i)
           /\ job[i].from \in Paths /\ job[i].to \in Paths
           /\ Holder(job[i].from) = i /\ Holder(job[i].to) = i
           /\ At(job[i].from) \in Nat /\ At(job[i].to) \in Nat /\ At(ino[i].path) \in Nat
           /\ At(job[i].from) < At(job[i].to) /\ At(job[i].to) <= At(ino[i].path)
           /\ job[i].from # job[i].to /\ job[i].from # ino[i].path
           /\ ino[i].path \in Targets /\ deleted[job[i].from] = i
           /\ Holds(i, job[i].from, Current(ino[i]))
<1> DEFINE x == ino[i]
           j == job[i]
<1>1. /\ x.st = "MODIFIED" /\ x.old = j.from /\ j.from \in Paths /\ j.to \in Paths
      /\ At(j.from) < At(j.to) /\ x.path \in Targets
      /\ x.renamingTo => j.to = x.path
      /\ ~x.renamingTo => At(j.to) < At(x.path)
  BY DEF JobInv
<1>2. x.path \in Paths /\ Linked(i) /\ x.old # NoPath
  BY <1>1, PathsAssumption DEF NodeInv, Linked
<1>3. At(j.from) \in Nat /\ At(j.to) \in Nat /\ At(x.path) \in Nat
  BY <1>1, <1>2, AtNat
<1>4. At(j.to) <= At(x.path)
  BY <1>1, <1>3
<1>5. j.from # j.to /\ j.from # x.path
  BY <1>1, <1>3, <1>4
<1>6. Holder(j.from) = i /\ Holder(j.to) = i
  BY KeysAreHeld DEF KeysHeld
<1>7. SourceKey(x) = j.from /\ deleted[j.from] = i
  BY <1>1, <1>2 DEF SourceKey, NodeInv
<1>8. Holds(i, j.from, Current(x))
  BY <1>1, <1>2, <1>7 DEF StoredInv
<1> QED
  BY <1>1, <1>2, <1>3, <1>4, <1>5, <1>6, <1>7, <1>8

(* CopyBlob copies the inode's own object to a path the inode holds. *)
LEMMA FilesCopyBlob ==
    ASSUME Forward, NamesInv, FilesInv, NEW i \in Inodes, CopyBlob(i)
    PROVE  FilesInv'
<1> DEFINE x == ino[i]
<1>1. FileInv(i) /\ i # 0 /\ job[i] \in JobSet /\ x \in NodeSet
  BY PartTypes DEF FilesInv
<1>2. NodeInv(i) /\ JobInv(i) /\ StoredInv(i) /\ MarksInv(i) /\ ObjectsInv(i) /\ ReasonsInv(i)
      /\ LookInv(i)
  BY <1>1 DEF FileInv
<1>3. PICK from, to : from = job[i].from /\ to = job[i].to
  OBVIOUS
<1>4. /\ job[i].pc = "copy" /\ UNCHANGED <<ino, child, deleted, modified, look, used, renames, remote>>
      /\ job[i].pc \in Copies
  BY DEF CopyBlob, Copies
<1>5. /\ x.st = "MODIFIED" /\ x.old = from /\ x.old # NoPath
      /\ SourceKey(x) = from /\ Linked(i) /\ from \in Paths /\ to \in Paths
      /\ Holder(from) = i /\ Holder(to) = i /\ from # to
      /\ Holds(i, from, Current(x))
  BY <1>2, <1>3, <1>4, CopyFacts
<1>6. PICK pc : /\ pc \in {"copied", "missing"} /\ job' = [job EXCEPT ![i].pc = pc] /\ faults' = faults
                /\ pc = "copied" => /\ store[from] # NoObject
                                    /\ store' = [store EXCEPT ![to] = store[from]]
                /\ pc = "missing" => store[from] = NoObject /\ store' = store
  <2>1. ~Fault
    BY NothingStaged
  <2> QED
    BY <1>3, <1>5, <2>1 DEF CopyBlob
<1>7. PICK g : g = [job[i] EXCEPT !.pc = pc]
  OBVIOUS
<1>8. g.pc = pc /\ g.from = from /\ g.to = to
  BY <1>1, <1>3, <1>7 DEF JobSet
<1>9. g.ok = job[i].ok
  BY <1>1, <1>7 DEF JobSet
<1>10. job' = [job EXCEPT ![i] = g]
  BY <1>6, <1>7
<1>11. /\ \A q \in Paths : q # to => store'[q] = store[q]
       /\ pc = "copied" => store'[to] = store[from] /\ store[from].ino = i
       /\ pc = "missing" => store' = store
  <2>1. store[from] # NoObject => store[from].ino = i
    BY <1>5 DEF Holds
  <2> QED
    BY <1>5, <1>6, <2>1 DEF NamesInv, TypeOK
<1>12. StepOf(i) /\ job'[i] = g /\ job'[-i] = job[-i]
  <2>1. CASE pc = "copied"
    <3>1. ino' = ino /\ child' = child /\ deleted' = deleted /\ used' = used /\ look' = look
          /\ remote' = remote
      BY <1>4
    <3>2. store'[to] = NoObject \/ store'[to].ino = i
      BY <1>11, <2>1
    <3>3. \A q \in Paths : q # to => store'[q] = store[q]
      BY <1>11
    <3> QED
      BY <1>5, <1>10, <3>1, <3>2, <3>3, OwnRequest
  <2>2. CASE pc = "missing"
    BY <1>4, <1>10, <1>11, <2>2, OwnJobStep
  <2> QED
    BY <1>6, <2>1, <2>2
<1>13. Linked(i)'
  BY <1>4, <1>5 DEF Linked
<1>14. NodeInv(i)'
  <2>1. Uses(i)' => Uses(i)
    BY <1>4 DEF Uses, Linked
  <2> QED
    BY <1>2, <1>4, <1>5, <1>6, <1>8, <1>12, <2>1 DEF NodeInv, Copies
<1>15. JobInv(i)'
  <2>1. pc = "missing" => remote # 0
    BY <1>5, <1>6, ObjectAssumption DEF Holds
  <2>2. /\ x.st = "MODIFIED" /\ x.old = from /\ from \in Paths /\ to \in Paths
        /\ At(from) < At(to) /\ job[i].ok /\ x.path \in Targets
        /\ x.renamingTo => to = x.path
        /\ ~x.renamingTo => At(to) < At(x.path) /\ deleted[to] = i
    BY <1>2, <1>3, <1>4 DEF JobInv
  <2> QED
    BY <1>4, <1>6, <1>8, <1>9, <1>12, <2>1, <2>2 DEF JobInv, Deletes, Puts, Copies, Removes
<1>16. StoredInv(i)'
  <2>1. Holds(i, from, Current(x))'
    BY <1>4, <1>5, <1>11 DEF Holds
  <2>2. pc = "copied" => Holds(i, to, Current(x))'
    BY <1>4, <1>5, <1>6, <1>11 DEF Holds
  <2>3. pc = "missing" => store'[from] = NoObject
    BY <1>6
  <2> QED
    BY <1>4, <1>5, <1>6, <1>8, <1>12, <1>13, <2>1, <2>2, <2>3 DEF StoredInv
<1>17. MarksInv(i)' /\ LookInv(i)'
  BY <1>2, <1>4 DEF MarksInv, LookInv, Linked
<1>18. ObjectsInv(i)'
  <2>1. pc = "copied" => Owes(i, to)'
    BY <1>8, <1>12 DEF Owes
  <2>2. \A p \in Paths : Owes(i, p) => Owes(i, p)'
    BY <1>4, <1>5, <1>12 DEF Owes, Linked
  <2> QED
    BY <1>2, <1>6, <1>11, <2>1, <2>2 DEF ObjectsInv
<1>19. ReasonsInv(i)'
  <2>1. \A p : Reason(i, p) => Reason(i, p)'
    BY <1>3, <1>4, <1>6, <1>8, <1>12 DEF Reason, Copies, Removes
  <2> QED
    BY <1>2, <1>4, <2>1 DEF ReasonsInv
<1>20. FileInv(i)'
  BY <1>14, <1>15, <1>16, <1>17, <1>18, <1>19 DEF FileInv
<1> QED
  BY <1>6, <1>12, <1>20, FilesStep

(* After the copy the object is known by the new name; if the file was renamed again
   meanwhile, this is the next name to leave. *)
LEMMA FilesRenameCopied ==
    ASSUME Forward, NamesInv, FilesInv, NEW i \in Inodes, RenameCopied(i)
    PROVE  FilesInv'
<1> DEFINE x == ino[i]
<1>1. FileInv(i) /\ i # 0 /\ job[i] \in JobSet /\ x \in NodeSet /\ x.ver \in Nat /\ x.known \in Int
  BY PartTypes DEF FilesInv
<1>2. NodeInv(i) /\ JobInv(i) /\ StoredInv(i) /\ MarksInv(i) /\ ObjectsInv(i) /\ ReasonsInv(i)
      /\ LookInv(i)
  BY <1>1 DEF FileInv
<1>3. PICK from, to : from = job[i].from /\ to = job[i].to
  OBVIOUS
<1>4. /\ job[i].pc = "copied" /\ job[i].pc \in Copies
      /\ UNCHANGED <<child, deleted, look, store, used, renames, faults, remote>>
  BY DEF RenameCopied, Copies
<1>5. /\ x.st = "MODIFIED" /\ x.old = from /\ x.old # NoPath
      /\ SourceKey(x) = from /\ Linked(i) /\ from \in Paths /\ to \in Paths
      /\ At(from) \in Nat /\ At(to) \in Nat /\ At(x.path) \in Nat
      /\ At(from) < At(to) /\ At(to) <= At(x.path) /\ from # to /\ from # x.path
      /\ x.path \in Targets /\ deleted[from] = i
  BY <1>2, <1>3, <1>4, CopyFacts
<1>6. /\ x.renamingTo => to = x.path
      /\ ~x.renamingTo => At(to) < At(x.path) /\ deleted[to] = i
      /\ job[i].ok
  BY <1>2, <1>3, <1>4 DEF JobInv
<1>7. x.path \in Paths /\ child[x.path] = i /\ ~x.staged /\ ~x.awaiting /\ x.known >= 0
      /\ x.known <= x.ver /\ (x.ver # x.known => x.cached) /\ job[-i].pc = "idle"
  BY <1>2, <1>5 DEF NodeInv
<1> DEFINE old == IF x.path \in {from, to} THEN NoPath ELSE to
           z == [x EXCEPT !.renamingTo = FALSE, !.old = old, !.awaiting = @ /\ old # NoPath]
           st == IF Flushable(z) /\ ~isStillDirty(z) /\ ~z.staged THEN "CACHED" ELSE z.st
           del == IF z.path # to /\ z.path = from THEN to ELSE from
<1>8. /\ ino' = [ino EXCEPT ![i] = [z EXCEPT !.st = st]]
      /\ job' = [job EXCEPT ![i] = [@ EXCEPT !.pc = "remove", !.from = del]]
  BY <1>3 DEF RenameCopied
<1>9. (x.path = to => old = NoPath) /\ (x.path # to => old = to) /\ old \in Place
  BY <1>5, InitialTypes
<1> HIDE DEF old
<1>10. /\ z.st = x.st /\ z.path = x.path /\ z.old = old /\ z.ver = x.ver /\ z.known = x.known
       /\ z.cached = x.cached /\ z.staged = x.staged
       /\ z \in [st: States, path: Place, old: Place, renamingTo: BOOLEAN, ver: Versions,
                 known: Known, cached: BOOLEAN, staged: BOOLEAN, awaiting: BOOLEAN,
                 dropped: BOOLEAN]
  BY <1>1, <1>9 DEF NodeSet
<1>11. ~z.renamingTo /\ ~z.awaiting /\ ~z.staged
  <2>1. z.renamingTo = FALSE
    BY <1>1 DEF NodeSet
  <2>2. ~z.awaiting
    BY <1>1, <1>7 DEF NodeSet
  <2> QED
    BY <1>7, <1>10, <2>1, <2>2
<1>12. del = from
  BY <1>5, <1>10
<1> HIDE DEF z, del
<1>13. /\ st = IF old = NoPath /\ x.ver = x.known THEN "CACHED" ELSE "MODIFIED"
       /\ st \in {"CACHED", "MODIFIED"}
  BY <1>5, <1>10, <1>11 DEF Flushable, isStillDirty
<1> HIDE DEF st
<1>14. PICK y : y = [z EXCEPT !.st = st]
  OBVIOUS
<1>15. /\ y.st = st /\ y.path = x.path /\ y.old = old /\ y.ver = x.ver /\ y.known = x.known
  BY <1>10, <1>14
<1>16. ~y.renamingTo /\ ~y.awaiting /\ ~y.staged /\ (y.cached <=> x.cached)
  BY <1>10, <1>11, <1>14
<1>17. PICK g : g = [job[i] EXCEPT !.pc = "remove", !.from = from]
  OBVIOUS
<1>18. g.pc = "remove" /\ g.from = from /\ g.to = to
  BY <1>1, <1>3, <1>17 DEF JobSet
<1>19. g.ok
  BY <1>1, <1>6, <1>17 DEF JobSet
<1>20. ino' = [ino EXCEPT ![i] = y] /\ job' = [job EXCEPT ![i] = g]
  BY <1>8, <1>12, <1>14, <1>17
<1>21. StepOf(i) /\ ino'[i] = y /\ job'[i] = g /\ job'[-i] = job[-i]
  <2>1. /\ ino'[i] = y /\ job'[i] = g /\ job'[-i] = job[-i]
        /\ UNCHANGED <<child, deleted, store, used, remote>> /\ (look' = look \/ look'.ino \in {0, i})
             => StepOf(i)
    BY <1>20, OwnStep
  <2> QED
    BY <1>4, <2>1
<1>22. Linked(i)'
  BY <1>4, <1>7, <1>15, <1>21 DEF Linked
<1>23. SourceKey(y) = to
  BY <1>5, <1>9, <1>15, PathsAssumption DEF SourceKey
<1>24. x.path # to => At(to) < At(x.path) /\ deleted[to] = i /\ to # NoPath
  BY <1>5, <1>6, PathsAssumption
<1>25. NodeInv(i)'
  <2>1. Uses(i)' => deleted[x.path] = 0
    <3> SUFFICES ASSUME Uses(i)' PROVE deleted[x.path] = 0
      OBVIOUS
    <3>1. y.old = NoPath
      BY <1>16, <1>21 DEF Uses
    <3>2. x.path = to
      BY <1>9, <1>15, <1>24, <3>1
    <3>3. x.renamingTo
      BY <1>5, <1>6, <3>2
    <3>4. Uses(i)
      BY <1>5, <3>3 DEF Uses
    <3> QED
      BY <1>2, <3>4 DEF NodeInv
  <2>2. i > used => y = NoNode
    <3>1. i > used => x = NoNode
      BY <1>2 DEF NodeInv
    <3> QED
      BY <1>5, <3>1 DEF NoNode
  <2>3. y.old # NoPath => /\ y.st \in {"CREATED", "MODIFIED"} /\ y.path \in Targets
                          /\ At(y.old) < At(y.path) /\ deleted[y.old] = i
    BY <1>5, <1>9, <1>13, <1>15, <1>24
  <2>4. y.st \in {"CREATED", "MODIFIED"} =>
            y.path \in Paths /\ child[y.path] = i /\ (y.ver # y.known => y.cached)
    BY <1>7, <1>15, <1>16
  <2>5. /\ y.st = "MODIFIED" => y.known >= 0 /\ (y.old # NoPath \/ y.ver # y.known)
        /\ y.st = "CACHED" => y.old = NoPath /\ y.path \in Paths /\ y.ver = y.known
        /\ y.st \in {"MODIFIED", "CACHED"} /\ y.known <= y.ver
    BY <1>7, <1>13, <1>15
  <2> QED
    BY <1>4, <1>7, <1>15, <1>16, <1>18, <1>21, <2>1, <2>2, <2>3, <2>4, <2>5 DEF NodeInv, Removes
<1>26. JobInv(i)'
  BY <1>4, <1>5, <1>13, <1>15, <1>18, <1>19, <1>21, <1>23 DEF JobInv, Deletes, Puts, Copies, Removes
<1>27. StoredInv(i)'
  <2>1. Holds(i, to, Current(x))
    BY <1>2, <1>3, <1>4 DEF StoredInv
  <2>2. Current(y) = Current(x)
    BY <1>15 DEF Current
  <2>3. Holds(i, to, Current(y))'
    BY <1>4, <2>1, <2>2 DEF Holds
  <2> QED
    BY <1>18, <1>21, <1>23, <2>3 DEF StoredInv
<1>28. MarksInv(i)' /\ LookInv(i)'
  BY <1>2, <1>4, <1>5, <1>15, <1>21, <1>22 DEF MarksInv, LookInv
<1>29. ObjectsInv(i)'
  <2>1. \A p \in Paths : Owes(i, p) => p = from \/ p = to
    BY <1>3, <1>4, <1>5 DEF Owes
  <2>2. Owes(i, from)'
    BY <1>18, <1>21 DEF Owes
  <2>3. Owes(i, to)'
    BY <1>13, <1>15, <1>21, <1>22, <1>23 DEF Owes
  <2> QED
    BY <1>2, <1>4, <2>1, <2>2, <2>3 DEF ObjectsInv
<1>30. ReasonsInv(i)'
  <2>1. ASSUME NEW p \in Paths, Reason(i, p) PROVE Reason(i, p)'
    <3>1. p = from \/ (p = to /\ ~x.renamingTo)
      BY <1>3, <1>4, <1>5, <2>1 DEF Reason, Removes, Copies
    <3>2. p = to /\ ~x.renamingTo => y.old = p
      BY <1>5, <1>6, <1>9, <1>15
    <3> QED
      BY <1>18, <1>21, <3>1, <3>2 DEF Reason, Removes
  <2> QED
    BY <1>2, <1>4, <2>1 DEF ReasonsInv
<1>31. FileInv(i)'
  BY <1>25, <1>26, <1>27, <1>28, <1>29, <1>30 DEF FileInv
<1> QED
  BY <1>4, <1>21, <1>31, FilesStep

(* A DELETE goes to a key that only the inode that left it holds: the old key of a renamed
   file, or that of an unlinked one. *)
LEMMA FilesDeleteBlob ==
    ASSUME Forward, NamesInv, FilesInv, NEW i \in Inodes, NEW pc,
           \/ job[i].pc = "remove" /\ pc = "removed"
           \/ job[i].pc = "delete" /\ pc = "gone",
           DeleteBlob(i, pc)
    PROVE  FilesInv'
<1> DEFINE x == ino[i]
<1>1. FileInv(i) /\ i # 0 /\ job[i] \in JobSet /\ x \in NodeSet
  BY PartTypes DEF FilesInv
<1>2. NodeInv(i) /\ JobInv(i) /\ StoredInv(i) /\ MarksInv(i) /\ ObjectsInv(i) /\ ReasonsInv(i)
      /\ LookInv(i)
  BY <1>1 DEF FileInv
<1>3. PICK from : from = job[i].from
  OBVIOUS
<1>4. from \in Paths /\ Holder(from) = i
  BY <1>2, <1>3, KeysAreHeld DEF KeysHeld, Removes, Deletes
<1>5. PICK g : g = [job[i] EXCEPT !.pc = pc]
  OBVIOUS
<1>6. g.pc = pc /\ g.from = from /\ g.to = job[i].to
  BY <1>1, <1>3, <1>5 DEF JobSet
<1>7. g.ok
  BY <1>1, <1>2, <1>5 DEF JobSet, JobInv
<1>8. /\ job' = [job EXCEPT ![i] = g] /\ store' = [store EXCEPT ![from] = NoObject]
      /\ faults' = faults
  <2>1. ~Fault
    BY NothingStaged
  <2> QED
    BY <1>3, <1>5, <2>1 DEF DeleteBlob
<1>9. ino' = ino /\ child' = child /\ deleted' = deleted /\ used' = used /\ look' = look
      /\ remote' = remote
  BY DEF DeleteBlob
<1>10. store'[from] = NoObject /\ \A q \in Paths : q # from => store'[q] = store[q]
  BY <1>4, <1>8 DEF NamesInv, TypeOK
<1>11. StepOf(i) /\ job'[i] = g /\ job'[-i] = job[-i]
  BY <1>4, <1>8, <1>9, <1>10, OwnRequest
<1>12. Linked(i)' <=> Linked(i)
  BY <1>9 DEF Linked
<1>13. NodeInv(i)'
  <2>1. Uses(i)' => Uses(i)
    BY <1>9, <1>12 DEF Uses
  <2> QED
    BY <1>2, <1>6, <1>9, <1>11, <2>1 DEF NodeInv, Copies, Puts, Removes, Deletes
<1>14. JobInv(i)'
  BY <1>2, <1>3, <1>6, <1>7, <1>9, <1>11 DEF JobInv, Copies, Puts, Removes, Deletes
<1>15. StoredInv(i)'
  <2>1. Linked(i) /\ x.st # "CREATED" => SourceKey(x) # from /\ SourceKey(x) \in Paths
    <3> SUFFICES ASSUME Linked(i), x.st # "CREATED" PROVE SourceKey(x) # from /\ SourceKey(x) \in Paths
      OBVIOUS
    <3>1. x.st # "DELETED"
      BY <1>1 DEF Linked, NamesInv, ChildrenNamed
    <3>2. job[i].pc = "remove"
      BY <1>2, <3>1 DEF JobInv, Deletes
    <3>3. At(from) < At(SourceKey(x))
      BY <1>2, <1>3, <3>2 DEF JobInv, Removes
    <3>4. SourceKey(x) \in Paths
      BY <1>2, KeysAreHeld DEF KeysHeld
    <3> QED
      BY <1>4, <3>3, <3>4, AtNat
  <2> QED
    BY <1>2, <1>6, <1>9, <1>10, <1>11, <1>12, <2>1 DEF StoredInv, Holds
<1>16. MarksInv(i)' /\ LookInv(i)'
  BY <1>2, <1>9, <1>12 DEF MarksInv, LookInv
<1>17. ObjectsInv(i)'
  <2>1. ASSUME NEW p \in Paths, p # from, Owes(i, p) PROVE Owes(i, p)'
    <3>1. x.st = "DELETED" /\ x.path = p => pc # "gone"
      BY <1>2, <1>3, <2>1 DEF JobInv, Deletes
    <3> QED
      BY <1>3, <1>6, <1>9, <1>11, <1>12, <2>1, <3>1 DEF Owes
  <2> QED
    BY <1>2, <1>10, <2>1 DEF ObjectsInv
<1>18. ReasonsInv(i)'
  BY <1>2, <1>6, <1>3, <1>9, <1>11 DEF ReasonsInv, Reason, Copies, Removes
<1>19. FileInv(i)'
  BY <1>13, <1>14, <1>15, <1>16, <1>17, <1>18 DEF FileInv
<1> QED
  BY <1>8, <1>11, <1>19, FilesStep

(* A step that frees a path the inode had left. *)
LEMMA OwnRelease ==
    ASSUME NamesInv, NEW i \in Inodes, NEW g, NEW p \in Paths,
           \A k \in Inodes \ {i} : ino'[k] = ino[k],
           job' = [job EXCEPT ![i] = g], deleted[p] = i, deleted'[p] = 0,
           \A q \in Paths : q # p => deleted'[q] = deleted[q],
           \A q \in Paths : child'[q] = child[q] \/ (child[q] = i /\ child'[q] = 0),
           store' = store, used' = used, look' = look, remote' = remote
    PROVE  StepOf(i) /\ job'[i] = g /\ job'[-i] = job[-i]
<1>1. \A k \in Inodes : -k # i /\ k \in Workers /\ -k \in Workers
  BY WorkersDiffer
<1>2. job \in [Workers -> JobSet]
  BY DEF NamesInv, TypeOK
<1>3. \A k \in Inodes \ {i} : ino'[k] = ino[k] /\ job'[k] = job[k] /\ job'[-k] = job[-k]
  BY <1>1, <1>2
<1>4. \A q \in Paths : child'[q] = child[q] \/ (child[q] \in {0, i} /\ child'[q] \in {0, i})
  OBVIOUS
<1>5. \A q \in Paths : \/ deleted'[q] = deleted[q]
                       \/ deleted[q] = i /\ deleted'[q] = 0
  OBVIOUS
<1>6. StepOf(i)
  BY <1>3, <1>4, <1>5 DEF StepOf
<1> QED
  BY <1>1, <1>2, <1>6

(* The old name of a renamed file is free when its object is gone. *)
LEMMA FilesRenameRemoved ==
    ASSUME Forward, NamesInv, FilesInv, NEW i \in Inodes, RenameRemoved(i)
    PROVE  FilesInv'
<1> DEFINE x == ino[i]
<1>1. FileInv(i) /\ i # 0 /\ job[i] \in JobSet /\ x \in NodeSet /\ faults' = faults
  BY PartTypes DEF FilesInv, RenameRemoved
<1>2. NodeInv(i) /\ JobInv(i) /\ StoredInv(i) /\ MarksInv(i) /\ ObjectsInv(i) /\ ReasonsInv(i)
      /\ LookInv(i)
  BY <1>1 DEF FileInv
<1>3. PICK from : from = job[i].from
  OBVIOUS
<1>4. /\ job[i].pc = "removed" /\ from \in Paths /\ deleted[from] = i /\ x.path \in Targets
      /\ At(from) < At(SourceKey(x)) /\ x.st \in {"MODIFIED", "CACHED"} /\ job[i].ok
  BY <1>2, <1>3 DEF RenameRemoved, JobInv, Removes
<1>5. PICK g : g = [job[i] EXCEPT !.pc = "end"]
  OBVIOUS
<1>6. g.pc = "end" /\ g.ok
  BY <1>1, <1>4, <1>5 DEF JobSet
<1>7. /\ job' = [job EXCEPT ![i] = g] /\ deleted' = [deleted EXCEPT ![from] = 0] /\ ino' = ino
      /\ child' = child /\ store' = store /\ used' = used /\ look' = look /\ remote' = remote
  BY <1>3, <1>4, <1>5 DEF RenameRemoved
<1>8. deleted'[from] = 0 /\ \A q \in Paths : q # from => deleted'[q] = deleted[q]
  BY <1>4, <1>7 DEF NamesInv, TypeOK
<1>9. StepOf(i) /\ job'[i] = g /\ job'[-i] = job[-i]
  BY <1>4, <1>7, <1>8, OwnRelease
<1>10. Linked(i)' <=> Linked(i)
  BY <1>7 DEF Linked
<1>11. x.old # NoPath => x.old # from /\ x.old \in Paths
  <2>1. x.old # NoPath => x.old \in Paths
    BY PartTypes
  <2> QED
    BY <1>4, <2>1, AtNat DEF SourceKey
<1>12. NodeInv(i)'
  <2>1. Uses(i)' => deleted'[x.path] = 0
    <3>1. Uses(i)' => Uses(i)
      BY <1>4, <1>7, <1>10 DEF Uses
    <3>2. Uses(i) => x.path \in Paths /\ deleted[x.path] = 0
      BY <1>2 DEF NodeInv, Uses, Linked
    <3> QED
      BY <1>8, <3>1, <3>2
  <2>2. ~x.renamingTo
    BY <1>2, <1>4 DEF NodeInv, Copies
  <2> QED
    BY <1>2, <1>4, <1>6, <1>7, <1>8, <1>9, <1>11, <2>1, <2>2 DEF NodeInv
<1>13. JobInv(i)'
  BY <1>4, <1>6, <1>7, <1>9 DEF JobInv, Copies, Puts, Removes, Deletes
<1>14. StoredInv(i)'
  BY <1>2, <1>6, <1>7, <1>9, <1>10 DEF StoredInv, Holds
<1>15. MarksInv(i)' /\ LookInv(i)'
  <2>1. Linked(i) => x.path \in Paths
    BY DEF Linked
  <2>2. deleted[x.path] = 0 /\ x.path \in Paths => deleted'[x.path] = 0
    BY <1>8
  <2> QED
    BY <1>1, <1>2, <1>7, <1>8, <1>10, <2>1, <2>2 DEF MarksInv, LookInv
<1>16. ObjectsInv(i)'
  BY <1>2, <1>4, <1>6, <1>7, <1>9, <1>10 DEF ObjectsInv, Owes
<1>17. ReasonsInv(i)'
  BY <1>1, <1>2, <1>3, <1>4, <1>6, <1>7, <1>8, <1>9 DEF ReasonsInv, Reason, Copies, Removes
<1>18. FileInv(i)'
  BY <1>12, <1>13, <1>14, <1>15, <1>16, <1>17 DEF FileInv
<1> QED
  BY <1>1, <1>9, <1>18, FilesStep

(* resetCache keeps everything but the content. *)
LEMMA ResetFields ==
    ASSUME NEW x \in NodeSet, NEW st
    PROVE  LET y == Reset(x, st)
           IN  /\ y.st = st /\ y.path = x.path /\ y.old = x.old /\ y.ver = x.ver /\ y.known = x.known
               /\ y.renamingTo = x.renamingTo /\ ~y.staged /\ ~y.awaiting /\ ~y.cached
<1>1. Reset(x, st).st = st /\ Reset(x, st).path = x.path /\ Reset(x, st).old = x.old
      /\ Reset(x, st).ver = x.ver /\ Reset(x, st).known = x.known
      /\ Reset(x, st).renamingTo = x.renamingTo
  BY DEF Reset, NodeSet
<1>2. ~Reset(x, st).staged /\ ~Reset(x, st).awaiting /\ ~Reset(x, st).cached
  BY DEF Reset, NodeSet
<1> QED
  BY <1>1, <1>2

(* sendRename gives up a file only when another client has removed an object. *)
LEMMA FilesRenameMissing ==
    ASSUME NamesInv, FilesInv, NEW i \in Inodes, RenameMissing(i)
    PROVE  Gone'
<1>1. NodeInv(i) /\ JobInv(i) /\ i \in Nat /\ used \in Nat /\ remote \in Nat
  BY PartTypes DEF FilesInv, FileInv
<1>2. job[i].pc = "missing" /\ remote' = remote /\ used' = used
  BY DEF RenameMissing
<1>3. remote # 0 /\ ino[i].st = "MODIFIED"
  BY <1>1, <1>2 DEF JobInv, Copies
<1>4. i <= used
  BY <1>1, <1>3 DEF NodeInv, NoNode
<1>5. ino'[i].dropped
  <2>1. ino \in [Inodes -> NodeSet] /\ ino[i] \in NodeSet
    BY DEF NamesInv, TypeOK
  <2>2. Reset(ino[i], "CACHED") \in NodeSet
    BY <2>1, ResetType, InitialTypes
  <2> QED
    BY <2>1, <2>2 DEF RenameMissing, NodeSet
<1> QED
  BY <1>1, <1>2, <1>3, <1>4, <1>5 DEF Gone

(* The name of an unlinked file is free when its object is gone. *)
LEMMA FilesDeleteReturns ==
    ASSUME Forward, NamesInv, FilesInv, NEW i \in Inodes, DeleteReturns(i)
    PROVE  FilesInv'
<1> DEFINE x == ino[i]
<1>1. FileInv(i) /\ i # 0 /\ job[i] \in JobSet /\ x \in NodeSet /\ faults' = faults
  BY PartTypes DEF FilesInv, DeleteReturns
<1>2. NodeInv(i) /\ JobInv(i) /\ StoredInv(i) /\ MarksInv(i) /\ ObjectsInv(i) /\ ReasonsInv(i)
      /\ LookInv(i)
  BY <1>1 DEF FileInv
<1>3. /\ job[i].pc = "gone" /\ x.st = "DELETED" /\ job[i].to = NoPath /\ job[i].ok
      /\ job' = [job EXCEPT ![i] = NoJob] /\ child' = child
      /\ store' = store /\ used' = used /\ look' = look /\ remote' = remote
  BY <1>2 DEF DeleteReturns, JobInv, Deletes
<1>4. PICK p : p = x.path
  OBVIOUS
<1>5. p \in Paths /\ deleted[p] = i /\ x.old = NoPath /\ x.known <= x.ver /\ job[-i].pc = "idle"
      /\ ~x.renamingTo
  BY <1>2, <1>3, <1>4 DEF NodeInv, Copies
<1>6. PICK y : y = Reset(x, "DEAD")
  OBVIOUS
<1>7. y.st = "DEAD" /\ y.path = p /\ y.old = NoPath /\ y.ver = x.ver /\ y.known = x.known
  BY <1>1, <1>4, <1>5, <1>6, ResetFields
<1>8. ~y.staged /\ ~y.awaiting /\ ~y.renamingTo
  BY <1>1, <1>5, <1>6, ResetFields
<1>9. /\ ino' = [ino EXCEPT ![i] = y]
      /\ deleted' = [q \in Paths |-> IF q \in {NoPath, p} THEN 0 ELSE deleted[q]]
  BY <1>3, <1>4, <1>6 DEF DeleteReturns
<1>10. /\ deleted'[p] = 0 /\ \A q \in Paths : q # p => deleted'[q] = deleted[q]
       /\ ino'[i] = y /\ \A k \in Inodes \ {i} : ino'[k] = ino[k]
  BY <1>5, <1>9, PathsAssumption DEF NamesInv, TypeOK
<1>11. StepOf(i) /\ job'[i].pc = "idle" /\ job'[i].ok /\ job'[-i] = job[-i]
  <2>1. PICK g : g = NoJob
    OBVIOUS
  <2>2. \A k \in Inodes \ {i} : ino'[k] = ino[k]
    BY <1>10
  <2>3. deleted'[p] = 0 /\ \A q \in Paths : q # p => deleted'[q] = deleted[q]
    BY <1>10
  <2>4. StepOf(i) /\ job'[i] = g /\ job'[-i] = job[-i]
    BY <1>3, <1>5, <2>1, <2>2, <2>3, OwnRelease
  <2> QED
    BY <2>1, <2>4 DEF NoJob
<1>12. ~Linked(i) /\ ~Linked(i)'
  <2>1. ~Linked(i)
    BY <1>1, <1>3 DEF Linked, NamesInv, ChildrenNamed
  <2> QED
    BY <1>3, <1>4, <1>7, <1>10, <2>1 DEF Linked
<1>13. NodeInv(i)'
  <2>1. ~Uses(i)'
    BY <1>12 DEF Uses
  <2>2. i > used => y = NoNode
    <3>1. i > used => x = NoNode
      BY <1>2 DEF NodeInv
    <3> QED
      BY <1>3, <3>1 DEF NoNode
  <2> QED
    BY <1>3, <1>5, <1>7, <1>8, <1>10, <1>11, <2>1, <2>2 DEF NodeInv
<1>14. JobInv(i)'
  BY <1>11 DEF JobInv, Copies, Puts, Removes, Deletes
<1>15. StoredInv(i)'
  BY <1>11, <1>12 DEF StoredInv
<1>16. MarksInv(i)' /\ LookInv(i)'
  BY <1>1, <1>2, <1>3, <1>4, <1>7, <1>10, <1>12 DEF MarksInv, LookInv
<1>17. ObjectsInv(i)'
  BY <1>2, <1>3, <1>12 DEF ObjectsInv, Owes
<1>18. ReasonsInv(i)'
  <2>1. \A q \in Paths : Reason(i, q) => q = p
    BY <1>3, <1>4, <1>5, PathsAssumption DEF Reason, Copies, Removes
  <2> QED
    BY <1>1, <1>2, <1>3, <1>10, <2>1 DEF ReasonsInv
<1>19. FileInv(i)'
  BY <1>13, <1>14, <1>15, <1>16, <1>17, <1>18 DEF FileInv
<1> QED
  BY <1>1, <1>11, <1>19, FilesStep

(* A new inode has left nothing anywhere. *)
LEMMA FilesCreate ==
    ASSUME Forward, NamesInv, FilesInv, NEW p \in Creates, Create(p)
    PROVE  FilesInv'
<1>1. PICK i \in Inodes : i = used + 1
  BY BoundsAssumption DEF Create, Inodes, NamesInv, NextIsUnlisted
<1>2. FileInv(i) /\ i # 0 /\ i > used /\ p \in Paths /\ used \in Nat /\ i \in Nat
  BY <1>1, PartTypes, PathsAssumption DEF FilesInv
<1>3. NodeInv(i) /\ JobInv(i) /\ StoredInv(i) /\ MarksInv(i) /\ ObjectsInv(i) /\ ReasonsInv(i)
      /\ LookInv(i)
  BY <1>2 DEF FileInv
<1>4. /\ ino[i] = NoNode /\ ino[i].st = "NONE" /\ ino[i].path = NoPath /\ job[i].pc = "idle"
      /\ job[i].ok /\ job[-i].pc = "idle"
  BY <1>2, <1>3 DEF NodeInv, JobInv, NoNode
<1>5. PICK y : y = [NoNode EXCEPT !.st = "CREATED", !.path = p, !.cached = TRUE, !.staged = Staged]
  OBVIOUS
<1>6. y.st = "CREATED" /\ y.path = p /\ y.old = NoPath /\ y.ver = 0 /\ y.known = -1
  BY <1>5 DEF NoNode
<1>7. y.cached /\ ~y.staged /\ ~y.awaiting /\ ~y.renamingTo
  BY <1>5, BoundsAssumption DEF NoNode, Forward
<1>8. /\ ino' = [ino EXCEPT ![i] = y] /\ child' = [child EXCEPT ![p] = i] /\ child[p] = 0
      /\ used' = used + 1 /\ UNCHANGED <<deleted, look, job, store, faults, remote>>
  BY <1>1, <1>5 DEF Create
<1>9. /\ ino'[i] = y /\ \A k \in Inodes \ {i} : ino'[k] = ino[k]
      /\ child'[p] = i /\ \A q \in Paths : q # p => child'[q] = child[q]
  BY <1>2, <1>8 DEF NamesInv, TypeOK
<1>10. StepOf(i)
  BY <1>8, <1>9 DEF StepOf
<1>11. NodeInv(i)'
  <2>1. ~Uses(i)'
    BY <1>4, <1>6, <1>8, <1>9 DEF Uses
  <2>2. ~(i > used')
    BY <1>1, <1>2, <1>8
  <2> QED
    BY <1>2, <1>4, <1>6, <1>7, <1>8, <1>9, <2>1, <2>2 DEF NodeInv
<1>12. JobInv(i)'
  BY <1>4, <1>8 DEF JobInv, Copies, Puts, Removes, Deletes
<1>13. StoredInv(i)'
  BY <1>4, <1>6, <1>8, <1>9 DEF StoredInv
<1>14. \A q \in Paths : deleted[q] # i
  BY <1>3, <1>4, PathsAssumption DEF MarksInv
<1>15. look.ino # i
  BY <1>3, <1>4, PathsAssumption DEF LookInv
<1>16. MarksInv(i)' /\ LookInv(i)' /\ ReasonsInv(i)'
  BY <1>8, <1>14, <1>15 DEF MarksInv, LookInv, ReasonsInv
<1>17. ObjectsInv(i)'
  <2>1. \A q \in Paths : ~Owes(i, q)
    BY <1>4, PathsAssumption DEF Owes, Linked
  <2> QED
    BY <1>3, <1>8, <2>1 DEF ObjectsInv
<1>18. FileInv(i)'
  BY <1>11, <1>12, <1>13, <1>16, <1>17 DEF FileInv
<1> QED
  BY <1>8, <1>10, <1>18, FilesStep

(* A write leaves the file to be uploaded. *)
LEMMA FilesWrite ==
    ASSUME Forward, NamesInv, FilesInv, NEW i \in Inodes, Write(i)
    PROVE  FilesInv'
<1> DEFINE x == ino[i]
           st == IF x.st = "CACHED" THEN "MODIFIED" ELSE x.st
<1>1. /\ FileInv(i) /\ i # 0 /\ x \in NodeSet /\ x.ver \in Nat /\ x.known \in Int
      /\ x.known \in Known /\ x.ver \in Versions
  BY PartTypes DEF FilesInv
<1>2. NodeInv(i) /\ JobInv(i) /\ StoredInv(i) /\ MarksInv(i) /\ ObjectsInv(i) /\ ReasonsInv(i)
      /\ LookInv(i)
  BY <1>1 DEF FileInv
<1>3. /\ Linked(i) /\ x.path \in Paths /\ child[x.path] = i
      /\ UNCHANGED <<child, deleted, look, job, store, used, faults, remote>>
  BY DEF Write, Linked
<1>4. x.st \in {"CREATED", "MODIFIED", "CACHED"}
  BY <1>1, <1>3 DEF NamesInv, ChildrenNamed
<1>5. PICK y : y = [x EXCEPT !.ver = @ + 1, !.st = st, !.cached = TRUE, !.staged = Staged,
                             !.awaiting = FALSE]
  OBVIOUS
<1>6. /\ y.st = st /\ y.path = x.path /\ y.old = x.old /\ y.ver = x.ver + 1 /\ y.known = x.known
      /\ y.renamingTo = x.renamingTo
  BY <1>1, <1>5 DEF NodeSet
<1>7. y.cached /\ ~y.staged /\ ~y.awaiting
  BY <1>1, <1>5, BoundsAssumption DEF NodeSet, Forward
<1>8. ino' = [ino EXCEPT ![i] = y]
  BY <1>5 DEF Write
<1>9. ino'[i] = y /\ \A k \in Inodes \ {i} : ino'[k] = ino[k]
  BY <1>8 DEF NamesInv, TypeOK
<1>10. StepOf(i)
  BY <1>3, <1>9 DEF StepOf
<1>11. Linked(i)' /\ SourceKey(y) = SourceKey(x)
  BY <1>3, <1>6, <1>9 DEF Linked, SourceKey
<1>12. st = "CREATED" <=> x.st = "CREATED"
  OBVIOUS
<1>13. y.ver # y.known /\ y.known <= y.ver /\ st \in {"CREATED", "MODIFIED"}
  <2>1. x.known <= x.ver
    BY <1>2 DEF NodeInv
  <2> QED
    BY <1>1, <1>4, <1>6, <2>1
<1>14. NodeInv(i)'
  <2>1. Uses(i)' => deleted[x.path] = 0
    <3>1. Uses(i)' => Uses(i)
      BY <1>3, <1>6, <1>9, <1>12 DEF Uses
    <3> QED
      BY <1>2, <3>1 DEF NodeInv
  <2>2. i > used => y = NoNode
    <3>1. i > used => x = NoNode
      BY <1>2 DEF NodeInv
    <3> QED
      BY <1>4, <3>1 DEF NoNode
  <2>3. st = "MODIFIED" => x.known >= 0
    BY <1>1, <1>2, <1>3, <1>4 DEF NodeInv
  <2>4. y.old # NoPath => /\ y.st \in {"CREATED", "MODIFIED"} /\ y.path \in Targets
                          /\ At(y.old) < At(y.path) /\ deleted[y.old] = i
    BY <1>2, <1>6, <1>13 DEF NodeInv
  <2>5. /\ y.st = "CREATED" => /\ y.known = -1 /\ job[i].pc \in {"idle"} \cup Puts
                               /\ y.old # NoPath => job[i].pc \in Puts
        /\ y.renamingTo => job[i].pc \in Copies
        /\ job[-i].pc = "idle"
    BY <1>2, <1>6, <1>12 DEF NodeInv
  <2> QED
    BY <1>3, <1>6, <1>7, <1>9, <1>13, <2>1, <2>2, <2>3, <2>4, <2>5 DEF NodeInv
<1>15. JobInv(i)'
  <2>1. job[i].pc \in Copies => x.st = "MODIFIED" /\ st = "MODIFIED"
    BY <1>2 DEF JobInv
  <2>2. job[i].pc \in Removes => st \in {"MODIFIED", "CACHED"}
    BY <1>2 DEF JobInv
  <2>3. job[i].pc \notin Deletes
    BY <1>2, <1>4 DEF JobInv
  <2>4. job[i].pc \in {"send", "sent"} => job[i].ver <= y.ver
    <3>1. job[i].ver \in Nat
      BY PartTypes
    <3> QED
      BY <1>1, <1>2, <1>6, <3>1 DEF JobInv
  <2> QED
    BY <1>2, <1>3, <1>6, <1>9, <1>11, <1>13, <2>1, <2>2, <2>3, <2>4 DEF JobInv
<1>16. StoredInv(i)'
  <2>1. Current(y) = Versions
    BY <1>13 DEF Current
  <2>2. Current(x) \subseteq Versions
    BY <1>1 DEF Current
  <2>3. \A p : Holds(i, p, Current(x)) => Holds(i, p, Current(y))'
    BY <1>3, <2>1, <2>2 DEF Holds
  <2>4. x.st # "DELETED"
    BY <1>4
  <2> QED
    BY <1>2, <1>3, <1>6, <1>9, <1>11, <1>12, <2>3, <2>4 DEF StoredInv, Holds
<1>17. MarksInv(i)' /\ LookInv(i)'
  BY <1>2, <1>3, <1>6, <1>9, <1>11 DEF MarksInv, LookInv
<1>18. ObjectsInv(i)'
  <2>1. \A p \in Paths : Owes(i, p) => Owes(i, p)'
    BY <1>3, <1>4, <1>6, <1>9, <1>11, <1>12 DEF Owes
  <2> QED
    BY <1>2, <1>3, <2>1 DEF ObjectsInv
<1>19. ReasonsInv(i)'
  <2>1. \A p \in Paths : Reason(i, p) => Reason(i, p)'
    BY <1>3, <1>4, <1>6, <1>9 DEF Reason
  <2> QED
    BY <1>2, <1>3, <2>1 DEF ReasonsInv
<1>20. FileInv(i)'
  BY <1>14, <1>15, <1>16, <1>17, <1>18, <1>19 DEF FileInv
<1> QED
  BY <1>3, <1>10, <1>20, FilesStep

(* A file that is removed leaves its object to SendDelete, unless it never had one. *)
LEMMA FilesUnlink ==
    ASSUME Forward, NamesInv, FilesInv, NEW p \in Unlinks, Unlink(p)
    PROVE  FilesInv'
<1>1. p \in Paths /\ p \notin Targets
  BY PathsAssumption DEF Forward
<1>2. PICK i \in Inodes : i = child[p]
  BY <1>1 DEF Unlink, NamesInv, TypeOK
<1> DEFINE x == ino[i]
<1>3. FileInv(i) /\ i # 0 /\ x \in NodeSet /\ x.st \in States /\ job[i].pc \in Pcs
  BY PartTypes DEF FilesInv
<1>4. NodeInv(i) /\ JobInv(i) /\ StoredInv(i) /\ MarksInv(i) /\ ObjectsInv(i) /\ ReasonsInv(i)
      /\ LookInv(i)
  BY <1>3 DEF FileInv
<1>5. x.path = p /\ Linked(i) /\ x.st \in {"CREATED", "MODIFIED", "CACHED"}
  BY <1>1, <1>2, <1>3 DEF NamesInv, ChildrenNamed, Linked
<1>6. x.old = NoPath /\ ~x.renamingTo /\ job[i].pc \in {"idle"} \cup Puts
  <2>1. x.old = NoPath
    BY <1>1, <1>4, <1>5 DEF NodeInv
  <2>2. job[i].pc \notin Copies \cup Removes \cup {"end"} \cup Deletes
                      \cup {"error", "dropped", "unlinked", "retried"}
    BY <1>1, <1>4, <1>5 DEF JobInv
  <2> QED
    BY <1>3, <1>4, <2>1, <2>2 DEF NodeInv, Copies, Removes, Deletes, Puts, Pcs
<1>7. job[-i].pc = "idle" /\ x.known <= x.ver
  BY <1>4 DEF NodeInv
<1> DEFINE had == x.st # "CREATED" \/ job[i].pc # "idle"
           st == IF had THEN "DELETED" ELSE "DEAD"
<1>8. had => deleted[p] = 0
  BY <1>4, <1>5, <1>6 DEF NodeInv, Uses
<1>9. /\ ino' = [ino EXCEPT ![i] = Reset(x, st)]
      /\ deleted' = IF had THEN [deleted EXCEPT ![p] = i] ELSE deleted
      /\ child' = [child EXCEPT ![p] = 0]
      /\ UNCHANGED <<look, job, store, used, faults, remote>>
  BY <1>2, <1>6, <1>7, <1>8 DEF Unlink, Idle
<1>10. PICK y : y = Reset(x, st)
  OBVIOUS
<1> HIDE DEF st
<1>11. y.st = st /\ y.path = p /\ y.old = NoPath /\ y.ver = x.ver /\ y.known = x.known
  BY <1>3, <1>5, <1>6, <1>10, ResetFields
<1>12. ~y.staged /\ ~y.awaiting /\ ~y.renamingTo
  BY <1>3, <1>6, <1>10, ResetFields
<1>13. /\ ino'[i] = y /\ \A k \in Inodes \ {i} : ino'[k] = ino[k]
       /\ child'[p] = 0 /\ \A q \in Paths : q # p => child'[q] = child[q]
       /\ had => deleted'[p] = i
       /\ ~had => deleted'[p] = deleted[p]
       /\ \A q \in Paths : q # p => deleted'[q] = deleted[q]
  BY <1>1, <1>9, <1>10 DEF NamesInv, TypeOK
<1>14. (had => st = "DELETED") /\ (~had => st = "DEAD")
  BY DEF st
<1>15. StepOf(i)
  <2>1. \A q \in Paths : \/ deleted'[q] = deleted[q]
                         \/ deleted[q] = 0 /\ child[q] = i /\ deleted'[q] = i
    BY <1>2, <1>8, <1>13
  <2>2. \A q \in Paths : child'[q] = child[q] \/ (child[q] \in {0, i} /\ child'[q] \in {0, i})
    BY <1>2, <1>13
  <2> QED
    BY <1>9, <1>13, <2>1, <2>2 DEF StepOf
<1>16. ~Linked(i)'
  BY <1>3, <1>11, <1>13 DEF Linked
<1>17. i > used => y = NoNode
  <2>1. i > used => x = NoNode
    BY <1>4 DEF NodeInv
  <2> QED
    BY <1>5, <2>1 DEF NoNode
<1>18. NodeInv(i)'
  <2>1. ~Uses(i)'
    BY <1>16 DEF Uses
  <2> HIDE DEF had
  <2>2. CASE had
    BY <1>1, <1>6, <1>7, <1>9, <1>11, <1>12, <1>13, <1>14, <1>17, <2>1, <2>2 DEF NodeInv
  <2>3. CASE ~had
    <3>1. job[i].pc = "idle"
      BY <2>3 DEF had
    <3> QED
      BY <1>1, <1>7, <1>9, <1>11, <1>12, <1>13, <1>14, <1>17, <2>1, <2>3, <3>1 DEF NodeInv
  <2> QED
    BY <2>2, <2>3
<1>19. JobInv(i)'
  <2>1. job[i].ok
    BY <1>4 DEF JobInv
  <2>2. job[i].pc \in Puts => st = "DELETED"
    BY <1>14 DEF Puts
  <2>3. job[i].pc \in {"send", "sent"} => job[i].to = p /\ job[i].ver <= x.ver
    BY <1>4, <1>5, <1>6 DEF JobInv, SourceKey
  <2> QED
    BY <1>1, <1>6, <1>9, <1>11, <1>13, <2>1, <2>2, <2>3 DEF JobInv, Puts, Copies, Removes, Deletes, SourceKey
<1>20. StoredInv(i)'
  <2>1. job[i].pc = "sent" => st = "DELETED"
    BY <1>14
  <2> QED
    BY <1>6, <1>9, <1>11, <1>13, <1>16, <2>1 DEF StoredInv, Puts
<1>21. MarksInv(i)' /\ LookInv(i)'
  <2>1. At(p) <= At(p)
    BY <1>1, AtNat
  <2>2. \A q \in Paths : deleted'[q] = i => q = p \/ deleted[q] = i
    BY <1>13
  <2> QED
    BY <1>1, <1>4, <1>5, <1>9, <1>11, <1>13, <1>16, <2>1, <2>2 DEF MarksInv, LookInv
<1>22. ObjectsInv(i)'
  <2>1. ASSUME NEW q \in Paths, Owes(i, q) PROVE Owes(i, q)'
    <3>1. q = p /\ had
      BY <1>5, <1>6, <2>1 DEF Owes, SourceKey, Puts
    <3> QED
      BY <1>6, <1>9, <1>11, <1>13, <1>14, <3>1 DEF Owes, Puts
  <2> QED
    BY <1>4, <1>9, <2>1 DEF ObjectsInv
<1>23. ReasonsInv(i)'
  <2>1. \A q \in Paths : deleted[q] = i => remote # 0
    BY <1>4, <1>5, <1>6, PathsAssumption DEF ReasonsInv, Reason, Copies, Removes, Puts
  <2>2. had => Reason(i, p)'
    BY <1>11, <1>13, <1>14 DEF Reason
  <2>3. \A q \in Paths : deleted'[q] = i => (q = p /\ had) \/ deleted[q] = i
    BY <1>13
  <2> QED
    BY <1>9, <2>1, <2>2, <2>3 DEF ReasonsInv
<1>24. FileInv(i)'
  BY <1>18, <1>19, <1>20, <1>21, <1>22, <1>23 DEF FileInv
<1> QED
  BY <1>9, <1>15, <1>24, FilesStep

(* Another client removes an object. *)
LEMMA FilesRemote ==
    ASSUME NamesInv, FilesInv, Remote
    PROVE  FilesInv'
<1>1. PICK p \in Paths : RemoteDelete(p)
  BY DEF Remote
<1>2. /\ store' = [store EXCEPT ![p] = NoObject] /\ remote' = remote + 1
      /\ UNCHANGED <<ino, child, deleted, look, job, used, faults>>
  BY <1>1 DEF RemoteDelete
<1>3. remote \in Nat /\ remote' \in Nat /\ remote' # 0
  BY <1>2 DEF FilesInv
<1>4. \A q \in Paths : store'[q] = NoObject \/ store'[q] = store[q]
  BY <1>2 DEF NamesInv, TypeOK
<1>5. ASSUME NEW i \in Inodes PROVE FileInv(i)'
  <2>1. NodeInv(i) /\ JobInv(i) /\ StoredInv(i) /\ MarksInv(i) /\ ObjectsInv(i) /\ ReasonsInv(i)
        /\ LookInv(i)
    BY DEF FilesInv, FileInv
  <2>2. NodeInv(i)' /\ JobInv(i)' /\ MarksInv(i)' /\ LookInv(i)' /\ ReasonsInv(i)'
    <3>1. Linked(i)' <=> Linked(i)
      BY <1>2 DEF Linked
    <3>2. NodeInv(i)'
      BY <1>2, <2>1, <3>1 DEF NodeInv, Uses
    <3>3. JobInv(i)'
      BY <1>2, <1>3, <2>1 DEF JobInv
    <3> QED
      BY <1>2, <1>3, <2>1, <3>1, <3>2, <3>3 DEF MarksInv, LookInv, ReasonsInv
  <2>3. KeysHeld(i)
    BY <2>1, KeysAreHeld
  <2>4. \A q \in Paths : \A V : Holds(i, q, V) => Holds(i, q, V)'
    BY <1>3, <1>4 DEF Holds
  <2>5. StoredInv(i)'
    <3>1. job[i].pc = "missing" => store'[job[i].from] = NoObject
      BY <1>4, <2>1, <2>3 DEF StoredInv, KeysHeld, Copies
    <3>2. job[i].pc = "sent" /\ ino[i].st # "DELETED" => Holds(i, job[i].to, {job[i].ver})'
      BY <1>2, <1>3, <1>4, <2>1, <2>3 DEF StoredInv, KeysHeld, Holds
    <3>3. job[i].pc = "copied" => Holds(i, job[i].to, Current(ino[i]))'
      BY <1>2, <1>3, <1>4, <2>1, <2>3 DEF StoredInv, KeysHeld, Copies, Holds
    <3>4. Linked(i) /\ ino[i].st # "CREATED" => Holds(i, SourceKey(ino[i]), Current(ino[i]))'
      BY <1>2, <1>3, <1>4, <2>1, <2>3 DEF StoredInv, KeysHeld, Holds
    <3>5. Linked(i)' <=> Linked(i)
      BY <1>2 DEF Linked
    <3> QED
      BY <1>2, <3>1, <3>2, <3>3, <3>4, <3>5 DEF StoredInv
  <2>6. ObjectsInv(i)'
    <3>1. \A q \in Paths : Owes(i, q) => Owes(i, q)'
      BY <1>2 DEF Owes, Linked
    <3> QED
      BY <1>4, <2>1, <3>1 DEF ObjectsInv
  <2> QED
    BY <2>2, <2>5, <2>6 DEF FileInv
<1> QED
  BY <1>2, <1>3, <1>5 DEF FilesInv

(* What a rename changes: the file is marked at the path it leaves if it has, or may get,
   an object there, and nothing is unmarked, because it never comes back. *)
MoveEffect(i, x, y, p, q) ==
    LET free  == MovesFreely(x, i)
        marks == ~free \/ x.renamingTo
    IN  /\ y.path = q /\ y.ver = x.ver /\ y.known = x.known /\ ~y.renamingTo
        /\ y.st = IF x.st = "CACHED" THEN "MODIFIED" ELSE x.st
        /\ y.old = IF free THEN x.old ELSE p
        /\ ~y.staged /\ ~y.awaiting /\ (y.cached <=> x.cached)
        /\ ino'[i] = y /\ \A k \in Inodes \ {i} : ino'[k] = ino[k]
        /\ child'[p] = 0 /\ child'[q] = i
        /\ \A r \in Paths : r # p /\ r # q => child'[r] = child[r]
        /\ marks => deleted[p] = 0 /\ deleted'[p] = i
        /\ ~marks => deleted'[p] = deleted[p]
        /\ \A r \in Paths : r # p => deleted'[r] = deleted[r]

(* renameInCache does this. *)
LEMMA MoveEffects ==
    ASSUME Forward, NamesInv, NEW p \in Paths, NEW q \in Paths, At(p) < At(q), RenameFile(p, q),
           NEW i \in Inodes, i = child[p], NodeInv(i), MarksInv(i)
    PROVE  \E y : MoveEffect(i, ino[i], y, p, q)
<1> DEFINE x == ino[i]
           free == MovesFreely(x, i)
           marks == ~free \/ x.renamingTo
           y == MovedInode(x, i, q)
<1>1. /\ i # 0 /\ x \in NodeSet /\ At(p) \in Nat /\ At(q) \in Nat /\ p # q
      /\ x.old # NoPath => x.old \in Paths
  BY PartTypes, AtNat
<1>2. x.path = p /\ Linked(i) /\ x.st \in {"CREATED", "MODIFIED", "CACHED"} /\ ~x.staged /\ ~x.awaiting
  BY <1>1 DEF NamesInv, ChildrenNamed, Linked, NodeInv
<1>3. child[q] = 0
  BY DEF RenameFile, Forward
<1>4. x.old # NoPath => ~Unrenamed(x, q)
  <2> SUFFICES ASSUME x.old # NoPath PROVE Dir(x.old) # Dir(q)
    BY DEF Unrenamed
  <2>1. At(x.old) < At(p) /\ At(x.old) \in Nat
    BY <1>1, <1>2, AtNat DEF NodeInv
  <2>2. At(x.old) # At(q)
    BY <1>1, <2>1
  <2> QED
    BY <2>2 DEF At
<1>5. /\ y.path = q /\ y.ver = x.ver /\ y.known = x.known /\ y.cached = x.cached
      /\ y.staged = x.staged /\ y.awaiting = x.awaiting
      /\ y.st = IF x.st = "CACHED" THEN "MODIFIED" ELSE x.st
  BY <1>1 DEF MovedInode, NodeSet
<1>6. y.old = IF free THEN x.old ELSE p
  <2>1. y.old = IF ~free THEN x.path
                ELSE IF x.old # NoPath /\ ~x.renamingTo /\ Unrenamed(x, q) THEN NoPath ELSE x.old
    BY <1>1 DEF MovedInode, NodeSet
  <2> QED
    BY <1>2, <1>4, <2>1
<1>7. ~y.renamingTo
  BY <1>1 DEF MovedInode, NodeSet
<1>8. ino'[i] = y /\ \A k \in Inodes \ {i} : ino'[k] = ino[k]
  <2>1. 0 \notin Inodes
    BY DEF Inodes
  <2> QED
    BY <1>3, <2>1 DEF RenameFile
<1>9. /\ child'[p] = 0 /\ child'[q] = i
      /\ \A r \in Paths : r # p /\ r # q => child'[r] = child[r]
  BY <1>1 DEF RenameFile, NamesInv, TypeOK
<1>10. marks => deleted[p] = 0
  <2>1. marks => Uses(i)
    <3>1. ~free => x.old = NoPath /\ (x.st # "CREATED" \/ job[i].pc # "idle" \/ job[-i].pc # "idle")
      BY DEF MovesFreely, Idle
    <3>2. job[-i].pc = "idle"
      BY DEF NodeInv
    <3>3. x.renamingTo => x.st # "CREATED" \/ job[i].pc # "idle"
      BY DEF NodeInv, Copies
    <3> QED
      BY <1>2, <3>1, <3>2, <3>3 DEF Uses
  <2> QED
    BY <1>2, <2>1 DEF NodeInv
<1>11. deleted[q] # i
  BY <1>1, <1>2 DEF MarksInv
<1>12. deleted' = IF marks THEN [deleted EXCEPT ![p] = i] ELSE deleted
  <2>1. deleted' = MovedDeleted(x, i, q)
    BY DEF RenameFile
  <2> DEFINE d == IF marks /\ deleted[p] = 0 THEN [deleted EXCEPT ![p] = i] ELSE deleted
  <2>2. deleted' = IF d[q] = i THEN [d EXCEPT ![q] = 0] ELSE d
    BY <1>2, <2>1 DEF MovedDeleted
  <2>3. d[q] = deleted[q]
    BY <1>1 DEF NamesInv, TypeOK
  <2> QED
    BY <1>10, <1>11, <2>2, <2>3
<1>13. /\ marks => deleted'[p] = i
       /\ ~marks => deleted'[p] = deleted[p]
       /\ \A r \in Paths : r # p => deleted'[r] = deleted[r]
  BY <1>12 DEF NamesInv, TypeOK
<1> HIDE DEF y
<1>14. ~y.staged /\ ~y.awaiting /\ (y.cached <=> x.cached)
  BY <1>2, <1>5
<1> QED
  BY <1>5, <1>6, <1>7, <1>8, <1>9, <1>10, <1>13, <1>14 DEF MoveEffect

(* Rename: the object stays where it is and the inode remembers where. *)
LEMMA FilesRename ==
    ASSUME Forward, NamesInv, FilesInv, NEW p \in Paths, NEW q \in Paths, <<p, q>> \in Moves,
           RenameFile(p, q)
    PROVE  FilesInv'
<1>1. At(p) < At(q) /\ q \in Targets /\ At(p) \in Nat /\ At(q) \in Nat
  <2>1. At(<<p, q>>[1]) < At(<<p, q>>[2])
    BY LevelUp
  <2>2. <<p, q>>[2] \in Targets
    BY DEF Targets
  <2> QED
    BY <2>1, <2>2, AtNat
<1>2. PICK i \in Inodes : i = child[p]
  BY DEF RenameFile, NamesInv, TypeOK
<1> DEFINE x == ino[i]
<1>3. FileInv(i) /\ i # 0 /\ x.ver \in Nat /\ x.known \in Int /\ p # q
      /\ (x.old # NoPath => x.old \in Paths)
  BY <1>1, PartTypes DEF FilesInv
<1>4. NodeInv(i) /\ JobInv(i) /\ StoredInv(i) /\ MarksInv(i) /\ ObjectsInv(i) /\ ReasonsInv(i)
      /\ LookInv(i)
  BY <1>3 DEF FileInv
<1>5. PICK y : MoveEffect(i, x, y, p, q)
  BY <1>1, <1>2, <1>4, MoveEffects
<1> DEFINE free == MovesFreely(x, i)
           fresh == x.st = "CREATED" /\ job[i].pc = "idle"
           marks == ~free \/ x.renamingTo
<1>6. /\ y.path = q /\ y.ver = x.ver /\ y.known = x.known /\ ~y.renamingTo
      /\ y.st = IF x.st = "CACHED" THEN "MODIFIED" ELSE x.st
      /\ y.old = IF free THEN x.old ELSE p
      /\ ~y.staged /\ ~y.awaiting /\ (y.cached <=> x.cached)
  BY <1>5 DEF MoveEffect
<1>7. /\ ino'[i] = y /\ \A k \in Inodes \ {i} : ino'[k] = ino[k]
      /\ child'[p] = 0 /\ child'[q] = i
      /\ \A r \in Paths : r # p /\ r # q => child'[r] = child[r]
      /\ marks => deleted[p] = 0 /\ deleted'[p] = i
      /\ ~marks => deleted'[p] = deleted[p]
      /\ \A r \in Paths : r # p => deleted'[r] = deleted[r]
  BY <1>5 DEF MoveEffect
<1>8. child[q] = 0 /\ UNCHANGED <<look, job, store, used, faults, remote>>
  BY DEF RenameFile, Forward
<1>9. StepOf(i)
  <2>1. \A r \in Paths : child'[r] = child[r] \/ (child[r] \in {0, i} /\ child'[r] \in {0, i})
    BY <1>2, <1>7, <1>8
  <2>2. \A r \in Paths : \/ deleted'[r] = deleted[r]
                         \/ deleted[r] = 0 /\ child[r] = i /\ deleted'[r] = i
    BY <1>2, <1>7
  <2> QED
    BY <1>7, <1>8, <2>1, <2>2 DEF StepOf
<1>10. x.path = p /\ Linked(i) /\ x.st \in {"CREATED", "MODIFIED", "CACHED"} /\ Linked(i)'
  <2>1. x.path = p /\ x.st \in {"CREATED", "MODIFIED", "CACHED"}
    BY <1>2, <1>3 DEF NamesInv, ChildrenNamed
  <2> QED
    BY <1>2, <1>6, <1>7, <2>1 DEF Linked
<1>11. /\ free <=> fresh \/ x.old # NoPath
       /\ fresh => x.old = NoPath
       /\ job[-i].pc = "idle"
  BY <1>4 DEF MovesFreely, Idle, NodeInv, Puts
<1>12. ~fresh => SourceKey(y) = SourceKey(x) /\ y.old # NoPath
  BY <1>6, <1>10, <1>11, PathsAssumption DEF SourceKey
<1> HIDE DEF free
<1>13. x.old # NoPath => At(x.old) < At(p) /\ x.old # p /\ deleted[x.old] = i /\ At(x.old) \in Nat
       /\ x.st \in {"CREATED", "MODIFIED"}
  BY <1>1, <1>3, <1>4, <1>10, AtNat DEF NodeInv
<1>14. i > used => y = NoNode
  <2>1. i > used => x = NoNode
    BY <1>4 DEF NodeInv
  <2> QED
    BY <1>10, <2>1 DEF NoNode
<1>15. NodeInv(i)'
  <2>1. ~Uses(i)'
    BY <1>6, <1>7, <1>8, <1>11, <1>12 DEF Uses
  <2>2. x.known <= x.ver /\ (x.st \in {"CREATED", "MODIFIED"} /\ x.ver # x.known => x.cached)
        /\ (x.st = "CACHED" => x.ver = x.known /\ x.old = NoPath)
        /\ (x.st = "MODIFIED" => x.known >= 0)
    BY <1>2, <1>4, <1>10 DEF NodeInv
  <2>3. y.st \in {"CREATED", "MODIFIED"} /\ (y.ver # y.known => y.cached) /\ y.known <= y.ver
    BY <1>6, <1>10, <2>2
  <2>4. y.st = "CREATED" => /\ y.known = -1 /\ job[i].pc \in {"idle"} \cup Puts
                            /\ y.old # NoPath => job[i].pc \in Puts
    <3>1. x.st = "CREATED" => x.known = -1 /\ job[i].pc \in {"idle"} \cup Puts
      BY <1>4 DEF NodeInv
    <3>2. y.st = "CREATED" => x.st = "CREATED"
      BY <1>6
    <3>3. fresh => y.old = NoPath
      BY <1>6, <1>11
    <3> QED
      BY <1>6, <3>1, <3>2, <3>3
  <2>5. y.st = "MODIFIED" => y.known >= 0 /\ y.old # NoPath
    BY <1>3, <1>6, <1>10, <1>12, <2>2
  <2>6. y.old # NoPath => At(y.old) < At(y.path) /\ deleted'[y.old] = i
    <3>1. CASE free
      BY <1>1, <1>3, <1>6, <1>7, <1>13, <3>1
    <3>2. CASE ~free
      BY <1>1, <1>6, <1>7, <3>2
    <3> QED
      BY <3>1, <3>2
  <2> QED
    BY <1>1, <1>6, <1>7, <1>8, <1>11, <1>14, <2>1, <2>3, <2>4, <2>5, <2>6 DEF NodeInv
<1>16. JobInv(i)'
  <2>1. job[i].ok /\ job[i].pc \notin {"error", "dropped", "unlinked", "retried"}
        /\ (job[i].pc = "missing" => remote # 0)
        /\ (job[i].pc \in Puts => x.ver # x.known) /\ job[i].pc \notin Deletes
    BY <1>4, <1>10 DEF JobInv
  <2>2. job[i].pc \in {"send", "sent"}
          => job[i].to = SourceKey(y) /\ job[i].to \in Paths /\ job[i].ver <= y.ver
    BY <1>4, <1>6, <1>12 DEF JobInv
  <2>3. job[i].pc \in Copies =>
             /\ y.st = "MODIFIED" /\ y.old = job[i].from /\ job[i].from \in Paths /\ job[i].to \in Paths
             /\ At(job[i].from) < At(job[i].to)
             /\ At(job[i].to) < At(q) /\ deleted'[job[i].to] = i
    <3> SUFFICES ASSUME job[i].pc \in Copies
                 PROVE  /\ y.st = "MODIFIED" /\ y.old = job[i].from /\ job[i].from \in Paths /\ job[i].to \in Paths
                        /\ At(job[i].from) < At(job[i].to)
                        /\ At(job[i].to) < At(q) /\ deleted'[job[i].to] = i
      OBVIOUS
    <3>1. /\ x.st = "MODIFIED" /\ x.old = job[i].from /\ job[i].from \in Paths /\ job[i].to \in Paths
          /\ At(job[i].from) < At(job[i].to)
          /\ x.renamingTo => job[i].to = p
          /\ ~x.renamingTo => At(job[i].to) < At(p) /\ deleted[job[i].to] = i
      BY <1>4, <1>10 DEF JobInv
    <3>2. At(job[i].to) \in Nat
      BY <3>1, AtNat
    <3>3. y.st = "MODIFIED" /\ y.old = job[i].from
      BY <1>6, <1>11, <3>1, PathsAssumption
    <3>4. CASE x.renamingTo
      BY <1>1, <1>7, <3>1, <3>3, <3>4
    <3>5. CASE ~x.renamingTo
      BY <1>1, <1>7, <3>1, <3>2, <3>3, <3>5
    <3> QED
      BY <3>4, <3>5
  <2>4. job[i].pc \in Removes => /\ job[i].from \in Paths /\ deleted'[job[i].from] = i
                                 /\ At(job[i].from) < At(SourceKey(y)) /\ y.st \in {"MODIFIED", "CACHED"}
    <3> SUFFICES ASSUME job[i].pc \in Removes
                 PROVE  /\ job[i].from \in Paths /\ deleted'[job[i].from] = i
                        /\ At(job[i].from) < At(SourceKey(y)) /\ y.st \in {"MODIFIED", "CACHED"}
      OBVIOUS
    <3>1. /\ job[i].from \in Paths /\ deleted[job[i].from] = i /\ x.st \in {"MODIFIED", "CACHED"}
          /\ At(job[i].from) < At(SourceKey(x))
      BY <1>4 DEF JobInv
    <3>2. At(job[i].from) \in Nat
      BY <3>1, AtNat
    <3>3. At(SourceKey(x)) \in Nat /\ At(SourceKey(x)) <= At(p)
      BY <1>1, <1>10, <1>13 DEF SourceKey
    <3>4. job[i].from # p
      BY <1>1, <3>1, <3>2, <3>3
    <3> QED
      BY <1>6, <1>7, <1>12, <3>1, <3>4
  <2> QED
    BY <1>1, <1>6, <1>7, <1>8, <2>1, <2>2, <2>3, <2>4 DEF JobInv
<1>17. StoredInv(i)'
  <2>1. Current(y) = Current(x)
    BY <1>6 DEF Current
  <2>2. y.st # "CREATED" => x.st # "CREATED" /\ ~fresh
    BY <1>6
  <2>3. \A r, V : Holds(i, r, V)' <=> Holds(i, r, V)
    BY <1>8 DEF Holds
  <2>4. x.st # "DELETED"
    BY <1>10
  <2>5. /\ job[i].pc = "missing" => store[job[i].from] = NoObject
        /\ job[i].pc = "sent" => Holds(i, job[i].to, {job[i].ver})
        /\ job[i].pc = "copied" => Holds(i, job[i].to, Current(x))
        /\ x.st # "CREATED" => Holds(i, SourceKey(x), Current(x))
    BY <1>4, <1>10, <2>4 DEF StoredInv
  <2>6. y.st # "CREATED" => Holds(i, SourceKey(y), Current(y))
    BY <1>12, <2>1, <2>2, <2>5
  <2> QED
    BY <1>7, <1>8, <2>1, <2>5, <2>6 DEF StoredInv, Holds
<1>18. MarksInv(i)'
  <2>1. \A r \in Paths : deleted'[r] = i => r = p \/ deleted[r] = i
    BY <1>7
  <2>2. \A r \in Paths : deleted[r] = i => At(r) <= At(p)
    BY <1>4, <1>10 DEF MarksInv
  <2>3. \A r \in Paths : At(r) \in Nat
    BY AtNat
  <2> QED
    BY <1>1, <1>6, <1>7, <2>1, <2>2, <2>3 DEF MarksInv
<1>19. LookInv(i)'
  <2> SUFFICES ASSUME look.ino = i PROVE LookInv(i)'
    BY <1>8 DEF LookInv
  <2>1. look.dir \in Dirs /\ Level[look.dir] <= At(p) /\ Level[look.dir] \in Nat
    BY <1>4, <1>10, LevelUp DEF LookInv
  <2>2. Level[look.dir] < At(q)
    BY <1>1, <2>1
  <2>3. Dir(q) # look.dir
    BY <2>1, <2>2 DEF At
  <2> QED
    BY <1>1, <1>6, <1>7, <1>8, <2>1, <2>2, <2>3 DEF LookInv
<1>20. ObjectsInv(i)'
  <2>1. ASSUME NEW r \in Paths, Owes(i, r) PROVE Owes(i, r)'
    <3>1. CASE Linked(i) /\ r = SourceKey(x) /\ (x.st # "CREATED" \/ job[i].pc = "sent")
      <4>1. r = SourceKey(y) /\ (y.st # "CREATED" \/ job[i].pc = "sent")
        BY <1>6, <1>12, <3>1
      <4> QED
        BY <1>7, <1>8, <1>10, <4>1 DEF Owes
    <3>2. CASE (job[i].pc = "remove" /\ job[i].from = r) \/ (job[i].pc = "copied" /\ job[i].to = r)
      BY <1>8, <3>2 DEF Owes
    <3> QED
      BY <1>10, <2>1, <3>1, <3>2 DEF Owes
  <2> QED
    BY <1>4, <1>8, <2>1 DEF ObjectsInv
<1>21. ReasonsInv(i)'
  <2>1. ASSUME NEW r \in Paths, Reason(i, r) PROVE Reason(i, r)'
    <3>1. x.old = r => y.old = r
      BY <1>6, <1>11, PathsAssumption
    <3> QED
      BY <1>6, <1>7, <1>8, <1>10, <2>1, <3>1 DEF Reason
  <2>2. marks => Reason(i, p)'
    <3>1. CASE ~free
      BY <1>6, <1>7, <3>1 DEF Reason
    <3>2. CASE x.renamingTo
      <4>1. job[i].pc \in Copies /\ job[i].to = p
        BY <1>4, <1>10, <3>2 DEF NodeInv, JobInv
      <4> QED
        BY <1>6, <1>7, <1>8, <4>1 DEF Reason
    <3> QED
      BY <3>1, <3>2
  <2>3. \A r \in Paths : deleted'[r] = i => (r = p /\ marks) \/ deleted[r] = i
    BY <1>7
  <2> QED
    BY <1>4, <1>8, <2>1, <2>2, <2>3 DEF ReasonsInv
<1>22. FileInv(i)'
  BY <1>15, <1>16, <1>17, <1>18, <1>19, <1>20, <1>21 DEF FileInv
<1> QED
  BY <1>8, <1>9, <1>22, FilesStep

-------------------------------------------------------------------------------
(* The invariant of the files is inductive. *)
LEMMA FilesApplication ==
    ASSUME Forward, NamesInv, FilesInv, Application
    PROVE  FilesInv'
<1>1. ASSUME NEW m \in Moves, RenameFile(m[1], m[2]) PROVE FilesInv'
  <2>1. m[1] \in Paths /\ m[2] \in Paths /\ <<m[1], m[2]>> \in Moves
    BY PathsAssumption
  <2> QED
    BY <1>1, <2>1, FilesRename
<1> QED
  BY <1>1, FilesCreate, FilesWrite, FilesUnlink DEF Application

(* Every step of a request. *)
LEMMA FilesWork ==
    ASSUME Forward, NamesInv, FilesInv, NEW i \in Inodes, Work(i)
    PROVE  FilesInv' \/ Gone'
<1>1. ~StagedFlush(i) /\ ~Put(-i) /\ ~PutReturns(-i)
  BY NothingStaged
<1>2. ~RenameRetries(i) /\ ~RenameError(i) /\ ~RenameUnlinks(i) /\ ~RenameFrees(i)
  BY DEF RenameRetries, RenameError, RenameUnlinks, RenameFrees, FilesInv, FileInv, NodeInv, JobInv
<1>3. CASE RenameRemove(i)
  <2>1. PICK pc : pc = "removed"
    OBVIOUS
  <2>2. job[i].pc = "remove" /\ DeleteBlob(i, pc)
    BY <1>3, <2>1 DEF RenameRemove
  <2> QED
    BY <2>1, <2>2, FilesDeleteBlob
<1>4. CASE SendDelete(i)
  <2>1. PICK pc : pc = "gone"
    OBVIOUS
  <2>2. job[i].pc = "delete" /\ DeleteBlob(i, pc)
    BY <1>4, <2>1 DEF SendDelete
  <2> QED
    BY <2>1, <2>2, FilesDeleteBlob
<1> QED
  BY <1>1, <1>2, <1>3, <1>4, FilesPutPrepare, FilesPut, FilesPutReturns, FilesCopyBlob,
     FilesRenameCopied, FilesRenameRemoved, FilesRenameMissing, FilesRenameReturns,
     FilesDeleteReturns DEF Work

(* Nothing happens. *)
LEMMA FilesStutter ==
    ASSUME FilesInv, UNCHANGED vars
    PROVE  FilesInv'
BY DEF vars, FilesInv, FileInv, NodeInv, JobInv, StoredInv, MarksInv, LookInv, ObjectsInv, ReasonsInv,
       Uses, Linked, Holds, Owes, Reason

(* Every step. *)
LEMMA FilesNext == Forward => (NamesInv /\ FilesInv /\ [Next]_vars => FilesInv' \/ Gone')
<1> SUFFICES ASSUME Forward, NamesInv, FilesInv, [Next]_vars PROVE FilesInv' \/ Gone'
  OBVIOUS
<1>1. CASE Application
  BY <1>1, FilesApplication
<1>2. CASE Flusher
  BY <1>2, FilesFlushNothing, FilesTryFlush, FilesStartDelete, FilesStartRename, FilesStartPut
     DEF Flusher
<1>3. ASSUME NEW i \in Inodes, Work(i) PROVE FilesInv' \/ Gone'
  BY <1>3, FilesWork
<1>4. CASE Remote
  BY <1>4, FilesRemote
<1>5. CASE UNCHANGED vars
  BY <1>5, FilesStutter
<1> QED
  BY <1>1, <1>2, <1>3, <1>4, <1>5 DEF Next

(* A file that was given up stays so: dropped is history. *)
LEMMA GoneStays == NamesInv /\ Gone /\ [Next]_vars => Gone'
<1> SUFFICES ASSUME NamesInv, Gone, [Next]_vars PROVE Gone'
  OBVIOUS
<1>1. PICK k \in Inodes : k <= used /\ ino[k].dropped
  BY DEF Gone
<1>2. ino \in [Inodes -> NodeSet] /\ used \in Nat /\ k # used + 1 /\ remote \in Nat \ {0}
  BY <1>1 DEF NamesInv, TypeOK, Gone, Inodes
<1>3. remote' \in {remote, remote + 1} /\ used' \in {used, used + 1}
  <2>1. CASE Application
    BY <2>1 DEF Application, Create, Write, RenameFile, Unlink
  <2>2. CASE Flusher
    BY <2>2 DEF Flusher, FlushNothing, TryFlush, StartDelete, StartRename, StartPut, LookEnds
  <2>3. ASSUME NEW i \in Inodes, Work(i) PROVE remote' = remote /\ used' \in {used, used + 1}
    BY <2>3 DEF Work, PutPrepare, StagedFlush, Put, PutReturns, CopyBlob, RenameCopied, RenameRemove,
       RenameRemoved, RenameRetries, RenameMissing, RenameUnlinks, RenameFrees, RenameError,
       RenameReturns, SendDelete, DeleteBlob, DeleteReturns
  <2>4. CASE Remote
    BY <2>4 DEF Remote, RemoteDelete
  <2> QED
    BY <2>1, <2>2, <2>3, <2>4 DEF Next, vars
<1>4. ino'[k].dropped
  <2>1. CASE UNCHANGED ino
    BY <1>1, <2>1
  <2>2. \A i \in Inodes : \A st : Reset(ino[i], st).dropped = ino[i].dropped
    BY <1>2 DEF Reset, NodeSet
  <2>3. ASSUME NEW i \in Inodes, NEW y, y.dropped = ino[i].dropped \/ y.dropped,
               ino' = [ino EXCEPT ![i] = y]
        PROVE  ino'[k].dropped
    BY <1>1, <1>2, <2>3
  <2>4. CASE Application
    <3>1. ASSUME NEW p \in Paths, Create(p) PROVE ino'[k].dropped
      BY <1>1, <1>2, <3>1 DEF Create
    <3>2. ASSUME NEW i \in Inodes, Write(i) PROVE ino'[k].dropped
      BY <1>1, <1>2, <3>2 DEF Write, NodeSet
    <3>3. ASSUME NEW p \in Paths, NEW q \in Paths, RenameFile(p, q) PROVE ino'[k].dropped
      <4>1. PICK i : i = child[p] /\ i \in Inodes
        BY <3>3 DEF RenameFile, NamesInv, TypeOK
      <4>2. MovedInode(ino[i], i, q).dropped = ino[i].dropped
        BY <1>2, <4>1 DEF MovedInode, NodeSet
      <4>3. ino'[k] \in {MovedInode(ino[i], i, q), Reset(ino[k], "DEAD"), ino[k]}
            /\ (ino'[k] = MovedInode(ino[i], i, q) => k = i \/ ino'[k] \in {Reset(ino[k], "DEAD"), ino[k]})
        BY <3>3, <4>1 DEF RenameFile
      <4> QED
        BY <1>1, <2>2, <4>2, <4>3
    <3>4. ASSUME NEW p \in Paths, Unlink(p) PROVE ino'[k].dropped
      <4>1. PICK i \in Inodes : \E st : ino' = [ino EXCEPT ![i] = Reset(ino[i], st)]
        BY <3>4 DEF Unlink, NamesInv, TypeOK
      <4> QED
        BY <2>2, <2>3, <4>1
    <3> QED
      BY <2>4, <3>1, <3>2, <3>3, <3>4, PathsAssumption DEF Application
  <2>5. CASE Flusher
    <3>1. ASSUME NEW i \in Inodes, StartDelete(i) \/ StartRename(i) PROVE ino'[k].dropped
      BY <1>1, <1>2, <3>1 DEF StartDelete, StartRename, NodeSet
    <3> QED
      BY <2>1, <2>5, <3>1 DEF Flusher, FlushNothing, TryFlush, StartPut
  <2>6. ASSUME NEW i \in Inodes, Work(i) PROVE ino'[k].dropped
    <3>1. CASE PutPrepare(i)
      BY <1>1, <1>2, <2>1, <2>2, <2>3, <3>1 DEF PutPrepare, NodeSet
    <3>2. ASSUME NEW w \in {i, -i}, PutReturns(w) PROVE ino'[k].dropped
      <4>1. Owner(w) = i
        BY <3>2 DEF Owner, Inodes
      <4>2. ino[i] \in NodeSet
        BY <1>2
      <4> DEFINE current == w < 0 /\ ino[i].ver = job[w].ver
                 s == ino[i].staged /\ ~current
                 a == ino[i].awaiting \/ (current /\ ino[i].old # NoPath)
                 x == [ino[i] EXCEPT !.known = job[w].ver, !.staged = s, !.awaiting = a]
                 st == IF ~Flushable(x) THEN x.st ELSE IF isStillDirty(x) THEN "MODIFIED" ELSE "CACHED"
                 y == [x EXCEPT !.st = st]
      <4>3. ino' = ino \/ ino' = [ino EXCEPT ![i] = y]
        BY <3>2, <4>1 DEF PutReturns
      <4> HIDE DEF s, a
      <4>4. y.dropped = ino[i].dropped
        <5>1. x.dropped = ino[i].dropped /\ x \in [st: States, path: Place, old: Place, renamingTo: BOOLEAN,
                ver: Versions, known: {job[w].ver}, cached: BOOLEAN, staged: {s}, awaiting: {a},
                dropped: BOOLEAN]
          BY <4>2 DEF NodeSet
        <5> HIDE DEF x, st
        <5> QED
          BY <5>1
      <4> HIDE DEF y
      <4> QED
        BY <2>1, <2>3, <4>3, <4>4
    <3>3. CASE RenameCopied(i)
      BY <1>1, <1>2, <3>3 DEF RenameCopied, NodeSet
    <3>4. CASE RenameRemoved(i)
      BY <1>1, <1>2, <2>1, <3>4 DEF RenameRemoved
    <3>5. CASE RenameRetries(i)
      BY <1>1, <1>2, <3>5 DEF RenameRetries, NodeSet
    <3>6. CASE RenameMissing(i)
      <4>1. Reset(ino[i], "CACHED") \in NodeSet
        BY <1>2, ResetType, InitialTypes
      <4> QED
        BY <1>1, <1>2, <3>6, <4>1 DEF RenameMissing, NodeSet
    <3>7. CASE RenameError(i)
      BY <1>1, <1>2, <3>7 DEF RenameError, NodeSet
    <3>8. CASE DeleteReturns(i)
      BY <2>1, <2>2, <2>3, <3>8 DEF DeleteReturns
    <3> QED
      BY <2>1, <2>6, <3>1, <3>2, <3>3, <3>4, <3>5, <3>6, <3>7, <3>8 DEF Work, StagedFlush, Put,
         CopyBlob, RenameRemove, RenameUnlinks, RenameFrees, RenameReturns, SendDelete, DeleteBlob
  <2>7. CASE Remote
    BY <1>1, <2>7 DEF Remote, RemoteDelete
  <2> QED
    BY <2>1, <2>4, <2>5, <2>6, <2>7 DEF Next, vars
<1> QED
  BY <1>1, <1>2, <1>3, <1>4 DEF Gone, Inodes

(* The two invariants hold. *)
LEMMA FilesCorrect ==
    ASSUME Forward
    PROVE  Spec => [](NamesInv /\ (FilesInv \/ Gone))
<1>1. Init => NamesInv /\ FilesInv
  BY NamesInit, FilesInit
<1>2. NamesInv /\ (FilesInv \/ Gone) /\ [Next]_vars => (NamesInv /\ (FilesInv \/ Gone))'
  BY NamesStep, FilesNext, GoneStays
<1> QED
  BY <1>1, <1>2, PTL DEF Spec

-------------------------------------------------------------------------------
(* A clean file's object is under its name. *)
LEMMA CleanFiles ==
    ASSUME NamesInv, FilesInv, remote = 0, NEW i \in Inodes, Linked(i), ino[i].st = "CACHED"
    PROVE  store[ino[i].path] = [ino |-> i, ver |-> ino[i].ver]
<1>1. NodeInv(i) /\ StoredInv(i)
  BY DEF FilesInv, FileInv
<1>2. ino[i].old = NoPath /\ ino[i].ver = ino[i].known
  BY <1>1 DEF NodeInv, Linked
<1>3. Holds(i, ino[i].path, {ino[i].ver})
  BY <1>1, <1>2 DEF StoredInv, SourceKey, Current
<1>4. PICK o \in Objects : store[ino[i].path] = o /\ o.ino = i /\ o.ver = ino[i].ver
  BY <1>3 DEF Holds
<1> QED
  BY <1>4 DEF Objects

(* An idle mount. *)
LEMMA SettledFiles == NamesInv /\ FilesInv => SettledIsStored
<1> SUFFICES ASSUME NamesInv, FilesInv, Settled, remote = 0, NEW p \in Paths
             PROVE  store[p] = IF child[p] = 0 THEN NoObject
                               ELSE [ino |-> child[p], ver |-> ino[child[p]].ver]
  BY DEF SettledIsStored
<1>1. CASE child[p] # 0
  <2>1. PICK i \in Inodes : child[p] = i
    BY <1>1 DEF NamesInv, TypeOK
  <2>2. ino[i].path = p /\ ino[i].st \in {"CREATED", "MODIFIED", "CACHED"} /\ Linked(i)
    BY <1>1, <2>1 DEF NamesInv, ChildrenNamed, Linked
  <2>3. ino[i].st = "CACHED"
    BY <2>2 DEF Settled
  <2>4. store[ino[i].path] = [ino |-> i, ver |-> ino[i].ver]
    BY <2>2, <2>3, CleanFiles
  <2> QED
    BY <1>1, <2>1, <2>2, <2>4
<1>2. CASE child[p] = 0
  <2> SUFFICES ASSUME store[p] # NoObject PROVE FALSE
    BY <1>2
  <2>1. store[p] \in Objects
    BY DEF NamesInv, TypeOK
  <2>2. PICK i \in Inodes : store[p].ino = i
    BY <2>1 DEF Objects
  <2>3. Owes(i, p) /\ NodeInv(i)
    BY <2>2 DEF FilesInv, FileInv, ObjectsInv
  <2>4. job[i].pc = "idle" /\ ino[i].st \in {"NONE", "CACHED", "DEAD"}
    BY DEF Settled, Idle
  <2>5. ino[i].old = NoPath
    BY <2>3, <2>4 DEF NodeInv
  <2>6. Linked(i) /\ p = SourceKey(ino[i])
    BY <2>3, <2>4 DEF Owes
  <2> QED
    BY <1>2, <2>5, <2>6, PartTypes DEF SourceKey, Linked
<1> QED
  BY <1>1, <1>2

(* Who leaves a path is the one that DeletedChildren has there. *)
LEMMA LeaversAreMarked ==
    ASSUME NamesInv, FilesInv, NEW j \in Inodes, NEW p \in Paths, Leaves(j, p)
    PROVE  deleted[p] = j
<1>1. NodeInv(j) /\ JobInv(j)
  BY DEF FilesInv, FileInv
<1>2. p # NoPath
  BY PathsAssumption
<1>3. CASE ino[j].old = p
  BY <1>1, <1>2, <1>3 DEF NodeInv
<1>4. CASE ino[j].st = "DELETED" /\ SourceKey(ino[j]) = p
  BY <1>1, <1>4 DEF NodeInv, SourceKey
<1>5. CASE job[j].pc \in {"copy", "copied"} /\ job[j].from = p
  BY <1>1, <1>2, <1>5 DEF NodeInv, JobInv, Copies
<1>6. CASE job[j].pc = "remove" /\ job[j].from = p
  BY <1>1, <1>6 DEF JobInv, Removes
<1>7. CASE job[j].pc = "delete" /\ job[j].from = p
  BY <1>1, <1>7 DEF NodeInv, JobInv, Deletes
<1> QED
  BY <1>3, <1>4, <1>5, <1>6, <1>7 DEF Leaves

(* Whoever has sent a PUT to a key holds it. *)
LEMMA UploadsAreAlone ==
    ASSUME NamesInv, FilesInv, NEW w \in Workers, job[w].pc = "send"
    PROVE  ~\E j \in Inodes \ {Owner(w)} : Leaves(j, job[w].to)
<1>1. PICK i \in Inodes : w = i \/ w = -i
  BY DEF Workers
<1>2. NodeInv(i) /\ JobInv(i)
  BY DEF FilesInv, FileInv
<1>3. w = i
  BY <1>1, <1>2 DEF NodeInv
<1>4. Owner(w) = i
  BY <1>3 DEF Owner, Inodes
<1>5. job[i].to \in Paths /\ Holder(job[i].to) = i
  BY <1>2, <1>3, KeysAreHeld DEF KeysHeld
<1> SUFFICES ASSUME NEW j \in Inodes, j # i, Leaves(j, job[i].to) PROVE FALSE
  BY <1>3, <1>4
<1>6. deleted[job[i].to] = j /\ j # 0
  BY <1>5, LeaversAreMarked, PartTypes
<1> QED
  BY <1>5, <1>6 DEF Holder

(* The sender of a DELETE is the one that has the mark, and the object is no longer the
   one it goes by. *)
LEMMA DeletesAreOwn ==
    ASSUME Forward, NamesInv, FilesInv, [Next]_vars, NEW p \in Paths, NEW i \in Inodes,
           store[p] # NoObject, store'[p] = NoObject, remote' = remote, store[p].ino = i, Linked(i),
           SourceKey(ino[i]) = p
    PROVE  FALSE
<1>0. NodeInv(i) /\ JobInv(i) /\ Owes(i, p)
  BY DEF FilesInv, FileInv, ObjectsInv
<1>1. \A o \in Objects : o # NoObject
  BY ObjectAssumption
<1>2. store \in [Paths -> Objects \cup {NoObject}] /\ remote \in Nat
  BY DEF NamesInv, TypeOK, FilesInv
<1>3. ino[i].st \in {"CREATED", "MODIFIED", "CACHED"} /\ i # 0
  BY PartTypes DEF NamesInv, ChildrenNamed, Linked
<1>4. deleted[p] \in {0, i}
  <2>1. CASE ino[i].old # NoPath
    BY <1>0, <2>1 DEF NodeInv, SourceKey
  <2>2. CASE ino[i].old = NoPath
    <3>1. p = ino[i].path
      BY <2>2 DEF SourceKey
    <3>2. CASE ino[i].st # "CREATED" \/ job[i].pc = "sent"
      BY <1>0, <2>2, <3>1, <3>2 DEF NodeInv, Uses
    <3>3. CASE job[i].pc = "remove" /\ job[i].from = p
      BY <1>0, <3>3 DEF JobInv, Removes
    <3>4. CASE job[i].pc = "copied"
      BY <1>0, <2>2, <3>4, PathsAssumption DEF JobInv, Copies
    <3> QED
      BY <1>0, <1>3, <3>2, <3>3, <3>4 DEF Owes
  <2> QED
    BY <2>1, <2>2
<1>5. ASSUME NEW k \in Inodes, NEW pc, DeleteBlob(k, pc), job[k].pc \in {"remove", "delete"}
      PROVE  FALSE
  <2>1. job[k].from = p
    BY <1>2, <1>5 DEF DeleteBlob
  <2>2. NodeInv(k) /\ JobInv(k) /\ k # 0
    BY PartTypes DEF FilesInv, FileInv
  <2>3. Leaves(k, p)
    BY <1>5, <2>1 DEF Leaves
  <2>4. k = i
    BY <1>4, <2>2, <2>3, LeaversAreMarked
  <2>5. At(p) < At(p) /\ Dir(p) \in Dirs
    BY <1>3, <1>5, <2>1, <2>2, <2>4, AtNat DEF JobInv, Removes, Deletes
  <2> QED
    BY <2>5, AtNat
<1>6. ASSUME NEW k \in Inodes, Work(k) PROVE FALSE
  <2>1. CASE RenameRemove(k) \/ SendDelete(k)
    BY <1>5, <2>1 DEF RenameRemove, SendDelete
  <2>2. CASE Put(k)
    <3>1. [ino |-> Owner(k), ver |-> job[k].ver] \in Objects
      BY PartTypes, WorkersOfInodes DEF Objects
    <3> QED
      BY <1>1, <1>2, <2>2, <3>1 DEF Put
  <2>3. CASE CopyBlob(k)
    BY <1>2, <2>3 DEF CopyBlob
  <2>4. CASE UNCHANGED store
    BY <2>4
  <2> QED
    BY <1>6, <2>1, <2>2, <2>3, <2>4, NothingStaged
       DEF Work, PutPrepare, PutReturns, RenameCopied, RenameRemoved, RenameRetries, RenameMissing,
           RenameUnlinks, RenameFrees, RenameError, RenameReturns, DeleteReturns
<1>7. ~Remote
  BY <1>2 DEF Remote, RemoteDelete
<1>8. ASSUME Application \/ Flusher \/ UNCHANGED vars PROVE FALSE
  <2>1. UNCHANGED store
    BY <1>8 DEF Application, Flusher, Create, Write, RenameFile, Unlink, FlushNothing, TryFlush,
       StartDelete, StartRename, StartPut, LookEnds, vars
  <2> QED
    BY <2>1
<1> QED
  BY <1>6, <1>7, <1>8 DEF Next

-------------------------------------------------------------------------------
(* A file that goes from ST_MODIFIED to ST_CACHED (flushSmallObject, sendRename) has its last
   version in the object store, under its name, whatever it was renamed to meanwhile and
   whatever was created in place of it. *)
THEOREM CleanFilesAreStored ==
    ASSUME Forward
    PROVE  Spec => []CleanIsStored
<1>1. NamesInv /\ (FilesInv \/ Gone) => CleanIsStored
  BY CleanFiles DEF CleanIsStored, Gone
<1> QED
  BY <1>1, FilesCorrect, PTL

(* When everything is flushed, the object store has exactly the files of the namespace with
   their last content: asynchronous renames lose no object, leave none behind, and mix none
   up, however the flusher and the application interleave. *)
THEOREM SettledFilesAreStored ==
    ASSUME Forward
    PROVE  Spec => []SettledIsStored
<1>1. Gone => SettledIsStored
  BY DEF Gone, SettledIsStored
<1> QED
  BY <1>1, FilesCorrect, SettledFiles, PTL

(* Nothing is removed by other clients. *)
LEMMA RemoteNext == MaxRemote = 0 => (remote = 0 /\ [Next]_vars => remote' = 0)
<1> SUFFICES ASSUME MaxRemote = 0, remote = 0, [Next]_vars PROVE remote' = 0
  OBVIOUS
<1>1. ~Remote
  BY DEF Remote, RemoteDelete
<1>2. ASSUME NEW i \in Inodes, Work(i) PROVE remote' = remote
  BY <1>2 DEF Work, PutPrepare, StagedFlush, Put, PutReturns, CopyBlob, RenameCopied, RenameRemove,
     RenameRemoved, RenameRetries, RenameMissing, RenameUnlinks, RenameFrees, RenameError, RenameReturns,
     SendDelete, DeleteBlob, DeleteReturns
<1>3. ASSUME Application \/ Flusher \/ UNCHANGED vars PROVE remote' = remote
  BY <1>3 DEF Application, Flusher, Create, Write, RenameFile, Unlink, FlushNothing, TryFlush,
     StartDelete, StartRename, StartPut, LookEnds, vars
<1> QED
  BY <1>1, <1>2, <1>3 DEF Next

(* Without other clients nothing is given up. *)
LEMMA FilesAlone ==
    ASSUME Forward, MaxRemote = 0
    PROVE  Spec => [](NamesInv /\ FilesInv /\ remote = 0)
<1>1. Init => remote = 0
  BY DEF Init
<1>2. remote = 0 => ~Gone
  BY DEF Gone
<1>3. remote = 0 /\ [Next]_vars => (remote = 0)'
  BY RemoteNext
<1> QED
  BY <1>1, <1>2, <1>3, FilesCorrect, PTL DEF Spec

(* The DELETE of a rename or of an unlink (sendRename, SendDelete) never removes the object
   of a file that is still listed. *)
THEOREM DeletesAreNotForeign ==
    ASSUME Forward, MaxRemote = 0
    PROVE  Spec => NoForeignDelete
<1>1. NamesInv /\ FilesInv /\ [Next]_vars =>
        [\A p \in Paths : \A i \in Inodes :
            (store[p] # NoObject /\ store'[p] = NoObject /\ remote' = remote
               /\ store[p].ino = i /\ Linked(i))
            => SourceKey(ino[i]) # p]_vars
  BY DeletesAreOwn
<1> QED
  BY <1>1, FilesAlone, PTL DEF Spec, NoForeignDelete

(* No PUT to a key that another file has yet to leave: TryFlush's look at DeletedChildren is
   enough although it releases the directory's lock before it takes the inode's. *)
THEOREM UploadsWaitForRenames ==
    ASSUME Forward
    PROVE  Spec => NoUploadOverDeleted
<1>1. NamesInv /\ (FilesInv \/ Gone) /\ [Next]_vars =>
        [\A w \in Workers : job[w].pc = "send" /\ job'[w].pc = "sent" /\ NoneDropped
            => ~\E j \in Inodes \ {Owner(w)} : Leaves(j, job[w].to)]_vars
  BY UploadsAreAlone DEF Gone, NoneDropped
<1> QED
  BY <1>1, FilesCorrect, PTL DEF Spec, NoUploadOverDeleted

-------------------------------------------------------------------------------
(* The counters.  ModifiedChildren of a directory counts its inodes that are not clean and its
   names that a file has yet to leave, unless that file is the one removed there. *)
Dirty(i, d) == Counted(ino[i].st) = 1 /\ Dir(ino[i].path) = d
LeftAt(p, d) ==
    /\ Dir(p) = d /\ deleted[p] # 0
    /\ ~(ino[deleted[p]].st = "DELETED" /\ ino[deleted[p]].path = p)
DirtyIn(d) == {i \in Inodes : Dirty(i, d)}
LeftIn(d)  == {p \in Paths : LeftAt(p, d)}
CountersInv ==
    remote = 0 => \A d \in Dirs : modified[d] = Cardinality(DirtyIn(d)) + Cardinality(LeftIn(d))

One(b) == IF b THEN 1 ELSE 0

(* Sets that differ in one element. *)
LEMMA OneChange ==
    ASSUME NEW U, IsFiniteSet(U), NEW S \in SUBSET U, NEW T \in SUBSET U, NEW e \in U,
           \A u \in U \ {e} : u \in T <=> u \in S
    PROVE  /\ Cardinality(S) \in Int /\ Cardinality(T) \in Int
           /\ Cardinality(T) = Cardinality(S) + One(e \in T) - One(e \in S)
<1>1. IsFiniteSet(S) /\ IsFiniteSet(T)
  BY FS_Subset
<1>2. Cardinality(S) \in Nat /\ Cardinality(T) \in Nat
  BY <1>1, FS_CardinalityType
<1>3. CASE (e \in T) <=> (e \in S)
  <2>1. T = S
    BY <1>3
  <2> QED
    BY <1>2, <1>3, <2>1 DEF One
<1>4. CASE e \in T /\ e \notin S
  <2>1. T = S \cup {e}
    BY <1>4
  <2>2. Cardinality(S \cup {e}) = Cardinality(S) + 1
    BY <1>1, <1>4, FS_AddElement
  <2> QED
    BY <1>2, <1>4, <2>1, <2>2 DEF One
<1>5. CASE e \notin T /\ e \in S
  <2>1. S = T \cup {e}
    BY <1>5
  <2>2. Cardinality(T \cup {e}) = Cardinality(T) + 1
    BY <1>1, <1>5, FS_AddElement
  <2> QED
    BY <1>2, <1>5, <2>1, <2>2 DEF One
<1> QED
  BY <1>3, <1>4, <1>5

(* One inode and one name of the directories change, and the counters with them. *)
LEMMA CountersStep ==
    ASSUME NamesInv, CountersInv, remote' = remote, NEW i \in Inodes, NEW p \in Paths,
           \A k \in Inodes \ {i} : ino'[k].st = ino[k].st /\ ino'[k].path = ino[k].path,
           \A q \in Paths \ {p} : \A d \in Dirs : LeftAt(q, d)' <=> LeftAt(q, d),
           \A d \in Dirs : modified'[d] = modified[d] + One(Dirty(i, d)') - One(Dirty(i, d))
                                           + One(LeftAt(p, d)') - One(LeftAt(p, d))
    PROVE  CountersInv'
<1> SUFFICES ASSUME remote = 0, NEW d \in Dirs
             PROVE  modified'[d] = Cardinality(DirtyIn(d)') + Cardinality(LeftIn(d)')
  BY DEF CountersInv
<1>1. IsFiniteSet(Inodes) /\ IsFiniteSet(Paths)
  BY FS_Interval, PathsAssumption, BoundsAssumption DEF Inodes
<1>2. /\ DirtyIn(d) \in SUBSET Inodes /\ DirtyIn(d)' \in SUBSET Inodes
      /\ i \in DirtyIn(d) <=> Dirty(i, d)
      /\ i \in DirtyIn(d)' <=> Dirty(i, d)'
      /\ \A k \in Inodes \ {i} : k \in DirtyIn(d)' <=> k \in DirtyIn(d)
  BY DEF DirtyIn, Dirty
<1>3. /\ LeftIn(d) \in SUBSET Paths /\ LeftIn(d)' \in SUBSET Paths
      /\ p \in LeftIn(d) <=> LeftAt(p, d)
      /\ p \in LeftIn(d)' <=> LeftAt(p, d)'
      /\ \A q \in Paths \ {p} : q \in LeftIn(d)' <=> q \in LeftIn(d)
  BY DEF LeftIn
<1>4. /\ Cardinality(DirtyIn(d)) \in Int /\ Cardinality(DirtyIn(d)') \in Int
      /\ Cardinality(DirtyIn(d)') = Cardinality(DirtyIn(d)) + One(Dirty(i, d)') - One(Dirty(i, d))
  <2>1. /\ Cardinality(DirtyIn(d)) \in Int /\ Cardinality(DirtyIn(d)') \in Int
        /\ Cardinality(DirtyIn(d)') = Cardinality(DirtyIn(d))
             + One(i \in DirtyIn(d)') - One(i \in DirtyIn(d))
    BY <1>1, <1>2, OneChange
  <2> QED
    BY <1>2, <2>1 DEF One
<1>5. /\ Cardinality(LeftIn(d)) \in Int /\ Cardinality(LeftIn(d)') \in Int
      /\ Cardinality(LeftIn(d)') = Cardinality(LeftIn(d)) + One(LeftAt(p, d)') - One(LeftAt(p, d))
  <2>1. /\ Cardinality(LeftIn(d)) \in Int /\ Cardinality(LeftIn(d)') \in Int
        /\ Cardinality(LeftIn(d)') = Cardinality(LeftIn(d))
             + One(p \in LeftIn(d)') - One(p \in LeftIn(d))
    BY <1>1, <1>3, OneChange
  <2> QED
    BY <1>3, <2>1 DEF One
<1>6. modified[d] = Cardinality(DirtyIn(d)) + Cardinality(LeftIn(d))
  BY DEF CountersInv
<1>7. modified'[d] = modified[d] + One(Dirty(i, d)') - One(Dirty(i, d))
                                 + One(LeftAt(p, d)') - One(LeftAt(p, d))
  OBVIOUS
<1> QED
  BY <1>4, <1>5, <1>6, <1>7 DEF One

(* Nothing that is counted changes. *)
LEMMA CountersKept ==
    ASSUME NamesInv, CountersInv, remote' = remote, deleted' = deleted, modified' = modified,
           \A k \in Inodes : ino'[k].st = ino[k].st /\ ino'[k].path = ino[k].path
    PROVE  CountersInv'
<1>1. \A p \in Paths : deleted[p] \in Inodes \cup {0}
  BY DEF NamesInv, TypeOK
<1>2. \A d \in Dirs : DirtyIn(d)' = DirtyIn(d)
  BY DEF DirtyIn, Dirty
<1>3. \A d \in Dirs : \A p \in Paths : LeftAt(p, d)' <=> LeftAt(p, d)
  BY <1>1 DEF LeftAt
<1>4. \A d \in Dirs : LeftIn(d)' = LeftIn(d)
  BY <1>3 DEF LeftIn
<1> QED
  BY <1>2, <1>4 DEF CountersInv

(* addModified at one directory. *)
LEMMA CountersAt ==
    ASSUME NEW m \in [Dirs -> Int], NEW p \in Paths, NEW n \in Int
    PROVE  \A d \in Dirs : addModified(m, p, n)[d] = IF Dir(p) = d THEN m[d] + n ELSE m[d]
BY DEF addModified

(* SetCacheState at the directory of an inode. *)
LEMMA RecountAt ==
    ASSUME NEW m \in [Dirs -> Int], NEW x, x.path \in Paths, NEW st
    PROVE  \A d \in Dirs : Recount(m, x, st)[d] =
             IF Dir(x.path) = d THEN m[d] + Counted(st) - Counted(x.st) ELSE m[d]
<1>1. Counted(st) \in Int /\ Counted(x.st) \in Int /\ Counted(st) - Counted(x.st) \in Int
  BY DEF Counted
<1>2. \A d \in Dirs : Recount(m, x, st)[d] =
        IF Dir(x.path) = d THEN m[d] + (Counted(st) - Counted(x.st)) ELSE m[d]
  BY <1>1, CountersAt DEF Recount
<1> QED
  BY <1>1, <1>2

(* An inode that is not removed, before or after, changes its state. *)
LEMMA CountersState ==
    ASSUME NamesInv, CountersInv, remote' = remote, deleted' = deleted, NEW i \in Inodes, NEW st,
           ino[i].path \in Paths, ino'[i].path = ino[i].path, ino'[i].st = st,
           st # "DELETED", ino[i].st # "DELETED",
           \A k \in Inodes \ {i} : ino'[k] = ino[k],
           NEW x, x.st = ino[i].st, x.path = ino[i].path, modified' = Recount(modified, x, st)
    PROVE  CountersInv'
<1>1. /\ \A p \in Paths : deleted[p] \in Inodes \cup {0}
      /\ modified \in [Dirs -> Int]
  BY DEF NamesInv, TypeOK
<1>2. PICK p : p = ino[i].path
  OBVIOUS
<1>3. \A q \in Paths : \A d \in Dirs : LeftAt(q, d)' <=> LeftAt(q, d)
  BY <1>1 DEF LeftAt
<1>4. \A d \in Dirs : modified'[d] =
        IF Dir(p) = d THEN modified[d] + Counted(st) - Counted(x.st) ELSE modified[d]
  BY <1>1, <1>2, RecountAt
<1>5. ASSUME NEW d \in Dirs
      PROVE  modified'[d] = modified[d] + One(Dirty(i, d)') - One(Dirty(i, d))
                                        + One(LeftAt(p, d)') - One(LeftAt(p, d))
  <2>1. One(LeftAt(p, d)') = One(LeftAt(p, d)) /\ One(LeftAt(p, d)) \in Int
    BY <1>2, <1>3 DEF One
  <2>2. /\ One(Dirty(i, d)') = IF Dir(p) = d THEN Counted(st) ELSE 0
        /\ One(Dirty(i, d)) = IF Dir(p) = d THEN Counted(x.st) ELSE 0
    BY <1>2 DEF One, Dirty, Counted
  <2>3. modified[d] \in Int /\ Counted(st) \in Int /\ Counted(x.st) \in Int
    BY <1>1 DEF Counted
  <2> QED
    BY <1>4, <2>1, <2>2, <2>3
<1> QED
  BY <1>2, <1>3, <1>5, CountersStep

(* A new file counts. *)
LEMMA CountersCreate ==
    ASSUME NamesInv, FilesInv, CountersInv, NEW p \in Creates, Create(p)
    PROVE  CountersInv'
<1>0. p \in Paths /\ used \in Nat
  BY PathsAssumption DEF NamesInv, NextIsUnlisted
<1>1. PICK i : i = used + 1
  OBVIOUS
<1>2. i \in Inodes /\ i # 0
  BY <1>0, <1>1, BoundsAssumption DEF Create, Inodes
<1>3. ino \in [Inodes -> NodeSet] /\ \A q \in Paths : deleted[q] \in Inodes \cup {0}
  BY DEF NamesInv, TypeOK
<1>4. /\ ino'[i].st = "CREATED" /\ ino'[i].path = p
      /\ \A k \in Inodes \ {i} : ino'[k] = ino[k]
      /\ remote' = remote /\ deleted' = deleted
  BY <1>1, <1>2, <1>3 DEF Create, NoNode
<1>5. ino[i].st = "NONE" /\ ino[i].path = NoPath
  <2>1. NodeInv(i) /\ i > used
    BY <1>0, <1>1, <1>2 DEF FilesInv, FileInv
  <2> QED
    BY <2>1 DEF NodeInv, NoNode
<1>6. \A q \in Paths : deleted[q] # i
  BY <1>2, <1>5, PathsAssumption DEF FilesInv, FileInv, MarksInv
<1>7. \A q \in Paths : \A d \in Dirs : LeftAt(q, d)' <=> LeftAt(q, d)
  BY <1>3, <1>4, <1>6 DEF LeftAt
<1>8. modified \in [Dirs -> Int] /\ modified' = addModified(modified, p, 1)
  BY DEF Create, NamesInv, TypeOK
<1>9. ASSUME NEW d \in Dirs
      PROVE  modified'[d] = modified[d] + One(Dirty(i, d)') - One(Dirty(i, d))
                                        + One(LeftAt(p, d)') - One(LeftAt(p, d))
  <2>1. modified'[d] = IF Dir(p) = d THEN modified[d] + 1 ELSE modified[d]
    BY <1>0, <1>8, CountersAt
  <2>2. One(LeftAt(p, d)') = One(LeftAt(p, d)) /\ One(LeftAt(p, d)) \in Int
    BY <1>0, <1>7 DEF One
  <2>3. One(Dirty(i, d)') = (IF Dir(p) = d THEN 1 ELSE 0) /\ One(Dirty(i, d)) = 0
    BY <1>4, <1>5 DEF One, Dirty, Counted
  <2> QED
    BY <1>8, <2>1, <2>2, <2>3
<1>10. \A k \in Inodes \ {i} : ino'[k].st = ino[k].st /\ ino'[k].path = ino[k].path
  BY <1>4
<1> QED
  BY <1>0, <1>2, <1>4, <1>7, <1>9, <1>10, CountersStep

(* A write counts a clean file. *)
LEMMA CountersWrite ==
    ASSUME NamesInv, CountersInv, NEW i \in Inodes, Write(i)
    PROVE  CountersInv'
<1> DEFINE st == IF ino[i].st = "CACHED" THEN "MODIFIED" ELSE ino[i].st
<1>1. ino[i].path \in Paths /\ ino[i].st # "DELETED"
  BY PartTypes DEF Write, Linked, NamesInv, ChildrenNamed
<1>2. ino \in [Inodes -> NodeSet]
  BY DEF NamesInv, TypeOK
<1>3. /\ ino'[i].st = st /\ ino'[i].path = ino[i].path
      /\ \A k \in Inodes \ {i} : ino'[k] = ino[k]
  BY <1>2 DEF Write, NodeSet
<1>4. remote' = remote /\ deleted' = deleted /\ modified' = Recount(modified, ino[i], st)
  BY DEF Write
<1>5. st # "DELETED"
  BY <1>1
<1> HIDE DEF st
<1> QED
  BY <1>1, <1>3, <1>4, <1>5, CountersState

(* An upload ends. *)
LEMMA CountersPut ==
    ASSUME NamesInv, FilesInv, CountersInv, NEW i \in Inodes, PutPrepare(i) \/ PutReturns(i)
    PROVE  CountersInv'
<1>0. ino \in [Inodes -> NodeSet] /\ remote' = remote /\ deleted' = deleted /\ NodeInv(i)
  BY DEF NamesInv, TypeOK, PutPrepare, PutReturns, FilesInv, FileInv
<1>1. ino[i] \in NodeSet /\ job[i].ok /\ job[i].pc \in Puts /\ i \in Nat /\ i # 0
  BY PartTypes DEF PutPrepare, PutReturns, FilesInv, FileInv, JobInv, Puts
<1>2. CASE PutPrepare(i) /\ UNCHANGED modified
  <2>1. \A k \in Inodes : ino'[k].st = ino[k].st /\ ino'[k].path = ino[k].path
    <3>1. CASE UNCHANGED ino
      BY <3>1
    <3>2. CASE ino' = [ino EXCEPT ![i].cached = TRUE]
      BY <1>0, <3>2 DEF NodeSet
    <3>3. CASE Flushable(ino[i]) /\ modified' = Recount(modified, ino[i], "CACHED")
      <4>1. ino[i].path \in Paths /\ modified \in [Dirs -> Int] /\ Dir(ino[i].path) \in Dirs
        BY <1>0, <3>3 DEF NodeInv, Flushable, NamesInv, TypeOK, Paths, Dir
      <4>2. modified'[Dir(ino[i].path)] = modified[Dir(ino[i].path)] + Counted("CACHED") - Counted(ino[i].st)
        BY <3>3, <4>1, RecountAt
      <4>3. Counted("CACHED") = 0 /\ Counted(ino[i].st) = 1
        BY <3>3 DEF Counted, Flushable
      <4> QED
        BY <1>2, <4>1, <4>2, <4>3
    <3> QED
      BY <1>2, <3>1, <3>2, <3>3 DEF PutPrepare
  <2> QED
    BY <1>0, <1>2, <2>1, CountersKept
<1>3. CASE /\ Flushable(ino[i]) /\ ino' = [ino EXCEPT ![i] = Reset(ino[i], "CACHED")]
           /\ modified' = Recount(modified, ino[i], "CACHED")
  <2>1. Reset(ino[i], "CACHED").path = ino[i].path /\ Reset(ino[i], "CACHED").st = "CACHED"
    BY <1>1, ResetType DEF States
  <2>2. /\ ino'[i].st = "CACHED" /\ ino'[i].path = ino[i].path
        /\ \A k \in Inodes \ {i} : ino'[k] = ino[k]
    BY <1>0, <1>3, <2>1
  <2>3. PICK st : st = "CACHED"
    OBVIOUS
  <2>4. ino[i].path \in Paths /\ ino[i].st # "DELETED" /\ st # "DELETED"
    BY <1>0, <1>3, <2>3 DEF NodeInv, Flushable
  <2> QED
    BY <1>0, <1>3, <2>2, <2>3, <2>4, CountersState
<1>4. CASE PutReturns(i)
  <2> DEFINE x == [ino[i] EXCEPT !.known = job[i].ver,
                                 !.staged = @ /\ ~(i < 0 /\ ino[i].ver = job[i].ver),
                                 !.awaiting = @ \/ ((i < 0 /\ ino[i].ver = job[i].ver) /\ ino[i].old # NoPath)]
             st == IF ~Flushable(x) THEN x.st ELSE IF isStillDirty(x) THEN "MODIFIED" ELSE "CACHED"
  <2>1. Owner(i) = i /\ ~(i < 0)
    BY <1>1 DEF Owner
  <2>2. ino' = [ino EXCEPT ![i] = [x EXCEPT !.st = st]] /\ modified' = Recount(modified, x, st)
    BY <1>1, <1>4, <2>1 DEF PutReturns
  <2>3. x.st = ino[i].st /\ x.path = ino[i].path
    BY <1>1 DEF NodeSet
  <2>4. [x EXCEPT !.st = st].st = st /\ [x EXCEPT !.st = st].path = ino[i].path
    BY <1>1 DEF NodeSet
  <2>5. st # "DELETED" <=> ino[i].st # "DELETED"
    BY <2>3 DEF Flushable
  <2>6. ~Flushable(ino[i]) => st = ino[i].st
    BY <2>3 DEF Flushable
  <2> HIDE DEF st, x
  <2>7. /\ ino'[i].st = st /\ ino'[i].path = ino[i].path
        /\ \A k \in Inodes \ {i} : ino'[k] = ino[k]
    BY <1>0, <2>2, <2>4
  <2>8. ino[i].path \in Paths /\ ino[i].st \in {"CREATED", "MODIFIED", "DELETED"}
    BY <1>0, <1>1, PartTypes DEF NodeInv, Puts, Removes, States
  <2>9. CASE ino[i].st # "DELETED"
    BY <1>0, <2>2, <2>3, <2>5, <2>7, <2>8, <2>9, CountersState
  <2>10. CASE ino[i].st = "DELETED"
    <3>1. st = x.st /\ modified \in [Dirs -> Int] /\ DOMAIN modified' = Dirs
      BY <2>2, <2>3, <2>6, <2>10 DEF Flushable, NamesInv, TypeOK, Recount, addModified
    <3>2. \A d \in Dirs : modified'[d] =
            IF Dir(x.path) = d THEN modified[d] + Counted(st) - Counted(x.st) ELSE modified[d]
      BY <2>2, <2>3, <2>8, <3>1, RecountAt
    <3>3. Counted(st) = Counted(x.st) /\ Counted(st) \in Int
      BY <3>1 DEF Counted
    <3>4. \A d \in Dirs : modified'[d] = modified[d]
      BY <3>1, <3>2, <3>3
    <3>5. modified' = modified
      BY <2>2, <3>1, <3>4 DEF Recount, addModified
    <3>6. \A k \in Inodes : ino'[k].st = ino[k].st /\ ino'[k].path = ino[k].path
      BY <2>3, <2>7, <3>1
    <3> QED
      BY <1>0, <3>5, <3>6, CountersKept
  <2> QED
    BY <2>9, <2>10
<1> QED
  BY <1>2, <1>3, <1>4 DEF PutPrepare

(* A rename ends with its upload. *)
LEMMA CountersRenameCopied ==
    ASSUME NamesInv, FilesInv, CountersInv, NEW i \in Inodes, RenameCopied(i)
    PROVE  CountersInv'
<1> DEFINE old == IF ino[i].path \in {job[i].from, job[i].to} THEN NoPath ELSE job[i].to
           x == [ino[i] EXCEPT !.renamingTo = FALSE, !.old = old, !.awaiting = @ /\ old # NoPath]
           st == IF Flushable(x) /\ ~isStillDirty(x) /\ ~x.staged THEN "CACHED" ELSE x.st
<1>0. ino \in [Inodes -> NodeSet] /\ ino[i] \in NodeSet /\ NodeInv(i) /\ JobInv(i)
  BY DEF NamesInv, TypeOK, FilesInv, FileInv
<1>1. /\ ino' = [ino EXCEPT ![i] = [x EXCEPT !.st = st]] /\ modified' = Recount(modified, x, st)
      /\ remote' = remote /\ deleted' = deleted
  BY DEF RenameCopied
<1>2. x.st = ino[i].st /\ x.path = ino[i].path
  BY <1>0 DEF NodeSet
<1>3. [x EXCEPT !.st = st].st = st /\ [x EXCEPT !.st = st].path = ino[i].path
  BY <1>0 DEF NodeSet
<1>4. ino[i].st = "MODIFIED" /\ ino[i].path \in Paths
  BY <1>0 DEF RenameCopied, JobInv, NodeInv, Copies
<1>5. st # "DELETED"
  BY <1>2, <1>4
<1> HIDE DEF st, x
<1>6. /\ ino'[i].st = st /\ ino'[i].path = ino[i].path
      /\ \A k \in Inodes \ {i} : ino'[k] = ino[k]
  BY <1>0, <1>1, <1>3
<1>7. ino[i].st # "DELETED"
  BY <1>4
<1> QED
  BY <1>1, <1>2, <1>4, <1>5, <1>6, <1>7, CountersState

(* The old name of a renamed file is free. *)
LEMMA CountersRenameRemoved ==
    ASSUME NamesInv, FilesInv, CountersInv, NEW i \in Inodes, RenameRemoved(i)
    PROVE  CountersInv'
<1>0. JobInv(i) /\ deleted \in [Paths -> Inodes \cup {0}] /\ modified \in [Dirs -> Int] /\ i # 0
  BY PartTypes DEF NamesInv, TypeOK, FilesInv, FileInv
<1>1. PICK p : p = job[i].from
  OBVIOUS
<1>2. p \in Paths /\ deleted[p] = i /\ ino[i].st # "DELETED" /\ job[i].ok
  BY <1>0, <1>1 DEF RenameRemoved, JobInv, Removes
<1>3. /\ deleted' = [deleted EXCEPT ![p] = 0] /\ ino' = ino /\ remote' = remote
      /\ modified' = addModified(modified, p, -1)
  BY <1>1, <1>2 DEF RenameRemoved
<1>4. \A q \in Paths \ {p} : \A d \in Dirs : LeftAt(q, d)' <=> LeftAt(q, d)
  BY <1>0, <1>2, <1>3 DEF LeftAt
<1>5. ASSUME NEW d \in Dirs
      PROVE  modified'[d] = modified[d] + One(Dirty(i, d)') - One(Dirty(i, d))
                                        + One(LeftAt(p, d)') - One(LeftAt(p, d))
  <2>1. modified'[d] = IF Dir(p) = d THEN modified[d] + (-1) ELSE modified[d]
    BY <1>0, <1>2, <1>3, CountersAt
  <2>2. One(LeftAt(p, d)') = 0 /\ One(LeftAt(p, d)) = IF Dir(p) = d THEN 1 ELSE 0
    BY <1>0, <1>2, <1>3 DEF One, LeftAt
  <2>3. One(Dirty(i, d)') = One(Dirty(i, d)) /\ One(Dirty(i, d)) \in Int
    BY <1>3 DEF One, Dirty
  <2> QED
    BY <1>0, <2>1, <2>2, <2>3
<1> QED
  BY <1>2, <1>3, <1>4, <1>5, CountersStep

(* The name of a removed file is free. *)
LEMMA CountersDeleteReturns ==
    ASSUME NamesInv, FilesInv, CountersInv, NEW i \in Inodes, DeleteReturns(i)
    PROVE  CountersInv'
<1>0. /\ NodeInv(i) /\ JobInv(i) /\ deleted \in [Paths -> Inodes \cup {0}]
      /\ modified \in [Dirs -> Int] /\ ino \in [Inodes -> NodeSet] /\ i # 0
  BY PartTypes DEF NamesInv, TypeOK, FilesInv, FileInv
<1>1. PICK p : p = ino[i].path
  OBVIOUS
<1>2. /\ ino[i].st = "DELETED" /\ p \in Paths /\ deleted[p] = i
      /\ job[i].ok /\ job[i].to = NoPath
  BY <1>0, <1>1 DEF DeleteReturns, NodeInv, JobInv, Deletes
<1>3. /\ ino' = [ino EXCEPT ![i] = Reset(ino[i], "DEAD")] /\ remote' = remote
      /\ modified' = Recount(modified, ino[i], "DEAD")
      /\ deleted' = [q \in Paths |-> IF q = p THEN 0 ELSE deleted[q]]
  BY <1>1, <1>2, PathsAssumption DEF DeleteReturns
<1>4. Reset(ino[i], "DEAD").path = p /\ Reset(ino[i], "DEAD").st = "DEAD"
  BY <1>0, <1>1, ResetType DEF States
<1>5. /\ ino'[i].st = "DEAD" /\ ino'[i].path = p
      /\ \A k \in Inodes \ {i} : ino'[k] = ino[k]
  BY <1>0, <1>3, <1>4
<1>6. \A q \in Paths \ {p} : \A d \in Dirs : LeftAt(q, d)' <=> LeftAt(q, d)
  BY <1>0, <1>1, <1>3, <1>5 DEF LeftAt
<1>7. ASSUME NEW d \in Dirs
      PROVE  modified'[d] = modified[d] + One(Dirty(i, d)') - One(Dirty(i, d))
                                        + One(LeftAt(p, d)') - One(LeftAt(p, d))
  <2>1. modified'[d] =
          IF Dir(p) = d THEN modified[d] + Counted("DEAD") - Counted(ino[i].st) ELSE modified[d]
    BY <1>0, <1>1, <1>2, <1>3, RecountAt
  <2>2. One(LeftAt(p, d)') = 0 /\ One(LeftAt(p, d)) = 0
    BY <1>1, <1>2, <1>3 DEF One, LeftAt
  <2>3. One(Dirty(i, d)') = 0 /\ One(Dirty(i, d)) = IF Dir(p) = d THEN 1 ELSE 0
    BY <1>1, <1>2, <1>5 DEF One, Dirty, Counted
  <2>4. Counted("DEAD") = 0 /\ Counted(ino[i].st) = 1
    BY <1>2 DEF Counted
  <2> QED
    BY <1>0, <2>1, <2>2, <2>3, <2>4
<1>8. \A k \in Inodes \ {i} : ino'[k].st = ino[k].st /\ ino'[k].path = ino[k].path
  BY <1>5
<1> QED
  BY <1>2, <1>3, <1>6, <1>7, <1>8, CountersStep

(* A removed file counts itself; the mark at its name does not count. *)
LEMMA CountersUnlink ==
    ASSUME Forward, NamesInv, FilesInv, CountersInv, NEW p \in Unlinks, Unlink(p)
    PROVE  CountersInv'
<1>0. p \in Paths
  BY PathsAssumption
<1>1. PICK i \in Inodes : i = child[p]
  BY <1>0 DEF Unlink, NamesInv, TypeOK
<1>2. /\ ino[i].path = p /\ ino[i].st \in {"CREATED", "MODIFIED", "CACHED"} /\ Linked(i)
      /\ i # 0 /\ ino[i] \in NodeSet
  BY <1>0, <1>1, PartTypes DEF Unlink, NamesInv, ChildrenNamed, Linked
<1>3. NodeInv(i) /\ deleted \in [Paths -> Inodes \cup {0}] /\ modified \in [Dirs -> Int]
      /\ ino \in [Inodes -> NodeSet]
  BY DEF FilesInv, FileInv, NamesInv, TypeOK
<1>4. ino[i].old = NoPath
  BY <1>2, <1>3 DEF NodeInv, Forward
<1> DEFINE remove == (ino[i].st # "CREATED" \/ ~Idle(i)) /\ deleted[p] = 0
           st == IF remove THEN "DELETED" ELSE "DEAD"
<1>5. /\ ino' = [ino EXCEPT ![i] = Reset(ino[i], st)]
      /\ deleted' = (IF remove THEN [deleted EXCEPT ![p] = i] ELSE deleted)
      /\ modified' = Recount(modified, ino[i], st) /\ remote' = remote
  BY <1>1, <1>4 DEF Unlink
<1>6. Reset(ino[i], st).path = p /\ Reset(ino[i], st).st = st
  BY <1>2, ResetType DEF States
<1>7. /\ ino'[i].st = st /\ ino'[i].path = p
      /\ \A k \in Inodes \ {i} : ino'[k] = ino[k]
  BY <1>3, <1>5, <1>6
<1>8. \A q \in Paths \ {p} : \A d \in Dirs : LeftAt(q, d)' <=> LeftAt(q, d)
  BY <1>2, <1>3, <1>5, <1>7 DEF LeftAt
<1>9. ASSUME NEW d \in Dirs
      PROVE  modified'[d] = modified[d] + One(Dirty(i, d)') - One(Dirty(i, d))
                                        + One(LeftAt(p, d)') - One(LeftAt(p, d))
  <2>1. modified'[d] =
          IF Dir(p) = d THEN modified[d] + Counted(st) - Counted(ino[i].st) ELSE modified[d]
    <3> HIDE DEF st
    <3> QED
      BY <1>0, <1>2, <1>3, <1>5, RecountAt
  <2>2. One(LeftAt(p, d)') = One(LeftAt(p, d)) /\ One(LeftAt(p, d)) \in Int
    <3>1. CASE remove
      <4>1. deleted'[p] = i /\ deleted[p] = 0 /\ ino'[i].st = "DELETED"
        BY <1>0, <1>3, <1>5, <1>7, <3>1
      <4> QED
        BY <1>7, <4>1 DEF One, LeftAt
    <3>2. CASE ~remove
      <4>1. deleted' = deleted /\ ino'[i].st = "DEAD" /\ deleted[p] \in Inodes \cup {0}
        BY <1>0, <1>3, <1>5, <1>7, <3>2
      <4>2. LeftAt(p, d)' <=> LeftAt(p, d)
        BY <1>2, <1>7, <4>1 DEF LeftAt
      <4> QED
        BY <4>2 DEF One
    <3> QED
      BY <3>1, <3>2
  <2>3. /\ One(Dirty(i, d)') = IF Dir(p) = d THEN Counted(st) ELSE 0
        /\ One(Dirty(i, d)) = IF Dir(p) = d THEN Counted(ino[i].st) ELSE 0
    <3> HIDE DEF st
    <3> QED
      BY <1>2, <1>7 DEF One, Dirty, Counted
  <2>4. Counted(st) \in Int /\ Counted(ino[i].st) \in Int
    BY DEF Counted
  <2> HIDE DEF st
  <2> QED
    BY <1>3, <2>1, <2>2, <2>3, <2>4
<1>10. \A k \in Inodes \ {i} : ino'[k].st = ino[k].st /\ ino'[k].path = ino[k].path
  BY <1>7
<1> QED
  BY <1>0, <1>5, <1>8, <1>9, <1>10, CountersStep

(* A rename takes two directories. *)
LEMMA CountersRename ==
    ASSUME Forward, NamesInv, FilesInv, CountersInv, NEW p \in Paths, NEW q \in Paths,
           <<p, q>> \in Moves, RenameFile(p, q)
    PROVE  CountersInv'
<1>1. PICK i \in Inodes : i = child[p]
  BY DEF RenameFile, NamesInv, TypeOK
<1>2. /\ ino[i].path = p /\ ino[i].st \in {"CREATED", "MODIFIED", "CACHED"} /\ Linked(i)
      /\ i # 0 /\ ino[i] \in NodeSet
  BY <1>1, PartTypes DEF RenameFile, NamesInv, ChildrenNamed, Linked
<1>3. /\ NodeInv(i) /\ JobInv(i) /\ MarksInv(i) /\ deleted \in [Paths -> Inodes \cup {0}]
      /\ modified \in [Dirs -> Int] /\ ino \in [Inodes -> NodeSet]
  BY DEF FilesInv, FileInv, NamesInv, TypeOK
<1>4. At(p) < At(q) /\ At(p) \in Nat /\ At(q) \in Nat
  BY LevelUp, AtNat
<1>5. deleted[q] # i /\ p # q
  BY <1>2, <1>3, <1>4 DEF MarksInv
<1> DEFINE x == ino[i]
           free == MovesFreely(x, i)
           marks == ~free \/ x.renamingTo
           st == IF x.st = "CACHED" THEN "MODIFIED" ELSE x.st
<1>6. child[q] = 0
  BY DEF RenameFile, Forward
<1>7. /\ ino'[i].st = st /\ ino'[i].path = q
      /\ \A k \in Inodes \ {i} : ino'[k] = ino[k]
  <2>1. MovedInode(x, i, q).st = st /\ MovedInode(x, i, q).path = q
    BY <1>2 DEF MovedInode, NodeSet
  <2>2. \A k \in Inodes : k # 0
    BY PartTypes
  <2> QED
    BY <1>1, <1>3, <1>6, <2>1, <2>2 DEF RenameFile
<1>8. marks => deleted[p] = 0
  <2>1. ~free => Uses(i)
    BY <1>2, <1>3 DEF MovesFreely, Idle, Uses, NodeInv
  <2>2. x.renamingTo => Uses(i)
    BY <1>2, <1>3 DEF Uses, NodeInv, JobInv, Copies
  <2> QED
    BY <1>2, <1>3, <2>1, <2>2 DEF NodeInv
<1>9. deleted' = (IF marks THEN [deleted EXCEPT ![p] = i] ELSE deleted) /\ remote' = remote
  <2>1. deleted' = MovedDeleted(x, i, q) /\ remote' = remote
    BY <1>1 DEF RenameFile
  <2>2. CASE marks
    <3>1. [deleted EXCEPT ![p] = i][q] # i
      BY <1>3, <1>5
    <3> QED
      BY <1>2, <1>8, <2>1, <2>2, <3>1 DEF MovedDeleted
  <2>3. CASE ~marks
    BY <1>5, <2>1, <2>3 DEF MovedDeleted
  <2> QED
    BY <2>2, <2>3
<1>10. \A r \in Paths \ {p} : \A d \in Dirs : LeftAt(r, d)' <=> LeftAt(r, d)
  BY <1>2, <1>3, <1>7, <1>9 DEF LeftAt
<1>11. free /\ ~x.renamingTo => x.st # "CACHED"
  BY <1>3 DEF MovesFreely, NodeInv
<1>12. ~free => ~x.renamingTo
  BY <1>3, PathsAssumption DEF MovesFreely, NodeInv, JobInv, Copies
<1>13. x.renamingTo => x.st # "CACHED"
  BY <1>3 DEF NodeInv, JobInv, Copies
<1>14. ASSUME NEW d \in Dirs
       PROVE  modified'[d] = modified[d] + One(Dirty(i, d)') - One(Dirty(i, d))
                                         + One(LeftAt(p, d)') - One(LeftAt(p, d))
  <2>1. modified' = MovedModified(modified, x, i, q)
    BY <1>1, <1>6 DEF RenameFile
  <2>2. PICK n \in {-1, 0, 1} : n = IF free /\ ~x.renamingTo THEN -1
                                   ELSE IF ~free /\ x.st = "CACHED" THEN 1 ELSE 0
    OBVIOUS
  <2>3. PICK m \in [Dirs -> Int] :
          /\ modified' = addModified(m, q, 1)
          /\ \A e \in Dirs : m[e] = IF Dir(p) = e THEN modified[e] + n ELSE modified[e]
    <3>1. CASE free /\ ~x.renamingTo
      <4>1. modified' = addModified(addModified(modified, p, -1), q, 1)
        BY <1>2, <2>1, <3>1 DEF MovedModified
      <4>2. /\ addModified(modified, p, -1) \in [Dirs -> Int]
            /\ \A e \in Dirs : addModified(modified, p, -1)[e] =
                 IF Dir(p) = e THEN modified[e] + (-1) ELSE modified[e]
        BY <1>3, CountersType, CountersAt
      <4> QED
        BY <2>2, <3>1, <4>1, <4>2
    <3>2. CASE ~free /\ x.st = "CACHED"
      <4>1. modified' = addModified(addModified(modified, p, 1), q, 1)
        BY <1>2, <2>1, <3>2 DEF MovedModified
      <4>2. /\ addModified(modified, p, 1) \in [Dirs -> Int]
            /\ \A e \in Dirs : addModified(modified, p, 1)[e] =
                 IF Dir(p) = e THEN modified[e] + 1 ELSE modified[e]
        BY <1>3, CountersType, CountersAt
      <4> QED
        BY <2>2, <3>2, <4>1, <4>2
    <3>3. CASE ~(free /\ ~x.renamingTo) /\ ~(~free /\ x.st = "CACHED")
      <4>1. modified' = addModified(modified, q, 1) /\ n = 0
        BY <2>1, <2>2, <3>3 DEF MovedModified
      <4> QED
        BY <1>3, <4>1
    <3> QED
      BY <3>1, <3>2, <3>3
  <2>4. modified'[d] = IF Dir(q) = d THEN m[d] + 1 ELSE m[d]
    BY <2>3, CountersAt
  <2>5. m[d] = IF Dir(p) = d THEN modified[d] + n ELSE modified[d]
    BY <2>3
  <2>6. /\ One(Dirty(i, d)') = (IF Dir(q) = d THEN 1 ELSE 0)
        /\ One(Dirty(i, d)) = IF Dir(p) = d THEN Counted(x.st) ELSE 0
    BY <1>2, <1>7 DEF One, Dirty, Counted
  <2>7. CASE marks
    <3>1. deleted'[p] = i /\ deleted[p] = 0 /\ ino'[i].path = q
      BY <1>3, <1>7, <1>8, <1>9, <2>7
    <3>2. One(LeftAt(p, d)') = (IF Dir(p) = d THEN 1 ELSE 0) /\ One(LeftAt(p, d)) = 0
      BY <1>2, <1>5, <3>1 DEF One, LeftAt
    <3>3. n = 1 - Counted(x.st)
      BY <1>2, <1>12, <1>13, <2>2, <2>7 DEF Counted
    <3>4. modified[d] \in Int /\ n \in Int /\ Counted(x.st) \in Int
      BY <1>3, <2>2 DEF Counted
    <3> HIDE DEF free, marks, x
    <3> QED
      BY <2>4, <2>5, <2>6, <3>2, <3>3, <3>4
  <2>8. CASE ~marks
    <3>1. deleted' = deleted /\ deleted[p] \in Inodes \cup {0}
      BY <1>3, <1>9, <2>8
    <3>2. LeftAt(p, d)' <=> LeftAt(p, d)
      BY <1>2, <1>7, <3>1 DEF LeftAt
    <3>3. One(LeftAt(p, d)') = One(LeftAt(p, d)) /\ One(LeftAt(p, d)) \in Int
      BY <3>2 DEF One
    <3>4. n = -1 /\ Counted(x.st) = 1
      BY <1>2, <1>11, <2>2, <2>8 DEF Counted
    <3>5. modified[d] \in Int
      BY <1>3
    <3> HIDE DEF free, marks, x
    <3> QED
      BY <2>4, <2>5, <2>6, <3>3, <3>4, <3>5
  <2> QED
    BY <2>7, <2>8
<1>15. \A k \in Inodes \ {i} : ino'[k].st = ino[k].st /\ ino'[k].path = ino[k].path
  BY <1>7
<1> QED
  BY <1>9, <1>10, <1>14, <1>15, CountersStep

-------------------------------------------------------------------------------
(* The steps of the flusher and the requests change nothing that is counted. *)
LEMMA CountersFlusher ==
    ASSUME NamesInv, CountersInv, Flusher
    PROVE  CountersInv'
<1>1. ino \in [Inodes -> NodeSet]
  BY DEF NamesInv, TypeOK
<1>2. deleted' = deleted /\ modified' = modified /\ remote' = remote
  BY DEF Flusher, FlushNothing, TryFlush, StartDelete, StartRename, StartPut, LookEnds
<1>3. \A k \in Inodes : ino'[k].st = ino[k].st /\ ino'[k].path = ino[k].path
  <2>1. CASE UNCHANGED ino
    BY <2>1
  <2>2. ASSUME NEW i \in Inodes, StartDelete(i) \/ StartRename(i)
        PROVE  \A k \in Inodes : ino'[k].st = ino[k].st /\ ino'[k].path = ino[k].path
    BY <1>1, <2>2 DEF StartDelete, StartRename, NodeSet
  <2> QED
    BY <2>1, <2>2 DEF Flusher, FlushNothing, TryFlush, StartPut
<1> QED
  BY <1>2, <1>3, CountersKept

(* The steps of the requests. *)
LEMMA CountersWork ==
    ASSUME Forward, NamesInv, FilesInv, CountersInv, NEW i \in Inodes, Work(i)
    PROVE  CountersInv'
<1>1. ~StagedFlush(i) /\ ~Put(-i) /\ ~PutReturns(-i)
  BY NothingStaged
<1>2. ~RenameRetries(i) /\ ~RenameError(i) /\ ~RenameUnlinks(i) /\ ~RenameFrees(i)
  BY DEF RenameRetries, RenameError, RenameUnlinks, RenameFrees, FilesInv, FileInv, NodeInv, JobInv
<1>3. CASE Put(i) \/ CopyBlob(i) \/ RenameRemove(i) \/ SendDelete(i) \/ RenameReturns(i)
  <2>1. UNCHANGED <<ino, deleted, modified, remote>>
    BY <1>3 DEF Put, CopyBlob, RenameRemove, SendDelete, DeleteBlob, RenameReturns
  <2> QED
    BY <2>1, CountersKept
<1>4. CASE RenameMissing(i)
  <2>1. remote' = remote /\ remote # 0
    BY <1>4 DEF RenameMissing, FilesInv, FileInv, JobInv
  <2> QED
    BY <2>1 DEF CountersInv
<1> QED
  BY <1>1, <1>2, <1>3, <1>4, CountersPut, CountersRenameCopied, CountersRenameRemoved,
     CountersDeleteReturns DEF Work

(* Every step. *)
LEMMA CountersNext == Forward => (NamesInv /\ FilesInv /\ CountersInv /\ [Next]_vars => CountersInv')
<1> SUFFICES ASSUME Forward, NamesInv, FilesInv, CountersInv, [Next]_vars PROVE CountersInv'
  OBVIOUS
<1>1. CASE Application
  <2>1. ASSUME NEW m \in Moves, RenameFile(m[1], m[2]) PROVE CountersInv'
    <3>1. m[1] \in Paths /\ m[2] \in Paths /\ <<m[1], m[2]>> \in Moves
      BY PathsAssumption
    <3> QED
      BY <2>1, <3>1, CountersRename
  <2> QED
    BY <1>1, <2>1, CountersCreate, CountersWrite, CountersUnlink DEF Application
<1>2. CASE Flusher
  BY <1>2, CountersFlusher
<1>3. ASSUME NEW i \in Inodes, Work(i) PROVE CountersInv'
  BY <1>3, CountersWork
<1>4. CASE Remote
  <2>1. remote' # 0
    BY <1>4 DEF Remote, RemoteDelete, FilesInv
  <2> QED
    BY <2>1 DEF CountersInv
<1>5. CASE UNCHANGED vars
  BY <1>5, CountersKept DEF vars
<1> QED
  BY <1>1, <1>2, <1>3, <1>4, <1>5 DEF Next

(* Nothing counts at first. *)
LEMMA CountersInit == Init => CountersInv
<1> SUFFICES ASSUME Init, NEW d \in Dirs
             PROVE  modified[d] = Cardinality(DirtyIn(d)) + Cardinality(LeftIn(d))
  BY DEF CountersInv
<1>0. PICK f \in [Listed -> Initial] :
        ino = [i \in Inodes |-> IF i \in Listed
                 THEN [NoNode EXCEPT !.st = "CACHED", !.path = f[i], !.known = 0]
                 ELSE NoNode]
  BY Zenon DEF Init
<1>1. \A i \in Inodes : Counted(ino[i].st) = 0
  BY <1>0 DEF NoNode, Counted
<1>2. DirtyIn(d) = {}
  BY <1>1 DEF DirtyIn, Dirty
<1>3. LeftIn(d) = {}
  BY DEF LeftIn, LeftAt, Init
<1>4. modified[d] = 0
  BY DEF Init
<1> QED
  BY <1>2, <1>3, <1>4, FS_EmptySet

(* Nothing counts when everything is flushed. *)
LEMMA SettledCounters == NamesInv /\ FilesInv /\ CountersInv /\ remote = 0 => ModifiedSettles
<1> SUFFICES ASSUME NamesInv, FilesInv, CountersInv, remote = 0, Settled, NEW d \in Dirs
             PROVE  modified[d] = 0
  BY DEF ModifiedSettles
<1>1. DirtyIn(d) = {}
  BY DEF DirtyIn, Dirty, Settled, Counted
<1>2. ASSUME NEW p \in Paths, deleted[p] # 0 PROVE FALSE
  <2>1. PICK i \in Inodes : deleted[p] = i
    BY <1>2 DEF NamesInv, TypeOK
  <2>2. Reason(i, p) /\ NodeInv(i) /\ job[i].pc = "idle" /\ ino[i].st \in {"NONE", "CACHED", "DEAD"}
    BY <2>1 DEF FilesInv, FileInv, ReasonsInv, Settled, Idle
  <2> QED
    BY <2>2, PathsAssumption DEF Reason, NodeInv, Copies, Removes
<1>3. LeftIn(d) = {}
  BY <1>2 DEF LeftIn, LeftAt
<1> QED
  BY <1>1, <1>3, FS_EmptySet DEF CountersInv

(* ModifiedChildren of every directory is back at zero when everything is flushed, although a
   rename counts in two directories and SetCacheState, renameInCache, sendRename and SendDelete
   each adjust their part of it: no directory is kept from being removed or evicted. *)
THEOREM CountersSettle ==
    ASSUME Forward, MaxRemote = 0
    PROVE  Spec => []ModifiedSettles
<1>1. Init => CountersInv
  BY CountersInit
<1>2. NamesInv /\ FilesInv /\ CountersInv /\ [Next]_vars => CountersInv'
  BY CountersNext
<1> QED
  BY <1>1, <1>2, FilesAlone, SettledCounters, PTL DEF Spec
===============================================================================
