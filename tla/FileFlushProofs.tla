--------------------------- MODULE FileFlushProofs ---------------------------
(***************************************************************************)
(* Buffered writes, for every file size, part size and bound: the state    *)
(* stays well formed, a block marked as flushed is in the upload that will *)
(* be completed, and as long as the file only grows, no upload vanishes    *)
(* and no body is loaded that an upload's answer has overtaken, reads see  *)
(* the newest write, a commit publishes one moment of the file, and a      *)
(* clean file is stored.                                                   *)
(***************************************************************************)
EXTENDS FileFlush, FiniteSetTheorems, WellFoundedInduction, TLAPS

\* The number of blocks before part p.
Off(p) == (p - 1) * PartBlocks
Dirtied(b) == buf[b].s = "dirty"

-------------------------------------------------------------------------------
(* The invariants *)

(* Sequences stay within the file and within their part. *)
Lengths ==
    /\ store # NoObject => Len(store) <= NB
    /\ \A p \in Parts : parts[p] # NoPart => Len(parts[p]) <= PartBlocks
    /\ \A p \in Parts : pjob[p].pc \in {"add", "added"} => Len(pjob[p].body) = pjob[p].size
    /\ job.pc \in {"put", "putDone"} => Len(job.body) = job.size
(* What is flushed is part of the file. *)
BusyInFile == \A p \in PartsBusy : Off(p) < Size
UncleanInFile == \A b \in Blocks : Unclean(b) => b <= Size
(* Only data that was dirty when it was captured is marked by the flush. *)
FlyIsDirty == \A b \in Blocks : buf[b].fly => Dirtied(b)
TypeInv == StateTypeOK /\ Lengths /\ BusyInFile /\ UncleanInFile /\ FlyIsDirty

(* A flush of the whole file runs alone. *)
JobAlone == job.pc # "none" => PartsBusy = {}
CachedIsClean == cacheState = "cached" => \A b \in Blocks : ~Unclean(b)
(* An upload that is begun after the changes were dropped is empty. *)
CachedIsEmpty ==
    (cacheState = "cached" /\ mpu)
        => /\ PartsBusy = {} /\ \A p \in Parts : parts[p] = NoPart
           /\ job.pc \notin {"complete", "copy", "commit", "committed"}
NoUploadYet == job.pc \in {"small", "smallLoad", "put", "putDone", "begin"} => ~mpu
TodoIsOpen == job.pc \in {"copy", "commit"} => \A p \in job.todo : parts[p] = NoPart
TruncateWaits == truncates = 0 => trunc = NoSize
ShapeInv ==
    /\ JobAlone /\ CachedIsClean /\ CachedIsEmpty /\ NoUploadYet /\ TodoIsOpen
    /\ TruncateWaits

(* What a part that is being uploaded contains of the buffers: all that was flushed before,
   and what it will mark as flushed. *)
PartMatches(p, b) == /\ b - Off(p) <= pjob[p].size
                     /\ pjob[p].body[b - Off(p)] = buf[b].v
LoadCoversFlushed ==
    \A p \in Parts : pjob[p].pc = "load" =>
        \A b \in PartRange(p) : buf[b].s = "flushed" => b - Off(p) <= pjob[p].size
FlushedIsSent ==
    \A p \in Parts : pjob[p].pc \in {"add", "added"} =>
        \A b \in PartRange(p) : buf[b].s = "flushed" => PartMatches(p, b)
FlyIsSent ==
    \A p \in Parts : pjob[p].pc \in {"add", "added"} =>
        \A b \in Front(p, pjob[p].size) : buf[b].fly => PartMatches(p, b)
(* Its upload is the current one. *)
UploadIsCurrent ==
    \A p \in Parts : \A b \in Front(p, pjob[p].size) : buf[b].fly =>
        /\ pjob[p].pc = "add" => mpu \/ gone
        /\ pjob[p].pc = "added" => mpu /\ ~gone
Sent == FlushedIsUploaded /\ LoadCoversFlushed /\ FlushedIsSent /\ FlyIsSent /\ UploadIsCurrent
SentInv == vanished = 0 => Sent

(* What is dirty or flushed is the newest write, whatever happens. *)
Newest == \A b \in Blocks : Unclean(b) => buf[b].v = file[b]

(* The histories the content of the object is about: nothing is truncated and no upload vanishes;
   and no body that was loaded had been made old by an answer, and nobody else changes the object. *)
Steady == truncates = 0 /\ vanished = 0
Tame == Steady /\ ~late /\ remote = 0
(* Bytes s of the file from part p on have the newest write of block b. *)
Holds(s, p, b) == b - Off(p) \in 1..Len(s) /\ s[b - Off(p)] = file[b]

StoreWithin == store # NoObject => Len(store) <= Size
BlocksHold ==
    \A b \in 1..Size :
        IF Unclean(b) THEN buf[b].v = file[b]
        ELSE lost \/ remote > 0 \/ (Stored(b) /\ (buf[b].s = "clean" => buf[b].v = file[b]))
(* What a GET brings that no answer has made old is the file, but for what was written since. *)
GetsHold ==
    \A b \in Blocks : get[b].pc # "none" /\ ~get[b].old =>
        b <= Size /\ (get[b].pc = "body" /\ ~Unclean(b) => get[b].v = file[b])
(* What a flush loads or sends is all of the file but what was written since. *)
LoadCovers ==
    /\ job.pc = "smallLoad" => job.size <= Size /\ \A b \in job.size+1..Size : Dirtied(b)
    /\ \A p \in Parts : pjob[p].pc = "load" =>
          pjob[p].size > 0 /\ Off(p) + pjob[p].size <= Size /\
          \A b \in PartRange(p) : b > Off(p) + pjob[p].size /\ b <= Size => Dirtied(b)
PutHolds ==
    job.pc \in {"put", "putDone"} =>
        /\ job.size <= Size
        /\ \A b \in 1..Size : ~Dirtied(b) \/ (buf[b].fly /\ b <= job.size)
                                => Holds(job.body, 1, b)
        /\ job.pc = "putDone" => store = job.body
PartHolds ==
    \A p \in Parts : pjob[p].pc \in {"add", "added"} =>
        /\ pjob[p].size > 0 /\ Off(p) + pjob[p].size <= Size
        /\ \A b \in PartRange(p) :
              b <= Size /\ (~Dirtied(b) \/ (buf[b].fly /\ b <= Off(p) + pjob[p].size))
                => Holds(pjob[p].body, p, b)
PartsHold ==
    mpu => \A p \in Parts : parts[p] # NoPart =>
        /\ Len(parts[p]) > 0 /\ Off(p) + Len(parts[p]) <= Size
        /\ \A b \in PartRange(p) : b <= Size /\ ~Dirtied(b) => Holds(parts[p], p, b)
(* The file was job.want when the completion was decided. *)
Completing == job.pc \in {"complete", "copy", "commit", "committed"}
WantIsFile ==
    Completing =>
        /\ mpu /\ Len(job.want) <= Size
        /\ \A b \in 1..Size : ~Dirtied(b) => Holds(job.want, 1, b)
        /\ store # NoObject => Len(store) <= Len(job.want)
        /\ job.pc # "complete" => Len(job.want) <= job.size /\ job.size <= Size
        /\ job.pc = "committed" => store = job.want
(* The parts of the upload are those of job.want; the others are in the object. *)
WantIsParts ==
    Completing /\ job.pc # "committed" => \A p \in Parts :
        /\ parts[p] # NoPart =>
              Off(p) < Len(job.want) /\
              parts[p] = SubSeq(job.want, Off(p) + 1, IF Len(job.want) < p * PartBlocks
                                                      THEN Len(job.want) ELSE p * PartBlocks)
        /\ parts[p] = NoPart => \A b \in PartRange(p) : b <= Len(job.want) =>
              store # NoObject /\ b <= Len(store) /\ store[b] = job.want[b]
TodoIsAll ==
    /\ job.pc = "copy" => \A p \in 1..NumParts(job.size) : parts[p] = NoPart => p \in job.todo
    /\ job.pc = "commit" => \A p \in 1..NumParts(job.size) : parts[p] # NoPart
    /\ job.pc \in {"copy", "commit"} => job.todo \subseteq 1..NumParts(job.size)
NeverStored == store = NoObject => cacheState = "created"
Told ==
    /\ BlocksHold /\ StoreWithin /\ GetsHold /\ LoadCovers /\ PutHolds /\ PartHolds /\ PartsHold
    /\ WantIsFile /\ WantIsParts /\ TodoIsAll /\ NeverStored
ToldInv == Tame /\ ~lost => Told
FlushInv == TypeInv /\ ShapeInv /\ SentInv /\ Newest /\ ToldInv

-------------------------------------------------------------------------------
(* Facts about parts *)

\* What the arguments use of the division of the file into parts.
PartsDivide ==
    /\ PartBlocks \in Nat \ {0} /\ NB \in Nat
    /\ \A p \in Parts : /\ Off(p) \in Nat /\ p * PartBlocks = Off(p) + PartBlocks
                        /\ Off(p) + PartBlocks <= NB
                        /\ PartRange(p) = Off(p) + 1 .. Off(p) + PartBlocks
                        /\ PartRange(p) \subseteq Blocks
    /\ \A b \in Blocks : partNum(b - 1) \in Parts /\ b \in PartRange(partNum(b - 1))
    /\ \A p \in Parts : \A b \in PartRange(p) : partNum(b - 1) = p

(* Every block is in one part, and the parts lie one behind the other. *)
LEMMA PartFacts == PartsDivide
<1>1. PartBlocks \in Nat \ {0} /\ NP \in Nat \ {0} /\ NB \in Nat
  BY Constants DEF NB
<1>2. ASSUME NEW p \in Parts
      PROVE  /\ Off(p) \in Nat /\ p * PartBlocks = Off(p) + PartBlocks
             /\ Off(p) + PartBlocks <= NB
             /\ PartRange(p) = Off(p) + 1 .. Off(p) + PartBlocks
             /\ PartRange(p) \subseteq Blocks
  <2>1. Off(p) \in Nat /\ p * PartBlocks = Off(p) + PartBlocks
    BY <1>1 DEF Off, Parts
  <2>2. p * PartBlocks <= NB
    BY <1>1 DEF Parts, NB
  <2> QED
    BY <1>1, <2>1, <2>2 DEF PartRange, Off, Blocks
<1>3. ASSUME NEW b \in Blocks
      PROVE  partNum(b - 1) \in Parts /\ b \in PartRange(partNum(b - 1))
  BY <1>1 DEF partNum, PartRange, Parts, Blocks, NB
<1>4. ASSUME NEW p \in Parts, NEW b \in PartRange(p) PROVE partNum(b - 1) = p
  BY <1>1 DEF partNum, PartRange, Parts
<1> QED
  BY <1>1, <1>2, <1>3, <1>4 DEF PartsDivide

(* A block is in one part. *)
LEMMA OnePart ==
    ASSUME NEW p \in Parts, NEW q \in Parts, NEW b \in PartRange(p), b \in PartRange(q)
    PROVE  p = q
  BY PartFacts DEF PartsDivide

(* The part a write ends in may be the one behind the file. *)
LEMMA LastPart == ASSUME NEW b \in Blocks PROVE partNum(b) \in 1..NP+1
<1>1. PartBlocks \in Nat \ {0} /\ NP \in Nat \ {0} /\ b \in 1..NP * PartBlocks
  BY Constants DEF Blocks, NB
<1> QED
  BY <1>1 DEF partNum

(* A file of n blocks has the parts that begin before its end. *)
LEMMA NumPartsFacts ==
    ASSUME NEW n \in 0..NB
    PROVE  /\ NumParts(n) \in 0..NP
           /\ \A p \in Parts : p <= NumParts(n) <=> Off(p) < n
<1>1. PartBlocks \in Nat \ {0} /\ NP \in Nat \ {0} /\ n \in Nat /\ n <= NP * PartBlocks
  BY Constants DEF NB
<1>2. NumParts(n) \in 0..NP
  BY <1>1 DEF NumParts
<1>3. ASSUME NEW p \in Parts PROVE p <= NumParts(n) <=> Off(p) < n
  BY <1>1 DEF NumParts, Off, Parts
<1> QED
  BY <1>2, <1>3

-------------------------------------------------------------------------------
(* What MultipartBlobCommit puts together *)

(* Induction: a set that has 0 and with every number the next one has all of them. *)
LEMMA SetInduction ==
    ASSUME NEW S, 0 \in S, \A n \in Nat : n \in S => n + 1 \in S
    PROVE  \A n \in Nat : n \in S
<1> DEFINE T == {n \in Nat : n \notin S}
           R == OpToRel(<, Nat)
<1> SUFFICES ASSUME T # {} PROVE FALSE
  OBVIOUS
<1>1. \A m, n \in Nat : <<m, n>> \in R <=> m < n
  BY DEF OpToRel
<1>2. IsWellFoundedOn(R, Nat)
  BY NatLessThanWellFounded
<1> HIDE DEF R
<1>3. PICK n \in T : \A m \in T : <<m, n>> \notin R
  BY <1>2, WFMin
<1>4. n \in Nat /\ n # 0
  OBVIOUS
<1>5. n - 1 \in Nat /\ n - 1 < n
  BY <1>4
<1>6. n - 1 \notin T
  BY <1>1, <1>3, <1>4, <1>5
<1>7. n \in S
  BY <1>4, <1>5, <1>6
<1> QED
  BY <1>7

\* The function that Joined defines, written out.
Piece(i) == IF parts[i] = NoPart THEN <<>> ELSE parts[i]
Joins(f, n) == f = [i \in 0..n |-> IF i = 0 THEN <<>> ELSE f[i - 1] \o Piece(i)]

(* One more part. *)
LEMMA JoinsStep ==
    ASSUME NEW n \in Nat, NEW f, Joins(f, n), NEW i \in Nat, i + 1 <= n
    PROVE  f[i + 1] = f[i] \o Piece(i + 1)
<1>1. \A j \in 0..n : f[j] = IF j = 0 THEN <<>> ELSE f[j - 1] \o Piece(j)
  BY DEF Joins
<1>2. i + 1 \in 0..n /\ i + 1 # 0 /\ (i + 1) - 1 = i
  OBVIOUS
<1> QED
  BY <1>1, <1>2

(* It exists for every number of parts. *)
LEMMA JoinsExists == \A n \in Nat : \E f : Joins(f, n)
<1> DEFINE S == {n \in Nat : \E f : Joins(f, n)}
<1>1. 0 \in S
  <2> DEFINE f == [i \in 0..0 |-> <<>>]
  <2>1. f = [i \in 0..0 |-> IF i = 0 THEN <<>> ELSE f[i - 1] \o Piece(i)]
    OBVIOUS
  <2> QED
    BY <2>1 DEF Joins
<1>2. ASSUME NEW n \in Nat, n \in S PROVE n + 1 \in S
  <2>1. PICK f : Joins(f, n)
    BY <1>2
  <2> DEFINE g == [i \in 0..n+1 |-> IF i = n + 1 THEN f[n] \o Piece(n + 1) ELSE f[i]]
  <2>2. g = [i \in 0..n+1 |-> IF i = 0 THEN <<>> ELSE g[i - 1] \o Piece(i)]
    <3>1. \A i \in 0..n : f[i] = IF i = 0 THEN <<>> ELSE f[i - 1] \o Piece(i)
      BY <2>1 DEF Joins
    <3>2. \A i \in 0..n+1 : g[i] = IF i = 0 THEN <<>> ELSE g[i - 1] \o Piece(i)
      BY <3>1
    <3> QED
      BY <3>2
  <2> HIDE DEF g
  <2>3. Joins(g, n + 1)
    BY <2>2 DEF Joins
  <2> QED
    BY <2>3
<1> HIDE DEF S
<1>3. \A n \in Nat : n \in S
  BY <1>1, <1>2, SetInduction
<1> QED
  BY <1>3 DEF S

(* Joined is its value. *)
LEMMA JoinedIsJoins ==
    ASSUME NEW n \in Nat
    PROVE  \E f : Joins(f, n) /\ Joined(n) = f[n]
<1> DEFINE h == CHOOSE f : Joins(f, n)
<1>1. Joins(h, n)
  BY JoinsExists
<1>2. Joined(n) = h[n]
  BY DEF Joined, Joins, Piece
<1> QED
  BY <1>1, <1>2

(* What is put together is no longer than its parts may be. *)
LEMMA JoinedType ==
    ASSUME NEW n \in 0..NP, parts \in [Parts -> Contents \cup {NoPart}],
           \A p \in Parts : parts[p] # NoPart => Len(parts[p]) <= PartBlocks
    PROVE  Joined(n) \in Contents /\ Len(Joined(n)) <= NB
<1>1. n \in Nat /\ NP \in Nat /\ PartBlocks \in Nat
  BY Constants
<1>2. PICK f : Joins(f, n) /\ Joined(n) = f[n]
  BY <1>1, JoinedIsJoins
<1> DEFINE S == {i \in Nat : i <= n => f[i] \in Contents /\ Len(f[i]) <= i * PartBlocks}
<1>3. 0 \in S
  BY <1>1, <1>2 DEF Joins, Contents
<1>4. ASSUME NEW i \in Nat, i \in S PROVE i + 1 \in S
  <2>1. SUFFICES ASSUME i + 1 <= n PROVE f[i + 1] \in Contents /\ Len(f[i + 1]) <= (i + 1) * PartBlocks
    OBVIOUS
  <2>2. f[i] \in Contents /\ Len(f[i]) <= i * PartBlocks
    BY <1>1, <1>4, <2>1
  <2>3. i + 1 \in Parts /\ i + 1 \in 0..n
    BY <1>1, <2>1 DEF Parts
  <2>4. Piece(i + 1) \in Contents /\ Len(Piece(i + 1)) <= PartBlocks
    BY <1>1, <2>3 DEF Piece, Contents
  <2>5. f[i + 1] = f[i] \o Piece(i + 1)
    BY <1>1, <1>2, <2>1, JoinsStep
  <2>6. f[i + 1] \in Contents /\ Len(f[i + 1]) = Len(f[i]) + Len(Piece(i + 1))
    BY <2>2, <2>4, <2>5 DEF Contents
  <2> DEFINE k == i * PartBlocks
             l == (i + 1) * PartBlocks
             x == Len(f[i])
             y == Len(Piece(i + 1))
  <2>7. x \in Nat /\ y \in Nat /\ x <= k /\ y <= PartBlocks /\ Len(f[i + 1]) = x + y
    BY <2>2, <2>4, <2>6 DEF Contents
  <2>8. k \in Nat /\ l \in Nat /\ k + PartBlocks = l
    BY <1>1
  <2> HIDE DEF k, l, x, y
  <2>9. Len(f[i + 1]) <= l
    BY <1>1, <2>7, <2>8
  <2> QED
    BY <2>6, <2>9 DEF l
<1> HIDE DEF S
<1>5. n \in S
  BY <1>1, <1>3, <1>4, SetInduction
<1>6. f[n] \in Contents /\ Len(f[n]) <= n * PartBlocks
  BY <1>1, <1>5 DEF S
<1>7. n * PartBlocks <= NB
  BY <1>1 DEF NB
<1>8. Len(f[n]) \in Nat /\ n * PartBlocks \in Nat /\ NB \in Nat
  BY <1>1, <1>6 DEF Contents, NB
<1> QED
  BY <1>2, <1>6, <1>7, <1>8

(* Parts cut out of one sequence give it back. *)
LEMMA JoinedIsWhole ==
    ASSUME NEW n \in 1..NP, NEW w \in Contents, Off(n) < Len(w), Len(w) <= Off(n) + PartBlocks,
           \A p \in 1..n : parts[p] # NoPart /\
               parts[p] = SubSeq(w, Off(p) + 1, IF Len(w) < p * PartBlocks THEN Len(w)
                                                ELSE p * PartBlocks)
    PROVE  Joined(n) = w
<1>1. n \in Nat /\ NP \in Nat /\ PartBlocks \in Nat \ {0} /\ Len(w) \in Nat
  BY Constants DEF Contents
<1>2. PICK f : Joins(f, n) /\ Joined(n) = f[n]
  BY <1>1, JoinedIsJoins
<1> DEFINE End(i) == IF Len(w) < i * PartBlocks THEN Len(w) ELSE i * PartBlocks
           S == {i \in Nat : i <= n => f[i] = SubSeq(w, 1, End(i))}
<1>3. 0 \in S
  <2>1. f[0] = <<>>
    BY <1>1, <1>2 DEF Joins
  <2>2. End(0) = 0
    BY <1>1
  <2>3. SubSeq(w, 1, 0) = <<>>
    BY DEF Contents
  <2> QED
    BY <2>1, <2>2, <2>3
<1>4. ASSUME NEW i \in Nat, i \in S PROVE i + 1 \in S
  <2>1. SUFFICES ASSUME i + 1 <= n PROVE f[i + 1] = SubSeq(w, 1, End(i + 1))
    OBVIOUS
  <2>2. i + 1 \in 1..n /\ i + 1 \in Parts /\ Off(i + 1) = i * PartBlocks /\ i * PartBlocks \in Nat
    BY <1>1, <2>1 DEF Parts, Off
  <2>3. i * PartBlocks < Len(w) /\ (i + 1) * PartBlocks = i * PartBlocks + PartBlocks
    <3>1. Off(n) = (n - 1) * PartBlocks /\ i <= n - 1
      BY <1>1, <2>1 DEF Off
    <3>2. i * PartBlocks <= (n - 1) * PartBlocks
      BY <1>1, <3>1
    <3> QED
      BY <1>1, <2>2, <3>1, <3>2
  <2> DEFINE e == End(i + 1)
             x == i * PartBlocks
  <2>4. x \in Nat /\ e \in Nat /\ x < e /\ e <= Len(w) /\ End(i) = x
    BY <1>1, <2>2, <2>3
  <2>5. f[i] = SubSeq(w, 1, x) /\ Piece(i + 1) = SubSeq(w, x + 1, e)
    <3>1. i <= n /\ f[i] = SubSeq(w, 1, End(i))
      BY <1>1, <1>4, <2>1
    <3>2. parts[i + 1] # NoPart /\ parts[i + 1] = SubSeq(w, x + 1, e)
      BY <2>2
    <3> QED
      BY <2>4, <3>1, <3>2 DEF Piece
  <2>6. f[i + 1] = f[i] \o Piece(i + 1)
    BY <1>1, <1>2, <2>1, JoinsStep
  <2> HIDE DEF e, x, End, S
  <2>7. SubSeq(w, 1, x) \o SubSeq(w, x + 1, e) = SubSeq(w, 1, e)
    BY <1>1, <2>4 DEF Contents
  <2> QED
    BY <2>5, <2>6, <2>7 DEF e
<1> HIDE DEF S
<1>5. n \in S
  BY <1>1, <1>3, <1>4, SetInduction
<1>6. End(n) = Len(w)
  BY <1>1, PartFacts DEF PartsDivide, Parts
<1>7. Joined(n) = SubSeq(w, 1, Len(w))
  BY <1>1, <1>2, <1>5, <1>6 DEF S
<1>8. SubSeq(w, 1, Len(w)) = w
  BY <1>1 DEF Contents
<1> QED
  BY <1>7, <1>8

-------------------------------------------------------------------------------
(* Types *)

(* The bounds are numbers. *)
LEMMA BoundTypes ==
    /\ MaxWrites \in Nat /\ MaxTruncates \in Nat /\ MaxReads \in Nat
    /\ MaxFaults \in Nat /\ MaxGone \in Nat /\ MaxRemote \in Nat
  BY Constants

(* The records the actions write. *)
LEMMA RecordTypes ==
    /\ Hole \in Buffers /\ Loading \in Buffers
    /\ \A v \in Stamps : Dirty(v) \in Buffers /\ Clean(v) \in Buffers
    /\ Idle \in Jobs /\ NoFlush \in PartJobs /\ NoGet \in Gets
    /\ 0 \in Stamps /\ <<>> \in Contents
<1>1. 0 \in Stamps /\ <<>> \in Contents /\ 0 \in 0..NB /\ 0 \in 0..PartBlocks
  BY Constants, PartFacts DEF Stamps, Contents, PartsDivide
<1>2. Hole \in Buffers /\ Loading \in Buffers
  BY <1>1 DEF Hole, Loading, Buffers
<1>3. \A v \in Stamps : Dirty(v) \in Buffers /\ Clean(v) \in Buffers
  BY DEF Dirty, Clean, Buffers
<1>4. Idle \in Jobs
  BY <1>1 DEF Idle, Jobs
<1>5. NoFlush \in PartJobs
  BY <1>1 DEF NoFlush, PartJobs
<1>6. NoGet \in Gets
  BY <1>1 DEF NoGet, Gets
<1> QED
  BY <1>1, <1>2, <1>3, <1>4, <1>5, <1>6

(* An answer that makes GETs old leaves them as they are otherwise. *)
LEMMA OvertakeFacts ==
    ASSUME get \in [Blocks -> Gets], NEW S, Overtake(S)
    PROVE  /\ get' \in [Blocks -> Gets]
           /\ \A b \in Blocks : /\ get'[b].pc = get[b].pc /\ get'[b].v = get[b].v
                                /\ get[b].old => get'[b].old
                                /\ b \in S /\ get[b].pc # "none" => get'[b].old
<1>1. \A b \in Blocks : get'[b] = IF b \in S /\ get[b].pc # "none"
                                   THEN [get[b] EXCEPT !.old = TRUE] ELSE get[b]
  BY DEF Overtake
<1>2. ASSUME NEW b \in Blocks
      PROVE  /\ get'[b] \in Gets /\ get'[b].pc = get[b].pc /\ get'[b].v = get[b].v
             /\ get[b].old => get'[b].old
             /\ b \in S /\ get[b].pc # "none" => get'[b].old
  <2>1. get[b] \in Gets
    OBVIOUS
  <2>2. CASE b \in S /\ get[b].pc # "none"
    BY <1>1, <2>1, <2>2 DEF Gets
  <2>3. CASE ~(b \in S /\ get[b].pc # "none")
    BY <1>1, <2>1, <2>3
  <2> QED
    BY <2>2, <2>3
<1>3. get' = [b \in Blocks |-> get'[b]]
  BY DEF Overtake
<1> QED
  BY <1>2, <1>3

(* The empty file, or the object that was looked up. *)
LEMMA TypeInit == Init => TypeInv
<1> SUFFICES ASSUME Init PROVE TypeInv
  OBVIOUS
<1>1. InitialBlocks \in 0..NB /\ NB \in Nat /\ NP \in Nat \ {0} /\ MaxWrites \in Nat
  BY Constants DEF NB
<1>2. file \in Contents /\ Len(file) = InitialBlocks /\ store \in {file, NoObject}
  <2>1. file = [i \in 1..InitialBlocks |-> -1] /\ -1 \in Stamps
    BY <1>1 DEF Init, Stamps
  <2> QED
    BY <1>1, <2>1 DEF Init, Contents
<1>3. FileTypeOK
  BY <1>1, <1>2 DEF Init, FileTypeOK
<1>4. BuffersTypeOK
  BY RecordTypes DEF Init, BuffersTypeOK
<1>5. known \in [etag : Contents \cup {NoObject}, size : 0..NB]
  BY <1>1, <1>2 DEF Init
<1>6. UploadTypeOK
  BY <1>2, <1>5, RecordTypes DEF Init, UploadTypeOK
<1>7. CountersTypeOK
  BY Constants DEF Init, CountersTypeOK
<1>8. /\ store # NoObject => Len(store) <= NB
      /\ \A p \in Parts : parts[p] = NoPart /\ pjob[p].pc = "none"
      /\ job.pc = "none" /\ \A b \in Blocks : buf[b].s = "none" /\ ~buf[b].fly
  BY <1>1, <1>2 DEF Init, Hole, Idle, NoFlush
<1>9. Lengths /\ BusyInFile /\ UncleanInFile /\ FlyIsDirty
  BY <1>8 DEF Lengths, BusyInFile, UncleanInFile, FlyIsDirty, PartsBusy, Unclean
<1> QED
  BY <1>3, <1>4, <1>6, <1>7, <1>9 DEF TypeInv, StateTypeOK

(* Numbers and sets of the current state. *)
LEMMA TypeFacts ==
    ASSUME StateTypeOK
    PROVE  /\ file \in Contents /\ Size \in 0..NB /\ NB \in Nat /\ MaxWrites \in Nat
           /\ \A b \in Blocks : buf[b] \in Buffers /\ get[b] \in Gets
           /\ \A p \in Parts : pjob[p] \in PartJobs
           /\ job \in Jobs
           /\ IsFiniteSet(PartsBusy)
<1>1. IsFiniteSet(PartsBusy)
  <2>1. IsFiniteSet(Parts)
    <3>1. 1 \in Int /\ NP \in Int
      BY Constants
    <3> QED
      BY <3>1, FS_Interval DEF Parts
  <2> QED
    BY <2>1, FS_Subset DEF PartsBusy
<1> QED
  BY <1>1, PartFacts, Constants DEF StateTypeOK, FileTypeOK, BuffersTypeOK, UploadTypeOK, Size, Contents,
     PartsDivide

(* Nothing is being flushed when IsFlushing is 0, and no part while there is room for none. *)
LEMMA FlushCounts ==
    ASSUME StateTypeOK
    PROVE  /\ IsFlushing = 0 => job.pc = "none" /\ PartsBusy = {}
           /\ IsFlushing < MaxParallelParts => job.pc = "none"
<1>1. Cardinality(PartsBusy) \in Nat /\ (Cardinality(PartsBusy) = 0 => PartsBusy = {})
  BY TypeFacts, FS_CardinalityType, FS_EmptySet
<1>2. MaxParallelParts \in Nat \ {0}
  BY Constants
<1> QED
  BY <1>1, <1>2 DEF IsFlushing

(* Sequences that are only shorter or longer stay in the file. *)
LEMMA LongerType ==
    ASSUME StateTypeOK, NEW n \in 0..NB
    PROVE  /\ Longer(n) \in Contents
           /\ Len(Longer(n)) = IF n > Size THEN n ELSE Size
           /\ \A i \in 1..Size : Longer(n)[i] = file[i]
           /\ \A i \in Size+1..n : Longer(n)[i] = 0
<1>1. 0 \in Stamps /\ Size \in Nat /\ n \in Nat /\ file \in Seq(Stamps) /\ Len(file) = Size
  BY TypeFacts DEF Stamps, Size, Contents
<1> DEFINE k == IF n > Size THEN n ELSE Size
<1>2. k \in Nat /\ Size <= k /\ n <= k
  BY <1>1
<1>3. Longer(n) = [i \in 1..k |-> IF i <= Size THEN file[i] ELSE 0]
  BY DEF Longer
<1> HIDE DEF k
<1>4. \A i \in 1..k : (IF i <= Size THEN file[i] ELSE 0) \in Stamps
  BY <1>1, <1>2
<1>5. Longer(n) \in Seq(Stamps) /\ Len(Longer(n)) = k
  BY <1>2, <1>3, <1>4
<1> QED
  BY <1>1, <1>2, <1>3, <1>5 DEF k, Contents


(* The helpers of flushes keep the bytes of every buffer: SetState changes what was captured
   and not written since, *)
LEMMA SetStateFacts ==
    ASSUME NEW bs \in [Blocks -> Buffers], NEW S, NEW state \in {"clean", "flushed"}
    PROVE  /\ SetState(bs, S, state) \in [Blocks -> Buffers]
           /\ \A b \in Blocks :
                /\ SetState(bs, S, state)[b].v = bs[b].v
                /\ SetState(bs, S, state)[b].s = IF b \in S /\ bs[b].fly THEN state ELSE bs[b].s
                /\ SetState(bs, S, state)[b].fly <=> bs[b].fly /\ b \notin S
  BY DEF SetState, Buffers

(* Forget leaves it as it is, *)
LEMMA ForgetFacts ==
    ASSUME NEW bs \in [Blocks -> Buffers], NEW S
    PROVE  /\ Forget(bs, S) \in [Blocks -> Buffers]
           /\ \A b \in Blocks :
                /\ Forget(bs, S)[b].v = bs[b].v /\ Forget(bs, S)[b].s = bs[b].s
                /\ Forget(bs, S)[b].fly <=> bs[b].fly /\ b \notin S
  BY DEF Forget, Buffers

(* and Capture marks what is dirty. *)
LEMMA CaptureFacts ==
    ASSUME NEW bs \in [Blocks -> Buffers], NEW S
    PROVE  /\ Capture(bs, S) \in [Blocks -> Buffers]
           /\ \A b \in Blocks :
                /\ Capture(bs, S)[b].v = bs[b].v /\ Capture(bs, S)[b].s = bs[b].s
                /\ Capture(bs, S)[b].fly <=> IF b \in S THEN bs[b].s = "dirty" ELSE bs[b].fly
  BY DEF Capture, Buffers

(* Placeholders and requests for the holes. *)
LEMMA LoadRangeType ==
    ASSUME StateTypeOK, NEW S, LoadRange(S)
    PROVE  /\ buf' \in [Blocks -> Buffers] /\ get' \in [Blocks -> Gets]
           /\ \A b \in Blocks :
                \/ buf'[b] = buf[b] /\ get'[b] = get[b]
                \/ /\ b \in S /\ buf[b].s = "none" /\ buf'[b] = Loading
                   /\ get'[b].pc = "sent"
<1>1. known.etag \in Contents \cup {NoObject}
  BY DEF StateTypeOK, UploadTypeOK
<1>2. [pc |-> "sent", etag |-> known.etag, v |-> 0, old |-> FALSE] \in Gets
  BY <1>1, RecordTypes DEF Gets
<1>3. buf' \in [Blocks -> Buffers] /\ get' \in [Blocks -> Gets]
  BY <1>2, RecordTypes DEF LoadRange, StateTypeOK, BuffersTypeOK
<1> QED
  BY <1>3 DEF LoadRange

(* What is left after a conflict. *)
LEMMA ResetCacheType ==
    ASSUME StateTypeOK, ResetCache
    PROVE  /\ buf' \in [Blocks -> Buffers] /\ mpu' = FALSE /\ gone' \in BOOLEAN /\ lost' = TRUE
           /\ cacheState' = "cached" /\ UNCHANGED <<parts, known>>
           /\ \A b \in Blocks : buf'[b] = Hole
  BY RecordTypes DEF ResetCache, StateTypeOK, UploadTypeOK

(* What is left after the upload vanished. *)
LEMMA ResetMultipartType ==
    ASSUME StateTypeOK, NEW bs \in [Blocks -> Buffers], ResetMultipart(bs)
    PROVE  /\ buf' \in [Blocks -> Buffers] /\ mpu' = FALSE
           /\ cacheState' \in {"created", "modified"} /\ forceFlush' = TRUE /\ flushError' = FALSE
           /\ \A b \in Blocks : buf'[b] = IF bs[b].s = "flushed" THEN Dirty(bs[b].v) ELSE bs[b]
<1>1. \A b \in Blocks : bs[b].v \in Stamps
  BY DEF Buffers
<1>2. cacheState' \in {"created", "modified"}
  BY DEF ResetMultipart, StateTypeOK, BuffersTypeOK
<1> QED
  BY <1>1, <1>2, RecordTypes DEF ResetMultipart

(* Where the flushes are concerned a file of another length is the same. *)
LEMMA BusyStays ==
    ASSUME TypeInv, PartsBusy' = PartsBusy, Len(file') >= Len(file)
    PROVE  BusyInFile'
  BY TypeFacts, PartFacts DEF TypeInv, BusyInFile, Size, PartsDivide, Off, PartsBusy

(* Steps of the application keep the types. *)
LEMMA TypeWrite ==
    ASSUME TypeInv, NEW b \in Blocks, WriteFile(b)
    PROVE  TypeInv'
<1> USE DEF TypeInv
<1>1. b \in 1..NB /\ NB \in Nat /\ writes + 1 \in Stamps /\ writes + 1 \in 0..MaxWrites
  BY TypeFacts DEF WriteFile, StateTypeOK, CountersTypeOK, Stamps, Blocks
<1>2. /\ file' = [Longer(b) EXCEPT ![b] = writes + 1]
      /\ UNCHANGED <<mpu, parts, known, leaked, lost, job, pjob, get, readError, flushError,
                   forceFlush, open, trunc, reader, truncates, reads, store, gone, faults, vanished, remote>>
      /\ lastPart' = partNum(b) /\ writes' = writes + 1 /\ cacheState' = Modified
  BY DEF WriteFile, env
<1>3. file' \in Contents /\ Len(file') = IF b > Size THEN b ELSE Size
  BY <1>1, <1>2, LongerType DEF Contents
<1>4. lastPart' \in 1..NP+1
  BY <1>2, LastPart
<1>5. buf' \in [Blocks -> Buffers]
  <2>1. \A i \in Blocks : buf[i] \in Buffers /\ buf[i].v \in Stamps
    BY TypeFacts DEF Buffers
  <2> QED
    BY <1>1, <2>1, RecordTypes DEF WriteFile
<1>6. FileTypeOK'
  BY <1>1, <1>2, <1>3, <1>4, TypeFacts DEF StateTypeOK, FileTypeOK
<1>7. BuffersTypeOK' /\ UploadTypeOK' /\ CountersTypeOK'
  BY <1>1, <1>2, <1>5 DEF StateTypeOK, BuffersTypeOK, UploadTypeOK, CountersTypeOK, Modified
<1>8. Lengths'
  BY <1>2 DEF Lengths
<1>9. BusyInFile'
  BY <1>1, <1>2, <1>3, BusyStays, TypeFacts DEF PartsBusy, Size
<1>10. UncleanInFile'
  <2>1. ASSUME NEW i \in Blocks, Unclean(i)' PROVE i <= Size \/ i <= b
    <3>1. CASE i > Size /\ i > b
      <4>1. buf'[i] = buf[i] \/ buf[i].fly
        BY <3>1, <1>1, TypeFacts DEF WriteFile, Blocks
      <4> QED
        BY <2>1, <3>1, <4>1 DEF UncleanInFile, Unclean, FlyIsDirty, Dirtied
    <3> QED
      BY <3>1, <1>1, TypeFacts DEF Blocks
  <2> QED
    BY <1>1, <1>3, <2>1, TypeFacts DEF UncleanInFile, Size, Blocks
<1>11. FlyIsDirty'
  BY DEF WriteFile, FlyIsDirty, Dirtied, Dirty
<1> QED
  BY <1>6, <1>7, <1>8, <1>9, <1>10, <1>11 DEF StateTypeOK

(* A truncate that is not blocked cuts no block a flush holds. *)
LEMMA ResizeType ==
    ASSUME TypeInv, NEW n \in 0..NB, Resize(n), ~TruncateBlocked(n), UNCHANGED pjob
    PROVE  /\ file' \in Contents /\ Len(file') = n
           /\ buf' \in [Blocks -> Buffers] /\ BusyInFile' /\ UncleanInFile'
           /\ FlyIsDirty' /\ cacheState' \in {"created", "modified"}
<1> USE DEF TypeInv
<1>1. file \in Seq(Stamps) /\ Len(file) = Size /\ Size \in Nat /\ n \in Nat /\ Size <= NB /\ NB \in Nat
  BY TypeFacts DEF Contents, Size
<1>2. file' \in Contents /\ Len(file') = n
  <2>1. CASE n < Size
    BY <1>1, <2>1 DEF Resize, Contents
  <2>2. CASE ~(n < Size)
    BY <1>1, <2>2, LongerType DEF Resize
  <2> QED
    BY <2>1, <2>2
<1>3. buf' \in [Blocks -> Buffers]
  BY TypeFacts, RecordTypes DEF Resize
<1>4. ASSUME NEW p \in PartsBusy PROVE Off(p) < n
  <2>1. p \in Parts /\ Off(p) < Size /\ Off(p) \in Nat /\ Off(p) + 1 \in PartRange(p)
    BY PartFacts DEF BusyInFile, PartsDivide, PartsBusy
  <2>2. FlushLocked(Off(p) + 1)
    BY <2>1 DEF FlushLocked
  <2> QED
    BY <1>1, <2>1, <2>2 DEF TruncateBlocked
<1>5. BusyInFile'
  BY <1>2, <1>4 DEF BusyInFile, PartsBusy, Size, Off
<1>6. UncleanInFile'
  BY <1>1, <1>2 DEF Resize, UncleanInFile, Unclean, Hole, Dirty, Size, Blocks
<1>7. cacheState' \in {"created", "modified"}
  BY DEF Resize, Modified, StateTypeOK, BuffersTypeOK
<1>8. FlyIsDirty'
  BY DEF Resize, FlyIsDirty, Dirtied, Dirty, Hole
<1> QED
  BY <1>1, <1>2, <1>3, <1>5, <1>6, <1>7, <1>8

(* SetAttributes with another size. *)
LEMMA TypeTruncate ==
    ASSUME TypeInv, (\E n \in TruncateSizes : Truncate(n)) \/ TruncateEnds
    PROVE  TypeInv'
<1> USE DEF TypeInv
<1>0. UNCHANGED <<mpu, parts, known, leaked, lost, job, pjob, get, readError, flushError,
                  forceFlush, open, lastPart, reader, writes, reads, store, gone, faults,
                  vanished, remote>>
  BY DEF Truncate, TruncateEnds, env
<1>1. /\ UNCHANGED <<mpu, parts, known, leaked, lost, job, pjob, get, readError, flushError,
                   forceFlush, open, lastPart, reader, writes, reads, store, gone, faults,
                   vanished, remote>>
      /\ truncates' \in 0..MaxTruncates
      /\ trunc' \in 0..NB \cup {NoSize}
  <2>1. truncates \in 0..MaxTruncates /\ trunc \in 0..NB \cup {NoSize}
    BY DEF StateTypeOK, CountersTypeOK, FileTypeOK
  <2>2. TruncateSizes \subseteq 0..NB
    BY Constants
  <2>3. truncates' \in 0..MaxTruncates
    BY <2>1, BoundTypes DEF Truncate, TruncateEnds
  <2>4. trunc' \in 0..NB \cup {NoSize}
    BY <2>1, <2>2 DEF Truncate, TruncateEnds
  <2> QED
    BY <1>0, <2>3, <2>4
<1>2. Lengths' /\ UploadTypeOK'
  BY <1>1 DEF Lengths, StateTypeOK, UploadTypeOK
<1>3. SUFFICES /\ file' \in Contents /\ Len(file') <= NB
               /\ buf' \in [Blocks -> Buffers] /\ BusyInFile' /\ UncleanInFile' /\ FlyIsDirty'
               /\ cacheState' \in {"created", "modified", "cached"}
  BY <1>1, <1>2 DEF StateTypeOK, FileTypeOK, BuffersTypeOK, CountersTypeOK
<1>4. ASSUME NEW n \in 0..NB, Resize(n), ~TruncateBlocked(n)
      PROVE  /\ file' \in Contents /\ Len(file') <= NB
             /\ buf' \in [Blocks -> Buffers] /\ BusyInFile' /\ UncleanInFile' /\ FlyIsDirty'
             /\ cacheState' \in {"created", "modified", "cached"}
  BY <1>1, <1>4, ResizeType, TypeFacts
<1>5. ASSUME UNCHANGED <<buf, file, cacheState>>
      PROVE  /\ file' \in Contents /\ Len(file') <= NB
             /\ buf' \in [Blocks -> Buffers] /\ BusyInFile' /\ UncleanInFile' /\ FlyIsDirty'
             /\ cacheState' \in {"created", "modified", "cached"}
  BY <1>1, <1>5 DEF StateTypeOK, FileTypeOK, BuffersTypeOK, BusyInFile, UncleanInFile, FlyIsDirty,
                    PartsBusy, Unclean, Dirtied, Size
<1>6. ASSUME NEW n \in TruncateSizes, Truncate(n)
      PROVE  \/ n \in 0..NB /\ Resize(n) /\ ~TruncateBlocked(n)
             \/ UNCHANGED <<buf, file, cacheState>>
  BY <1>6, Constants DEF Truncate
<1>7. CASE TruncateEnds
  <2>1. trunc \in 0..NB /\ ~TruncateBlocked(trunc)
    BY <1>7 DEF TruncateEnds, StateTypeOK, FileTypeOK
  <2>2. CASE trunc < Size
    BY <1>4, <1>7, <2>1, <2>2 DEF TruncateEnds
  <2>3. CASE ~(trunc < Size)
    <3>1. file' = Longer(trunc) /\ cacheState' = Modified /\ buf' = buf
      BY <1>7, <2>3 DEF TruncateEnds
    <3>2. file' \in Contents /\ Len(file') <= NB /\ Len(file') >= Len(file)
      BY <2>1, <3>1, LongerType, TypeFacts DEF Size
    <3>3. BusyInFile'
      BY <1>1, <3>2, BusyStays DEF PartsBusy
    <3>4. UncleanInFile' /\ FlyIsDirty'
      BY <3>1, <3>2, TypeFacts DEF UncleanInFile, FlyIsDirty, Unclean, Dirtied, Size, Blocks, Contents
    <3>5. cacheState' \in {"created", "modified", "cached"} /\ buf' \in [Blocks -> Buffers]
      BY <3>1 DEF Modified, StateTypeOK, BuffersTypeOK
    <3> QED
      BY <3>2, <3>3, <3>4, <3>5
  <2> QED
    BY <2>2, <2>3
<1> QED
  BY <1>4, <1>5, <1>6, <1>7

(* Steps that leave the file alone and make nothing unclean. *)
LEMMA TypeQuiet ==
    ASSUME TypeInv, StateTypeOK', Lengths', file' = file, PartsBusy' \subseteq PartsBusy,
           \A b \in Blocks : /\ Unclean(b)' => Unclean(b) \/ buf[b].fly
                             /\ buf'[b].fly => buf[b].fly \/ Dirtied(b)
                             /\ buf'[b].fly => Dirtied(b)'
    PROVE  TypeInv'
<1>1. BusyInFile'
  BY DEF TypeInv, BusyInFile, Size, Off, PartsBusy
<1>2. UncleanInFile'
  BY DEF TypeInv, UncleanInFile, FlyIsDirty, Unclean, Dirtied, Size
<1>3. FlyIsDirty'
  BY DEF FlyIsDirty
<1> QED
  BY <1>1, <1>2, <1>3 DEF TypeInv

(* Reads, and the answers of their requests. *)
LEMMA TypeRead ==
    ASSUME TypeInv, \/ \E b \in Blocks : ReadFile(b) \/ GetBlob(b) \/ BodyArrives(b) \/ GetFails(b)
                                         \/ LoadingStalls(b) \/ Evict(b)
                    \/ SyncFile \/ ReadReturns \/ Release
    PROVE  TypeInv'
<1> USE DEF TypeInv
<1>1. ASSUME NEW b \in Blocks, ReadFile(b) PROVE TypeInv'
  <2>1. LoadRange({b})
    BY <1>1 DEF ReadFile
  <2>2. StateTypeOK'
    <3>1. buf' \in [Blocks -> Buffers] /\ get' \in [Blocks -> Gets]
      BY <2>1, LoadRangeType
    <3>2. FileTypeOK' /\ BuffersTypeOK'
      BY <1>1, <3>1 DEF ReadFile, StateTypeOK, FileTypeOK, BuffersTypeOK, Blocks
    <3>3. UploadTypeOK' /\ CountersTypeOK'
      BY <1>1, BoundTypes DEF ReadFile, env, StateTypeOK, UploadTypeOK, CountersTypeOK
    <3> QED
      BY <3>2, <3>3 DEF StateTypeOK
  <2>3. Lengths' /\ PartsBusy' = PartsBusy /\ file' = file
    BY <1>1 DEF ReadFile, env, Lengths, PartsBusy
  <2>4. \A i \in Blocks : buf'[i] = buf[i] \/ buf'[i] = Loading
    BY <2>1, LoadRangeType
  <2> QED
    BY <2>2, <2>3, <2>4, TypeQuiet DEF Unclean, Loading, FlyIsDirty, Dirtied
<1>2. ASSUME NEW b \in Blocks, GetBlob(b) PROVE TypeInv'
  <2>1. store[b] \in Stamps
    <3>1. store \in Seq(Stamps) /\ b <= Len(store)
      BY <1>2 DEF GetBlob, StateTypeOK, UploadTypeOK, Contents
    <3>2. b \in 1..Len(store)
      BY <3>1 DEF Blocks
    <3> QED
      BY <3>1, <3>2
  <2>2. get' \in [Blocks -> Gets]
    BY <1>2, <2>1 DEF GetBlob, StateTypeOK, BuffersTypeOK, Gets
  <2>3. StateTypeOK'
    <3>1. FileTypeOK' /\ BuffersTypeOK'
      BY <1>2, <2>2 DEF GetBlob, local, app, StateTypeOK, FileTypeOK, BuffersTypeOK
    <3>2. UploadTypeOK' /\ CountersTypeOK'
      BY <1>2 DEF GetBlob, local, app, env, StateTypeOK, UploadTypeOK, CountersTypeOK
    <3> QED
      BY <3>1, <3>2 DEF StateTypeOK
  <2>4. Lengths' /\ PartsBusy' = PartsBusy /\ file' = file /\ buf' = buf
    BY <1>2 DEF GetBlob, local, app, env, Lengths, PartsBusy
  <2> QED
    BY <2>3, <2>4, TypeQuiet DEF Unclean, FlyIsDirty, Dirtied
<1>3. ASSUME NEW b \in Blocks, BodyArrives(b) \/ GetFails(b) \/ LoadingStalls(b) \/ Evict(b)
      PROVE  TypeInv'
  <2>1. get[b].v \in Stamps
    BY DEF StateTypeOK, BuffersTypeOK, Gets
  <2>2. /\ buf' \in [Blocks -> Buffers]
        /\ \A i \in Blocks : \/ buf'[i] = buf[i]
                             \/ i = b /\ buf'[i] \in {Hole, Clean(get[b].v)}
    BY <1>3, <2>1, RecordTypes
       DEF BodyArrives, GetFails, LoadingStalls, Evict, StateTypeOK, BuffersTypeOK
  <2>3. get' \in [Blocks -> Gets]
    BY <1>3, RecordTypes DEF BodyArrives, GetFails, LoadingStalls, Evict, StateTypeOK, BuffersTypeOK
  <2>4. /\ UNCHANGED <<cacheState, mpu, parts, known, leaked, lost, app, job, pjob,
                   flushError, forceFlush, store, gone, vanished, remote>>
        /\ readError' \in {"none", "busy", "missing", "other"}
        /\ faults' \in 0..MaxFaults
    <3>1. readError \in {"none", "busy", "missing", "other"} /\ faults \in 0..MaxFaults
      BY DEF StateTypeOK, BuffersTypeOK, CountersTypeOK
    <3>2. CASE BodyArrives(b) \/ Evict(b)
      BY <3>1, <3>2 DEF BodyArrives, Evict, env
    <3>3. CASE GetFails(b) \/ LoadingStalls(b)
      BY <3>1, <3>3, BoundTypes DEF GetFails, GetError, LoadingStalls
    <3> QED
      BY <1>3, <3>2, <3>3
  <2>5. StateTypeOK'
    BY <2>2, <2>3, <2>4 DEF app, StateTypeOK, FileTypeOK, BuffersTypeOK, UploadTypeOK, CountersTypeOK
  <2>6. Lengths' /\ PartsBusy' = PartsBusy /\ file' = file
    BY <2>4 DEF app, Lengths, PartsBusy
  <2> QED
    BY <2>2, <2>5, <2>6, TypeQuiet DEF Unclean, FlyIsDirty, Dirtied, Hole, Clean
<1>4. CASE SyncFile \/ Release
  <2>1. StateTypeOK'
    BY <1>4 DEF SyncFile, Release, local, app, env, StateTypeOK, FileTypeOK, BuffersTypeOK, UploadTypeOK,
       CountersTypeOK
  <2>2. Lengths' /\ PartsBusy' = PartsBusy /\ file' = file /\ buf' = buf
    BY <1>4 DEF SyncFile, Release, local, app, env, Lengths, PartsBusy
  <2> QED
    BY <2>1, <2>2, TypeQuiet DEF Unclean, FlyIsDirty, Dirtied
<1>5. CASE ReadReturns
  <2>1. /\ buf' \in [Blocks -> Buffers] /\ cacheState' \in {"created", "modified", "cached"}
        /\ mpu' \in BOOLEAN /\ gone' \in BOOLEAN /\ lost' \in BOOLEAN /\ UNCHANGED <<parts, known>>
        /\ readError' \in {"none", "busy", "missing", "other"}
        /\ \A b \in Blocks : buf'[b] = buf[b] \/ buf'[b] = Hole
    BY <1>5, ResetCacheType DEF ReadReturns, StateTypeOK, BuffersTypeOK, UploadTypeOK
  <2>2. StateTypeOK'
    <3>1. FileTypeOK' /\ BuffersTypeOK'
      BY <1>5, <2>1, PartFacts DEF ReadReturns, StateTypeOK, FileTypeOK, BuffersTypeOK, PartsDivide
    <3>2. UploadTypeOK' /\ CountersTypeOK'
      BY <1>5, <2>1 DEF ReadReturns, StateTypeOK, UploadTypeOK, CountersTypeOK
    <3> QED
      BY <3>1, <3>2 DEF StateTypeOK
  <2>3. Lengths' /\ PartsBusy' = PartsBusy /\ file' = file
    BY <1>5, <2>1 DEF ReadReturns, Lengths, PartsBusy
  <2> QED
    BY <2>1, <2>2, <2>3, TypeQuiet DEF Unclean, FlyIsDirty, Dirtied, Hole
<1> QED
  BY <1>1, <1>2, <1>3, <1>4, <1>5

(* What a flush captures is a sequence of the blocks' bytes. *)
LEMMA BodyType ==
    ASSUME StateTypeOK, NEW from \in Nat \ {0}, NEW n \in Nat, from + n <= NB + 1
    PROVE  /\ Body(from, n) \in Contents /\ Len(Body(from, n)) = n
           /\ \A i \in 1..n : Body(from, n)[i] = buf[from + i - 1].v
<1>1. \A i \in 1..n : from + i - 1 \in Blocks
  BY PartFacts DEF Blocks, PartsDivide
<1>2. \A i \in 1..n : buf[from + i - 1].v \in Stamps
  BY <1>1, TypeFacts DEF Buffers
<1> QED
  BY <1>2 DEF Body, Contents

(* Steps of the job that change neither buffers nor parts. *)
LEMMA TypeJob ==
    ASSUME TypeInv, \/ StartSmall \/ StartMultipart \/ StartComplete \/ CompleteBegins
                    \/ CopyFails \/ CommitFails \/ CompleteAborts \/ PutBlob
    PROVE  TypeInv'
<1> USE DEF TypeInv
<1>1. file \in Contents /\ job \in Jobs /\ Size \in 0..NB
  BY TypeFacts
<1>2. /\ UNCHANGED <<buf, cacheState, mpu, parts, known, leaked, lost, file, open, lastPart, trunc,
                     reader, writes, truncates, reads, gone, vanished, remote, pjob, get, readError, forceFlush>>
      /\ faults' \in 0..MaxFaults /\ flushError' \in BOOLEAN
  <2>1. faults \in 0..MaxFaults /\ flushError \in BOOLEAN
    BY DEF StateTypeOK, CountersTypeOK, UploadTypeOK
  <2>2. UNCHANGED <<buf, cacheState, mpu, parts, known, leaked, lost, pjob, get, readError, forceFlush>>
    BY DEF StartSmall, StartMultipart, StartComplete, CompleteBegins, CopyFails, CommitFails,
       CompleteAborts, PutBlob, local
  <2>3. UNCHANGED <<file, open, lastPart, trunc, reader, writes, truncates, reads>>
    BY DEF StartSmall, StartMultipart, StartComplete, CompleteBegins, CopyFails, CommitFails,
       CompleteAborts, PutBlob, app
  <2>4. UNCHANGED <<gone, vanished, remote>>
    BY DEF StartSmall, StartMultipart, StartComplete, CompleteBegins, CopyFails, CommitFails,
       CompleteAborts, PutBlob, env
  <2>5. faults' = faults \/ (faults < MaxFaults /\ faults' = faults + 1)
    BY DEF StartSmall, StartMultipart, StartComplete, CompleteBegins, CopyFails,
       CommitFails, CompleteAborts, PutBlob, env
  <2>6. flushError' = flushError \/ flushError' = TRUE
    BY DEF StartSmall, StartMultipart, StartComplete, CompleteBegins, CopyFails,
       CommitFails, CompleteAborts, PutBlob
  <2>7. faults' \in 0..MaxFaults
    BY <2>1, <2>5, BoundTypes
  <2>8. flushError' \in BOOLEAN
    BY <2>1, <2>6
  <2> QED
    BY <2>2, <2>3, <2>4, <2>7, <2>8
<1>3. job' \in Jobs
  <2>1. CASE StartSmall \/ StartMultipart \/ StartComplete
    BY <1>1, <2>1, RecordTypes DEF StartSmall, StartMultipart, StartComplete, Jobs
  <2>2. CASE CompleteBegins
    <3>1. {p \in 1..NumParts(Size) : parts[p] = NoPart} \subseteq Parts
      BY <1>1, NumPartsFacts, Constants DEF Parts
    <3> QED
      BY <1>1, <2>2, <3>1, RecordTypes DEF CompleteBegins, Jobs
  <2>3. CASE PutBlob
    BY <1>1, <2>3 DEF PutBlob, Jobs
  <2>4. CASE CopyFails \/ CommitFails \/ CompleteAborts
    BY <2>4, RecordTypes DEF CopyFails, CommitFails, CompleteAborts
  <2> QED
    BY <2>1, <2>2, <2>3, <2>4
<1>4. store' = store \/ (job.pc = "put" /\ store' = job.body)
  BY DEF StartSmall, StartMultipart, StartComplete, CompleteBegins, CopyFails, CommitFails,
     CompleteAborts, PutBlob, env
<1>5. store' \in Contents \cup {NoObject} /\ (store' # NoObject => Len(store') <= NB)
  BY <1>1, <1>4, TypeFacts DEF StateTypeOK, UploadTypeOK, Lengths, Jobs
<1>6. job'.pc \in {"put", "putDone"} => Len(job'.body) = job'.size
  <2>1. CASE PutBlob
    BY <1>1, <2>1 DEF PutBlob, Lengths, Jobs
  <2>2. CASE ~PutBlob
    <3>1. Idle.pc = "none"
      BY DEF Idle
    <3>2. CASE CompleteBegins
      BY <1>1, <3>1, <3>2 DEF CompleteBegins, Jobs
    <3>3. CASE StartSmall \/ StartMultipart \/ StartComplete
      BY <3>3 DEF StartSmall, StartMultipart, StartComplete, Idle
    <3>4. CASE CopyFails \/ CommitFails \/ CompleteAborts
      BY <3>1, <3>4 DEF CopyFails, CommitFails, CompleteAborts
    <3> QED
      BY <2>2, <3>2, <3>3, <3>4
  <2> QED
    BY <2>1, <2>2
<1>7. StateTypeOK'
  <2>1. FileTypeOK' /\ BuffersTypeOK'
    BY <1>2 DEF StateTypeOK, FileTypeOK, BuffersTypeOK
  <2>2. UploadTypeOK' /\ CountersTypeOK'
    BY <1>2, <1>3, <1>5 DEF StateTypeOK, UploadTypeOK, CountersTypeOK
  <2> QED
    BY <2>1, <2>2 DEF StateTypeOK
<1>8. Lengths'
  BY <1>2, <1>5, <1>6 DEF Lengths
<1> QED
  BY <1>2, <1>7, <1>8, TypeQuiet DEF PartsBusy, Unclean, Dirtied, FlyIsDirty

(* The single PUT. *)
LEMMA TypeSmall ==
    ASSUME TypeInv, SmallBegins \/ SmallLoaded \/ PutReturns \/ PutFails
    PROVE  TypeInv'
<1> USE DEF TypeInv
<1>1. file \in Contents /\ job \in Jobs /\ Size \in 0..NB /\ NB \in Nat /\ buf \in [Blocks -> Buffers]
  BY TypeFacts DEF StateTypeOK, BuffersTypeOK
<1>2. /\ UNCHANGED <<parts, file, open, lastPart, trunc, reader, writes, truncates, reads,
                     vanished, remote, pjob, readError, forceFlush, store>>
      /\ faults' \in 0..MaxFaults /\ flushError' \in BOOLEAN
  <2>1. faults \in 0..MaxFaults /\ flushError \in BOOLEAN
    BY DEF StateTypeOK, CountersTypeOK, UploadTypeOK
  <2>2. UNCHANGED <<file, open, lastPart, trunc, reader, writes, truncates, reads, pjob, readError,
                    forceFlush>>
    BY DEF SmallBegins, SmallLoaded, PutReturns, PutFails, app
  <2>3. UNCHANGED <<vanished, remote, store>>
    BY DEF SmallBegins, SmallLoaded, PutReturns, PutFails, env
  <2>4. faults' \in 0..MaxFaults /\ flushError' \in BOOLEAN
    <3>1. faults' = faults \/ (faults < MaxFaults /\ faults' = faults + 1)
      BY DEF SmallBegins, SmallLoaded, PutReturns, PutFails, env
    <3>2. flushError' = flushError \/ flushError' = TRUE \/ flushError' = FALSE
      BY DEF SmallBegins, SmallLoaded, PutReturns, PutFails
    <3>3. faults' \in 0..MaxFaults
      BY <2>1, <3>1, BoundTypes
    <3>4. flushError' \in BOOLEAN
      BY <2>1, <3>2
    <3> QED
      BY <3>3, <3>4
  <2>5. UNCHANGED parts
    BY DEF SmallBegins, SmallLoaded, PutReturns, PutFails, ResetCache
  <2> QED
    BY <2>2, <2>3, <2>4, <2>5
<1> DEFINE Fine ==
      /\ buf' \in [Blocks -> Buffers] /\ get' \in [Blocks -> Gets]
      /\ job' \in Jobs /\ (job'.pc \in {"put", "putDone"} => Len(job'.body) = job'.size)
      /\ \A b \in Blocks : /\ Unclean(b)' => Unclean(b)
                           /\ buf'[b].fly => Dirtied(b) /\ Dirtied(b)'
      /\ mpu' \in BOOLEAN /\ gone' \in BOOLEAN /\ lost' \in BOOLEAN /\ leaked' \subseteq Blocks
      /\ cacheState' \in {"created", "modified", "cached"}
      /\ known' \in [etag : Contents \cup {NoObject}, size : 0..NB]
<1>3. Fine => TypeInv'
  <2> SUFFICES ASSUME Fine PROVE TypeInv'
    OBVIOUS
  <2>1. FileTypeOK' /\ BuffersTypeOK'
    BY <1>2 DEF StateTypeOK, FileTypeOK, BuffersTypeOK
  <2>2. UploadTypeOK' /\ CountersTypeOK'
    BY <1>2 DEF StateTypeOK, UploadTypeOK, CountersTypeOK
  <2>3. Lengths'
    BY <1>2 DEF Lengths
  <2> QED
    BY <1>2, <2>1, <2>2, <2>3, TypeQuiet DEF StateTypeOK, PartsBusy
<1>4. ASSUME NEW n \in 0..NB, SmallCapture(n)
      PROVE  /\ buf' \in [Blocks -> Buffers] /\ job' \in Jobs /\ job'.size = n /\ Len(job'.body) = n
             /\ \A b \in Blocks : /\ Unclean(b)' => Unclean(b)
                                  /\ buf'[b].fly => Dirtied(b) /\ Dirtied(b)'
  <2>1. Body(1, n) \in Contents /\ Len(Body(1, n)) = n
    BY <1>1, BodyType
  <2>2. job' \in Jobs /\ job'.size = n /\ job'.body = Body(1, n)
    BY <1>1, <1>4, <2>1 DEF SmallCapture, Jobs
  <2>3. buf' = Capture(buf, 1..n)
    BY <1>4 DEF SmallCapture
  <2>4. /\ buf' \in [Blocks -> Buffers]
        /\ \A b \in Blocks : /\ buf'[b].s = buf[b].s
                             /\ buf'[b].fly => buf[b].fly \/ buf[b].s = "dirty"
    BY <1>1, <2>3, CaptureFacts
  <2> QED
    BY <2>1, <2>2, <2>4 DEF Unclean, Dirtied, FlyIsDirty
<1>5. /\ mpu \in BOOLEAN /\ gone \in BOOLEAN /\ lost \in BOOLEAN /\ leaked \subseteq Blocks
      /\ cacheState \in {"created", "modified", "cached"} /\ get \in [Blocks -> Gets]
      /\ known \in [etag : Contents \cup {NoObject}, size : 0..NB]
  BY DEF StateTypeOK, BuffersTypeOK, UploadTypeOK
<1>6. Idle.pc = "none" /\ Idle \in Jobs
  BY RecordTypes DEF Idle
<1>7. CASE SmallBegins
  <2>1. UNCHANGED <<cacheState, mpu, known, leaked, lost, gone>>
    BY <1>7 DEF SmallBegins, env
  <2>2. CASE LoadRange(1..Size) /\ job' = [job EXCEPT !.pc = "smallLoad", !.size = Size]
    <3>1. job' \in Jobs /\ job'.pc = "smallLoad"
      BY <1>1, <2>2 DEF Jobs
    <3> QED
      BY <1>3, <1>5, <2>1, <2>2, <3>1, LoadRangeType DEF Unclean, Dirtied, Loading, FlyIsDirty
  <2>3. CASE job' = Idle /\ UNCHANGED buf /\ UNCHANGED get
    BY <1>1, <1>3, <1>5, <1>6, <2>1, <2>3 DEF Unclean, Dirtied, FlyIsDirty
  <2>4. CASE SmallCapture(Size) /\ UNCHANGED get
    BY <1>1, <1>3, <1>4, <1>5, <2>1, <2>4
  <2> QED
    BY <1>7, <2>2, <2>3, <2>4 DEF SmallBegins
<1>8. CASE SmallLoaded
  <2>1. get' = get /\ job.size \in 0..NB /\ 1..job.size \subseteq Blocks
    BY <1>1, <1>8 DEF SmallLoaded, Jobs, Blocks
  <2>2. CASE job' = Idle /\ ResetCache /\ leaked' = leaked \cup 1..job.size
    <3>1. UNCHANGED known /\ \A b \in Blocks : buf'[b] = Hole
      BY <2>2, ResetCacheType
    <3> QED
      BY <1>3, <1>5, <1>6, <2>1, <2>2, <3>1, ResetCacheType DEF Unclean, Hole
  <2>3. CASE job' = Idle /\ UNCHANGED <<buf, cacheState, mpu, gone, lost, parts, known, leaked>>
    BY <1>1, <1>3, <1>5, <1>6, <2>1, <2>3 DEF Unclean, Dirtied, FlyIsDirty
  <2>4. CASE SmallCapture(job.size) /\ UNCHANGED <<cacheState, mpu, gone, lost, parts, known, leaked>>
    BY <1>1, <1>3, <1>4, <1>5, <2>1, <2>4
  <2> QED
    BY <1>8, <2>2, <2>3, <2>4 DEF SmallLoaded
<1>9. CASE PutReturns
  <2>1. known' \in [etag : Contents \cup {NoObject}, size : 0..NB]
    BY <1>1, <1>9 DEF PutReturns, Jobs
  <2>2. /\ buf' = SetState(buf, 1..job.size, "clean") /\ job' = Idle
        /\ UNCHANGED <<mpu, leaked, lost, gone>> /\ Overtake(Cleaned)
        /\ cacheState' \in {"created", "modified", "cached"}
    BY <1>9 DEF PutReturns, env
  <2>4. get' \in [Blocks -> Gets]
    BY <1>5, <2>2, OvertakeFacts
  <2>3. /\ buf' \in [Blocks -> Buffers]
        /\ \A b \in Blocks : /\ buf'[b].s = buf[b].s \/ buf'[b].s = "clean"
                             /\ buf'[b].fly => buf[b].fly /\ buf'[b].s = buf[b].s
    BY <1>1, <2>2, SetStateFacts
  <2> QED
    BY <1>3, <1>5, <1>6, <2>1, <2>2, <2>3, <2>4 DEF Unclean, Dirtied, FlyIsDirty
<1>10. CASE PutFails
  <2>1. /\ buf' = Forget(buf, 1..job.size) /\ job' = Idle
        /\ UNCHANGED <<mpu, leaked, lost, gone, get, cacheState, known>>
    BY <1>10 DEF PutFails
  <2>2. /\ buf' \in [Blocks -> Buffers]
        /\ \A b \in Blocks : buf'[b].s = buf[b].s /\ (buf'[b].fly => buf[b].fly)
    BY <1>1, <2>1, ForgetFacts
  <2> QED
    BY <1>3, <1>5, <1>6, <2>1, <2>2 DEF Unclean, Dirtied, FlyIsDirty
<1> QED
  BY <1>7, <1>8, <1>9, <1>10

(* Parts of a multipart upload that are copied out of the object. *)
LEMMA CopyPart ==
    ASSUME TypeInv, NEW p \in job.todo, MultipartBlobCopy(p)
    PROVE  /\ p \in Parts /\ store \in Contents /\ CopyEnd(p) \in 0..NB
           /\ CopyEnd(p) <= Len(store) /\ CopyEnd(p) <= Off(p) + PartBlocks
           /\ SubSeq(store, Off(p) + 1, CopyEnd(p)) \in Contents
           /\ Len(SubSeq(store, Off(p) + 1, CopyEnd(p))) <= PartBlocks
           /\ parts' = [parts EXCEPT ![p] = SubSeq(store, Off(p) + 1, CopyEnd(p))]
<1> USE DEF TypeInv
<1>1. job \in Jobs /\ p \in Parts /\ job.size \in 0..NB
  BY TypeFacts DEF Jobs
<1>2. store \in Contents /\ CopyEnd(p) <= Len(store)
  BY DEF MultipartBlobCopy, Copyable, StateTypeOK, UploadTypeOK
<1>3. p * PartBlocks = Off(p) + PartBlocks /\ Off(p) \in Nat /\ Off(p) + PartBlocks <= NB
      /\ NB \in Nat /\ PartBlocks \in Nat
  BY <1>1, PartFacts DEF PartsDivide
<1>4. CopyEnd(p) \in 0..NB /\ CopyEnd(p) <= Off(p) + PartBlocks
  BY <1>1, <1>3 DEF CopyEnd
<1> DEFINE k == Off(p)
           e == CopyEnd(p)
<1>5. k \in Nat /\ e \in Nat /\ e <= Len(store) /\ e <= k + PartBlocks /\ store \in Seq(Stamps)
  BY <1>2, <1>3, <1>4 DEF Contents
<1> HIDE DEF k, e
<1>6. SubSeq(store, k + 1, e) \in Seq(Stamps) /\ Len(SubSeq(store, k + 1, e)) <= PartBlocks
  BY <1>3, <1>5
<1>7. parts' = [parts EXCEPT ![p] = SubSeq(store, Off(p) + 1, CopyEnd(p))]
  BY DEF MultipartBlobCopy, Off
<1> QED
  BY <1>1, <1>2, <1>4, <1>6, <1>7 DEF k, e, Contents

(* beginMultipartUpload and completeMultipart. *)
LEMMA TypeMultipart ==
    ASSUME TypeInv, \/ MultipartBegins \/ MultipartBlobCommit \/ CommitReturns \/ CompleteRefused
                    \/ \E p \in Parts : MultipartBlobCopy(p) \/ CopyConflict(p)
    PROVE  TypeInv'
<1> USE DEF TypeInv
<1>1. job \in Jobs /\ NB \in Nat /\ buf \in [Blocks -> Buffers] /\ job.size \in 0..NB
  BY TypeFacts DEF StateTypeOK, BuffersTypeOK, Jobs
<1>2. UNCHANGED <<file, open, lastPart, trunc, reader, writes, truncates, reads, pjob, readError,
                  leaked, vanished, remote>>
  BY DEF MultipartBegins, MultipartBlobCommit, CommitReturns, CompleteRefused, MultipartBlobCopy,
     CopyConflict, ResetMultipart, local, app, env
<1>21. get' \in [Blocks -> Gets]
  <2>1. get \in [Blocks -> Gets]
    BY DEF StateTypeOK, BuffersTypeOK
  <2>2. get' = get \/ Overtake(Cleaned)
    BY DEF MultipartBegins, MultipartBlobCommit, CommitReturns, CompleteRefused, MultipartBlobCopy,
       CopyConflict
  <2> QED
    BY <2>1, <2>2, OvertakeFacts
<1> DEFINE Fine ==
      /\ buf' \in [Blocks -> Buffers]
      /\ job' \in Jobs /\ job'.pc \notin {"put", "putDone"}
      /\ \A b \in Blocks : /\ Unclean(b)' => Unclean(b)
                           /\ buf'[b].fly => Dirtied(b) /\ Dirtied(b)'
      /\ mpu' \in BOOLEAN /\ gone' \in BOOLEAN /\ lost' \in BOOLEAN
      /\ cacheState' \in {"created", "modified", "cached"}
      /\ known' \in [etag : Contents \cup {NoObject}, size : 0..NB]
      /\ parts' \in [Parts -> Contents \cup {NoPart}]
      /\ \A p \in Parts : parts'[p] # NoPart => Len(parts'[p]) <= PartBlocks
      /\ store' \in Contents \cup {NoObject} /\ (store' # NoObject => Len(store') <= NB)
      /\ faults' \in 0..MaxFaults /\ flushError' \in BOOLEAN /\ forceFlush' \in BOOLEAN
<1>3. Fine => TypeInv'
  <2> SUFFICES ASSUME Fine PROVE TypeInv'
    OBVIOUS
  <2>1. FileTypeOK' /\ BuffersTypeOK'
    BY <1>2, <1>21 DEF StateTypeOK, FileTypeOK, BuffersTypeOK
  <2>2. UploadTypeOK' /\ CountersTypeOK'
    BY <1>2 DEF StateTypeOK, UploadTypeOK, CountersTypeOK
  <2>3. Lengths'
    BY <1>2 DEF Lengths
  <2> QED
    BY <1>2, <2>1, <2>2, <2>3, TypeQuiet DEF StateTypeOK, PartsBusy
<1>4. /\ mpu \in BOOLEAN /\ gone \in BOOLEAN /\ lost \in BOOLEAN
      /\ cacheState \in {"created", "modified", "cached"}
      /\ known \in [etag : Contents \cup {NoObject}, size : 0..NB]
      /\ parts \in [Parts -> Contents \cup {NoPart}]
      /\ \A p \in Parts : parts[p] # NoPart => Len(parts[p]) <= PartBlocks
      /\ store \in Contents \cup {NoObject} /\ (store # NoObject => Len(store) <= NB)
      /\ faults \in 0..MaxFaults /\ flushError \in BOOLEAN /\ forceFlush \in BOOLEAN
      /\ \A b \in Blocks : buf[b].fly => Dirtied(b)
  BY DEF StateTypeOK, BuffersTypeOK, UploadTypeOK, CountersTypeOK, Lengths, FlyIsDirty
<1>5. Idle.pc = "none" /\ Idle \in Jobs
  BY RecordTypes DEF Idle
<1>6. CASE MultipartBegins
  <2>1. job' = Idle /\ UNCHANGED <<buf, cacheState, known, lost, store, forceFlush>>
    BY <1>6 DEF MultipartBegins
  <2>2. faults' = faults \/ (faults < MaxFaults /\ faults' = faults + 1)
    BY <1>6 DEF MultipartBegins
  <2>3. faults' \in 0..MaxFaults
    BY <1>4, <2>2, BoundTypes
  <2>4. mpu' \in BOOLEAN /\ gone' \in BOOLEAN /\ flushError' \in BOOLEAN
    BY <1>4, <1>6 DEF MultipartBegins
  <2>5. parts' = parts \/ parts' = [p \in Parts |-> NoPart]
    BY <1>6 DEF MultipartBegins
  <2>6. Fine
    BY <1>1, <1>4, <1>5, <2>1, <2>3, <2>4, <2>5 DEF Unclean, Dirtied
  <2> QED
    BY <1>3, <2>6
<1>7. CASE MultipartBlobCommit
  <2>1. /\ store' = Joined(NumParts(job.size)) /\ gone' = TRUE
        /\ job' = [job EXCEPT !.pc = "committed", !.body = store']
        /\ UNCHANGED <<buf, cacheState, mpu, parts, known, lost, faults, flushError, forceFlush>>
    BY <1>7 DEF MultipartBlobCommit, local
  <2>2. store' \in Contents /\ Len(store') <= NB
    BY <1>1, <1>4, <2>1, NumPartsFacts, JoinedType
  <2>3. job' \in Jobs /\ job'.pc = "committed"
    BY <1>1, <2>1, <2>2 DEF Jobs
  <2>4. Fine
    BY <1>1, <1>4, <2>1, <2>2, <2>3 DEF Unclean, Dirtied
  <2> QED
    BY <1>3, <2>4
<1>8. CASE CommitReturns
  <2>1. /\ known' = [etag |-> job.body, size |-> job.size] /\ mpu' = FALSE /\ job' = Idle
        /\ buf' = [b \in Blocks |-> IF buf[b].s = "flushed" THEN Clean(buf[b].v) ELSE buf[b]]
        /\ cacheState' \in {"modified", "cached"} /\ flushError' = FALSE
        /\ UNCHANGED <<parts, lost, store, gone, faults, forceFlush>>
    BY <1>8 DEF CommitReturns, env
  <2>2. known' \in [etag : Contents \cup {NoObject}, size : 0..NB]
    BY <1>1, <2>1 DEF Jobs
  <2>3. \A b \in Blocks : buf[b].v \in Stamps
    BY <1>1 DEF Buffers
  <2>4. buf' \in [Blocks -> Buffers]
    BY <1>1, <2>1, <2>3, RecordTypes
  <2>5. \A b \in Blocks : /\ Unclean(b)' => Unclean(b)
                          /\ buf'[b].fly => Dirtied(b) /\ Dirtied(b)'
    BY <1>4, <2>1 DEF Unclean, Dirtied, Clean
  <2>6. Fine
    BY <1>4, <1>5, <2>1, <2>2, <2>4, <2>5
  <2> QED
    BY <1>3, <2>6
<1>9. CASE CompleteRefused
  <2>1. ResetMultipart(buf) /\ job' = Idle /\ UNCHANGED <<parts, known, lost, store, gone, faults>>
    BY <1>9 DEF CompleteRefused, env
  <2>2. /\ buf' \in [Blocks -> Buffers] /\ mpu' = FALSE
        /\ cacheState' \in {"created", "modified"} /\ forceFlush' = TRUE /\ flushError' = FALSE
        /\ \A b \in Blocks : buf'[b] = IF buf[b].s = "flushed" THEN Dirty(buf[b].v) ELSE buf[b]
    BY <1>1, <2>1, ResetMultipartType
  <2>3. \A b \in Blocks : /\ Unclean(b)' => Unclean(b)
                          /\ buf'[b].fly => Dirtied(b) /\ Dirtied(b)'
    BY <1>4, <2>2 DEF Unclean, Dirtied, Dirty
  <2>4. Fine
    BY <1>4, <1>5, <2>1, <2>2, <2>3
  <2> QED
    BY <1>3, <2>4
<1>10. ASSUME NEW p \in Parts, MultipartBlobCopy(p) PROVE TypeInv'
  <2>1. p \in job.todo
    BY <1>10 DEF MultipartBlobCopy
  <2>2. /\ job' = [job EXCEPT !.todo = job.todo \ {p},
                              !.pc = IF job.todo = {p} THEN "commit" ELSE "copy"]
        /\ UNCHANGED <<buf, cacheState, mpu, known, lost, store, gone, faults, flushError, forceFlush>>
    BY <1>10 DEF MultipartBlobCopy, env
  <2>3. job' \in Jobs /\ job'.pc \in {"commit", "copy"}
    BY <1>1, <2>2 DEF Jobs
  <2>4. /\ parts' \in [Parts -> Contents \cup {NoPart}]
        /\ \A q \in Parts : parts'[q] # NoPart => Len(parts'[q]) <= PartBlocks
    BY <1>4, <1>10, <2>1, CopyPart
  <2>5. Fine
    BY <1>1, <1>4, <2>2, <2>3, <2>4 DEF Unclean, Dirtied
  <2> QED
    BY <1>3, <2>5
<1>11. ASSUME NEW p \in Parts, CopyConflict(p) PROVE TypeInv'
  <2>1. ResetCache /\ job' = Idle /\ UNCHANGED <<store, faults, flushError, forceFlush>>
    BY <1>11 DEF CopyConflict
  <2>2. Fine
    BY <1>4, <1>5, <2>1, ResetCacheType DEF Unclean, Dirtied, Hole
  <2> QED
    BY <1>3, <2>2
<1> QED
  BY <1>6, <1>7, <1>8, <1>9, <1>10, <1>11

(* What flushPart takes of the file: the blocks of the part that are in it. *)
LEMMA PartSizeFacts ==
    ASSUME TypeInv, NEW p \in Parts, Off(p) < Size
    PROVE  /\ PartSize(p) \in 1..PartBlocks /\ Off(p) + PartSize(p) <= Size
           /\ Off(p) + PartSize(p) = Size \/ PartSize(p) = PartBlocks
  BY TypeFacts, PartFacts DEF TypeInv, PartSize, PartsDivide, Off

(* A part is captured, or there is nothing to send it to. *)
LEMMA PartCaptureType ==
    ASSUME TypeInv, NEW p \in Parts, NEW n \in 0..PartBlocks, PartCapture(p, n)
    PROVE  /\ pjob' \in [Parts -> PartJobs] /\ buf' \in [Blocks -> Buffers]
           /\ \A q \in Parts : q # p => pjob'[q] = pjob[q]
           /\ \/ pjob'[p] = NoFlush /\ buf' = buf
              \/ /\ mpu /\ ~Missing(Front(p, n)) /\ ~IsLoading(Front(p, n))
                 /\ pjob'[p].pc = "add" /\ pjob'[p].size = n /\ Len(pjob'[p].body) = n
                 /\ \A i \in 1..n : pjob'[p].body[i] = buf[Off(p) + i].v
                 /\ \A b \in Blocks :
                      /\ buf'[b].s = buf[b].s /\ buf'[b].v = buf[b].v
                      /\ buf'[b].fly <=> IF b \in Front(p, n) THEN Dirtied(b) ELSE buf[b].fly
<1> USE DEF TypeInv
<1>1. pjob \in [Parts -> PartJobs] /\ buf \in [Blocks -> Buffers]
  BY DEF StateTypeOK, UploadTypeOK, BuffersTypeOK
<1>2. CASE mpu /\ ~Missing(Front(p, n)) /\ ~IsLoading(Front(p, n))
  <2> DEFINE body == Body(Off(p) + 1, n)
  <2>1. /\ pjob' = [pjob EXCEPT ![p] = [pc |-> "add", size |-> n, body |-> body]]
        /\ buf' = Capture(buf, Front(p, n))
    BY <1>2 DEF PartCapture, Off
  <2>2. Off(p) \in Nat /\ n \in Nat /\ Off(p) + 1 + n <= NB + 1 /\ NB \in Nat
    BY PartFacts DEF PartsDivide
  <2>3. body \in Contents /\ Len(body) = n /\ \A i \in 1..n : body[i] = buf[Off(p) + i].v
    <3>1. /\ body \in Contents /\ Len(body) = n
          /\ \A i \in 1..n : body[i] = buf[Off(p) + 1 + i - 1].v
      <4>1. Off(p) + 1 \in Nat \ {0} /\ (Off(p) + 1) + n <= NB + 1 /\ StateTypeOK
        BY <2>2
      <4> QED
        BY <2>2, <4>1, BodyType
    <3>2. \A i \in 1..n : Off(p) + 1 + i - 1 = Off(p) + i
      BY <2>2
    <3> QED
      BY <3>1, <3>2
  <2> HIDE DEF body
  <2>4. [pc |-> "add", size |-> n, body |-> body] \in PartJobs
    BY <2>3 DEF PartJobs
  <2>5. pjob' \in [Parts -> PartJobs] /\ \A q \in Parts : q # p => pjob'[q] = pjob[q]
    BY <1>1, <2>1, <2>4
  <2>6. pjob'[p] = [pc |-> "add", size |-> n, body |-> body]
    BY <1>1, <2>1
  <2> QED
    BY <1>1, <1>2, <2>1, <2>3, <2>5, <2>6, CaptureFacts DEF Dirtied
<1>3. CASE ~(mpu /\ ~Missing(Front(p, n)) /\ ~IsLoading(Front(p, n)))
  <2>1. pjob' = [pjob EXCEPT ![p] = NoFlush] /\ buf' = buf
    BY <1>3 DEF PartCapture
  <2> QED
    BY <1>1, <2>1, RecordTypes
<1> QED
  BY <1>2, <1>3

(* Steps of flushPart. *)
LEMMA TypePart ==
    ASSUME TypeInv, NEW p \in Parts,
           \/ StartPart(p) \/ PartBegins(p) \/ PartLoaded(p) \/ MultipartBlobAdd(p) \/ PartReturns(p)
           \/ PartFails(p) \/ PartRefused(p)
    PROVE  TypeInv'
<1> USE DEF TypeInv
<1>1. /\ pjob \in [Parts -> PartJobs] /\ buf \in [Blocks -> Buffers] /\ get \in [Blocks -> Gets]
      /\ mpu \in BOOLEAN /\ gone \in BOOLEAN /\ lost \in BOOLEAN
      /\ cacheState \in {"created", "modified", "cached"}
      /\ parts \in [Parts -> Contents \cup {NoPart}]
      /\ \A q \in Parts : parts[q] # NoPart => Len(parts[q]) <= PartBlocks
      /\ faults \in 0..MaxFaults /\ flushError \in BOOLEAN /\ forceFlush \in BOOLEAN
      /\ \A b \in Blocks : buf[b].fly => Dirtied(b)
  BY DEF StateTypeOK, BuffersTypeOK, UploadTypeOK, CountersTypeOK, Lengths, FlyIsDirty
<1>2. /\ UNCHANGED <<file, open, lastPart, trunc, reader, writes, truncates, reads, readError, job,
                     leaked, vanished, remote, known, store>>
  BY DEF StartPart, PartBegins, PartLoaded, MultipartBlobAdd, PartReturns, PartFails, PartRefused,
     ResetCache, local, app, env
<1> DEFINE Fine ==
      /\ buf' \in [Blocks -> Buffers] /\ get' \in [Blocks -> Gets]
      /\ pjob' \in [Parts -> PartJobs] /\ \A q \in Parts : q # p => pjob'[q] = pjob[q]
      /\ pjob'[p].pc # "none" => Off(p) < Size
      /\ pjob'[p].pc \in {"add", "added"} => Len(pjob'[p].body) = pjob'[p].size
      /\ \A b \in Blocks : /\ Unclean(b)' => Unclean(b)
                           /\ buf'[b].fly => Dirtied(b) /\ Dirtied(b)'
      /\ mpu' \in BOOLEAN /\ gone' \in BOOLEAN /\ lost' \in BOOLEAN
      /\ cacheState' \in {"created", "modified", "cached"}
      /\ parts' \in [Parts -> Contents \cup {NoPart}]
      /\ \A q \in Parts : parts'[q] # NoPart => Len(parts'[q]) <= PartBlocks
      /\ faults' \in 0..MaxFaults /\ flushError' \in BOOLEAN /\ forceFlush' \in BOOLEAN
<1>3. Fine => TypeInv'
  <2> SUFFICES ASSUME Fine PROVE TypeInv'
    OBVIOUS
  <2>1. FileTypeOK' /\ BuffersTypeOK'
    BY <1>2 DEF StateTypeOK, FileTypeOK, BuffersTypeOK
  <2>2. UploadTypeOK' /\ CountersTypeOK'
    BY <1>2 DEF StateTypeOK, UploadTypeOK, CountersTypeOK
  <2>3. Lengths'
    BY <1>2 DEF Lengths
  <2>4. BusyInFile'
    BY <1>2 DEF BusyInFile, PartsBusy, Size, Off
  <2>5. UncleanInFile' /\ FlyIsDirty'
    BY <1>2 DEF UncleanInFile, FlyIsDirty, Size
  <2> QED
    BY <2>1, <2>2, <2>3, <2>4, <2>5 DEF StateTypeOK
<1>4. NoFlush.pc = "none" /\ NoFlush \in PartJobs
  BY RecordTypes DEF NoFlush
<1>5. pjob[p].pc # "none" => Off(p) < Size
  BY DEF BusyInFile, PartsBusy
<1>6. CASE StartPart(p)
  <2>1. Off(p) < Size
    <3>1. PICK b \in PartRange(p) : Dirtied(b)
      BY <1>6 DEF StartPart, Eligible, PartDirty, Dirtied
    <3>2. b \in Blocks /\ Off(p) < b /\ Off(p) \in Nat
      BY PartFacts DEF PartsDivide
    <3>3. b <= Size
      BY <3>1, <3>2 DEF UncleanInFile, Unclean, Dirtied
    <3> QED
      BY <3>2, <3>3, TypeFacts DEF Blocks
  <2>2. /\ pjob' = [pjob EXCEPT ![p] = [NoFlush EXCEPT !.pc = "start"]]
        /\ UNCHANGED <<buf, get, mpu, gone, lost, cacheState, parts, faults, flushError, forceFlush>>
    BY <1>6 DEF StartPart, local, env
  <2>3. [NoFlush EXCEPT !.pc = "start"] \in PartJobs /\ [NoFlush EXCEPT !.pc = "start"].pc = "start"
    BY <1>4 DEF PartJobs
  <2>4. Fine
    BY <1>1, <2>1, <2>2, <2>3 DEF Unclean, Dirtied
  <2> QED
    BY <1>3, <2>4
<1>7. CASE PartBegins(p)
  <2>1. PartSize(p) \in 0..PartBlocks /\ Off(p) < Size
    BY <1>5, <1>7, PartSizeFacts, PartFacts DEF PartBegins, PartsDivide
  <2>2. UNCHANGED <<mpu, gone, lost, cacheState, parts, faults, flushError, forceFlush>>
    BY <1>7 DEF PartBegins, env
  <2>3. CASE /\ LoadRange(Front(p, PartSize(p)))
             /\ pjob' = [pjob EXCEPT ![p] = [pjob[p] EXCEPT !.pc = "load", !.size = PartSize(p)]]
    <3>1. pjob' \in [Parts -> PartJobs] /\ pjob'[p].pc = "load"
      BY <1>1, <2>1, <2>3 DEF PartJobs
    <3>2. /\ buf' \in [Blocks -> Buffers] /\ get' \in [Blocks -> Gets]
          /\ \A b \in Blocks : buf'[b] = buf[b] \/ buf'[b] = Loading
      BY <2>3, LoadRangeType
    <3>3. Fine
      BY <1>1, <2>1, <2>2, <2>3, <3>1, <3>2 DEF Unclean, Dirtied, Loading
    <3> QED
      BY <1>3, <3>3
  <2>4. CASE PartCapture(p, PartSize(p)) /\ UNCHANGED get
    <3>1. Fine
      BY <1>1, <1>4, <2>1, <2>2, <2>4, PartCaptureType DEF Unclean, Dirtied
    <3> QED
      BY <1>3, <3>1
  <2> QED
    BY <1>7, <2>3, <2>4 DEF PartBegins
<1>8. CASE PartLoaded(p)
  <2>1. Off(p) < Size /\ pjob[p].size \in 0..PartBlocks
        /\ UNCHANGED <<get, faults, flushError, forceFlush>>
    BY <1>1, <1>5, <1>8 DEF PartLoaded, PartJobs
  <2>2. CASE pjob' = [pjob EXCEPT ![p] = NoFlush] /\ ResetCache
    <3>1. Fine
      BY <1>1, <1>4, <2>1, <2>2, ResetCacheType DEF Unclean, Dirtied, Hole
    <3> QED
      BY <1>3, <3>1
  <2>3. CASE /\ pjob' = [pjob EXCEPT ![p] = NoFlush]
             /\ UNCHANGED <<buf, cacheState, mpu, gone, lost, parts, known>>
    <3>1. Fine
      BY <1>1, <1>4, <2>1, <2>3 DEF Unclean, Dirtied
    <3> QED
      BY <1>3, <3>1
  <2>4. CASE /\ PartCapture(p, pjob[p].size)
             /\ UNCHANGED <<cacheState, mpu, gone, lost, parts, known>>
    <3>1. Fine
      BY <1>1, <1>4, <2>1, <2>4, PartCaptureType DEF Unclean, Dirtied
    <3> QED
      BY <1>3, <3>1
  <2> QED
    BY <1>8, <2>2, <2>3, <2>4 DEF PartLoaded
<1>9. CASE MultipartBlobAdd(p)
  <2>1. /\ pjob[p].pc = "add" /\ pjob' = [pjob EXCEPT ![p].pc = "added"]
        /\ UNCHANGED <<buf, get, mpu, gone, lost, cacheState, parts, faults, flushError, forceFlush>>
    BY <1>9 DEF MultipartBlobAdd, local, env
  <2>2. pjob' \in [Parts -> PartJobs] /\ pjob'[p].size = pjob[p].size /\ pjob'[p].body = pjob[p].body
    BY <1>1, <2>1 DEF PartJobs
  <2>3. Fine
    BY <1>1, <1>5, <2>1, <2>2 DEF Unclean, Dirtied, Lengths
  <2> QED
    BY <1>3, <2>3
<1>10. CASE PartReturns(p)
  <2>1. /\ pjob[p].pc = "added" /\ pjob' = [pjob EXCEPT ![p] = NoFlush]
        /\ buf' = SetState(buf, Front(p, pjob[p].size), "flushed")
        /\ parts' = IF mpu THEN [parts EXCEPT ![p] = pjob[p].body] ELSE parts
        /\ flushError' = FALSE
        /\ UNCHANGED <<get, mpu, gone, lost, cacheState, faults, forceFlush>>
    BY <1>10 DEF PartReturns, env
  <2>2. pjob[p].body \in Contents /\ Len(pjob[p].body) <= PartBlocks
    BY <1>1, <2>1, PartFacts DEF Lengths, PartJobs, PartsDivide
  <2>3. /\ parts' \in [Parts -> Contents \cup {NoPart}]
        /\ \A q \in Parts : parts'[q] # NoPart => Len(parts'[q]) <= PartBlocks
    BY <1>1, <2>1, <2>2
  <2>4. /\ buf' \in [Blocks -> Buffers]
        /\ \A b \in Blocks : /\ buf'[b].s = buf[b].s \/ (buf[b].fly /\ buf'[b].s = "flushed")
                             /\ buf'[b].fly => buf[b].fly /\ buf'[b].s = buf[b].s
    BY <1>1, <2>1, SetStateFacts
  <2>5. Fine
    BY <1>1, <1>4, <2>1, <2>3, <2>4 DEF Unclean, Dirtied
  <2> QED
    BY <1>3, <2>5
<1>11. CASE PartFails(p)
  <2>1. /\ pjob' = [pjob EXCEPT ![p] = NoFlush] /\ buf' = Forget(buf, PartRange(p))
        /\ faults < MaxFaults /\ faults' = faults + 1 /\ flushError' = TRUE
        /\ UNCHANGED <<get, mpu, gone, lost, cacheState, parts, forceFlush>>
    BY <1>11 DEF PartFails
  <2>2. /\ buf' \in [Blocks -> Buffers]
        /\ \A b \in Blocks : buf'[b].s = buf[b].s /\ (buf'[b].fly => buf[b].fly)
    BY <1>1, <2>1, ForgetFacts
  <2>3. faults' \in 0..MaxFaults
    BY <1>1, <2>1, BoundTypes
  <2>4. Fine
    BY <1>1, <1>4, <2>1, <2>2, <2>3 DEF Unclean, Dirtied
  <2> QED
    BY <1>3, <2>4
<1>12. CASE PartRefused(p)
  <2> DEFINE bs == Forget(buf, PartRange(p))
  <2>1. /\ pjob' = [pjob EXCEPT ![p] = NoFlush] /\ ResetMultipart(bs)
        /\ UNCHANGED <<get, gone, lost, parts, faults>>
    BY <1>12 DEF PartRefused, env
  <2>2. /\ bs \in [Blocks -> Buffers]
        /\ \A b \in Blocks : bs[b].s = buf[b].s /\ (bs[b].fly => buf[b].fly)
    BY <1>1, ForgetFacts
  <2> HIDE DEF bs
  <2>3. /\ buf' \in [Blocks -> Buffers] /\ mpu' = FALSE
        /\ cacheState' \in {"created", "modified"} /\ forceFlush' = TRUE /\ flushError' = FALSE
        /\ \A b \in Blocks : buf'[b] = IF bs[b].s = "flushed" THEN Dirty(bs[b].v) ELSE bs[b]
    BY <2>1, <2>2, ResetMultipartType
  <2>4. \A b \in Blocks : /\ Unclean(b)' => Unclean(b)
                          /\ buf'[b].fly => Dirtied(b) /\ Dirtied(b)'
    BY <1>1, <2>2, <2>3 DEF Unclean, Dirtied, Dirty
  <2>5. Fine
    BY <1>1, <1>4, <2>1, <2>3, <2>4
  <2> QED
    BY <1>3, <2>5
<1> QED
  BY <1>6, <1>7, <1>8, <1>9, <1>10, <1>11, <1>12

(* The upload vanishes, another client writes, the attributes are read again. *)
LEMMA TypeWorld ==
    ASSUME TypeInv, World
    PROVE  TypeInv'
<1> USE DEF TypeInv
<1>1. CASE UploadVanishes
  <2>1. UNCHANGED <<buf, cacheState, mpu, parts, known, leaked, lost, file, open, lastPart, trunc,
                    reader, writes, truncates, reads, store, faults, remote, job, pjob, get,
                    readError, flushError, forceFlush>>
    BY <1>1 DEF UploadVanishes, local, app
  <2>2. gone' \in BOOLEAN /\ vanished' \in 0..MaxGone
    BY <1>1, BoundTypes DEF UploadVanishes, StateTypeOK, CountersTypeOK
  <2>3. StateTypeOK' /\ Lengths'
    BY <2>1, <2>2 DEF StateTypeOK, FileTypeOK, BuffersTypeOK, UploadTypeOK, CountersTypeOK, Lengths
  <2> QED
    BY <2>1, <2>3, TypeQuiet DEF PartsBusy, Unclean, Dirtied, FlyIsDirty
<1>2. ASSUME NEW n \in 0..NB, RemoteWrite(n) PROVE TypeInv'
  <2>1. UNCHANGED <<buf, cacheState, mpu, parts, known, leaked, lost, file, open, lastPart, trunc,
                    reader, writes, truncates, reads, gone, faults, vanished, job, pjob, get,
                    readError, flushError, forceFlush>>
    BY <1>2 DEF RemoteWrite, local, app
  <2>2. remote' \in 0..MaxRemote
    BY <1>2, BoundTypes DEF RemoteWrite, StateTypeOK, CountersTypeOK
  <2>3. -2 \in Stamps /\ n \in Nat /\ n <= NB
    BY BoundTypes, TypeFacts DEF Stamps
  <2>4. store' \in Contents \cup {NoObject} /\ (store' # NoObject => Len(store') <= NB)
    BY <1>2, <2>3 DEF RemoteWrite, Contents
  <2>5. StateTypeOK' /\ Lengths'
    BY <2>1, <2>2, <2>4 DEF StateTypeOK, FileTypeOK, BuffersTypeOK, UploadTypeOK, CountersTypeOK, Lengths
  <2> QED
    BY <2>1, <2>5, TypeQuiet DEF PartsBusy, Unclean, Dirtied, FlyIsDirty
<1>3. CASE Refresh
  <2>1. UNCHANGED <<cacheState, mpu, parts, leaked, open, lastPart, trunc, reader, writes, truncates,
                    reads, store, gone, faults, vanished, remote, job, pjob, readError,
                    flushError, forceFlush>>
    BY <1>3 DEF Refresh, env
  <2>11. get' \in [Blocks -> Gets]
    <3>1. get \in [Blocks -> Gets] /\ Overtake(Blocks)
      BY <1>3 DEF Refresh, StateTypeOK, BuffersTypeOK
    <3> QED
      BY <3>1, OvertakeFacts
  <2>2. store \in Contents /\ Len(store) \in 0..NB
    BY <1>3, TypeFacts DEF Refresh, StateTypeOK, UploadTypeOK, Lengths, Contents
  <2>3. known' \in [etag : Contents \cup {NoObject}, size : 0..NB]
    BY <1>3, <2>2 DEF Refresh
  <2>4. buf' \in [Blocks -> Buffers] /\ \A b \in Blocks : buf'[b] = Hole
    BY <1>3, RecordTypes DEF Refresh
  <2>5. FileTypeOK' /\ BuffersTypeOK'
    <3>1. file' = store /\ lost' = FALSE
      BY <1>3 DEF Refresh
    <3>2. file' \in Contents /\ Len(file') <= NB
      BY <2>2, <3>1, TypeFacts
    <3> QED
      BY <2>1, <2>4, <2>11, <3>1, <3>2 DEF StateTypeOK, FileTypeOK, BuffersTypeOK
  <2>6. UploadTypeOK' /\ CountersTypeOK' /\ Lengths'
    BY <2>1, <2>3 DEF StateTypeOK, UploadTypeOK, CountersTypeOK, Lengths
  <2>7. BusyInFile'
    BY <1>3, <2>1, FlushCounts DEF Refresh, BusyInFile, PartsBusy
  <2>8. UncleanInFile' /\ FlyIsDirty'
    BY <2>4 DEF UncleanInFile, FlyIsDirty, Unclean, Hole
  <2> QED
    BY <2>5, <2>6, <2>7, <2>8 DEF StateTypeOK
<1> QED
  BY <1>1, <1>2, <1>3 DEF World

(* Every step keeps the types. *)
LEMMA TypeStep == TypeInv /\ [Next]_vars => TypeInv'
<1> SUFFICES ASSUME TypeInv, [Next]_vars PROVE TypeInv'
  OBVIOUS
<1>1. CASE UNCHANGED vars
  <2>1. StateTypeOK' /\ Lengths'
    BY <1>1 DEF vars, TypeInv, StateTypeOK, FileTypeOK, BuffersTypeOK, UploadTypeOK, CountersTypeOK, Lengths
  <2>2. file' = file /\ PartsBusy' = PartsBusy /\ buf' = buf
    BY <1>1 DEF vars, PartsBusy
  <2> QED
    BY <2>1, <2>2, TypeQuiet DEF TypeInv, Unclean, Dirtied, FlyIsDirty
<1>2. CASE App
  BY <1>2, TypeWrite, TypeTruncate, TypeRead DEF App
<1>3. CASE Data
  BY <1>3, TypeRead DEF Data
<1>4. CASE Flush
  BY <1>4, TypeJob, TypeSmall, TypeMultipart, TypePart DEF Flush
<1>5. CASE Failure
  BY <1>5, TypeJob, TypeSmall, TypePart, TypeRead DEF Failure
<1>6. CASE \E b \in Blocks : Evict(b)
  BY <1>6, TypeRead
<1> QED
  BY <1>1, <1>2, <1>3, <1>4, <1>5, <1>6, TypeWorld DEF Next

(* Only a body that an answer has made old makes the history one of late bodies. *)
LEMMA LateStep ==
    ASSUME [Next]_vars
    PROVE  \/ UNCHANGED late
           \/ \E b \in Blocks : BodyArrives(b) /\ late' = (late \/ (get[b].old /\ ~Unclean(b)))
<1>1. CASE UNCHANGED vars
  BY <1>1 DEF vars
<1>2. CASE App
  BY <1>2 DEF App, WriteFile, Truncate, TruncateEnds, ReadFile, SyncFile, Release, ReadReturns, local
<1>3. CASE Data
  BY <1>3 DEF Data, GetBlob, BodyArrives, GetFails, local
<1>4. CASE Failure \/ \E b \in Blocks : Evict(b)
  BY <1>4 DEF Failure, PutFails, CopyFails, CommitFails, PartFails, LoadingStalls, Evict, local
<1>5. CASE Flush
  BY <1>5 DEF Flush, StartSmall, SmallBegins, SmallLoaded, PutBlob, PutReturns, StartMultipart,
     MultipartBegins, StartPart, PartBegins, PartLoaded, MultipartBlobAdd, PartReturns, PartRefused,
     StartComplete, CompleteBegins, MultipartBlobCommit, CommitReturns, CompleteRefused,
     CompleteAborts, MultipartBlobCopy, CopyConflict, local
<1>6. CASE World
  BY <1>6 DEF World, UploadVanishes, Refresh, RemoteWrite, local
<1> QED
  BY <1>1, <1>2, <1>3, <1>4, <1>5, <1>6 DEF Next

(* The buffers, flushes and requests of a file stay well formed, for every size of the file
   and of its parts: no part, size or offset leaves the file, also when it is truncated or
   replaced while it is flushed. *)
THEOREM TypeCorrect == Spec => []TypeOK
<1>1. Spec => []TypeInv
  BY TypeInit, TypeStep, PTL DEF Spec
<1>2. TypeInv => StateTypeOK
  BY DEF TypeInv
<1>3. Init => late \in BOOLEAN
  BY DEF Init
<1>4. late \in BOOLEAN /\ [Next]_vars => (late \in BOOLEAN)'
  BY LateStep
<1>5. StateTypeOK /\ late \in BOOLEAN => TypeOK
  BY DEF TypeOK
<1> QED
  BY <1>1, <1>2, <1>3, <1>4, <1>5, PTL DEF Spec

-------------------------------------------------------------------------------
(* Which flushes run together *)

(* Nothing is flushed at first. *)
LEMMA ShapeInit == Init => ShapeInv
<1> SUFFICES ASSUME Init PROVE ShapeInv
  OBVIOUS
<1>1. /\ job.pc = "none" /\ \A p \in Parts : pjob[p].pc = "none"
      /\ \A b \in Blocks : buf[b].s = "none"
      /\ ~mpu /\ trunc = NoSize
  BY DEF Init, Idle, NoFlush, Hole
<1> QED
  BY <1>1 DEF ShapeInv, JobAlone, CachedIsClean, CachedIsEmpty, NoUploadYet, TodoIsOpen,
     TruncateWaits, PartsBusy, Unclean

(* Steps that start no flush. *)
LEMMA ShapeKept ==
    ASSUME ShapeInv, job' = job \/ job' = Idle, parts' = parts, mpu' => mpu,
           PartsBusy' \subseteq PartsBusy,
           cacheState' = "cached" =>
               \/ cacheState = "cached" /\ \A b \in Blocks : Unclean(b)' => Unclean(b)
               \/ ~mpu' /\ \A b \in Blocks : ~Unclean(b)',
           truncates' = 0 => truncates = 0 /\ (trunc' = trunc \/ trunc' = NoSize)
    PROVE  ShapeInv'
<1>1. Idle.pc = "none"
  BY DEF Idle
<1>2. JobAlone'
  BY <1>1 DEF ShapeInv, JobAlone
<1>3. CachedIsClean'
  BY DEF ShapeInv, CachedIsClean
<1>4. CachedIsEmpty'
  BY <1>1 DEF ShapeInv, CachedIsEmpty
<1>5. NoUploadYet' /\ TodoIsOpen'
  BY <1>1 DEF ShapeInv, NoUploadYet, TodoIsOpen
<1>6. TruncateWaits'
  BY DEF ShapeInv, TruncateWaits
<1> QED
  BY <1>2, <1>3, <1>4, <1>5, <1>6 DEF ShapeInv

(* A conflict drops everything. *)
LEMMA ShapeReset ==
    ASSUME StateTypeOK, ShapeInv, ResetCache, job' = job \/ job' = Idle, PartsBusy' \subseteq PartsBusy,
           UNCHANGED <<truncates, trunc>>
    PROVE  ShapeInv'
  BY ResetCacheType, ShapeKept DEF Unclean, Hole

(* The application and its requests for data. *)
LEMMA ShapeApp ==
    ASSUME TypeInv, ShapeInv, App \/ Data \/ \E b \in Blocks : LoadingStalls(b) \/ Evict(b)
    PROVE  ShapeInv'
<1> USE DEF TypeInv
<1>1. ASSUME NEW b \in Blocks, WriteFile(b) PROVE ShapeInv'
  <2>1. /\ UNCHANGED <<job, parts, mpu, pjob, truncates, trunc>> /\ cacheState' # "cached"
    BY <1>1 DEF WriteFile, Modified
  <2> QED
    BY <2>1, ShapeKept DEF PartsBusy
<1>2. CASE (\E n \in TruncateSizes : Truncate(n)) \/ TruncateEnds
  <2>1. UNCHANGED <<job, parts, mpu, pjob>>
    BY <1>2 DEF Truncate, TruncateEnds
  <2>2. truncates' = 0 => truncates = 0 /\ trunc' = NoSize
    BY <1>2 DEF Truncate, TruncateEnds, StateTypeOK, CountersTypeOK
  <2>3. cacheState' # "cached" \/ UNCHANGED <<cacheState, buf>>
    BY <1>2 DEF Truncate, TruncateEnds, Resize, Modified
  <2> QED
    BY <2>1, <2>2, <2>3, ShapeKept DEF PartsBusy, Unclean
<1>3. ASSUME NEW b \in Blocks,
             ReadFile(b) \/ GetBlob(b) \/ BodyArrives(b) \/ GetFails(b) \/ LoadingStalls(b) \/ Evict(b)
      PROVE  ShapeInv'
  <2>1. UNCHANGED <<job, parts, mpu, cacheState, pjob, truncates, trunc>>
    BY <1>3 DEF ReadFile, GetBlob, BodyArrives, GetFails, LoadingStalls, Evict, local, app
  <2>2. \A i \in Blocks : Unclean(i)' => Unclean(i)
    BY <1>3, LoadRangeType
       DEF ReadFile, GetBlob, BodyArrives, GetFails, LoadingStalls, Evict, local, Unclean, Loading,
           Clean, Hole, StateTypeOK, BuffersTypeOK
  <2> QED
    BY <2>1, <2>2, ShapeKept DEF PartsBusy
<1>4. CASE SyncFile \/ Release
  <2>1. UNCHANGED <<job, parts, mpu, cacheState, pjob, truncates, trunc, buf>>
    BY <1>4 DEF SyncFile, Release, local, app
  <2> QED
    BY <2>1, ShapeKept DEF PartsBusy, Unclean
<1>5. CASE ReadReturns
  <2>1. UNCHANGED <<job, pjob, truncates, trunc>>
    BY <1>5 DEF ReadReturns
  <2>2. CASE ResetCache
    BY <2>1, <2>2, ShapeReset DEF PartsBusy
  <2>3. CASE UNCHANGED <<buf, cacheState, mpu, gone, lost, parts, known, readError>>
    BY <2>1, <2>3, ShapeKept DEF PartsBusy, Unclean
  <2> QED
    BY <1>5, <2>2, <2>3 DEF ReadReturns
<1> QED
  BY <1>1, <1>2, <1>3, <1>4, <1>5 DEF App, Data

(* When a completion is decided no part is under way. *)
LEMMA CompleteIsAlone ==
    ASSUME TypeInv, StartComplete
    PROVE  PartsBusy = {}
<1> SUFFICES ASSUME NEW p \in PartsBusy PROVE FALSE
  OBVIOUS
<1>1. p \in Parts /\ Off(p) < Size /\ Off(p) \in Nat /\ Size \in Nat /\ Off(p) + 1 \in PartRange(p)
  BY PartFacts, TypeFacts DEF TypeInv, BusyInFile, PartsDivide, PartsBusy
<1>2. FlushLocked(Off(p) + 1)
  BY <1>1 DEF FlushLocked
<1> QED
  BY <1>1, <1>2 DEF StartComplete

(* The steps of a flush of the whole file. *)
LEMMA ShapeJob ==
    ASSUME TypeInv, ShapeInv,
           \/ StartSmall \/ StartMultipart \/ StartComplete \/ CompleteBegins \/ CopyFails
           \/ CommitFails \/ CompleteAborts \/ PutBlob \/ MultipartBlobCommit
    PROVE  ShapeInv'
<1> USE DEF TypeInv
<1>1. UNCHANGED <<buf, cacheState, mpu, parts, pjob, truncates, trunc>>
  BY DEF StartSmall, StartMultipart, StartComplete, CompleteBegins, CopyFails, CommitFails,
     CompleteAborts, PutBlob, MultipartBlobCommit, local, app
<1>2. job \in Jobs /\ PartsBusy' = PartsBusy
  BY <1>1, TypeFacts DEF PartsBusy
<1>3. CachedIsClean' /\ TruncateWaits'
  BY <1>1 DEF ShapeInv, CachedIsClean, TruncateWaits, Unclean
<1>4. CASE CopyFails \/ CommitFails \/ CompleteAborts
  <2>1. job' = Idle
    BY <1>4 DEF CopyFails, CommitFails, CompleteAborts
  <2> QED
    BY <1>1, <1>2, <2>1, ShapeKept DEF Unclean
<1>5. CASE StartSmall \/ StartMultipart \/ StartComplete
  <2>1. /\ PartsBusy = {} /\ cacheState # "cached"
        /\ \/ job'.pc \in {"small", "begin"} /\ ~mpu
           \/ job'.pc = "complete"
    BY <1>5, FlushCounts, CompleteIsAlone DEF StartSmall, StartMultipart, StartComplete, Flushable, Idle
  <2> QED
    BY <1>1, <1>2, <1>3, <2>1 DEF ShapeInv, JobAlone, CachedIsEmpty, NoUploadYet, TodoIsOpen
<1>6. CASE CompleteBegins
  <2>1. CASE ~mpu
    <3>1. job' = Idle
      BY <1>6, <2>1 DEF CompleteBegins
    <3> QED
      BY <1>1, <1>2, <3>1, ShapeKept DEF Unclean
  <2>2. CASE mpu
    <3>1. /\ job.pc = "complete" /\ job'.pc \in {"commit", "copy"}
          /\ job'.todo = {p \in 1..NumParts(Size) : parts[p] = NoPart}
      BY <1>2, <1>6, <2>2 DEF CompleteBegins, Jobs
    <3> QED
      BY <1>1, <1>2, <1>3, <3>1 DEF ShapeInv, JobAlone, CachedIsEmpty, NoUploadYet, TodoIsOpen
  <2> QED
    BY <2>1, <2>2
<1>7. CASE PutBlob
  <2>1. job.pc = "put" /\ job'.pc = "putDone"
    BY <1>2, <1>7 DEF PutBlob, Jobs
  <2> QED
    BY <1>1, <1>2, <1>3, <2>1 DEF ShapeInv, JobAlone, CachedIsEmpty, NoUploadYet, TodoIsOpen
<1>8. CASE MultipartBlobCommit
  <2>1. job.pc = "commit" /\ job'.pc = "committed"
    BY <1>2, <1>8 DEF MultipartBlobCommit, Jobs
  <2> QED
    BY <1>1, <1>2, <1>3, <2>1 DEF ShapeInv, JobAlone, CachedIsEmpty, NoUploadYet, TodoIsOpen
<1> QED
  BY <1>4, <1>5, <1>6, <1>7, <1>8

(* The single PUT. *)
LEMMA ShapeSmall ==
    ASSUME TypeInv, ShapeInv, SmallBegins \/ SmallLoaded \/ PutReturns \/ PutFails
    PROVE  ShapeInv'
<1> USE DEF TypeInv
<1>1. UNCHANGED <<pjob, truncates, trunc>> /\ PartsBusy' = PartsBusy
  BY DEF SmallBegins, SmallLoaded, PutReturns, PutFails, app, PartsBusy
<1>2. job \in Jobs /\ buf \in [Blocks -> Buffers]
  BY TypeFacts DEF StateTypeOK, BuffersTypeOK
<1>3. ASSUME NEW n, SmallCapture(n), UNCHANGED <<cacheState, mpu, parts>>,
             job.pc \in {"small", "smallLoad"}
      PROVE  ShapeInv'
  <2>1. job'.pc = "put" /\ buf' = Capture(buf, 1..n)
    BY <1>2, <1>3 DEF SmallCapture, Jobs
  <2>2. \A b \in Blocks : Unclean(b)' => Unclean(b)
    BY <1>2, <2>1, CaptureFacts DEF Unclean
  <2> QED
    BY <1>1, <1>3, <2>1, <2>2 DEF ShapeInv, JobAlone, CachedIsClean, CachedIsEmpty, NoUploadYet,
       TodoIsOpen, TruncateWaits
<1>4. CASE SmallBegins
  <2>1. job.pc = "small" /\ UNCHANGED <<cacheState, mpu, parts>>
    BY <1>4 DEF SmallBegins
  <2>2. CASE LoadRange(1..Size) /\ job' = [job EXCEPT !.pc = "smallLoad", !.size = Size]
    <3>1. job'.pc = "smallLoad"
      BY <1>2, <2>2 DEF Jobs
    <3>2. \A b \in Blocks : Unclean(b)' => Unclean(b)
      BY <2>2, LoadRangeType DEF Unclean, Loading
    <3> QED
      BY <1>1, <2>1, <3>1, <3>2 DEF ShapeInv, JobAlone, CachedIsClean, CachedIsEmpty, NoUploadYet,
         TodoIsOpen, TruncateWaits
  <2>3. CASE job' = Idle /\ UNCHANGED buf
    BY <1>1, <2>1, <2>3, ShapeKept DEF Unclean
  <2> QED
    BY <1>3, <1>4, <2>1, <2>2, <2>3 DEF SmallBegins
<1>5. CASE SmallLoaded
  <2>1. CASE job' = Idle /\ ResetCache
    BY <1>1, <2>1, ShapeReset
  <2>2. CASE job' = Idle /\ UNCHANGED <<buf, cacheState, mpu, gone, lost, parts, known, leaked>>
    BY <1>1, <2>2, ShapeKept DEF Unclean
  <2> QED
    BY <1>3, <1>5, <2>1, <2>2 DEF SmallLoaded
<1>6. CASE PutReturns
  <2>1. /\ job.pc = "putDone" /\ job' = Idle /\ UNCHANGED <<mpu, parts>>
        /\ buf' = SetState(buf, 1..job.size, "clean")
    BY <1>6 DEF PutReturns
  <2>2. \A b \in Blocks : Unclean(b)' => Unclean(b)
    BY <1>2, <2>1, SetStateFacts DEF Unclean
  <2>3. cacheState' = "cached" => cacheState = "cached" \/ \A b \in Blocks : ~Unclean(b)'
    BY <1>6 DEF PutReturns, StillDirty, Unclean
  <2>4. ~mpu
    BY <2>1 DEF ShapeInv, NoUploadYet
  <2> QED
    BY <1>1, <2>1, <2>2, <2>3, <2>4, ShapeKept
<1>7. CASE PutFails
  <2>1. job' = Idle /\ UNCHANGED <<mpu, parts, cacheState>> /\ buf' = Forget(buf, 1..job.size)
    BY <1>7 DEF PutFails
  <2>2. \A b \in Blocks : Unclean(b)' => Unclean(b)
    BY <1>2, <2>1, ForgetFacts DEF Unclean
  <2> QED
    BY <1>1, <2>1, <2>2, ShapeKept
<1> QED
  BY <1>4, <1>5, <1>6, <1>7

(* beginMultipartUpload and completeMultipart. *)
LEMMA ShapeMultipart ==
    ASSUME TypeInv, ShapeInv,
           \/ MultipartBegins \/ CommitReturns \/ CompleteRefused
           \/ \E p \in Parts : MultipartBlobCopy(p) \/ CopyConflict(p)
    PROVE  ShapeInv'
<1> USE DEF TypeInv
<1>1. UNCHANGED <<pjob, truncates, trunc>> /\ PartsBusy' = PartsBusy
  BY DEF MultipartBegins, CommitReturns, CompleteRefused, MultipartBlobCopy, CopyConflict, app, PartsBusy
<1>2. job \in Jobs /\ buf \in [Blocks -> Buffers] /\ Idle.pc = "none"
  BY TypeFacts DEF StateTypeOK, BuffersTypeOK, Idle
<1>3. CASE MultipartBegins
  <2>1. job.pc = "begin" /\ job' = Idle /\ UNCHANGED <<buf, cacheState>>
    BY <1>3 DEF MultipartBegins
  <2>2. CASE UNCHANGED <<mpu, parts>>
    BY <1>1, <2>1, <2>2, ShapeKept DEF Unclean
  <2>3. CASE mpu' = TRUE /\ parts' = [p \in Parts |-> NoPart]
    <3>1. PartsBusy = {}
      BY <2>1 DEF ShapeInv, JobAlone
    <3>2. CachedIsClean' /\ TruncateWaits'
      BY <1>1, <2>1 DEF ShapeInv, CachedIsClean, TruncateWaits, Unclean
    <3> QED
      BY <1>1, <1>2, <2>1, <2>3, <3>1, <3>2 DEF ShapeInv, JobAlone, CachedIsEmpty, NoUploadYet, TodoIsOpen
  <2> QED
    BY <1>3, <2>2, <2>3 DEF MultipartBegins
<1>4. CASE CommitReturns
  <2>1. job' = Idle /\ mpu' = FALSE /\ parts' = parts
    BY <1>4 DEF CommitReturns
  <2>2. cacheState' = "cached" => \A b \in Blocks : ~Unclean(b)'
    BY <1>4 DEF CommitReturns, StillDirty, Unclean
  <2> QED
    BY <1>1, <2>1, <2>2, ShapeKept
<1>5. CASE CompleteRefused
  <2>1. job' = Idle /\ mpu' = FALSE /\ parts' = parts /\ cacheState' # "cached"
    BY <1>2, <1>5, ResetMultipartType DEF CompleteRefused
  <2> QED
    BY <1>1, <2>1, ShapeKept
<1>6. ASSUME NEW p \in Parts, MultipartBlobCopy(p) PROVE ShapeInv'
  <2>1. /\ job.pc = "copy" /\ mpu /\ UNCHANGED <<mpu, cacheState, buf>>
        /\ job'.pc \in {"commit", "copy"} /\ job'.todo = job.todo \ {p}
        /\ \A q \in Parts : q # p => parts'[q] = parts[q]
    BY <1>2, <1>6 DEF MultipartBlobCopy, Jobs, StateTypeOK, UploadTypeOK
  <2>2. cacheState # "cached" /\ job.todo \subseteq Parts
    BY <1>2, <2>1 DEF ShapeInv, CachedIsEmpty, Jobs
  <2> QED
    BY <1>1, <2>1, <2>2 DEF ShapeInv, JobAlone, CachedIsClean, CachedIsEmpty, NoUploadYet, TodoIsOpen,
       TruncateWaits
<1>7. ASSUME NEW p \in Parts, CopyConflict(p) PROVE ShapeInv'
  BY <1>1, <1>7, ShapeReset DEF CopyConflict
<1> QED
  BY <1>3, <1>4, <1>5, <1>6, <1>7

(* Steps of flushPart. *)
LEMMA ShapePart ==
    ASSUME TypeInv, ShapeInv, NEW p \in Parts,
           \/ StartPart(p) \/ PartBegins(p) \/ PartLoaded(p) \/ MultipartBlobAdd(p) \/ PartReturns(p)
           \/ PartFails(p) \/ PartRefused(p)
    PROVE  ShapeInv'
<1> USE DEF TypeInv
<1>1. UNCHANGED <<job, truncates, trunc>>
  BY DEF StartPart, PartBegins, PartLoaded, MultipartBlobAdd, PartReturns, PartFails, PartRefused, app
<1>2. /\ pjob \in [Parts -> PartJobs] /\ buf \in [Blocks -> Buffers] /\ NoFlush.pc = "none"
      /\ parts \in [Parts -> Contents \cup {NoPart}]
  BY DEF StateTypeOK, UploadTypeOK, BuffersTypeOK, NoFlush
<1>3. CASE StartPart(p)
  <2>1. job.pc = "none" /\ cacheState # "cached" /\ UNCHANGED <<buf, cacheState, mpu, parts>>
    BY <1>3, FlushCounts DEF StartPart, Flushable, local
  <2> QED
    BY <1>1, <2>1 DEF ShapeInv, JobAlone, CachedIsClean, CachedIsEmpty, NoUploadYet, TodoIsOpen,
       TruncateWaits
<1>4. ASSUME \/ PartBegins(p) \/ PartLoaded(p) \/ MultipartBlobAdd(p) \/ PartReturns(p)
             \/ PartFails(p) \/ PartRefused(p)
      PROVE  PartsBusy' \subseteq PartsBusy /\ p \in PartsBusy
  <2>1. pjob[p].pc # "none"
    BY <1>4 DEF PartBegins, PartLoaded, MultipartBlobAdd, PartReturns, PartFails, PartRefused
  <2>2. \A q \in Parts : q # p => pjob'[q] = pjob[q]
    <3>1. CASE PartBegins(p) \/ PartLoaded(p)
      BY <1>2, <3>1 DEF PartBegins, PartLoaded, PartCapture
    <3>2. CASE MultipartBlobAdd(p) \/ PartReturns(p) \/ PartFails(p) \/ PartRefused(p)
      BY <1>2, <3>2 DEF MultipartBlobAdd, PartReturns, PartFails, PartRefused
    <3> QED
      BY <1>4, <3>1, <3>2
  <2> QED
    BY <2>1, <2>2 DEF PartsBusy
<1>5. ASSUME NEW n, PartCapture(p, n)
      PROVE  \A b \in Blocks : Unclean(b)' => Unclean(b)
  BY <1>2, <1>5, CaptureFacts DEF PartCapture, Unclean
<1>6. CASE PartBegins(p)
  <2>1. UNCHANGED <<cacheState, mpu, parts>>
    BY <1>6 DEF PartBegins
  <2>2. \A b \in Blocks : Unclean(b)' => Unclean(b)
    BY <1>5, <1>6, LoadRangeType DEF PartBegins, Unclean, Loading
  <2> QED
    BY <1>1, <1>4, <1>6, <2>1, <2>2, ShapeKept
<1>7. CASE PartLoaded(p)
  <2>1. CASE ResetCache
    BY <1>1, <1>4, <1>7, <2>1, ShapeReset
  <2>2. CASE ~ResetCache
    <3>1. UNCHANGED <<cacheState, mpu, parts>>
      BY <1>7, <2>2 DEF PartLoaded
    <3>2. \A b \in Blocks : Unclean(b)' => Unclean(b)
      BY <1>5, <1>7, <2>2 DEF PartLoaded, Unclean
    <3> QED
      BY <1>1, <1>4, <1>7, <3>1, <3>2, ShapeKept
  <2> QED
    BY <2>1, <2>2
<1>8. CASE MultipartBlobAdd(p)
  <2>1. UNCHANGED <<cacheState, mpu, parts, buf>>
    BY <1>8 DEF MultipartBlobAdd, local
  <2> QED
    BY <1>1, <1>4, <1>8, <2>1, ShapeKept DEF Unclean
<1>9. CASE PartReturns(p)
  <2>1. /\ UNCHANGED <<cacheState, mpu>> /\ (~mpu => parts' = parts)
        /\ buf' = SetState(buf, Front(p, pjob[p].size), "flushed")
    BY <1>9 DEF PartReturns
  <2>2. p \in PartsBusy /\ PartsBusy' \subseteq PartsBusy
    BY <1>4, <1>9
  <2>3. job.pc = "none" /\ ~(cacheState = "cached" /\ mpu)
    BY <2>2 DEF ShapeInv, JobAlone, CachedIsEmpty
  <2>4. CachedIsClean'
    <3>1. SUFFICES ASSUME cacheState = "cached", NEW b \in Blocks PROVE ~Unclean(b)'
      BY <2>1 DEF CachedIsClean
    <3>2. ~Unclean(b) /\ ~buf[b].fly
      BY <3>1 DEF ShapeInv, CachedIsClean, FlyIsDirty, Unclean, Dirtied
    <3>3. buf'[b].s = buf[b].s
      BY <1>2, <2>1, <3>2, SetStateFacts
    <3> QED
      BY <3>2, <3>3 DEF Unclean
  <2> QED
    BY <1>1, <2>1, <2>3, <2>4 DEF ShapeInv, JobAlone, CachedIsEmpty, NoUploadYet, TodoIsOpen,
       TruncateWaits
<1>10. CASE PartFails(p)
  <2>1. UNCHANGED <<cacheState, mpu, parts>> /\ buf' = Forget(buf, PartRange(p))
    BY <1>10 DEF PartFails
  <2>2. \A b \in Blocks : Unclean(b)' => Unclean(b)
    BY <1>2, <2>1, ForgetFacts DEF Unclean
  <2> QED
    BY <1>1, <1>4, <1>10, <2>1, <2>2, ShapeKept
<1>11. CASE PartRefused(p)
  <2>1. parts' = parts /\ ResetMultipart(Forget(buf, PartRange(p)))
    BY <1>11 DEF PartRefused
  <2>2. mpu' = FALSE /\ cacheState' # "cached"
    BY <1>2, <2>1, ForgetFacts, ResetMultipartType
  <2> QED
    BY <1>1, <1>4, <1>11, <2>1, <2>2, ShapeKept
<1> QED
  BY <1>3, <1>6, <1>7, <1>8, <1>9, <1>10, <1>11

(* Every step keeps them. *)
LEMMA ShapeStep == TypeInv /\ ShapeInv /\ [Next]_vars => ShapeInv'
<1> SUFFICES ASSUME TypeInv, ShapeInv, [Next]_vars PROVE ShapeInv'
  OBVIOUS
<1>1. CASE UNCHANGED vars
  <2>1. UNCHANGED <<job, parts, mpu, pjob, cacheState, buf, truncates, trunc>>
    BY <1>1 DEF vars
  <2> QED
    BY <2>1, ShapeKept DEF PartsBusy, Unclean
<1>2. CASE World
  <2>1. UNCHANGED <<job, parts, mpu, pjob, cacheState, truncates, trunc>>
    BY <1>2 DEF World, UploadVanishes, Refresh, RemoteWrite, local, app
  <2>2. \A b \in Blocks : Unclean(b)' => Unclean(b)
    BY <1>2 DEF World, UploadVanishes, Refresh, RemoteWrite, local, Unclean, Hole
  <2> QED
    BY <2>1, <2>2, ShapeKept DEF PartsBusy
<1>3. CASE App \/ Data \/ \E b \in Blocks : Evict(b)
  BY <1>3, ShapeApp
<1>4. CASE Flush
  BY <1>4, ShapeJob, ShapeSmall, ShapeMultipart, ShapePart DEF Flush
<1>5. CASE Failure
  BY <1>5, ShapeJob, ShapeSmall, ShapePart, ShapeApp DEF Failure
<1> QED
  BY <1>1, <1>2, <1>3, <1>4, <1>5 DEF Next

-------------------------------------------------------------------------------
(* What is marked as flushed is in the upload *)

(* The blocks a flush of part p captures are blocks of that part. *)
LEMMA FrontInPart ==
    ASSUME NEW p \in Parts, NEW n \in 0..PartBlocks
    PROVE  /\ Front(p, n) = Off(p) + 1 .. Off(p) + n
           /\ Front(p, n) \subseteq PartRange(p) /\ Front(p, n) \subseteq Blocks
<1>1. /\ Off(p) \in Nat /\ PartBlocks \in Nat /\ PartRange(p) = Off(p) + 1 .. Off(p) + PartBlocks
      /\ PartRange(p) \subseteq Blocks
  BY PartFacts DEF PartsDivide
<1>2. Front(p, n) = Off(p) + 1 .. Off(p) + n
  BY DEF Front, Off
<1> QED
  BY <1>1, <1>2

(* Nothing is flushed at first. *)
LEMMA SentInit == Init => SentInv
<1> SUFFICES ASSUME Init PROVE Sent
  BY DEF SentInv
<1>1. TypeInv
  BY TypeInit
<1>2. (\A b \in Blocks : buf[b].s = "none") /\ (\A p \in Parts : pjob[p].pc = "none")
  BY DEF Init, Hole, NoFlush
<1> QED
  BY <1>2 DEF Sent, FlushedIsUploaded, LoadCoversFlushed, FlushedIsSent, FlyIsSent, UploadIsCurrent

(* Steps that send no part and forget none. *)
LEMMA SentKept ==
    ASSUME TypeInv, Sent, mpu' = mpu, gone' = gone,
           \A p \in Parts : parts[p] # NoPart => parts'[p] = parts[p],
           \A p \in Parts : pjob'[p] = pjob[p] \/ pjob'[p].pc = "none",
           \A b \in Blocks : /\ buf'[b].s = "flushed" => buf[b].s = "flushed" /\ buf'[b].v = buf[b].v
                             /\ buf'[b].fly => buf[b].fly /\ buf'[b].v = buf[b].v
    PROVE  Sent'
<1>1. FlushedIsUploaded'
  <2> SUFFICES ASSUME NEW b \in Blocks, buf'[b].s = "flushed", NEW p, p = partNum(b - 1)
               PROVE  mpu' /\ parts'[p] # NoPart /\ parts'[p][b - (p - 1) * PartBlocks] = buf'[b].v
    BY DEF FlushedIsUploaded, partNum
  <2>1. p \in Parts
    BY PartFacts DEF PartsDivide
  <2>2. mpu /\ parts[p] # NoPart /\ parts[p][b - (p - 1) * PartBlocks] = buf[b].v
    BY DEF Sent, FlushedIsUploaded
  <2> QED
    BY <2>1, <2>2
<1>2. \A p \in Parts : PartRange(p) \subseteq Blocks
  BY PartFacts DEF PartsDivide
<1>3. LoadCoversFlushed'
  BY <1>2 DEF Sent, LoadCoversFlushed, Off, PartRange
<1>4. FlushedIsSent'
  BY <1>2 DEF Sent, FlushedIsSent, PartMatches, Off, PartRange
<1>5. ASSUME NEW p \in Parts PROVE Front(p, pjob[p].size) \subseteq Blocks
  BY TypeFacts, FrontInPart DEF TypeInv, PartJobs
<1>6. FlyIsSent'
  BY <1>5 DEF Sent, FlyIsSent, PartMatches, Off, Front
<1>7. UploadIsCurrent'
  <2> SUFFICES ASSUME NEW p \in Parts, NEW b \in Front(p, pjob'[p].size), buf'[b].fly,
                      pjob'[p].pc \in {"add", "added"}
               PROVE  /\ pjob'[p].pc = "add" => mpu' \/ gone'
                      /\ pjob'[p].pc = "added" => mpu' /\ ~gone'
    BY DEF UploadIsCurrent, Front
  <2>1. pjob'[p] = pjob[p] /\ b \in Blocks /\ buf[b].fly
    BY <1>5
  <2> QED
    BY <2>1 DEF Sent, UploadIsCurrent
<1> QED
  BY <1>1, <1>3, <1>4, <1>6, <1>7 DEF Sent

(* While no part is under way only what is flushed matters. *)
LEMMA SentAlone ==
    ASSUME PartsBusy' = {}, FlushedIsUploaded'
    PROVE  Sent'
<1>1. \A p \in Parts : pjob'[p].pc = "none"
  BY DEF PartsBusy
<1> QED
  BY <1>1 DEF Sent, LoadCoversFlushed, FlushedIsSent, FlyIsSent, UploadIsCurrent

(* Nothing is left of a cache that was reset. *)
LEMMA SentReset ==
    ASSUME TypeInv, TypeInv', \A b \in Blocks : buf'[b] = Hole
    PROVE  Sent'
<1>1. \A b \in Blocks : buf'[b].s = "none" /\ ~buf'[b].fly
  BY DEF Hole
<1>2. \A p \in Parts : PartRange(p) \subseteq Blocks
  BY PartFacts DEF PartsDivide
<1>3. ASSUME NEW p \in Parts PROVE Front(p, pjob'[p].size) \subseteq Blocks
  <2>1. pjob'[p].size \in 0..PartBlocks
    BY DEF TypeInv, StateTypeOK, UploadTypeOK, PartJobs
  <2> QED
    BY <2>1, FrontInPart
<1>4. FlushedIsUploaded' /\ LoadCoversFlushed' /\ FlushedIsSent'
  BY <1>1, <1>2 DEF FlushedIsUploaded, LoadCoversFlushed, FlushedIsSent, PartRange
<1>5. FlyIsSent' /\ UploadIsCurrent'
  BY <1>1, <1>3 DEF FlyIsSent, UploadIsCurrent, Front
<1> QED
  BY <1>4, <1>5 DEF Sent

(* The application and its requests for data. *)
LEMMA SentApp ==
    ASSUME TypeInv, TypeInv', Sent, App \/ Data \/ \E b \in Blocks : LoadingStalls(b) \/ Evict(b)
    PROVE  Sent'
<1> USE DEF TypeInv
<1>1. pjob' = pjob
  BY DEF App, Data, WriteFile, Truncate, TruncateEnds, ReadFile, SyncFile, Release, ReadReturns, GetBlob,
     BodyArrives, GetFails, LoadingStalls, Evict
<1>2. ASSUME NEW b \in Blocks, WriteFile(b) PROVE Sent'
  <2>1. UNCHANGED <<mpu, gone, parts>>
    BY <1>2 DEF WriteFile, env
  <2>2. \A i \in Blocks : buf'[i] = buf[i] \/ (buf'[i].s = "dirty" /\ ~buf'[i].fly)
    BY <1>2 DEF WriteFile, Dirty
  <2> QED
    BY <1>1, <2>1, <2>2, SentKept
<1>3. CASE (\E n \in TruncateSizes : Truncate(n)) \/ TruncateEnds
  <2>1. UNCHANGED <<mpu, gone, parts>>
    BY <1>3 DEF Truncate, TruncateEnds, env
  <2>2. \A i \in Blocks : buf'[i] = buf[i] \/ (buf'[i].s \in {"dirty", "none"} /\ ~buf'[i].fly)
    BY <1>3 DEF Truncate, TruncateEnds, Resize, Dirty, Hole
  <2> QED
    BY <1>1, <2>1, <2>2, SentKept
<1>4. ASSUME NEW b \in Blocks,
             ReadFile(b) \/ GetBlob(b) \/ BodyArrives(b) \/ GetFails(b) \/ LoadingStalls(b) \/ Evict(b)
      PROVE  Sent'
  <2>1. UNCHANGED <<mpu, gone, parts>>
    BY <1>4 DEF ReadFile, GetBlob, BodyArrives, GetFails, LoadingStalls, Evict, local, env
  <2>2. \A i \in Blocks : buf'[i] = buf[i] \/ (buf'[i].s \in {"loading", "clean", "none"} /\ ~buf'[i].fly)
    <3>1. CASE ReadFile(b)
      BY <3>1, LoadRangeType DEF ReadFile, Loading
    <3>2. CASE ~ReadFile(b)
      BY <1>4, <3>2 DEF GetBlob, BodyArrives, GetFails, LoadingStalls, Evict, local, Clean, Hole,
         StateTypeOK, BuffersTypeOK
    <3> QED
      BY <3>1, <3>2
  <2> QED
    BY <1>1, <2>1, <2>2, SentKept
<1>5. CASE SyncFile \/ Release
  <2>1. UNCHANGED <<mpu, gone, parts, buf>>
    BY <1>5 DEF SyncFile, Release, local, env
  <2> QED
    BY <1>1, <2>1, SentKept
<1>6. CASE ReadReturns
  <2>1. CASE ResetCache
    BY <2>1, ResetCacheType, SentReset
  <2>2. CASE UNCHANGED <<buf, cacheState, mpu, gone, lost, parts, known, readError>>
    BY <1>1, <2>2, SentKept
  <2> QED
    BY <1>6, <2>1, <2>2 DEF ReadReturns
<1> QED
  BY <1>2, <1>3, <1>4, <1>5, <1>6 DEF App, Data

(* The flushes of the whole file, which run alone. *)
LEMMA SentJob ==
    ASSUME TypeInv, TypeInv', ShapeInv, Sent,
           \/ StartSmall \/ StartMultipart \/ StartComplete \/ CompleteBegins \/ CopyFails
           \/ CommitFails \/ CompleteAborts \/ PutBlob \/ MultipartBlobCommit
           \/ SmallBegins \/ SmallLoaded \/ PutReturns \/ PutFails
           \/ MultipartBegins \/ CommitReturns \/ CompleteRefused
           \/ \E p \in Parts : MultipartBlobCopy(p) \/ CopyConflict(p)
    PROVE  Sent'
<1> USE DEF TypeInv
<1>1. CASE \/ StartSmall \/ StartMultipart \/ StartComplete \/ CompleteBegins \/ CopyFails
           \/ CommitFails \/ CompleteAborts \/ PutBlob
  <2>1. UNCHANGED <<buf, mpu, parts, pjob>>
    BY <1>1 DEF StartSmall, StartMultipart, StartComplete, CompleteBegins, CopyFails, CommitFails,
       CompleteAborts, PutBlob, local
  <2>2. UNCHANGED gone
    BY <1>1 DEF StartSmall, StartMultipart, StartComplete, CompleteBegins, CopyFails, CommitFails,
       CompleteAborts, PutBlob, env
  <2> QED
    BY <2>1, <2>2, SentKept
<1>2. buf \in [Blocks -> Buffers] /\ job \in Jobs
  BY TypeFacts DEF StateTypeOK, BuffersTypeOK
<1>3. CASE SmallBegins \/ SmallLoaded \/ PutReturns \/ PutFails
  <2>1. job.pc \in {"small", "smallLoad", "put", "putDone"} /\ pjob' = pjob
    BY <1>3 DEF SmallBegins, SmallLoaded, PutReturns, PutFails
  <2>2. PartsBusy' = {} /\ ~mpu
    BY <2>1 DEF ShapeInv, JobAlone, NoUploadYet, PartsBusy
  <2>3. \A b \in Blocks : buf[b].s # "flushed"
    BY <2>2 DEF Sent, FlushedIsUploaded
  <2>4. ASSUME NEW n, SmallCapture(n) PROVE \A b \in Blocks : buf'[b].s = buf[b].s
    BY <1>2, <2>4, CaptureFacts DEF SmallCapture
  <2>5. \A b \in Blocks : buf'[b].s # "flushed"
    <3>1. CASE SmallBegins
      BY <2>3, <2>4, <3>1, LoadRangeType DEF SmallBegins, Loading
    <3>2. CASE SmallLoaded
      <4>1. CASE ResetCache
        BY <4>1, ResetCacheType DEF Hole
      <4> QED
        BY <2>3, <2>4, <3>2, <4>1 DEF SmallLoaded
    <3>3. CASE PutReturns
      BY <1>2, <2>3, <3>3, SetStateFacts DEF PutReturns
    <3>4. CASE PutFails
      BY <1>2, <2>3, <3>4, ForgetFacts DEF PutFails
    <3> QED
      BY <1>3, <3>1, <3>2, <3>3, <3>4
  <2> QED
    BY <2>2, <2>5, SentAlone DEF FlushedIsUploaded
<1>4. CASE MultipartBegins \/ CommitReturns \/ CompleteRefused \/ MultipartBlobCommit
  <2>1. job.pc \in {"begin", "committed", "copy", "commit"} /\ pjob' = pjob
    BY <1>4 DEF MultipartBegins, CommitReturns, CompleteRefused, MultipartBlobCommit
  <2>2. PartsBusy' = {}
    BY <2>1 DEF ShapeInv, JobAlone, PartsBusy
  <2>3. FlushedIsUploaded'
    <3>1. CASE MultipartBlobCommit
      BY <3>1 DEF MultipartBlobCommit, local, Sent, FlushedIsUploaded, partNum
    <3>2. CASE MultipartBegins
      <4>1. ~mpu /\ buf' = buf
        BY <3>2 DEF MultipartBegins, ShapeInv, NoUploadYet
      <4> QED
        BY <4>1 DEF Sent, FlushedIsUploaded
    <3>3. CASE CommitReturns
      BY <3>3 DEF CommitReturns, FlushedIsUploaded, Clean
    <3>4. CASE CompleteRefused
      BY <3>4 DEF CompleteRefused, ResetMultipart, FlushedIsUploaded, Dirty
    <3> QED
      BY <1>4, <3>1, <3>2, <3>3, <3>4
  <2> QED
    BY <2>2, <2>3, SentAlone
<1>5. ASSUME NEW p \in Parts, MultipartBlobCopy(p) PROVE Sent'
  <2>1. parts[p] = NoPart /\ UNCHANGED <<buf, mpu, gone, pjob>>
    BY <1>5 DEF MultipartBlobCopy, ShapeInv, TodoIsOpen, env
  <2>2. \A q \in Parts : q # p => parts'[q] = parts[q]
    BY <1>5 DEF MultipartBlobCopy, StateTypeOK, UploadTypeOK
  <2> QED
    BY <2>1, <2>2, SentKept
<1>6. ASSUME NEW p \in Parts, CopyConflict(p) PROVE Sent'
  BY <1>6, ResetCacheType, SentReset DEF CopyConflict
<1> QED
  BY <1>1, <1>3, <1>4, <1>5, <1>6

(* A step of one part that leaves the upload alone keeps what is said of the others; what is said
   of its own part depends on the step. *)
LEMMA SentPartKept ==
    ASSUME TypeInv, TypeInv', Sent, NEW p \in Parts, UNCHANGED <<mpu, gone, parts>>,
           \A q \in Parts : q # p => pjob'[q] = pjob[q],
           \A b \in Blocks : /\ buf'[b].s = "flushed" => buf[b].s = "flushed" /\ buf'[b].v = buf[b].v
                             /\ b \notin PartRange(p) /\ buf'[b].fly => buf[b].fly /\ buf'[b].v = buf[b].v,
           pjob'[p].pc \in {"load", "add", "added"} =>
               \A b \in PartRange(p) : buf[b].s = "flushed" => b - Off(p) <= pjob'[p].size,
           pjob'[p].pc \in {"add", "added"} =>
               /\ \A b \in PartRange(p) : buf'[b].s = "flushed" => PartMatches(p, b)'
               /\ \A b \in Front(p, pjob'[p].size) : buf'[b].fly =>
                     /\ PartMatches(p, b)'
                     /\ pjob'[p].pc = "add" => mpu \/ gone
                     /\ pjob'[p].pc = "added" => mpu /\ ~gone
    PROVE  Sent'
<1>1. \A q \in Parts : PartRange(q) \subseteq Blocks
  BY PartFacts DEF PartsDivide
<1>2. FlushedIsUploaded'
  <2> SUFFICES ASSUME NEW b \in Blocks, buf'[b].s = "flushed", NEW q, q = partNum(b - 1)
               PROVE  mpu' /\ parts'[q] # NoPart /\ parts'[q][b - (q - 1) * PartBlocks] = buf'[b].v
    BY DEF FlushedIsUploaded, partNum
  <2> QED
    BY DEF Sent, FlushedIsUploaded
<1>3. LoadCoversFlushed'
  <2> SUFFICES ASSUME NEW q \in Parts, pjob'[q].pc = "load", NEW b \in PartRange(q), buf'[b].s = "flushed"
               PROVE  b - Off(q) <= pjob'[q].size
    BY DEF LoadCoversFlushed, Off, PartRange
  <2> QED
    BY <1>1 DEF Sent, LoadCoversFlushed
<1>4. FlushedIsSent'
  <2> SUFFICES ASSUME NEW q \in Parts, pjob'[q].pc \in {"add", "added"}, NEW b \in PartRange(q),
                      buf'[b].s = "flushed"
               PROVE  PartMatches(q, b)'
    BY DEF FlushedIsSent, PartRange
  <2>1. CASE q # p
    BY <1>1, <2>1 DEF Sent, FlushedIsSent, PartMatches, Off
  <2> QED
    BY <2>1
<1>5. ASSUME NEW q \in Parts, q # p, NEW b \in Front(q, pjob[q].size), buf'[b].fly
      PROVE  buf[b].fly /\ buf'[b].v = buf[b].v
  <2>1. pjob[q].size \in 0..PartBlocks
    BY TypeFacts DEF TypeInv, PartJobs
  <2>2. b \in PartRange(q) /\ b \in Blocks
    BY <2>1, FrontInPart
  <2>3. b \notin PartRange(p)
    BY <1>5, <2>2, OnePart
  <2> QED
    BY <1>5, <2>2, <2>3
<1>6. FlyIsSent'
  <2> SUFFICES ASSUME NEW q \in Parts, pjob'[q].pc \in {"add", "added"},
                      NEW b \in Front(q, pjob'[q].size), buf'[b].fly
               PROVE  PartMatches(q, b)'
    BY DEF FlyIsSent, Front
  <2>1. CASE q # p
    BY <1>5, <2>1 DEF Sent, FlyIsSent, PartMatches, Off
  <2> QED
    BY <2>1
<1>7. UploadIsCurrent'
  <2> SUFFICES ASSUME NEW q \in Parts, NEW b \in Front(q, pjob'[q].size), buf'[b].fly
               PROVE  /\ pjob'[q].pc = "add" => mpu' \/ gone'
                      /\ pjob'[q].pc = "added" => mpu' /\ ~gone'
    BY DEF UploadIsCurrent, Front
  <2>1. CASE q # p
    BY <1>5, <2>1 DEF Sent, UploadIsCurrent
  <2> QED
    BY <2>1
<1> QED
  BY <1>2, <1>3, <1>4, <1>6, <1>7 DEF Sent

(* A part is captured with everything that was flushed of it before. *)
LEMMA SentCapture ==
    ASSUME TypeInv, TypeInv', Sent, NEW p \in Parts, NEW n \in 0..PartBlocks, PartCapture(p, n),
           \A b \in PartRange(p) : buf[b].s = "flushed" => b - Off(p) <= n,
           UNCHANGED <<mpu, gone, parts>>
    PROVE  Sent'
<1>1. \A q \in Parts : q # p => pjob'[q] = pjob[q]
  BY PartCaptureType
<1>2. CASE pjob'[p] = NoFlush /\ buf' = buf
  <2>1. \A q \in Parts : pjob'[q] = pjob[q] \/ pjob'[q].pc = "none"
    BY <1>1, <1>2 DEF NoFlush
  <2> QED
    BY <1>2, <2>1, SentKept
<1>3. CASE ~(pjob'[p] = NoFlush /\ buf' = buf)
  <2>1. /\ mpu
        /\ pjob'[p].pc = "add" /\ pjob'[p].size = n
        /\ \A i \in 1..n : pjob'[p].body[i] = buf[Off(p) + i].v
        /\ \A b \in Blocks :
             /\ buf'[b].s = buf[b].s /\ buf'[b].v = buf[b].v
             /\ buf'[b].fly <=> IF b \in Front(p, n) THEN Dirtied(b) ELSE buf[b].fly
    BY <1>3, PartCaptureType
  <2>2. /\ Front(p, n) = Off(p) + 1 .. Off(p) + n /\ Front(p, n) \subseteq PartRange(p)
        /\ Off(p) \in Nat /\ PartRange(p) = Off(p) + 1 .. Off(p) + PartBlocks
        /\ PartRange(p) \subseteq Blocks /\ PartBlocks \in Nat
    BY FrontInPart, PartFacts DEF PartsDivide
  <2>3. ASSUME NEW b \in PartRange(p), b - Off(p) <= n PROVE PartMatches(p, b)'
    <3>1. b - Off(p) \in 1..n /\ Off(p) + (b - Off(p)) = b
      BY <2>2, <2>3
    <3>2. pjob'[p].body[b - Off(p)] = buf'[b].v
      BY <2>1, <2>2, <3>1
    <3> QED
      BY <2>1, <2>3, <3>2 DEF PartMatches, Off
  <2>4. \A b \in Front(p, n) : b \in PartRange(p) /\ b - Off(p) <= n
    BY <2>2
  <2>5. \A b \in PartRange(p) : buf'[b].s = "flushed" => PartMatches(p, b)'
    BY <2>1, <2>2, <2>3
  <2>6. \A b \in Front(p, pjob'[p].size) : PartMatches(p, b)'
    BY <2>1, <2>3, <2>4
  <2>7. \A b \in Blocks : b \notin PartRange(p) /\ buf'[b].fly => buf[b].fly
    BY <2>1, <2>2
  <2> QED
    BY <1>1, <2>1, <2>5, <2>6, <2>7, SentPartKept
<1> QED
  BY <1>2, <1>3

(* Steps of flushPart. *)
LEMMA SentPart ==
    ASSUME TypeInv, TypeInv', Sent, NEW p \in Parts,
           \/ StartPart(p) \/ PartBegins(p) \/ PartLoaded(p) \/ MultipartBlobAdd(p) \/ PartReturns(p)
           \/ PartFails(p) \/ PartRefused(p)
    PROVE  Sent'
<1> USE DEF TypeInv
<1>1. /\ pjob \in [Parts -> PartJobs] /\ buf \in [Blocks -> Buffers] /\ NoFlush.pc = "none"
      /\ parts \in [Parts -> Contents \cup {NoPart}]
      /\ \A q \in Parts : pjob[q].size \in 0..PartBlocks
  BY DEF StateTypeOK, UploadTypeOK, BuffersTypeOK, NoFlush, PartJobs
<1>2. /\ Off(p) \in Nat /\ PartRange(p) = Off(p) + 1 .. Off(p) + PartBlocks
      /\ PartRange(p) \subseteq Blocks /\ PartBlocks \in Nat
  BY PartFacts DEF PartsDivide
<1>3. CASE StartPart(p)
  <2>1. UNCHANGED <<buf, mpu, gone, parts>> /\ pjob' = [pjob EXCEPT ![p] = [NoFlush EXCEPT !.pc = "start"]]
    BY <1>3 DEF StartPart, local, env
  <2>2. pjob'[p].pc = "start" /\ \A q \in Parts : q # p => pjob'[q] = pjob[q]
    BY <1>1, <2>1 DEF NoFlush
  <2> QED
    BY <2>1, <2>2, SentPartKept
<1>4. CASE PartBegins(p)
  <2>1. UNCHANGED <<mpu, gone, parts>>
    BY <1>4 DEF PartBegins, env
  <2>2. PartSize(p) \in 1..PartBlocks /\ (Off(p) + PartSize(p) = Size \/ PartSize(p) = PartBlocks)
    <3>1. Off(p) < Size
      BY <1>4 DEF PartBegins, BusyInFile, PartsBusy
    <3> QED
      BY <3>1, PartSizeFacts
  <2>3. \A b \in PartRange(p) : buf[b].s = "flushed" => b - Off(p) <= PartSize(p)
    BY <1>2, <2>2, TypeFacts DEF UncleanInFile, Unclean
  <2>4. CASE /\ LoadRange(Front(p, PartSize(p)))
             /\ pjob' = [pjob EXCEPT ![p] = [pjob[p] EXCEPT !.pc = "load", !.size = PartSize(p)]]
    <3>1. pjob'[p].pc = "load" /\ pjob'[p].size = PartSize(p) /\ \A q \in Parts : q # p => pjob'[q] = pjob[q]
      BY <1>1, <2>4 DEF PartJobs
    <3>2. \A b \in Blocks : buf'[b] = buf[b] \/ (buf'[b].s = "loading" /\ ~buf'[b].fly)
      BY <2>4, LoadRangeType DEF Loading
    <3> QED
      BY <2>1, <2>3, <3>1, <3>2, SentPartKept
  <2>5. CASE PartCapture(p, PartSize(p))
    BY <2>1, <2>2, <2>3, <2>5, SentCapture
  <2> QED
    BY <1>4, <2>4, <2>5 DEF PartBegins
<1>5. CASE PartLoaded(p)
  <2>1. CASE ResetCache
    BY <2>1, ResetCacheType, SentReset
  <2>2. CASE UNCHANGED <<buf, mpu, gone, parts>> /\ pjob' = [pjob EXCEPT ![p] = NoFlush]
    <3>1. \A q \in Parts : pjob'[q] = pjob[q] \/ pjob'[q].pc = "none"
      BY <1>1, <2>2
    <3> QED
      BY <2>2, <3>1, SentKept
  <2>3. CASE UNCHANGED <<mpu, gone, parts>> /\ PartCapture(p, pjob[p].size)
    <3>1. \A b \in PartRange(p) : buf[b].s = "flushed" => b - Off(p) <= pjob[p].size
      BY <1>5 DEF PartLoaded, Sent, LoadCoversFlushed
    <3> QED
      BY <1>1, <2>3, <3>1, SentCapture
  <2> QED
    BY <1>5, <2>1, <2>2, <2>3 DEF PartLoaded
<1>6. CASE MultipartBlobAdd(p)
  <2>1. /\ pjob[p].pc = "add" /\ ~gone /\ pjob' = [pjob EXCEPT ![p].pc = "added"]
        /\ UNCHANGED <<buf, mpu, gone, parts>>
    BY <1>6 DEF MultipartBlobAdd, local, env
  <2>2. /\ pjob'[p].pc = "added" /\ pjob'[p].size = pjob[p].size /\ pjob'[p].body = pjob[p].body
        /\ \A q \in Parts : q # p => pjob'[q] = pjob[q]
    BY <1>1, <2>1 DEF PartJobs
  <2>3. \A b \in PartRange(p) : buf[b].s = "flushed" => PartMatches(p, b)
    BY <2>1 DEF Sent, FlushedIsSent
  <2>4. \A b \in Front(p, pjob[p].size) : buf[b].fly => PartMatches(p, b) /\ mpu
    BY <2>1 DEF Sent, FlyIsSent, UploadIsCurrent
  <2>5. \A b : PartMatches(p, b)' <=> PartMatches(p, b)
    BY <2>1, <2>2 DEF PartMatches, Off
  <2>6. \A b \in PartRange(p) : buf[b].s = "flushed" => b - Off(p) <= pjob'[p].size
    BY <2>2, <2>3 DEF PartMatches
  <2> QED
    BY <2>1, <2>2, <2>3, <2>4, <2>5, <2>6, SentPartKept
<1>7. CASE PartFails(p)
  <2>1. /\ UNCHANGED <<mpu, gone, parts>> /\ buf' = Forget(buf, PartRange(p))
        /\ pjob' = [pjob EXCEPT ![p] = NoFlush]
    BY <1>7 DEF PartFails
  <2>2. \A q \in Parts : pjob'[q] = pjob[q] \/ pjob'[q].pc = "none"
    BY <1>1, <2>1
  <2> QED
    BY <1>1, <2>1, <2>2, ForgetFacts, SentKept
<1>8. CASE PartReturns(p)
  <2>1. /\ pjob[p].pc = "added" /\ UNCHANGED <<mpu, gone>>
        /\ buf' = SetState(buf, Front(p, pjob[p].size), "flushed")
        /\ pjob' = [pjob EXCEPT ![p] = NoFlush]
        /\ parts' = IF mpu THEN [parts EXCEPT ![p] = pjob[p].body] ELSE parts
    BY <1>8 DEF PartReturns, env
  <2>2. \A q \in Parts : (q # p => pjob'[q] = pjob[q]) /\ (pjob'[q] = pjob[q] \/ pjob'[q].pc = "none")
    BY <1>1, <2>1
  <2>3. Front(p, pjob[p].size) \subseteq PartRange(p)
    BY <1>1, FrontInPart
  <2>4. \A b \in Blocks : /\ buf'[b].v = buf[b].v
                          /\ b \notin PartRange(p) => buf'[b].s = buf[b].s
                          /\ buf'[b].s = "flushed" =>
                                buf[b].s = "flushed" \/ (b \in Front(p, pjob[p].size) /\ buf[b].fly)
                          /\ buf'[b].fly => buf[b].fly
                          /\ buf'[b].fly => b \notin Front(p, pjob[p].size)
    BY <1>1, <2>1, <2>3, SetStateFacts
  <2>5. FlushedIsUploaded'
    <3> SUFFICES ASSUME NEW b \in Blocks, buf'[b].s = "flushed", NEW q, q = partNum(b - 1)
                 PROVE  mpu' /\ parts'[q] # NoPart /\ parts'[q][b - Off(q)] = buf'[b].v
      BY DEF FlushedIsUploaded, partNum, Off
    <3>1. q \in Parts /\ b \in PartRange(q)
      BY PartFacts DEF PartsDivide
    <3>2. CASE q # p
      <4>1. b \notin PartRange(p)
        BY <3>1, <3>2, OnePart
      <4>2. buf[b].s = "flushed"
        BY <2>4, <4>1
      <4>3. mpu /\ parts[q] # NoPart /\ parts[q][b - Off(q)] = buf[b].v
        BY <4>2 DEF Sent, FlushedIsUploaded, Off
      <4> QED
        BY <1>1, <2>1, <2>4, <3>1, <3>2, <4>3
    <3>3. CASE q = p
      <4>1. mpu
        BY <2>1, <2>4 DEF Sent, FlushedIsUploaded, UploadIsCurrent
      <4>2. PartMatches(p, b)
        BY <2>1, <2>4, <3>1, <3>3 DEF Sent, FlushedIsSent, FlyIsSent
      <4>3. parts'[p] = pjob[p].body /\ pjob[p].body # NoPart
        <5>1. pjob[p].body \in Contents
          BY <1>1 DEF PartJobs
        <5>2. Contents \subseteq Seq(Int)
          BY BoundTypes DEF Contents, Stamps
        <5>3. pjob[p].body # NoPart
          BY <5>1, <5>2, Constants
        <5> QED
          BY <1>1, <2>1, <4>1, <5>3
      <4> QED
        BY <2>1, <2>4, <3>3, <4>1, <4>2, <4>3 DEF PartMatches
    <3> QED
      BY <3>2, <3>3
  <2>6. ASSUME NEW q \in Parts, q # p, NEW b \in PartRange(q)
        PROVE  /\ buf'[b].s = "flushed" => buf[b].s = "flushed"
               /\ buf'[b].fly => buf[b].fly
               /\ buf'[b].v = buf[b].v
    <3>1. b \in Blocks /\ b \notin PartRange(p)
      BY <2>6, OnePart, PartFacts DEF PartsDivide
    <3> QED
      BY <2>4, <3>1
  <2>7. \A q \in Parts : Front(q, pjob[q].size) \subseteq PartRange(q)
    BY <1>1, FrontInPart
  <2>8. pjob'[p].pc = "none" /\ \A q \in Parts : pjob'[q].pc # "none" => q # p /\ pjob'[q] = pjob[q]
    BY <1>1, <2>1
  <2>9. LoadCoversFlushed' /\ FlushedIsSent'
    BY <2>6, <2>8 DEF Sent, LoadCoversFlushed, FlushedIsSent, PartMatches, Off, PartRange
  <2>10. FlyIsSent' /\ UploadIsCurrent'
    BY <2>1, <2>6, <2>7, <2>8 DEF Sent, FlyIsSent, UploadIsCurrent, PartMatches, Off, Front
  <2> QED
    BY <2>5, <2>9, <2>10 DEF Sent
<1>9. CASE PartRefused(p)
  <2> DEFINE bs == Forget(buf, PartRange(p))
  <2>1. gone /\ gone' = gone /\ ResetMultipart(bs) /\ pjob' = [pjob EXCEPT ![p] = NoFlush]
    BY <1>9 DEF PartRefused, env
  <2>2. /\ bs \in [Blocks -> Buffers]
        /\ \A b \in Blocks : bs[b].s = buf[b].s /\ bs[b].v = buf[b].v /\ (bs[b].fly => buf[b].fly)
    BY <1>1, ForgetFacts
  <2> HIDE DEF bs
  <2>3. \A b \in Blocks : /\ buf'[b].s # "flushed" /\ buf'[b].v = buf[b].v
                          /\ buf'[b].fly => buf[b].fly
    <3>1. \A b \in Blocks : buf'[b] = IF bs[b].s = "flushed" THEN Dirty(bs[b].v) ELSE bs[b]
      BY <2>1, <2>2, ResetMultipartType
    <3>2. \A v : Dirty(v).s = "dirty" /\ Dirty(v).v = v /\ ~Dirty(v).fly
      BY DEF Dirty
    <3>3. SUFFICES ASSUME NEW b \in Blocks
                   PROVE  /\ buf'[b].s # "flushed" /\ buf'[b].v = buf[b].v
                          /\ buf'[b].fly => buf[b].fly
      OBVIOUS
    <3>4. CASE bs[b].s = "flushed"
      BY <2>2, <3>1, <3>2, <3>4
    <3>5. CASE bs[b].s # "flushed"
      BY <2>2, <3>1, <3>5
    <3> QED
      BY <3>4, <3>5
  <2>4. \A q \in Parts : pjob'[q] = pjob[q] \/ pjob'[q].pc = "none"
    BY <1>1, <2>1
  <2>5. \A q \in Parts : Front(q, pjob[q].size) \subseteq Blocks /\ PartRange(q) \subseteq Blocks
    BY <1>1, FrontInPart, PartFacts DEF PartsDivide
  <2>6. FlushedIsUploaded' /\ LoadCoversFlushed' /\ FlushedIsSent'
    BY <2>3, <2>5 DEF FlushedIsUploaded, LoadCoversFlushed, FlushedIsSent, PartRange
  <2>7. FlyIsSent'
    BY <2>3, <2>4, <2>5 DEF Sent, FlyIsSent, PartMatches, Off, Front
  <2>8. UploadIsCurrent'
    <3> SUFFICES ASSUME NEW q \in Parts, pjob'[q].pc \in {"add", "added"},
                        NEW b \in Front(q, pjob'[q].size), buf'[b].fly
                 PROVE  pjob'[q].pc = "add"
      BY <2>1 DEF UploadIsCurrent, Front
    <3> QED
      BY <2>1, <2>3, <2>4, <2>5 DEF Sent, UploadIsCurrent
  <2> QED
    BY <2>6, <2>7, <2>8 DEF Sent
<1> QED
  BY <1>3, <1>4, <1>5, <1>6, <1>7, <1>8, <1>9

(* Every step keeps it until an upload vanishes. *)
LEMMA SentStep == TypeInv /\ TypeInv' /\ ShapeInv /\ SentInv /\ [Next]_vars => SentInv'
<1> SUFFICES ASSUME TypeInv, TypeInv', ShapeInv, SentInv, [Next]_vars, vanished' = 0
             PROVE  Sent'
  BY DEF SentInv
<1>1. vanished' = vanished /\ ~UploadVanishes
  <2>1. ~UploadVanishes
    BY DEF UploadVanishes, TypeInv, StateTypeOK, CountersTypeOK
  <2>2. CASE App \/ Data \/ UNCHANGED vars \/ \E b \in Blocks : Evict(b)
    BY <2>1, <2>2 DEF App, Data, WriteFile, Truncate, TruncateEnds, ReadFile, SyncFile, Release,
       ReadReturns, GetBlob, BodyArrives, GetFails, Evict, env, vars
  <2>3. CASE Flush
    BY <2>1, <2>3 DEF Flush, StartSmall, SmallBegins, SmallLoaded, PutBlob, PutReturns, StartMultipart,
       MultipartBegins, StartPart, PartBegins, PartLoaded, MultipartBlobAdd, PartReturns, PartRefused,
       StartComplete, CompleteBegins, MultipartBlobCommit, CommitReturns, CompleteRefused,
       CompleteAborts, MultipartBlobCopy, CopyConflict, env
  <2>4. CASE Failure
    BY <2>1, <2>4 DEF Failure, PutFails, CopyFails, CommitFails, PartFails, LoadingStalls
  <2>5. CASE World
    BY <2>1, <2>5 DEF World, Refresh, RemoteWrite, env
  <2> QED
    BY <2>1, <2>2, <2>3, <2>4, <2>5 DEF Next
<1>2. Sent
  BY <1>1 DEF SentInv
<1>3. CASE UNCHANGED vars
  BY <1>2, <1>3, SentKept DEF vars
<1>4. CASE World
  <2>1. CASE Refresh
    BY <2>1, SentReset DEF Refresh
  <2>2. CASE \E n \in 0..NB : RemoteWrite(n)
    BY <1>2, <2>2, SentKept DEF RemoteWrite, local
  <2> QED
    BY <1>1, <1>4, <2>1, <2>2 DEF World
<1>5. CASE App \/ Data \/ \E b \in Blocks : Evict(b)
  BY <1>2, <1>5, SentApp
<1>6. CASE Flush
  BY <1>2, <1>6, SentJob, SentPart DEF Flush
<1>7. CASE Failure
  BY <1>2, <1>7, SentJob, SentPart, SentApp DEF Failure
<1> QED
  BY <1>3, <1>4, <1>5, <1>6, <1>7 DEF Next

(* Until an upload vanishes a block marked as flushed is in a part of the upload that will be
   completed, with the bytes of its buffer: parts that are uploaded again, refused or given up,
   and an upload that is aborted, leave none behind. *)
THEOREM FlushedBlocksAreUploaded == Spec => [](vanished = 0 => FlushedIsUploaded)
<1> DEFINE I == TypeInv /\ ShapeInv /\ SentInv
<1>1. Init => I
  BY TypeInit, ShapeInit, SentInit
<1>2. I /\ [Next]_vars => I'
  BY TypeStep, ShapeStep, SentStep
<1>3. I => (vanished = 0 => FlushedIsUploaded)
  BY DEF SentInv, Sent
<1> QED
  BY <1>1, <1>2, <1>3, PTL DEF Spec

-------------------------------------------------------------------------------
(* What is dirty is newest *)

(* Steps that write nothing. *)
LEMMA NewestKept ==
    ASSUME Newest, file' = file, FlyIsDirty,
           \A b \in Blocks : Unclean(b)' => (Unclean(b) \/ buf[b].fly) /\ buf'[b].v = buf[b].v
    PROVE  Newest'
  BY DEF Newest, FlyIsDirty, Unclean, Dirtied

(* A step of the application. *)
LEMMA NewestApp ==
    ASSUME TypeInv, Newest, App
    PROVE  Newest'
<1> USE DEF TypeInv
<1>0. file \in Contents /\ Size \in Nat /\ NB \in Nat /\ Size = Len(file) /\ Blocks = 1..NB
  BY TypeFacts DEF Size, Blocks
<1>1. ASSUME NEW b \in Blocks, WriteFile(b) PROVE Newest'
  <2>1. b \in 0..NB /\ b \in Nat
    BY <1>0
  <2>2. file' = [Longer(b) EXCEPT ![b] = writes + 1]
    BY <1>1 DEF WriteFile
  <2>3. /\ file'[b] = writes + 1
        /\ \A i \in 1..Size : i # b => file'[i] = file[i]
        /\ \A i \in Size+1..b : i # b => file'[i] = 0
    <3>1. /\ Longer(b) \in Contents /\ b \in 1..Len(Longer(b)) /\ Size <= Len(Longer(b))
          /\ \A i \in 1..Size : Longer(b)[i] = file[i]
          /\ \A i \in Size+1..b : Longer(b)[i] = 0
      BY <1>0, <2>1, LongerType
    <3> QED
      BY <1>0, <2>1, <2>2, <3>1 DEF Contents
  <2>4. ASSUME NEW i \in Blocks, Unclean(i)' PROVE buf'[i].v = file'[i]
    <3>1. CASE i = b
      BY <1>1, <2>3, <3>1 DEF WriteFile, Dirty
    <3>2. CASE i # b /\ i > Size /\ i < b
      <4>1. buf'[i].v = 0
        BY <1>1, <3>2 DEF WriteFile, Dirty
      <4> QED
        BY <1>0, <2>1, <2>3, <3>2, <4>1
    <3>3. CASE i # b /\ ~(i > Size /\ i < b)
      <4>1. buf'[i] = buf[i] \/ (buf[i].fly /\ buf'[i] = Dirty(buf[i].v))
        BY <1>1, <3>3 DEF WriteFile
      <4>2. Unclean(i) /\ buf'[i].v = buf[i].v
        BY <2>4, <4>1 DEF FlyIsDirty, Dirtied, Unclean, Dirty
      <4>3. i <= Size /\ buf[i].v = file[i]
        BY <4>2 DEF Newest, UncleanInFile
      <4> QED
        BY <1>0, <2>3, <3>3, <4>2, <4>3
    <3> QED
      BY <3>1, <3>2, <3>3
  <2> QED
    BY <2>4 DEF Newest
<1>2. ASSUME NEW n \in 0..NB, Resize(n) PROVE Newest'
  <2>1. SUFFICES ASSUME NEW i \in Blocks, Unclean(i)' PROVE buf'[i].v = file'[i]
    BY DEF Newest
  <2>2. n \in Nat /\ n <= NB
    BY <1>0
  <2>3. CASE i > Size /\ i <= n
    <3>1. buf'[i].v = 0 /\ file' = Longer(n)
      BY <1>0, <1>2, <2>2, <2>3 DEF Resize, Dirty
    <3> QED
      BY <1>0, <2>2, <2>3, <3>1, LongerType
  <2>4. CASE ~(i > Size /\ i <= n)
    <3>1. ~(i > n /\ i <= Size) /\ buf'[i] = buf[i]
      BY <1>0, <1>2, <2>1, <2>2, <2>4 DEF Resize, Unclean, Hole
    <3>2. i <= Size /\ buf[i].v = file[i]
      BY <2>1, <3>1 DEF Newest, UncleanInFile, Unclean
    <3>3. file'[i] = file[i]
      <4>1. CASE n < Size
        BY <1>0, <1>2, <2>2, <3>1, <3>2, <4>1 DEF Resize, Contents
      <4>2. CASE ~(n < Size)
        BY <1>0, <1>2, <2>2, <3>2, <4>2, LongerType DEF Resize
      <4> QED
        BY <4>1, <4>2
    <3> QED
      BY <3>1, <3>2, <3>3
  <2> QED
    BY <2>3, <2>4
<1>3. ASSUME NEW n \in TruncateSizes, Truncate(n) PROVE Newest'
  <2>1. CASE Resize(n)
    BY <1>2, <2>1, Constants
  <2>2. CASE UNCHANGED <<buf, file, cacheState>>
    BY <2>2, NewestKept DEF Unclean
  <2> QED
    BY <1>3, <2>1, <2>2 DEF Truncate
<1>4. CASE TruncateEnds
  <2>1. trunc \in 0..NB
    BY <1>4 DEF TruncateEnds, StateTypeOK, FileTypeOK
  <2>2. CASE file' = Longer(trunc) /\ buf' = buf
    BY <1>0, <2>1, <2>2, LongerType DEF Newest, Unclean, UncleanInFile
  <2> QED
    BY <1>2, <1>4, <2>1, <2>2 DEF TruncateEnds
<1>5. ASSUME NEW b \in Blocks, ReadFile(b) PROVE Newest'
  BY <1>5, LoadRangeType, NewestKept DEF ReadFile, Unclean, Loading
<1>6. CASE SyncFile \/ Release
  BY <1>6, NewestKept DEF SyncFile, Release, local, app, Unclean
<1>7. CASE ReadReturns
  <2>1. file' = file
    BY <1>7 DEF ReadReturns
  <2>2. CASE ResetCache
    BY <2>1, <2>2, ResetCacheType, NewestKept DEF Unclean, Hole
  <2>3. CASE buf' = buf
    BY <2>1, <2>3, NewestKept DEF Unclean
  <2> QED
    BY <1>7, <2>2, <2>3 DEF ReadReturns
<1> QED
  BY <1>1, <1>3, <1>4, <1>5, <1>6, <1>7 DEF App

(* Every step keeps it. *)
LEMMA NewestStep == TypeInv /\ Newest /\ [Next]_vars => Newest'
<1> SUFFICES ASSUME TypeInv, Newest, [Next]_vars PROVE Newest'
  OBVIOUS
<1> USE DEF TypeInv
<1>1. buf \in [Blocks -> Buffers]
  BY DEF StateTypeOK, BuffersTypeOK
<1>2. CASE UNCHANGED vars
  BY <1>2, NewestKept DEF vars, Unclean
<1>3. CASE World
  <2>1. CASE Refresh
    BY <2>1 DEF Refresh, Newest, Unclean, Hole
  <2>2. CASE UploadVanishes \/ \E n \in 0..NB : RemoteWrite(n)
    BY <2>2, NewestKept DEF UploadVanishes, RemoteWrite, local, app, Unclean
  <2> QED
    BY <1>3, <2>1, <2>2 DEF World
<1>4. ASSUME NEW b \in Blocks,
             GetBlob(b) \/ BodyArrives(b) \/ GetFails(b) \/ LoadingStalls(b) \/ Evict(b)
      PROVE  Newest'
  <2>1. file' = file
    BY <1>4 DEF GetBlob, BodyArrives, GetFails, LoadingStalls, Evict, app
  <2>2. \A i \in Blocks : buf'[i] = buf[i] \/ buf'[i].s \in {"clean", "none"}
    BY <1>1, <1>4 DEF GetBlob, BodyArrives, GetFails, LoadingStalls, Evict, local, Clean, Hole
  <2> QED
    BY <2>1, <2>2, NewestKept DEF Unclean
<1>5. CASE ResetCache /\ file' = file
  BY <1>5, ResetCacheType, NewestKept DEF Unclean, Hole
<1>6. ASSUME NEW S, buf' = Capture(buf, S), file' = file PROVE Newest'
  BY <1>1, <1>6, CaptureFacts, NewestKept DEF Unclean
<1>7. CASE buf' = buf /\ file' = file
  BY <1>7, NewestKept DEF Unclean
<1>8. ASSUME NEW S, LoadRange(S), file' = file PROVE Newest'
  BY <1>8, LoadRangeType, NewestKept DEF Unclean, Loading
<1>9. ASSUME NEW S, buf' = Forget(buf, S), file' = file PROVE Newest'
  BY <1>1, <1>9, ForgetFacts, NewestKept DEF Unclean
<1>10. ASSUME NEW S, NEW state \in {"clean", "flushed"}, buf' = SetState(buf, S, state), file' = file
       PROVE  Newest'
  BY <1>1, <1>10, SetStateFacts, NewestKept DEF Unclean
<1>11. ASSUME NEW bs \in [Blocks -> Buffers], ResetMultipart(bs), file' = file,
              \A b \in Blocks : bs[b].s = buf[b].s /\ bs[b].v = buf[b].v
       PROVE  Newest'
  <2>1. \A b \in Blocks : buf'[b] = IF bs[b].s = "flushed" THEN Dirty(bs[b].v) ELSE bs[b]
    BY <1>11, ResetMultipartType
  <2>2. \A v : Dirty(v).v = v
    BY DEF Dirty
  <2>3. \A b \in Blocks : buf'[b].v = buf[b].v
    BY <1>11, <2>1, <2>2
  <2>4. \A b \in Blocks : Unclean(b)' => Unclean(b)
    BY <1>11, <2>1 DEF Unclean
  <2> QED
    BY <1>11, <2>3, <2>4, NewestKept
<1>12. CASE Flush
  <2>1. file' = file
    BY <1>12 DEF Flush, StartSmall, SmallBegins, SmallLoaded, PutBlob, PutReturns, StartMultipart,
       MultipartBegins, StartPart, PartBegins, PartLoaded, MultipartBlobAdd, PartReturns, PartRefused,
       StartComplete, CompleteBegins, MultipartBlobCommit, CommitReturns, CompleteRefused,
       CompleteAborts, MultipartBlobCopy, CopyConflict, app
  <2>2. CASE StartSmall \/ PutBlob \/ StartMultipart \/ MultipartBegins \/ StartComplete
             \/ CompleteBegins \/ MultipartBlobCommit \/ CompleteAborts
             \/ \E p \in Parts : StartPart(p) \/ MultipartBlobAdd(p) \/ MultipartBlobCopy(p)
    <3>1. buf' = buf
      BY <2>2 DEF StartSmall, PutBlob, StartMultipart, MultipartBegins, StartPart, MultipartBlobAdd,
         StartComplete, CompleteBegins, MultipartBlobCommit, CompleteAborts, MultipartBlobCopy, local
    <3> QED
      BY <1>7, <2>1, <3>1
  <2>3. CASE SmallBegins
    BY <1>6, <1>7, <1>8, <2>1, <2>3 DEF SmallBegins, SmallCapture
  <2>4. CASE SmallLoaded
    BY <1>5, <1>6, <1>7, <2>1, <2>4 DEF SmallLoaded, SmallCapture
  <2>5. CASE PutReturns
    BY <1>10, <2>1, <2>5 DEF PutReturns
  <2>6. ASSUME NEW p \in Parts, PartBegins(p) \/ PartLoaded(p) PROVE Newest'
    BY <1>5, <1>6, <1>7, <1>8, <2>1, <2>6 DEF PartBegins, PartLoaded, PartCapture
  <2>7. ASSUME NEW p \in Parts, PartReturns(p) PROVE Newest'
    BY <1>10, <2>1, <2>7 DEF PartReturns
  <2>8. ASSUME NEW p \in Parts, PartRefused(p) PROVE Newest'
    <3>1. /\ Forget(buf, PartRange(p)) \in [Blocks -> Buffers]
          /\ \A b \in Blocks : /\ Forget(buf, PartRange(p))[b].s = buf[b].s
                               /\ Forget(buf, PartRange(p))[b].v = buf[b].v
      BY <1>1, ForgetFacts
    <3> QED
      BY <1>11, <2>1, <2>8, <3>1 DEF PartRefused
  <2>9. CASE CompleteRefused
    BY <1>1, <1>11, <2>1, <2>9 DEF CompleteRefused
  <2>10. CASE CommitReturns
    BY <2>1, <2>10, NewestKept DEF CommitReturns, Unclean, Clean
  <2>11. ASSUME NEW p \in Parts, CopyConflict(p) PROVE Newest'
    BY <1>5, <2>1, <2>11 DEF CopyConflict
  <2> QED
    BY <1>12, <2>2, <2>3, <2>4, <2>5, <2>6, <2>7, <2>8, <2>9, <2>10, <2>11 DEF Flush
<1>13. CASE Failure
  <2>1. CASE CopyFails \/ CommitFails
    BY <1>7, <2>1 DEF CopyFails, CommitFails, local, app
  <2>2. CASE PutFails \/ \E p \in Parts : PartFails(p)
    BY <1>9, <2>2 DEF PutFails, PartFails, app
  <2> QED
    BY <1>4, <1>13, <2>1, <2>2 DEF Failure
<1> QED
  BY <1>2, <1>3, <1>4, <1>12, <1>13, NewestApp DEF Next, Data

-------------------------------------------------------------------------------
(* Reads, flushes and the object, while the file only grows *)

(* The file begins with its first part, and no content is taken for a missing object or part. *)
LEMMA FirstPart ==
    /\ Off(1) = 0 /\ 1 \in Parts
    /\ NoObject \notin Contents /\ NoPart \notin Contents
<1>1. Contents \subseteq Seq(Int)
  BY BoundTypes DEF Contents, Stamps
<1>2. PartBlocks \in Nat /\ NP \in Nat \ {0}
  BY Constants
<1>3. Off(1) = 0 /\ 1 \in Parts
  BY <1>2 DEF Off, Parts
<1> QED
  BY <1>1, <1>3, Constants

(* The file is the object that was looked up, or is not stored yet. *)
LEMMA ToldInit == Init => ToldInv
<1> SUFFICES ASSUME Init PROVE Told
  BY DEF ToldInv
<1>1. file = [i \in 1..InitialBlocks |-> -1] /\ Size = InitialBlocks /\ InitialBlocks \in Nat
  BY Constants, PartFacts DEF Init, Size, PartsDivide
<1>2. /\ job.pc = "none" /\ ~mpu
      /\ \A b \in Blocks : buf[b].s = "none" /\ get[b].pc = "none"
      /\ \A p \in Parts : pjob[p].pc = "none"
  BY DEF Init, Idle, Hole, NoGet, NoFlush
<1>3. Size <= NB /\ NB \in Nat
  BY <1>1, Constants, PartFacts DEF PartsDivide
<1>4. InitialBlocks # 0 => store = file
  BY DEF Init
<1>5. BlocksHold
  <2> SUFFICES ASSUME NEW b \in 1..Size PROVE ~Unclean(b) /\ Stored(b) /\ buf[b].s # "clean"
    BY DEF BlocksHold
  <2>1. b \in Blocks /\ store = file /\ b <= Len(store)
    BY <1>1, <1>3, <1>4 DEF Blocks, Size
  <2>2. store # NoObject
    BY <2>1, TypeInit, FirstPart DEF TypeInv, StateTypeOK, FileTypeOK
  <2> QED
    BY <1>2, <2>1, <2>2 DEF Unclean, Stored
<1>6. StoreWithin
  BY <1>1, <1>4 DEF Init, StoreWithin, Size
<1>7. NeverStored
  BY TypeInit, FirstPart DEF Init, NeverStored, TypeInv, StateTypeOK, FileTypeOK
<1> QED
  BY <1>2, <1>5, <1>6, <1>7 DEF Told, GetsHold, LoadCovers, PutHolds, PartHolds, PartsHold, WantIsFile,
     WantIsParts, TodoIsAll, Completing

\* A step keeps what the buffers say of the file; nothing new is clean but the file's bytes.
BuffersKept ==
    \A b \in Blocks :
        /\ Unclean(b)' <=> Unclean(b)
        /\ Unclean(b) => buf'[b].v = buf[b].v
        /\ buf'[b].s = "clean" /\ b <= Size => buf'[b].v = file[b]
\* What is dirty stays so, and nothing is captured.
DirtyKept == \A b \in Blocks : (Dirtied(b) => Dirtied(b)') /\ (buf'[b].fly => buf[b].fly)

(* Reads stay right when buffers are kept, *)
LEMMA ReadsKept ==
    ASSUME TypeInv, BlocksHold, StoreWithin, ~lost, ~lost', remote = 0,
           UNCHANGED <<file, store>>, BuffersKept
    PROVE  BlocksHold' /\ StoreWithin'
<1>1. StoreWithin'
  BY DEF StoreWithin, Size
<1>2. 1..Size \subseteq Blocks
  BY TypeFacts DEF TypeInv, Blocks
<1>3. SUFFICES ASSUME NEW b \in 1..Size
               PROVE  IF Unclean(b)' THEN buf'[b].v = file[b]
                      ELSE Stored(b) /\ (buf'[b].s = "clean" => buf'[b].v = file[b])
  BY <1>1 DEF BlocksHold, Size, Stored
<1>4. b \in Blocks /\ b <= Size
  BY <1>2, TypeFacts DEF TypeInv
<1>5. CASE Unclean(b)
  BY <1>4, <1>5 DEF BuffersKept, BlocksHold
<1>6. CASE ~Unclean(b)
  <2>1. ~(remote > 0)
    OBVIOUS
  <2> QED
    BY <1>4, <1>6, <2>1 DEF BuffersKept, BlocksHold
<1> QED
  BY <1>5, <1>6

(* and so do the flushes under way, *)
LEMMA FlushesKept ==
    ASSUME TypeInv, LoadCovers, PutHolds, PartHolds, UNCHANGED <<file, store>>, DirtyKept,
           job' = job \/ job'.pc \notin {"smallLoad", "put", "putDone"},
           \A p \in Parts : pjob'[p] = pjob[p] \/ pjob'[p].pc \in {"none", "start"}
    PROVE  LoadCovers' /\ PutHolds' /\ PartHolds'
<1>1. /\ 1..Size \subseteq Blocks /\ Size' = Size /\ job \in Jobs /\ Size \in Nat
      /\ \A p \in Parts : PartRange(p) \subseteq Blocks
  <2>1. Size' = Size
    BY DEF Size
  <2>2. 1..Size \subseteq Blocks /\ job \in Jobs /\ Size \in Nat
    BY TypeFacts DEF TypeInv, Blocks
  <2> QED
    BY <2>1, <2>2, PartFacts DEF PartsDivide
<1>2. \A b \in 1..Size : (Dirtied(b) => Dirtied(b)') /\ (buf'[b].fly => buf[b].fly)
  BY <1>1 DEF DirtyKept
<1>3. LoadCovers'
  <2>1. job'.pc = "smallLoad" => job'.size <= Size /\ \A b \in job'.size+1..Size : Dirtied(b)'
    <3> SUFFICES ASSUME job'.pc = "smallLoad"
                 PROVE  job'.size <= Size /\ \A b \in job'.size+1..Size : Dirtied(b)'
      OBVIOUS
    <3>1. job' = job /\ job.size \in Nat
      BY <1>1 DEF Jobs
    <3>2. job.size <= Size /\ \A b \in job.size+1..Size : Dirtied(b)
      BY <3>1 DEF LoadCovers
    <3>3. \A b \in job.size+1..Size : b \in 1..Size
      BY <1>1, <3>1
    <3> QED
      BY <1>2, <3>1, <3>2, <3>3
  <2>2. ASSUME NEW p \in Parts, pjob'[p].pc = "load"
        PROVE  /\ pjob'[p].size > 0 /\ Off(p) + pjob'[p].size <= Size
               /\ \A b \in PartRange(p) : b > Off(p) + pjob'[p].size /\ b <= Size => Dirtied(b)'
    <3>1. pjob'[p] = pjob[p]
      BY <2>2
    <3>2. /\ pjob[p].size > 0 /\ Off(p) + pjob[p].size <= Size
          /\ \A b \in PartRange(p) : b > Off(p) + pjob[p].size /\ b <= Size => Dirtied(b)
      BY <2>2, <3>1 DEF LoadCovers
    <3> QED
      BY <1>1, <3>1, <3>2 DEF DirtyKept
  <2> QED
    BY <1>1, <2>1, <2>2 DEF LoadCovers, Off, PartRange
<1>4. PutHolds'
  BY <1>1, <1>2 DEF PutHolds, Holds, Off
<1>5. PartHolds'
  <2> SUFFICES ASSUME NEW p \in Parts, pjob'[p].pc \in {"add", "added"}
               PROVE  /\ pjob'[p].size > 0 /\ Off(p) + pjob'[p].size <= Size
                      /\ \A b \in PartRange(p) :
                            b <= Size /\ (~Dirtied(b)' \/ (buf'[b].fly /\ b <= Off(p) + pjob'[p].size))
                              => Holds(pjob'[p].body, p, b)
    BY <1>1 DEF PartHolds, Holds, Off, PartRange
  <2>1. pjob'[p] = pjob[p]
    OBVIOUS
  <2> QED
    BY <1>1, <2>1 DEF PartHolds, DirtyKept
<1> QED
  BY <1>3, <1>4, <1>5

(* and with them everything else. *)
LEMMA ToldKept ==
    ASSUME TypeInv, Told, ~lost, ~lost', remote = 0, UNCHANGED <<file, store, parts>>, BuffersKept, DirtyKept,
           \/ job' = job /\ mpu' = mpu
           \/ job'.pc \in {"none", "small", "begin"} /\ (mpu' => mpu),
           \A p \in Parts : pjob'[p] = pjob[p] \/ pjob'[p].pc \in {"none", "start"},
           \A b \in Blocks : \/ get'[b] = get[b] \/ get'[b].pc = "none"
                             \/ get'[b].old
                             \/ b <= Size /\ (get'[b].pc = "body" /\ ~Unclean(b) => get'[b].v = file[b]),
           cacheState = "created" => cacheState' = "created" \/ store # NoObject
    PROVE  Told'
<1>1. Size' = Size /\ 1..Size \subseteq Blocks /\ \A p \in Parts : PartRange(p) \subseteq Blocks
  <2>1. Size' = Size
    BY DEF Size
  <2>2. 1..Size \subseteq Blocks
    BY TypeFacts DEF TypeInv, Blocks
  <2> QED
    BY <2>1, <2>2, PartFacts DEF PartsDivide
<1>2. BlocksHold' /\ StoreWithin'
  BY ReadsKept DEF Told
<1>3. LoadCovers' /\ PutHolds' /\ PartHolds'
  <2>1. job' = job \/ job'.pc \notin {"smallLoad", "put", "putDone"}
    OBVIOUS
  <2> QED
    BY <2>1, FlushesKept DEF Told
<1>4. GetsHold'
  BY <1>1 DEF Told, GetsHold, BuffersKept
<1>5. NeverStored'
  BY DEF Told, NeverStored
<1>6. PartsHold'
  BY <1>1 DEF Told, PartsHold, DirtyKept, Holds, Off, PartRange
<1>7. WantIsFile' /\ WantIsParts' /\ TodoIsAll'
  <2>1. CASE job' = job /\ mpu' = mpu
    <3>1. \A b \in 1..Size : Dirtied(b) => Dirtied(b)'
      BY <1>1 DEF DirtyKept
    <3>2. WantIsFile'
      BY <1>1, <2>1, <3>1 DEF Told, WantIsFile, Completing, Holds, Off
    <3>3. WantIsParts' /\ TodoIsAll'
      BY <2>1 DEF Told, WantIsParts, TodoIsAll, Completing, Off, PartRange, NumParts
    <3> QED
      BY <3>2, <3>3
  <2>2. CASE job'.pc \in {"none", "small", "begin"}
    BY <2>2 DEF WantIsFile, WantIsParts, TodoIsAll, Completing
  <2> QED
    BY <2>1, <2>2
<1> QED
  BY <1>2, <1>3, <1>4, <1>5, <1>6, <1>7 DEF Told

(* The attributes are read again: the file is the object, and nothing is under way. *)
LEMMA ToldRefresh ==
    ASSUME TypeInv, TypeInv', ShapeInv, Refresh
    PROVE  Told'
<1>1. /\ cacheState = "cached" /\ store # NoObject /\ file' = store /\ ~lost'
      /\ UNCHANGED <<mpu, parts, job, pjob, store, cacheState>> /\ Overtake(Blocks)
      /\ buf' = [b \in Blocks |-> Hole]
  BY DEF Refresh, env
<1>2. /\ job.pc = "none" /\ PartsBusy = {} /\ (mpu => \A p \in Parts : parts[p] = NoPart)
  BY <1>1, FlushCounts DEF TypeInv, ShapeInv, CachedIsEmpty, Refresh
<1>21. \A b \in Blocks : get'[b].pc # "none" => get'[b].old
  <2>1. get \in [Blocks -> Gets]
    BY DEF TypeInv, StateTypeOK, BuffersTypeOK
  <2> QED
    BY <1>1, <2>1, OvertakeFacts
<1>3. \A p \in Parts : pjob[p].pc = "none"
  BY <1>2 DEF PartsBusy
<1>4. \A b \in Blocks : buf'[b].s = "none"
  BY <1>1 DEF Hole
<1>5. BlocksHold' /\ StoreWithin'
  <2>1. Size' = Len(store) /\ 1..Size' \subseteq Blocks /\ Len(store) \in Nat
    <3>1. Size' \in 0..NB /\ NB \in Nat
      BY PartFacts DEF TypeInv, StateTypeOK, FileTypeOK, Size, Contents, PartsDivide
    <3> QED
      BY <1>1, <3>1 DEF Size, Blocks
  <2>2. ASSUME NEW b \in 1..Len(store) PROVE Stored(b)' /\ ~Unclean(b)' /\ buf'[b].s # "clean"
    BY <1>1, <1>4, <2>1, <2>2 DEF Stored, Unclean
  <2> QED
    BY <1>1, <2>1, <2>2 DEF BlocksHold, StoreWithin
<1>6. GetsHold' /\ LoadCovers' /\ PutHolds' /\ PartHolds'
  BY <1>1, <1>2, <1>21, <1>3 DEF GetsHold, LoadCovers, PutHolds, PartHolds
<1>7. PartsHold' /\ WantIsFile' /\ WantIsParts' /\ TodoIsAll' /\ NeverStored'
  BY <1>1, <1>2 DEF PartsHold, WantIsFile, WantIsParts, TodoIsAll, NeverStored, Completing
<1> QED
  BY <1>5, <1>6, <1>7 DEF Told

(* A write makes its blocks dirty, and no flush under way takes them for its own. *)
LEMMA ToldWrite ==
    ASSUME TypeInv, TypeInv', Newest', Told, ~lost, NEW b \in Blocks, WriteFile(b)
    PROVE  Told'
<1>1. UNCHANGED <<mpu, parts, lost, job, pjob, get, store, remote>>
  BY DEF WriteFile, env
<1>2. b \in Nat /\ b \in 1..NB /\ NB \in Nat /\ Size \in Nat /\ Size <= NB /\ file \in Contents /\ Len(file) = Size
  BY TypeFacts DEF TypeInv, Blocks, Size
<1>3. /\ Size' = IF b > Size THEN b ELSE Size
      /\ \A i \in 1..Size : i # b => file'[i] = file[i]
  <2>1. file' = [Longer(b) EXCEPT ![b] = writes + 1]
    BY DEF WriteFile
  <2>2. /\ Longer(b) \in Contents /\ Len(Longer(b)) = IF b > Size THEN b ELSE Size
        /\ \A i \in 1..Size : Longer(b)[i] = file[i]
    BY <1>2, LongerType DEF TypeInv
  <2> QED
    BY <1>2, <2>1, <2>2 DEF Contents, Size
<1>4. Size' \in Nat /\ Size <= Size' /\ Size' <= NB
  BY <1>2, <1>3
<1>5. ASSUME NEW i \in 1..Size'
      PROVE  \/ Dirtied(i)' /\ ~buf'[i].fly
             \/ i <= Size /\ buf'[i] = buf[i] /\ file'[i] = file[i] /\ i \in 1..Size
  <2>1. i \in Blocks
    BY <1>2, <1>4 DEF Blocks
  <2>2. CASE i = b \/ i > Size
    <3>1. i = b \/ (i > Size /\ i < b)
      BY <1>2, <1>3, <2>2
    <3> QED
      BY <2>1, <3>1 DEF WriteFile, Dirtied, Dirty
  <2>3. CASE i # b /\ ~(i > Size)
    <3>1. buf'[i] = buf[i] \/ buf'[i] = Dirty(buf[i].v)
      BY <2>1, <2>3 DEF WriteFile
    <3> QED
      BY <1>2, <1>3, <1>4, <2>3, <3>1 DEF Dirtied, Dirty
  <2> QED
    BY <2>2, <2>3
<1>6. \A p \in Parts : PartRange(p) \subseteq Blocks /\ Off(p) \in Nat
  BY PartFacts DEF PartsDivide
<1>7. \A i \in Blocks : i <= Size' => i \in 1..Size'
  BY <1>4 DEF Blocks
<1>8. BlocksHold' /\ StoreWithin'
  <2>1. ASSUME NEW i \in 1..Size'
        PROVE  IF Unclean(i)' THEN buf'[i].v = file'[i]
               ELSE lost' \/ remote' > 0 \/ (Stored(i)' /\ (buf'[i].s = "clean" => buf'[i].v = file'[i]))
    <3>1. i \in Blocks
      BY <1>2, <1>4 DEF Blocks
    <3>2. CASE Unclean(i)'
      BY <3>1, <3>2 DEF Newest
    <3>3. CASE ~Unclean(i)'
      <4>1. i \in 1..Size /\ buf'[i] = buf[i] /\ file'[i] = file[i]
        BY <1>5, <3>3 DEF Unclean, Dirtied
      <4> QED
        BY <1>1, <3>3, <4>1 DEF Told, BlocksHold, Unclean, Stored
    <3> QED
      BY <3>2, <3>3
  <2>2. StoreWithin'
    <3>1. store # NoObject => Len(store) \in Nat /\ Len(store) <= Size
      BY DEF Told, StoreWithin, TypeInv, StateTypeOK, UploadTypeOK, Contents
    <3> QED
      BY <1>1, <1>2, <1>4, <3>1 DEF StoreWithin
  <2> QED
    BY <2>1, <2>2 DEF BlocksHold
<1>9. GetsHold'
  <2> SUFFICES ASSUME NEW i \in Blocks, get[i].pc # "none", ~get[i].old
               PROVE  i <= Size' /\ (get[i].pc = "body" /\ ~Unclean(i)' => get[i].v = file'[i])
    BY <1>1 DEF GetsHold
  <2>1. i <= Size /\ (get[i].pc = "body" /\ ~Unclean(i) => get[i].v = file[i])
    BY DEF Told, GetsHold
  <2>2. i \in 1..Size' /\ i <= Size'
    BY <1>2, <1>4, <2>1 DEF Blocks
  <2>3. CASE Dirtied(i)'
    BY <2>2, <2>3 DEF Dirtied, Unclean
  <2>4. CASE buf'[i] = buf[i] /\ file'[i] = file[i]
    BY <2>1, <2>2, <2>4 DEF Unclean
  <2> QED
    BY <1>5, <2>2, <2>3, <2>4
<1>10. job \in Jobs /\ job.size \in Nat /\ job.want \in Contents /\ \A p \in Parts : pjob[p].size \in Nat
  BY TypeFacts, Constants DEF TypeInv, Jobs, PartJobs
<1>11. LoadCovers'
  <2>1. job.pc = "smallLoad" => job.size <= Size' /\ \A i \in job.size+1..Size' : Dirtied(i)'
    <3> SUFFICES ASSUME job.pc = "smallLoad", NEW i \in job.size+1..Size' PROVE job.size <= Size /\ Dirtied(i)'
      BY <1>2, <1>4, <1>10 DEF Told, LoadCovers
    <3>1. job.size <= Size /\ (i <= Size => Dirtied(i)) /\ i \in 1..Size'
      BY <1>2, <1>4, <1>10 DEF Told, LoadCovers
    <3> QED
      BY <1>5, <3>1 DEF Dirtied
  <2>2. ASSUME NEW p \in Parts, pjob[p].pc = "load"
        PROVE  /\ pjob[p].size > 0 /\ Off(p) + pjob[p].size <= Size'
               /\ \A i \in PartRange(p) : i > Off(p) + pjob[p].size /\ i <= Size' => Dirtied(i)'
    <3>1. /\ pjob[p].size > 0 /\ Off(p) + pjob[p].size <= Size
          /\ \A i \in PartRange(p) : i > Off(p) + pjob[p].size /\ i <= Size => Dirtied(i)
      BY <2>2 DEF Told, LoadCovers
    <3>2. Off(p) + pjob[p].size <= Size'
      BY <1>2, <1>4, <1>6, <1>10, <3>1
    <3>3. ASSUME NEW i \in PartRange(p), i > Off(p) + pjob[p].size, i <= Size' PROVE Dirtied(i)'
      <4>1. i \in 1..Size'
        BY <1>6, <1>7, <3>3
      <4> QED
        BY <1>5, <3>1, <3>3, <4>1 DEF Dirtied
    <3> QED
      BY <3>1, <3>2, <3>3
  <2> QED
    BY <1>1, <2>1, <2>2 DEF LoadCovers, Off, PartRange
<1>12. PutHolds'
  <2> SUFFICES ASSUME job.pc \in {"put", "putDone"}
               PROVE  /\ job.size <= Size'
                      /\ \A i \in 1..Size' : ~Dirtied(i)' \/ (buf'[i].fly /\ i <= job.size)
                                              => Holds(job.body, 1, i)'
                      /\ job.pc = "putDone" => store = job.body
    BY <1>1 DEF PutHolds, Holds, Off
  <2>1. job.size <= Size /\ (job.pc = "putDone" => store = job.body)
    BY DEF Told, PutHolds
  <2>2. ASSUME NEW i \in 1..Size', ~Dirtied(i)' \/ (buf'[i].fly /\ i <= job.size) PROVE Holds(job.body, 1, i)'
    <3>1. i \in 1..Size /\ buf'[i] = buf[i] /\ file'[i] = file[i]
      BY <1>5, <2>2
    <3>2. Holds(job.body, 1, i)
      BY <2>2, <3>1 DEF Told, PutHolds, Dirtied
    <3> QED
      BY <1>1, <3>1, <3>2 DEF Holds, Off
  <2> QED
    BY <1>2, <1>4, <1>10, <2>1, <2>2
<1>13. PartHolds'
  <2> SUFFICES ASSUME NEW p \in Parts, pjob[p].pc \in {"add", "added"}
               PROVE  /\ pjob[p].size > 0 /\ Off(p) + pjob[p].size <= Size'
                      /\ \A i \in PartRange(p) :
                            i <= Size' /\ (~Dirtied(i)' \/ (buf'[i].fly /\ i <= Off(p) + pjob[p].size))
                              => Holds(pjob[p].body, p, i)'
    BY <1>1 DEF PartHolds, Holds, Off, PartRange
  <2>1. pjob[p].size > 0 /\ Off(p) + pjob[p].size <= Size
    BY DEF Told, PartHolds
  <2>2. ASSUME NEW i \in PartRange(p), i <= Size',
               ~Dirtied(i)' \/ (buf'[i].fly /\ i <= Off(p) + pjob[p].size)
        PROVE  Holds(pjob[p].body, p, i)'
    <3>1. i <= Size /\ buf'[i] = buf[i] /\ file'[i] = file[i]
      BY <1>5, <1>6, <1>7, <2>2
    <3>2. Holds(pjob[p].body, p, i)
      BY <2>2, <3>1 DEF Told, PartHolds, Dirtied
    <3> QED
      BY <1>1, <3>1, <3>2 DEF Holds, Off
  <2> QED
    BY <1>2, <1>4, <1>6, <1>10, <2>1, <2>2
<1>14. PartsHold'
  <2> SUFFICES ASSUME mpu, NEW p \in Parts, parts[p] # NoPart
               PROVE  /\ Len(parts[p]) > 0 /\ Off(p) + Len(parts[p]) <= Size'
                      /\ \A i \in PartRange(p) : i <= Size' /\ ~Dirtied(i)' => Holds(parts[p], p, i)'
    BY <1>1 DEF PartsHold, Holds, Off, PartRange
  <2>1. Len(parts[p]) > 0 /\ Off(p) + Len(parts[p]) <= Size /\ Len(parts[p]) \in Nat
    BY DEF Told, PartsHold, TypeInv, StateTypeOK, UploadTypeOK, Contents
  <2>2. ASSUME NEW i \in PartRange(p), i <= Size', ~Dirtied(i)' PROVE Holds(parts[p], p, i)'
    <3>1. i <= Size /\ buf'[i] = buf[i] /\ file'[i] = file[i]
      BY <1>5, <1>6, <1>7, <2>2
    <3>2. Holds(parts[p], p, i)
      BY <2>2, <3>1 DEF Told, PartsHold, Dirtied
    <3> QED
      BY <1>1, <3>1, <3>2 DEF Holds, Off
  <2> QED
    BY <1>2, <1>4, <1>6, <2>1, <2>2
<1>15. WantIsFile'
  <2> SUFFICES ASSUME Completing
               PROVE  /\ mpu /\ Len(job.want) <= Size'
                      /\ \A i \in 1..Size' : ~Dirtied(i)' => Holds(job.want, 1, i)'
                      /\ store # NoObject => Len(store) <= Len(job.want)
                      /\ job.pc # "complete" => Len(job.want) <= job.size /\ job.size <= Size'
                      /\ job.pc = "committed" => store = job.want
    BY <1>1 DEF WantIsFile, Completing, Holds, Off
  <2>1. /\ mpu /\ Len(job.want) <= Size /\ Len(job.want) \in Nat
        /\ store # NoObject => Len(store) <= Len(job.want)
        /\ job.pc # "complete" => Len(job.want) <= job.size /\ job.size <= Size
        /\ job.pc = "committed" => store = job.want
    BY <1>10 DEF Told, WantIsFile, Contents
  <2>2. ASSUME NEW i \in 1..Size', ~Dirtied(i)' PROVE Holds(job.want, 1, i)'
    <3>1. i \in 1..Size /\ buf'[i] = buf[i] /\ file'[i] = file[i]
      BY <1>5, <2>2
    <3>2. Holds(job.want, 1, i)
      BY <2>2, <3>1 DEF Told, WantIsFile, Dirtied
    <3> QED
      BY <1>1, <3>1, <3>2 DEF Holds, Off
  <2> QED
    BY <1>2, <1>4, <1>10, <2>1, <2>2
<1>16. WantIsParts' /\ TodoIsAll'
  BY <1>1 DEF Told, WantIsParts, TodoIsAll, Completing, Off, PartRange, NumParts
<1>17. NeverStored'
  BY <1>1 DEF Told, NeverStored, WriteFile, Modified
<1> QED
  BY <1>8, <1>9, <1>11, <1>12, <1>13, <1>14, <1>15, <1>16, <1>17 DEF Told

(* What is not dirty or flushed is the object's, and a clean buffer has it. *)
LEMMA CleanIsFile ==
    ASSUME TypeInv, Told, ~lost, remote = 0, NEW b \in Blocks, b <= Size
    PROVE  /\ Unclean(b) => buf[b].v = file[b]
           /\ ~Unclean(b) => Stored(b)
           /\ buf[b].s = "clean" => buf[b].v = file[b]
<1>1. b \in 1..Size /\ ~(remote > 0)
  BY TypeFacts DEF TypeInv, Blocks
<1> QED
  BY <1>1 DEF Told, BlocksHold, Unclean

(* A step that changes no buffer keeps them all. *)
LEMMA SameBuffers ==
    ASSUME TypeInv, Told, ~lost, remote = 0, buf' = buf
    PROVE  BuffersKept /\ DirtyKept
<1>1. \A b \in Blocks : buf[b].s = "clean" /\ b <= Size => buf[b].v = file[b]
  BY CleanIsFile
<1> QED
  BY <1>1 DEF BuffersKept, DirtyKept, Unclean, Dirtied

(* Placeholders for what is missing change nothing that is known. *)
LEMMA LoadKept ==
    ASSUME TypeInv, Told, ~lost, remote = 0, NEW S, LoadRange(S), \A b \in S : b <= Size
    PROVE  /\ BuffersKept /\ DirtyKept
           /\ \A b \in Blocks : \/ get'[b] = get[b] \/ get'[b].pc = "none"
                                \/ get'[b].old
                                \/ b <= Size /\ (get'[b].pc = "body" /\ ~Unclean(b) => get'[b].v = file[b])
<1>1. \A b \in Blocks : buf[b].s = "clean" /\ b <= Size => buf[b].v = file[b]
  BY CleanIsFile
<1>2. \A b \in Blocks :
         \/ buf'[b] = buf[b] /\ get'[b] = get[b]
         \/ b \in S /\ buf[b].s = "none" /\ buf'[b] = Loading /\ get'[b].pc = "sent"
  BY LoadRangeType DEF TypeInv
<1>3. BuffersKept
  BY <1>1, <1>2 DEF BuffersKept, Unclean, Loading
<1>4. DirtyKept
  BY <1>2 DEF DirtyKept, Dirtied, Loading
<1> QED
  BY <1>2, <1>3, <1>4

(* Reads and the answers of their requests. *)
LEMMA ToldRead ==
    ASSUME TypeInv, Told, ~lost, ~lost', ~late', remote = 0,
           \/ \E b \in Blocks : ReadFile(b) \/ GetBlob(b) \/ BodyArrives(b) \/ GetFails(b)
                                \/ LoadingStalls(b) \/ Evict(b)
           \/ SyncFile \/ Release \/ ReadReturns
    PROVE  Told'
<1>1. ASSUME NEW b \in Blocks, ReadFile(b) PROVE Told'
  <2>1. UNCHANGED <<file, store, parts, job, mpu, pjob, cacheState>> /\ LoadRange({b}) /\ b <= Size
    BY <1>1 DEF ReadFile, env
  <2> QED
    BY <2>1, LoadKept, ToldKept
<1>2. ASSUME NEW b \in Blocks, GetBlob(b) PROVE Told'
  <2>1. UNCHANGED <<file, store, parts, job, mpu, pjob, cacheState, buf>>
    BY <1>2 DEF GetBlob, local, app, env
  <2>2. /\ get[b].pc = "sent" /\ get'[b].v = store[b]
        /\ \A i \in Blocks : i # b => get'[i] = get[i]
    BY <1>2 DEF GetBlob, TypeInv, StateTypeOK, BuffersTypeOK, Gets
  <2>21. get'[b].old <=> get[b].old
    <3>1. get[b] \in Gets /\ get'[b] = [get[b] EXCEPT !.pc = "body", !.v = store[b]]
      BY <1>2 DEF GetBlob, TypeInv, StateTypeOK, BuffersTypeOK
    <3> QED
      BY <3>1, Zenon DEF Gets
  <2>3. b <= Size \/ get[b].old
    BY <2>2 DEF Told, GetsHold
  <2>4. ~Unclean(b) /\ b <= Size => get'[b].v = file[b]
    BY <2>2, CleanIsFile DEF Stored
  <2> QED
    BY <2>1, <2>2, <2>21, <2>3, <2>4, SameBuffers, ToldKept
<1>3. ASSUME NEW b \in Blocks, BodyArrives(b) \/ GetFails(b) \/ LoadingStalls(b) \/ Evict(b) PROVE Told'
  <2>1. UNCHANGED <<file, store, parts, job, mpu, pjob, cacheState>>
    BY <1>3 DEF BodyArrives, GetFails, LoadingStalls, Evict, app, env
  <2>2. \A i \in Blocks : get'[i] = get[i] \/ get'[i].pc = "none"
    BY <1>3 DEF BodyArrives, GetFails, LoadingStalls, Evict, TypeInv, StateTypeOK, BuffersTypeOK, NoGet
  <2>3. \A i \in Blocks : \/ buf'[i] = buf[i]
                          \/ i = b /\ ~Unclean(b) /\ buf'[b] = Hole
                          \/ i = b /\ ~Unclean(b) /\ get[b].pc = "body" /\ ~get[b].old
                             /\ buf'[b] = Clean(get[b].v)
    BY <1>3 DEF BodyArrives, GetFails, LoadingStalls, Evict, TypeInv, StateTypeOK, BuffersTypeOK, Unclean
  <2>4. get[b].pc = "body" /\ ~get[b].old /\ ~Unclean(b) => get[b].v = file[b]
    BY DEF Told, GetsHold
  <2>5. \A i \in Blocks : buf[i].s = "clean" /\ i <= Size => buf[i].v = file[i]
    BY CleanIsFile
  <2>6. /\ Hole.s = "none" /\ ~Hole.fly
        /\ \A v : Clean(v).s = "clean" /\ Clean(v).v = v /\ ~Clean(v).fly
    BY DEF Hole, Clean
  <2>7. ASSUME NEW i \in Blocks
        PROVE  /\ Unclean(i)' <=> Unclean(i)
               /\ Unclean(i) => buf'[i].v = buf[i].v
               /\ buf'[i].s = "clean" /\ i <= Size => buf'[i].v = file[i]
               /\ Dirtied(i) => Dirtied(i)'
               /\ buf'[i].fly => buf[i].fly
    <3>1. CASE buf'[i] = buf[i]
      BY <2>5, <3>1 DEF Unclean, Dirtied
    <3>2. CASE i = b /\ ~Unclean(b) /\ buf'[b] = Hole
      BY <2>6, <3>2 DEF Unclean, Dirtied
    <3>3. CASE i = b /\ ~Unclean(b) /\ get[b].pc = "body" /\ ~get[b].old /\ buf'[b] = Clean(get[b].v)
      BY <2>4, <2>6, <3>3 DEF Unclean, Dirtied
    <3> QED
      BY <2>3, <3>1, <3>2, <3>3
  <2>8. BuffersKept /\ DirtyKept
    BY <2>7 DEF BuffersKept, DirtyKept
  <2> QED
    BY <2>1, <2>2, <2>8, ToldKept
<1>4. CASE SyncFile \/ Release
  <2>1. UNCHANGED <<file, store, parts, job, mpu, pjob, cacheState, buf, get>>
    BY <1>4 DEF SyncFile, Release, local, app, env
  <2> QED
    BY <2>1, SameBuffers, ToldKept
<1>5. CASE ReadReturns
  <2>1. ~ResetCache
    BY DEF ResetCache
  <2>2. UNCHANGED <<file, store, parts, job, mpu, pjob, cacheState, buf, get>>
    BY <1>5, <2>1 DEF ReadReturns
  <2> QED
    BY <2>2, SameBuffers, ToldKept
<1> QED
  BY <1>1, <1>2, <1>3, <1>4, <1>5

(* Flushes that begin, and those that are given up. *)
LEMMA ToldGivenUp ==
    ASSUME TypeInv, ShapeInv, Told, ~lost, ~lost', remote = 0,
           \/ StartSmall \/ StartMultipart \/ CopyFails \/ CommitFails \/ CompleteAborts \/ PutFails
           \/ CompleteRefused
           \/ \E p \in Parts : StartPart(p) \/ PartFails(p) \/ PartRefused(p)
    PROVE  Told'
<1>1. /\ buf \in [Blocks -> Buffers] /\ pjob \in [Parts -> PartJobs] /\ Idle.pc = "none" /\ NoFlush.pc = "none"
      /\ cacheState \in {"created", "modified", "cached"}
  BY DEF TypeInv, StateTypeOK, BuffersTypeOK, UploadTypeOK, Idle, NoFlush
<1>2. UNCHANGED <<file, store, parts, get>>
  BY DEF StartSmall, StartMultipart, CopyFails, CommitFails, CompleteAborts, PutFails,
     CompleteRefused, StartPart, PartFails, PartRefused, local, app, env
<1>3. CASE StartSmall \/ StartMultipart \/ CopyFails \/ CommitFails \/ CompleteAborts
  <2>1. UNCHANGED <<mpu, pjob, cacheState, buf>> /\ job'.pc \in {"none", "small", "begin"}
    BY <1>1, <1>3 DEF StartSmall, StartMultipart, CopyFails, CommitFails, CompleteAborts, local, Idle
  <2> QED
    BY <1>2, <2>1, SameBuffers, ToldKept
<1>4. \A b \in Blocks : buf[b].s = "clean" /\ b <= Size => buf[b].v = file[b]
  BY CleanIsFile
<1>5. ASSUME NEW S, buf' = Forget(buf, S) PROVE BuffersKept /\ DirtyKept
  <2>1. \A b \in Blocks : buf'[b].s = buf[b].s /\ buf'[b].v = buf[b].v /\ (buf'[b].fly => buf[b].fly)
    BY <1>1, <1>5, ForgetFacts
  <2> QED
    BY <1>4, <2>1 DEF BuffersKept, DirtyKept, Unclean, Dirtied
<1>6. ASSUME NEW bs \in [Blocks -> Buffers], ResetMultipart(bs),
             \A b \in Blocks : bs[b].s = buf[b].s /\ bs[b].v = buf[b].v /\ (bs[b].fly => buf[b].fly)
      PROVE  BuffersKept /\ DirtyKept /\ ~mpu' /\ (cacheState = "created" => cacheState' = "created")
  <2>1. /\ mpu' = FALSE
        /\ \A b \in Blocks : buf'[b] = IF bs[b].s = "flushed" THEN Dirty(bs[b].v) ELSE bs[b]
    BY <1>6, ResetMultipartType DEF TypeInv
  <2>2. \A v : Dirty(v).s = "dirty" /\ Dirty(v).v = v /\ ~Dirty(v).fly
    BY DEF Dirty
  <2>3. ASSUME NEW b \in Blocks
        PROVE  /\ Unclean(b)' <=> Unclean(b)
               /\ buf'[b].v = buf[b].v
               /\ buf'[b].s = "clean" => buf[b].s = "clean"
               /\ Dirtied(b) => Dirtied(b)'
               /\ buf'[b].fly => buf[b].fly
    <3>1. CASE bs[b].s = "flushed"
      BY <1>6, <2>1, <2>2, <3>1 DEF Unclean, Dirtied
    <3>2. CASE bs[b].s # "flushed"
      BY <1>6, <2>1, <3>2 DEF Unclean, Dirtied
    <3> QED
      BY <3>1, <3>2
  <2>4. cacheState = "created" => cacheState' = "created"
    BY <1>6 DEF ResetMultipart
  <2> QED
    BY <1>4, <2>1, <2>3, <2>4 DEF BuffersKept, DirtyKept
<1>7. CASE PutFails
  <2>1. UNCHANGED <<mpu, pjob, cacheState>> /\ job' = Idle /\ buf' = Forget(buf, 1..job.size)
    BY <1>7 DEF PutFails
  <2> QED
    BY <1>1, <1>2, <1>5, <2>1, ToldKept
<1>8. CASE CompleteRefused
  <2>1. ResetMultipart(buf) /\ job' = Idle /\ pjob' = pjob
    BY <1>8 DEF CompleteRefused
  <2>2. BuffersKept /\ DirtyKept /\ ~mpu' /\ (cacheState = "created" => cacheState' = "created")
    BY <1>1, <1>6, <2>1
  <2> QED
    BY <1>1, <1>2, <2>1, <2>2, ToldKept
<1>9. ASSUME NEW p \in Parts, StartPart(p) PROVE Told'
  <2>1. UNCHANGED <<mpu, job, cacheState, buf>> /\ pjob' = [pjob EXCEPT ![p] = [NoFlush EXCEPT !.pc = "start"]]
    BY <1>9 DEF StartPart, local
  <2>2. \A q \in Parts : pjob'[q] = pjob[q] \/ pjob'[q].pc = "start"
    BY <1>1, <2>1 DEF NoFlush
  <2> QED
    BY <1>2, <2>1, <2>2, SameBuffers, ToldKept
<1>10. ASSUME NEW p \in Parts, PartFails(p) PROVE Told'
  <2>1. /\ UNCHANGED <<mpu, job, cacheState>> /\ pjob' = [pjob EXCEPT ![p] = NoFlush]
        /\ buf' = Forget(buf, PartRange(p))
    BY <1>10 DEF PartFails
  <2>2. \A q \in Parts : pjob'[q] = pjob[q] \/ pjob'[q].pc = "none"
    BY <1>1, <2>1
  <2> QED
    BY <1>2, <1>5, <2>1, <2>2, ToldKept
<1>11. ASSUME NEW p \in Parts, PartRefused(p) PROVE Told'
  <2>0. job.pc = "none"
    BY <1>11 DEF PartRefused, ShapeInv, JobAlone, PartsBusy
  <2> DEFINE bs == Forget(buf, PartRange(p))
  <2>1. ResetMultipart(bs) /\ job' = job /\ pjob' = [pjob EXCEPT ![p] = NoFlush]
    BY <1>11 DEF PartRefused
  <2>2. /\ bs \in [Blocks -> Buffers]
        /\ \A b \in Blocks : bs[b].s = buf[b].s /\ bs[b].v = buf[b].v /\ (bs[b].fly => buf[b].fly)
    BY <1>1, ForgetFacts
  <2> HIDE DEF bs
  <2>3. BuffersKept /\ DirtyKept /\ ~mpu' /\ (cacheState = "created" => cacheState' = "created")
    BY <1>6, <2>1, <2>2
  <2>4. \A q \in Parts : pjob'[q] = pjob[q] \/ pjob'[q].pc = "none"
    BY <1>1, <2>1
  <2> QED
    BY <1>2, <2>0, <2>1, <2>3, <2>4, ToldKept
<1> QED
  BY <1>3, <1>7, <1>8, <1>9, <1>10, <1>11

(* While no upload is under way only the single PUT has to be told of. *)
LEMMA ToldNoUpload ==
    ASSUME PartsBusy' = {}, ~mpu', ~Completing',
           BlocksHold', StoreWithin', GetsHold', NeverStored', PutHolds',
           job'.pc = "smallLoad" => job'.size <= Size' /\ \A b \in job'.size+1..Size' : Dirtied(b)'
    PROVE  Told'
<1>1. \A p \in Parts : pjob'[p].pc = "none"
  BY DEF PartsBusy
<1>2. LoadCovers' /\ PartHolds'
  BY <1>1 DEF LoadCovers, PartHolds
<1>3. PartsHold' /\ WantIsFile' /\ WantIsParts' /\ TodoIsAll'
  BY DEF PartsHold, WantIsFile, WantIsParts, TodoIsAll, Completing
<1> QED
  BY <1>2, <1>3 DEF Told

(* What is captured whole is the file but for what was written since. *)
LEMMA ToldCapture ==
    ASSUME TypeInv, ShapeInv, Told, ~lost, ~lost', remote = 0, NEW n \in 0..NB, SmallCapture(n),
           n <= Size, \A b \in n+1..Size : Dirtied(b), ~Missing(1..n), ~IsLoading(1..n),
           job.pc \in {"small", "smallLoad"},
           UNCHANGED <<file, store, mpu, pjob, get, cacheState>>
    PROVE  Told'
<1>1. buf \in [Blocks -> Buffers] /\ job \in Jobs /\ Size \in Nat /\ n \in Nat /\ Size <= NB /\ NB \in Nat
  BY TypeFacts DEF TypeInv, StateTypeOK, BuffersTypeOK
<1>2. PartsBusy' = {} /\ ~mpu'
  BY DEF ShapeInv, JobAlone, NoUploadYet, PartsBusy
<1>3. /\ job'.pc = "put" /\ job'.size = n /\ job'.body = Body(1, n)
      /\ buf' = Capture(buf, 1..n)
  BY <1>1 DEF SmallCapture, Jobs
<1>4. \A b \in Blocks : /\ buf'[b].s = buf[b].s /\ buf'[b].v = buf[b].v
                        /\ buf'[b].fly => buf[b].fly \/ b \in 1..n
  BY <1>1, <1>3, CaptureFacts
<1>5. BuffersKept
  <2>1. \A b \in Blocks : buf[b].s = "clean" /\ b <= Size => buf[b].v = file[b]
    BY CleanIsFile
  <2> QED
    BY <1>4, <2>1 DEF BuffersKept, Unclean
<1>6. BlocksHold' /\ StoreWithin'
  BY <1>5, ReadsKept DEF Told
<1>7. GetsHold'
  BY <1>4 DEF Told, GetsHold, Unclean, Size
<1>8. Len(Body(1, n)) = n /\ \A i \in 1..n : Body(1, n)[i] = buf[1 + i - 1].v
  BY <1>1, BodyType DEF TypeInv
<1>9. ASSUME NEW b \in 1..n PROVE Body(1, n)[b] = file[b]
  <2>1. b \in Blocks /\ b <= Size /\ buf[b].s \notin {"none", "loading"}
    BY <1>1 DEF Blocks, Missing, IsLoading
  <2>2. buf[b].s \in {"clean", "dirty", "flushed"}
    BY <1>1, <2>1 DEF Buffers
  <2>3. buf[b].v = file[b]
    BY <2>1, <2>2, CleanIsFile DEF Unclean
  <2>4. 1 + b - 1 = b
    BY <1>1
  <2> QED
    BY <1>8, <2>3, <2>4
<1>10. PutHolds'
  <2>1. ASSUME NEW b \in 1..Size, ~Dirtied(b)' \/ (buf'[b].fly /\ b <= n) PROVE Holds(job'.body, 1, b)
    <3>1. b \in Blocks
      BY <1>1 DEF Blocks
    <3>2. b \in 1..n
      <4>1. CASE b <= n
        BY <1>1, <4>1
      <4>2. CASE ~(b <= n)
        <5>1. Dirtied(b)
          BY <1>1, <4>2
        <5> QED
          BY <1>4, <2>1, <3>1, <4>2, <5>1 DEF Dirtied
      <4> QED
        BY <4>1, <4>2
    <3>3. b - Off(1) = b /\ Off(1) = 0
      BY <1>1, FirstPart
    <3> QED
      BY <1>3, <1>8, <1>9, <3>2, <3>3 DEF Holds
  <2> QED
    BY <1>3, <2>1 DEF PutHolds, Size, Holds, Off
<1>11. NeverStored' /\ ~Completing'
  BY <1>3 DEF Told, NeverStored, Completing
<1> QED
  BY <1>2, <1>3, <1>6, <1>7, <1>10, <1>11, ToldNoUpload

(* An answer makes the GETs old that were sent before what it has turned clean. *)
LEMMA AnswerGets ==
    ASSUME TypeInv, GetsHold, Overtake(Cleaned), file' = file, Size' = Size,
           \A b \in Blocks : Unclean(b) /\ ~Unclean(b)' => buf'[b].s = "clean"
    PROVE  GetsHold'
<1>1. get \in [Blocks -> Gets]
  BY DEF TypeInv, StateTypeOK, BuffersTypeOK
<1>2. \A b \in Blocks : /\ get'[b].pc = get[b].pc /\ get'[b].v = get[b].v
                        /\ get[b].old => get'[b].old
                        /\ b \in Cleaned /\ get[b].pc # "none" => get'[b].old
  BY <1>1, OvertakeFacts
<1> SUFFICES ASSUME NEW b \in Blocks, get'[b].pc # "none", ~get'[b].old
             PROVE  b <= Size /\ (get'[b].pc = "body" /\ ~Unclean(b)' => get'[b].v = file[b])
  BY DEF GetsHold
<1>3. b <= Size /\ (get[b].pc = "body" /\ ~Unclean(b) => get[b].v = file[b])
  BY <1>2 DEF GetsHold
<1>4. get[b].pc = "body" /\ ~Unclean(b)' => ~Unclean(b)
  BY <1>2 DEF Cleaned
<1> QED
  BY <1>2, <1>3, <1>4

(* The single PUT. *)
LEMMA ToldSmall ==
    ASSUME TypeInv, ShapeInv, Told, ~lost, ~lost', remote = 0,
           SmallBegins \/ SmallLoaded \/ PutBlob \/ PutReturns
    PROVE  Told'
<1>1. /\ buf \in [Blocks -> Buffers] /\ job \in Jobs /\ Size \in Nat /\ Size \in 0..NB /\ NB \in Nat
      /\ Idle.pc = "none" /\ job.size \in 0..NB /\ job.body \in Contents
      /\ 1..Size \subseteq Blocks
  BY TypeFacts DEF TypeInv, StateTypeOK, BuffersTypeOK, Idle, Jobs, Blocks
<1>2. job.pc \in {"small", "smallLoad", "put", "putDone"} /\ UNCHANGED <<file, pjob, remote>>
  BY DEF SmallBegins, SmallLoaded, PutBlob, PutReturns, app, env
<1>3. PartsBusy' = {} /\ ~mpu /\ Size' = Size
  BY <1>2 DEF ShapeInv, JobAlone, NoUploadYet, PartsBusy, Size
<1>4. CASE SmallBegins
  <2>1. UNCHANGED <<store, parts, mpu, cacheState>>
    BY <1>4 DEF SmallBegins, env
  <2>2. CASE LoadRange(1..Size) /\ job' = [job EXCEPT !.pc = "smallLoad", !.size = Size]
    <3>1. job'.pc = "smallLoad" /\ job'.size = Size
      BY <1>1, <2>2 DEF Jobs
    <3>2. \A b \in 1..Size : b <= Size
      BY <1>1
    <3>3. /\ BuffersKept
          /\ \A b \in Blocks : \/ get'[b] = get[b] \/ get'[b].pc = "none"
                               \/ get'[b].old
                               \/ b <= Size /\ (get'[b].pc = "body" /\ ~Unclean(b) => get'[b].v = file[b])
      BY <2>2, <3>2, LoadKept
    <3>4. BlocksHold' /\ StoreWithin'
      BY <1>2, <2>1, <3>3, ReadsKept DEF Told
    <3>5. GetsHold'
      BY <1>2, <1>3, <3>3 DEF Told, GetsHold, BuffersKept
    <3>6. NeverStored' /\ PutHolds' /\ ~Completing'
      BY <2>1, <3>1 DEF Told, NeverStored, PutHolds, Completing
    <3>7. \A b \in job'.size+1..Size' : Dirtied(b)'
      BY <1>1, <1>3, <3>1
    <3> QED
      BY <1>1, <1>3, <2>1, <3>1, <3>4, <3>5, <3>6, <3>7, ToldNoUpload
  <2>3. CASE job' = Idle /\ UNCHANGED buf /\ UNCHANGED get
    BY <1>1, <1>2, <2>1, <2>3, SameBuffers, ToldKept
  <2>4. CASE SmallCapture(Size) /\ ~Missing(1..Size) /\ ~IsLoading(1..Size) /\ UNCHANGED get
    <3>1. Size <= Size /\ \A b \in Size+1..Size : Dirtied(b)
      BY <1>1
    <3>2. job.pc = "small"
      BY <1>4 DEF SmallBegins
    <3> QED
      BY <1>1, <1>2, <2>1, <2>4, <3>1, <3>2, ToldCapture
  <2> QED
    BY <1>4, <2>2, <2>3, <2>4 DEF SmallBegins
<1>5. CASE SmallLoaded
  <2>1. ~ResetCache
    BY DEF ResetCache
  <2>2. job.pc = "smallLoad" /\ ~IsLoading(1..job.size) /\ UNCHANGED <<store, get, parts, mpu, cacheState>>
    BY <1>5, <2>1 DEF SmallLoaded
  <2>3. CASE job' = Idle /\ UNCHANGED buf
    BY <1>1, <1>2, <2>2, <2>3, SameBuffers, ToldKept
  <2>4. CASE SmallCapture(job.size) /\ ~Missing(1..job.size)
    <3>1. job.size <= Size /\ \A b \in job.size+1..Size : Dirtied(b)
      BY <2>2 DEF Told, LoadCovers
    <3> QED
      BY <1>1, <1>2, <2>2, <2>4, <3>1, ToldCapture
  <2> QED
    BY <1>5, <2>1, <2>3, <2>4 DEF SmallLoaded
<1>6. CASE PutBlob
  <2>1. /\ job.pc = "put" /\ job'.pc = "putDone" /\ job'.size = job.size /\ job'.body = job.body
        /\ store' = job.body
        /\ UNCHANGED <<buf, get, mpu, cacheState>>
    BY <1>1, <1>6 DEF PutBlob, local, Jobs
  <2>2. job.size <= Size /\ Len(job.body) = job.size /\ store' # NoObject
    BY <1>1, <2>1, FirstPart DEF Told, PutHolds, TypeInv, Lengths
  <2>3. BlocksHold'
    <3>1. SUFFICES ASSUME NEW b \in 1..Size
                   PROVE  IF Unclean(b) THEN buf[b].v = file[b]
                          ELSE Stored(b)' /\ (buf[b].s = "clean" => buf[b].v = file[b])
      BY <1>2, <1>3, <2>1 DEF BlocksHold, Unclean
    <3>2. b \in Blocks /\ b <= Size
      BY <1>1
    <3>3. /\ Unclean(b) => buf[b].v = file[b]
          /\ buf[b].s = "clean" => buf[b].v = file[b]
      BY <3>2, CleanIsFile
    <3>4. ASSUME ~Unclean(b) PROVE Stored(b)'
      <4>1. Holds(job.body, 1, b)
        BY <2>1, <3>4 DEF Told, PutHolds, Unclean, Dirtied
      <4>2. b - Off(1) = b
        BY <1>1, FirstPart
      <4> QED
        BY <1>1, <1>2, <2>1, <2>2, <4>1, <4>2 DEF Holds, Stored
    <3> QED
      BY <3>3, <3>4
  <2>4. StoreWithin' /\ NeverStored' /\ ~Completing' /\ job'.pc # "smallLoad"
    BY <1>3, <2>1, <2>2 DEF StoreWithin, NeverStored, Completing
  <2>5. GetsHold'
    BY <1>2, <1>3, <2>1 DEF Told, GetsHold, Unclean
  <2>6. PutHolds'
    BY <1>2, <1>3, <2>1 DEF Told, PutHolds, Holds, Off, Dirtied
  <2> QED
    BY <1>3, <2>1, <2>3, <2>4, <2>5, <2>6, ToldNoUpload
<1>7. CASE PutReturns
  <2>1. /\ job.pc = "putDone" /\ job' = Idle /\ UNCHANGED <<mpu, store>>
        /\ buf' = SetState(buf, 1..job.size, "clean") /\ Overtake(Cleaned)
    BY <1>7 DEF PutReturns, env
  <2>2. store = job.body /\ store # NoObject
    BY <1>1, <2>1, FirstPart DEF Told, PutHolds
  <2>3. \A b \in Blocks :
          /\ buf'[b].v = buf[b].v
          /\ buf'[b].s = IF b \in 1..job.size /\ buf[b].fly THEN "clean" ELSE buf[b].s
    BY <1>1, <2>1, SetStateFacts
  <2>4. BlocksHold'
    <3>1. SUFFICES ASSUME NEW b \in 1..Size
                   PROVE  IF Unclean(b)' THEN buf'[b].v = file[b]
                          ELSE Stored(b) /\ (buf'[b].s = "clean" => buf'[b].v = file[b])
      BY <1>2, <1>3, <2>1 DEF BlocksHold, Stored
    <3>2. b \in Blocks /\ b <= Size
      BY <1>1
    <3>3. /\ Unclean(b) => buf[b].v = file[b]
          /\ buf[b].s = "clean" => buf[b].v = file[b]
          /\ ~Unclean(b) => Stored(b)
      BY <3>2, CleanIsFile
    <3>4. CASE b \in 1..job.size /\ buf[b].fly
      <4>1. Unclean(b) /\ buf'[b].s = "clean" /\ buf'[b].v = buf[b].v
        BY <2>3, <3>2, <3>4 DEF TypeInv, FlyIsDirty, Unclean, Dirtied
      <4>2. Holds(job.body, 1, b)
        BY <1>1, <2>1, <3>4 DEF Told, PutHolds
      <4>3. b - Off(1) = b
        BY <1>1, FirstPart
      <4>4. Stored(b)
        BY <1>1, <2>2, <4>2, <4>3 DEF Holds, Stored
      <4> QED
        BY <3>3, <4>1, <4>4 DEF Unclean
    <3>5. CASE ~(b \in 1..job.size /\ buf[b].fly)
      BY <2>3, <3>2, <3>3, <3>5 DEF Unclean
    <3> QED
      BY <3>4, <3>5
  <2>5. StoreWithin' /\ NeverStored' /\ ~Completing' /\ job'.pc # "smallLoad" /\ PutHolds'
    BY <1>1, <1>3, <2>1, <2>2 DEF Told, StoreWithin, NeverStored, Completing, PutHolds
  <2>6. GetsHold'
    <3>1. \A b \in Blocks : Unclean(b) /\ ~Unclean(b)' => buf'[b].s = "clean"
      BY <2>3 DEF Unclean
    <3> QED
      BY <1>2, <1>3, <2>1, <3>1, AnswerGets DEF Told
  <2> QED
    BY <1>3, <2>1, <2>4, <2>5, <2>6, ToldNoUpload
<1> QED
  BY <1>4, <1>5, <1>6, <1>7

(* A step of one part while no flush of the whole file runs. *)
LEMMA ToldPartKept ==
    ASSUME TypeInv, Told, ~lost, ~lost', remote = 0, job.pc = "none", UNCHANGED <<file, store, job, cacheState>>,
           BuffersKept, PartsHold', NEW p \in Parts,
           \A q \in Parts : q # p => pjob'[q] = pjob[q],
           \A b \in Blocks : b \notin PartRange(p) =>
               (Dirtied(b) => Dirtied(b)') /\ (buf'[b].fly => buf[b].fly),
           \A b \in Blocks : \/ get'[b] = get[b] \/ get'[b].pc = "none"
                             \/ get'[b].old
                             \/ b <= Size /\ (get'[b].pc = "body" /\ ~Unclean(b) => get'[b].v = file[b]),
           pjob'[p].pc \in {"load", "add", "added"} =>
               pjob'[p].size > 0 /\ Off(p) + pjob'[p].size <= Size,
           pjob'[p].pc = "load" =>
               \A b \in PartRange(p) : b > Off(p) + pjob'[p].size /\ b <= Size => Dirtied(b)',
           pjob'[p].pc \in {"add", "added"} =>
               \A b \in PartRange(p) :
                   b <= Size /\ (~Dirtied(b)' \/ (buf'[b].fly /\ b <= Off(p) + pjob'[p].size))
                     => Holds(pjob'[p].body, p, b)
    PROVE  Told'
<1>1. Size' = Size /\ \A q \in Parts : PartRange(q) \subseteq Blocks
  BY PartFacts DEF Size, PartsDivide
<1>2. BlocksHold' /\ StoreWithin'
  BY ReadsKept DEF Told
<1>3. GetsHold'
  BY <1>1 DEF Told, GetsHold, BuffersKept
<1>4. ASSUME NEW q \in Parts, q # p, NEW b \in PartRange(q)
      PROVE  (Dirtied(b) => Dirtied(b)') /\ (buf'[b].fly => buf[b].fly)
  <2>1. b \in Blocks /\ b \notin PartRange(p)
    BY <1>1, <1>4, OnePart
  <2> QED
    BY <2>1
<1>5. LoadCovers'
  <2> SUFFICES ASSUME NEW q \in Parts, pjob'[q].pc = "load"
               PROVE  /\ pjob'[q].size > 0 /\ Off(q) + pjob'[q].size <= Size
                      /\ \A b \in PartRange(q) : b > Off(q) + pjob'[q].size /\ b <= Size => Dirtied(b)'
    BY <1>1 DEF LoadCovers, Off, PartRange
  <2>1. CASE q # p
    BY <1>4, <2>1 DEF Told, LoadCovers
  <2> QED
    BY <2>1
<1>6. PartHolds'
  <2> SUFFICES ASSUME NEW q \in Parts, pjob'[q].pc \in {"add", "added"}
               PROVE  /\ pjob'[q].size > 0 /\ Off(q) + pjob'[q].size <= Size
                      /\ \A b \in PartRange(q) :
                            b <= Size /\ (~Dirtied(b)' \/ (buf'[b].fly /\ b <= Off(q) + pjob'[q].size))
                              => Holds(pjob'[q].body, q, b)
    BY <1>1 DEF PartHolds, Holds, Off, PartRange
  <2>1. CASE q # p
    BY <1>4, <2>1 DEF Told, PartHolds
  <2> QED
    BY <2>1
<1>7. PutHolds' /\ WantIsFile' /\ WantIsParts' /\ TodoIsAll' /\ NeverStored'
  BY DEF Told, PutHolds, WantIsFile, WantIsParts, TodoIsAll, NeverStored, Completing
<1> QED
  BY <1>2, <1>3, <1>5, <1>6, <1>7 DEF Told

(* The parts of the upload are told of as long as nothing dirty is cleaned. *)
LEMMA PartsKept ==
    ASSUME Told, UNCHANGED <<file, mpu, parts>>, \A b \in Blocks : Dirtied(b) => Dirtied(b)'
    PROVE  PartsHold'
<1>1. Size' = Size /\ \A q \in Parts : PartRange(q) \subseteq Blocks
  BY PartFacts DEF Size, PartsDivide
<1> QED
  BY <1>1 DEF Told, PartsHold, Holds, Off, PartRange

(* A part is captured whole but for what was written since. *)
LEMMA ToldPartCapture ==
    ASSUME TypeInv, Told, ~lost, ~lost', remote = 0, job.pc = "none",
           UNCHANGED <<file, store, job, cacheState, mpu, parts, get>>,
           NEW p \in Parts, NEW n \in 1..PartBlocks, PartCapture(p, n), Off(p) + n <= Size,
           \A b \in PartRange(p) : b > Off(p) + n /\ b <= Size => Dirtied(b)
    PROVE  Told'
<1>1. /\ Off(p) \in Nat /\ PartBlocks \in Nat /\ n \in 0..PartBlocks /\ n > 0 /\ n \in Nat
      /\ PartRange(p) = Off(p) + 1 .. Off(p) + PartBlocks /\ PartRange(p) \subseteq Blocks
      /\ buf \in [Blocks -> Buffers]
  BY PartFacts DEF PartsDivide, TypeInv, StateTypeOK, BuffersTypeOK
<1>2. Front(p, n) = Off(p) + 1 .. Off(p) + n /\ Front(p, n) \subseteq PartRange(p)
  BY <1>1, FrontInPart
<1>3. \A q \in Parts : q # p => pjob'[q] = pjob[q]
  BY <1>1, PartCaptureType
<1>4. CASE pjob'[p] = NoFlush /\ buf' = buf
  <2>1. \A q \in Parts : pjob'[q] = pjob[q] \/ pjob'[q].pc = "none"
    BY <1>3, <1>4 DEF NoFlush
  <2> QED
    BY <1>4, <2>1, SameBuffers, ToldKept
<1>5. CASE ~(pjob'[p] = NoFlush /\ buf' = buf)
  <2>1. /\ ~Missing(Front(p, n)) /\ ~IsLoading(Front(p, n))
        /\ pjob'[p].pc = "add" /\ pjob'[p].size = n /\ Len(pjob'[p].body) = n
        /\ \A i \in 1..n : pjob'[p].body[i] = buf[Off(p) + i].v
        /\ \A b \in Blocks :
             /\ buf'[b].s = buf[b].s /\ buf'[b].v = buf[b].v
             /\ buf'[b].fly <=> IF b \in Front(p, n) THEN Dirtied(b) ELSE buf[b].fly
    BY <1>1, <1>5, PartCaptureType
  <2>2. BuffersKept
    <3>1. \A b \in Blocks : buf[b].s = "clean" /\ b <= Size => buf[b].v = file[b]
      BY CleanIsFile
    <3> QED
      BY <2>1, <3>1 DEF BuffersKept, Unclean
  <2>3. \A b \in Blocks : Dirtied(b)' <=> Dirtied(b)
    BY <2>1 DEF Dirtied
  <2>4. \A b \in Blocks : b \notin PartRange(p) => (buf'[b].fly => buf[b].fly)
    BY <1>2, <2>1
  <2>5. ASSUME NEW b \in Front(p, n) PROVE Holds(pjob'[p].body, p, b)
    <3>1. b \in Blocks /\ b <= Size /\ b - Off(p) \in 1..n /\ Off(p) + (b - Off(p)) = b
      BY <1>1, <1>2, TypeFacts DEF TypeInv
    <3>2. buf[b].s \in {"clean", "dirty", "flushed"}
      BY <1>1, <2>1, <3>1 DEF Buffers, Missing, IsLoading
    <3>3. buf[b].v = file[b]
      BY <3>1, <3>2, CleanIsFile DEF Unclean
    <3>4. pjob'[p].body[b - Off(p)] = file[b]
      BY <2>1, <3>1, <3>3
    <3> QED
      BY <2>1, <3>1, <3>4 DEF Holds
  <2>6. ASSUME NEW b \in PartRange(p), b <= Size, ~Dirtied(b)' \/ (buf'[b].fly /\ b <= Off(p) + n)
        PROVE  Holds(pjob'[p].body, p, b)
    <3>1. b \in Front(p, n)
      <4>1. CASE b <= Off(p) + n
        BY <1>1, <1>2, <4>1
      <4>2. CASE ~(b <= Off(p) + n)
        <5>1. b > Off(p) + n /\ b \in Blocks
          BY <1>1, <4>2
        <5>2. Dirtied(b)
          BY <2>6, <5>1
        <5> QED
          BY <2>3, <2>6, <4>2, <5>1, <5>2
      <4> QED
        BY <4>1, <4>2
    <3> QED
      BY <2>5, <3>1
  <2>7. PartsHold'
    BY <2>3, PartsKept
  <2>8. pjob'[p].pc # "load" /\ pjob'[p].size > 0 /\ Off(p) + pjob'[p].size <= Size
    BY <1>1, <2>1
  <2>9. \A b \in PartRange(p) :
           b <= Size /\ (~Dirtied(b)' \/ (buf'[b].fly /\ b <= Off(p) + pjob'[p].size))
             => Holds(pjob'[p].body, p, b)
    BY <2>1, <2>6
  <2> QED
    BY <1>3, <2>2, <2>3, <2>4, <2>7, <2>8, <2>9, ToldPartKept
<1> QED
  BY <1>4, <1>5

(* Steps of flushPart. *)
LEMMA ToldPart ==
    ASSUME TypeInv, ShapeInv, Told, ~lost, ~lost', remote = 0, NEW p \in Parts,
           PartBegins(p) \/ PartLoaded(p) \/ MultipartBlobAdd(p) \/ PartReturns(p)
    PROVE  Told'
<1>1. /\ pjob \in [Parts -> PartJobs] /\ buf \in [Blocks -> Buffers] /\ NoFlush.pc = "none"
      /\ parts \in [Parts -> Contents \cup {NoPart}] /\ Size \in Nat
  BY TypeFacts DEF TypeInv, StateTypeOK, UploadTypeOK, BuffersTypeOK, NoFlush
<1>2. /\ Off(p) \in Nat /\ PartRange(p) = Off(p) + 1 .. Off(p) + PartBlocks
      /\ PartRange(p) \subseteq Blocks /\ PartBlocks \in Nat
      /\ pjob[p].size \in Nat /\ pjob[p].size <= PartBlocks /\ pjob[p].size \in 0..PartBlocks
  BY <1>1, PartFacts DEF PartsDivide, PartJobs
<1>3. pjob[p].pc # "none" /\ UNCHANGED <<file, store, job>>
  BY DEF PartBegins, PartLoaded, MultipartBlobAdd, PartReturns, app, env
<1>4. job.pc = "none"
  BY <1>3 DEF ShapeInv, JobAlone, PartsBusy
<1>5. CASE PartBegins(p)
  <2>1. UNCHANGED <<cacheState, mpu, parts>>
    BY <1>5 DEF PartBegins
  <2>2. /\ PartSize(p) \in 1..PartBlocks /\ Off(p) + PartSize(p) <= Size
        /\ Off(p) + PartSize(p) = Size \/ PartSize(p) = PartBlocks
    <3>1. Off(p) < Size
      BY <1>3 DEF TypeInv, BusyInFile, PartsBusy
    <3> QED
      BY <3>1, PartSizeFacts
  <2>3. \A b \in PartRange(p) : ~(b > Off(p) + PartSize(p) /\ b <= Size)
    BY <1>1, <1>2, <2>2
  <2>4. CASE /\ LoadRange(Front(p, PartSize(p)))
             /\ pjob' = [pjob EXCEPT ![p] = [pjob[p] EXCEPT !.pc = "load", !.size = PartSize(p)]]
    <3>1. /\ pjob'[p].pc = "load" /\ pjob'[p].size = PartSize(p)
          /\ \A q \in Parts : q # p => pjob'[q] = pjob[q]
      BY <1>1, <2>4 DEF PartJobs
    <3>2. \A b \in Front(p, PartSize(p)) : b <= Size
      <4>1. PartSize(p) \in 0..PartBlocks
        BY <1>2, <2>2
      <4>2. Front(p, PartSize(p)) = Off(p) + 1 .. Off(p) + PartSize(p)
        BY <4>1, FrontInPart
      <4> QED
        BY <1>1, <1>2, <2>2, <4>2
    <3>3. /\ BuffersKept /\ DirtyKept
          /\ \A b \in Blocks : \/ get'[b] = get[b] \/ get'[b].pc = "none"
                               \/ get'[b].old
                               \/ b <= Size /\ (get'[b].pc = "body" /\ ~Unclean(b) => get'[b].v = file[b])
      BY <2>4, <3>2, LoadKept
    <3>4. PartsHold'
      BY <1>3, <2>1, <3>3, PartsKept DEF DirtyKept
    <3>5. \A b \in Blocks : (Dirtied(b) => Dirtied(b)') /\ (buf'[b].fly => buf[b].fly)
      BY <3>3 DEF DirtyKept
    <3>6. pjob'[p].size > 0 /\ Off(p) + pjob'[p].size <= Size
      BY <1>2, <2>2, <3>1
    <3> QED
      BY <1>3, <1>4, <2>1, <2>3, <3>1, <3>3, <3>4, <3>5, <3>6, ToldPartKept
  <2>5. CASE PartCapture(p, PartSize(p)) /\ UNCHANGED get
    BY <1>3, <1>4, <2>1, <2>2, <2>3, <2>5, ToldPartCapture
  <2> QED
    BY <1>5, <2>4, <2>5 DEF PartBegins
<1>6. CASE PartLoaded(p)
  <2>1. ~ResetCache
    BY DEF ResetCache
  <2>2. pjob[p].pc = "load" /\ UNCHANGED <<cacheState, mpu, parts, get>>
    BY <1>6, <2>1 DEF PartLoaded
  <2>3. CASE pjob' = [pjob EXCEPT ![p] = NoFlush] /\ UNCHANGED buf
    <3>1. \A q \in Parts : pjob'[q] = pjob[q] \/ pjob'[q].pc = "none"
      BY <1>1, <2>3
    <3> QED
      BY <1>3, <2>2, <2>3, <3>1, SameBuffers, ToldKept
  <2>4. CASE PartCapture(p, pjob[p].size)
    <3>1. /\ pjob[p].size > 0 /\ Off(p) + pjob[p].size <= Size
          /\ \A b \in PartRange(p) : b > Off(p) + pjob[p].size /\ b <= Size => Dirtied(b)
      BY <2>2 DEF Told, LoadCovers
    <3>2. pjob[p].size \in 1..PartBlocks
      BY <1>2, <3>1
    <3> QED
      BY <1>3, <1>4, <2>2, <2>4, <3>1, <3>2, ToldPartCapture
  <2> QED
    BY <1>6, <2>1, <2>3, <2>4 DEF PartLoaded
<1>7. CASE MultipartBlobAdd(p)
  <2>1. /\ pjob[p].pc = "add" /\ pjob' = [pjob EXCEPT ![p].pc = "added"]
        /\ UNCHANGED <<buf, mpu, parts, cacheState, get>>
    BY <1>7 DEF MultipartBlobAdd, local
  <2>2. /\ pjob'[p].pc = "added" /\ pjob'[p].size = pjob[p].size /\ pjob'[p].body = pjob[p].body
        /\ \A q \in Parts : q # p => pjob'[q] = pjob[q]
    BY <1>1, <2>1 DEF PartJobs
  <2>3. BuffersKept /\ PartsHold'
    BY <1>3, <2>1, SameBuffers, PartsKept DEF Dirtied
  <2>4. /\ pjob[p].size > 0 /\ Off(p) + pjob[p].size <= Size
        /\ \A b \in PartRange(p) :
              b <= Size /\ (~Dirtied(b) \/ (buf[b].fly /\ b <= Off(p) + pjob[p].size))
                => Holds(pjob[p].body, p, b)
    BY <2>1 DEF Told, PartHolds
  <2>5. \A b : Dirtied(b)' <=> Dirtied(b)
    BY <2>1 DEF Dirtied
  <2>6. \A b \in PartRange(p) :
              b <= Size /\ (~Dirtied(b)' \/ (buf'[b].fly /\ b <= Off(p) + pjob'[p].size))
                => Holds(pjob'[p].body, p, b)
    BY <2>1, <2>2, <2>4, <2>5
  <2> QED
    BY <1>3, <1>4, <2>1, <2>2, <2>3, <2>4, <2>5, <2>6, ToldPartKept
<1>8. CASE PartReturns(p)
  <2>1. /\ pjob[p].pc = "added" /\ UNCHANGED <<mpu, cacheState, get>>
        /\ buf' = SetState(buf, Front(p, pjob[p].size), "flushed")
        /\ pjob' = [pjob EXCEPT ![p] = NoFlush]
        /\ parts' = IF mpu THEN [parts EXCEPT ![p] = pjob[p].body] ELSE parts
    BY <1>8 DEF PartReturns
  <2>2. pjob'[p].pc = "none" /\ \A q \in Parts : q # p => pjob'[q] = pjob[q]
    BY <1>1, <2>1
  <2>3. Front(p, pjob[p].size) = Off(p) + 1 .. Off(p) + pjob[p].size
        /\ Front(p, pjob[p].size) \subseteq PartRange(p)
    BY <1>2, FrontInPart
  <2>4. \A b \in Blocks :
          /\ buf'[b].v = buf[b].v
          /\ buf'[b].s = IF b \in Front(p, pjob[p].size) /\ buf[b].fly THEN "flushed" ELSE buf[b].s
          /\ buf'[b].fly => buf[b].fly
    BY <1>1, <2>1, SetStateFacts
  <2>5. \A b \in Blocks : Unclean(b)' <=> Unclean(b)
    BY <2>4 DEF Unclean, TypeInv, FlyIsDirty, Dirtied
  <2>6. BuffersKept
    <3>1. \A b \in Blocks : buf[b].s = "clean" /\ b <= Size => buf[b].v = file[b]
      BY CleanIsFile
    <3>2. \A b \in Blocks : buf'[b].s = "clean" => buf[b].s = "clean"
      BY <2>4
    <3> QED
      BY <2>4, <2>5, <3>1, <3>2 DEF BuffersKept
  <2>7. \A b \in Blocks : b \notin PartRange(p) => (Dirtied(b) => Dirtied(b)') /\ (buf'[b].fly => buf[b].fly)
    BY <2>3, <2>4 DEF Dirtied
  <2>8. PartsHold'
    <3> SUFFICES ASSUME mpu, NEW q \in Parts, parts'[q] # NoPart
                 PROVE  /\ Len(parts'[q]) > 0 /\ Off(q) + Len(parts'[q]) <= Size
                        /\ \A b \in PartRange(q) : b <= Size /\ ~Dirtied(b)' => Holds(parts'[q], q, b)
      BY <1>3, <2>1 DEF PartsHold, Holds, Off, PartRange, Size
    <3>1. CASE q # p
      <4>1. parts'[q] = parts[q]
        BY <1>1, <2>1, <3>1
      <4>2. \A b \in PartRange(q) : b \in Blocks /\ b \notin PartRange(p)
        BY <3>1, OnePart, PartFacts DEF PartsDivide
      <4> QED
        BY <2>7, <4>1, <4>2 DEF Told, PartsHold
    <3>2. CASE q = p
      <4>1. parts'[p] = pjob[p].body /\ Len(pjob[p].body) = pjob[p].size
        BY <1>1, <2>1 DEF TypeInv, Lengths
      <4>2. /\ pjob[p].size > 0 /\ Off(p) + pjob[p].size <= Size
            /\ \A b \in PartRange(p) :
                  b <= Size /\ (~Dirtied(b) \/ (buf[b].fly /\ b <= Off(p) + pjob[p].size))
                    => Holds(pjob[p].body, p, b)
        BY <2>1 DEF Told, PartHolds
      <4>3. ASSUME NEW b \in PartRange(p), ~Dirtied(b)'
            PROVE  ~Dirtied(b) \/ (buf[b].fly /\ b <= Off(p) + pjob[p].size)
        <5>1. b \in Blocks
          BY <1>2
        <5>2. ~Dirtied(b) \/ (b \in Front(p, pjob[p].size) /\ buf[b].fly)
          BY <2>4, <4>3, <5>1 DEF Dirtied
        <5> QED
          BY <1>2, <2>3, <5>2
      <4> QED
        BY <3>2, <4>1, <4>2, <4>3
    <3> QED
      BY <3>1, <3>2
  <2> QED
    BY <1>3, <1>4, <2>1, <2>2, <2>6, <2>7, <2>8, ToldPartKept
<1> QED
  BY <1>5, <1>6, <1>7, <1>8

(* While an upload is completed no part is sent. *)
LEMMA ToldAlone ==
    ASSUME PartsBusy' = {}, job'.pc \notin {"smallLoad", "put", "putDone"},
           BlocksHold', StoreWithin', GetsHold', NeverStored', PartsHold',
           WantIsFile', WantIsParts', TodoIsAll'
    PROVE  Told'
<1>1. \A p \in Parts : pjob'[p].pc = "none"
  BY DEF PartsBusy
<1>2. LoadCovers' /\ PartHolds' /\ PutHolds'
  BY <1>1 DEF LoadCovers, PartHolds, PutHolds
<1> QED
  BY <1>2 DEF Told

(* A sequence with the bytes of part p of w is that part of w. *)
LEMMA CutPart ==
    ASSUME NEW p \in Parts, NEW w \in Contents, NEW s \in Contents,
           Off(p) + Len(s) <= Len(w), Len(s) <= PartBlocks,
           \A b \in PartRange(p) : b <= Len(w) => b - Off(p) \in 1..Len(s) /\ s[b - Off(p)] = w[b]
    PROVE  s = SubSeq(w, Off(p) + 1, IF Len(w) < p * PartBlocks THEN Len(w) ELSE p * PartBlocks)
<1> DEFINE o == Off(p)
           e == IF Len(w) < p * PartBlocks THEN Len(w) ELSE p * PartBlocks
<1>1. /\ o \in Nat /\ PartBlocks \in Nat \ {0} /\ p * PartBlocks = o + PartBlocks
      /\ PartRange(p) = o + 1 .. o + PartBlocks /\ Len(w) \in Nat /\ Len(s) \in Nat
  BY PartFacts DEF PartsDivide, Contents
<1>2. e \in Nat /\ e <= Len(w) /\ e <= o + PartBlocks /\ (e = Len(w) \/ e = o + PartBlocks)
  BY <1>1
<1>3. o + Len(s) <= Len(w) /\ Len(s) <= PartBlocks
  OBVIOUS
<1>4. \A b \in o + 1 .. o + PartBlocks : b <= Len(w) => b - o \in 1..Len(s) /\ s[b - o] = w[b]
  BY <1>1
<1> HIDE DEF o, e
<1>5. Len(s) = e - o
  <2>1. o + Len(s) <= e
    BY <1>1, <1>2, <1>3
  <2>2. CASE e > o
    <3>1. e \in o + 1 .. o + PartBlocks
      BY <1>1, <1>2, <2>2
    <3>2. e - o \in 1..Len(s)
      BY <1>2, <1>4, <3>1
    <3> QED
      BY <1>1, <1>2, <2>1, <3>2
  <2> QED
    BY <1>1, <1>2, <2>1, <2>2
<1>6. \A i \in 1..Len(s) : s[i] = w[o + i]
  <2> SUFFICES ASSUME NEW i \in 1..Len(s) PROVE s[i] = w[o + i]
    OBVIOUS
  <2>1. o + i \in o + 1 .. o + PartBlocks /\ o + i <= Len(w) /\ (o + i) - o = i
    BY <1>1, <1>3
  <2> QED
    BY <1>4, <2>1
<1>7. s = SubSeq(w, o + 1, e)
  <2>1. w \in Seq(Stamps) /\ s \in Seq(Stamps)
    BY DEF Contents
  <2> DEFINE t == SubSeq(w, o + 1, e)
  <2>2. t \in Seq(Stamps) /\ Len(t) = e - o /\ \A i \in 1..(e - o) : t[i] = w[o + i]
    BY <1>1, <1>2, <1>5, <2>1
  <2> HIDE DEF t
  <2>3. s = t
    BY <1>5, <1>6, <2>1, <2>2
  <2> QED
    BY <2>3 DEF t
<1> QED
  BY <1>7 DEF o, e

(* When the completion is decided the upload and the object make up the file. *)
LEMMA ToldStartComplete ==
    ASSUME TypeInv, Told, Sent, ~lost, ~lost', remote = 0, StartComplete
    PROVE  Told'
<1>1. /\ UNCHANGED <<file, store, mpu, parts, buf, get, pjob, cacheState>> /\ mpu
      /\ job' = [Idle EXCEPT !.pc = "complete", !.want = file]
  BY DEF StartComplete, local, app, env
<1>2. job'.pc = "complete" /\ job'.want = file
  BY <1>1 DEF Idle
<1>3. PartsBusy' = {} /\ Size' = Size /\ Size \in Nat /\ file \in Contents /\ Len(file) = Size
  BY <1>1, CompleteIsAlone, TypeFacts DEF TypeInv, PartsBusy, Size
<1>4. \A p \in Parts : \A b \in PartRange(p) : ~Dirtied(b)
  BY DEF StartComplete, PartDirty, Dirtied
<1>5. BlocksHold' /\ StoreWithin'
  BY <1>1, SameBuffers, ReadsKept DEF Told
<1>6. GetsHold' /\ NeverStored' /\ PartsHold'
  <2>1. GetsHold' /\ NeverStored'
    BY <1>1, <1>3 DEF Told, GetsHold, NeverStored, Unclean
  <2>2. PartsHold'
    BY <1>1, PartsKept DEF Dirtied
  <2> QED
    BY <2>1, <2>2
<1>7. WantIsFile'
  <2>1. \A b \in 1..Size : Holds(file, 1, b)
    BY <1>3, FirstPart DEF Holds
  <2>2. store # NoObject => Len(store) <= Len(file)
    BY <1>3 DEF Told, StoreWithin
  <2> QED
    BY <1>1, <1>2, <1>3, <2>1, <2>2 DEF WantIsFile, Completing, Holds, Off
<1>8. ASSUME NEW p \in Parts, parts[p] # NoPart
      PROVE  /\ Off(p) < Len(file)
             /\ parts[p] = SubSeq(file, Off(p) + 1, IF Len(file) < p * PartBlocks
                                                    THEN Len(file) ELSE p * PartBlocks)
  <2>1. /\ Len(parts[p]) > 0 /\ Off(p) + Len(parts[p]) <= Size /\ Off(p) \in Nat
        /\ \A b \in PartRange(p) : b <= Size => Holds(parts[p], p, b)
    BY <1>1, <1>4, <1>8, PartFacts DEF Told, PartsHold, PartsDivide
  <2>2. parts[p] \in Contents /\ Len(parts[p]) <= PartBlocks /\ Len(parts[p]) \in Nat
    BY <1>8 DEF TypeInv, StateTypeOK, UploadTypeOK, Lengths, Contents
  <2>3. Off(p) < Len(file)
    BY <1>3, <2>1, <2>2
  <2> QED
    BY <1>3, <2>1, <2>2, <2>3, CutPart DEF Holds
<1>9. ASSUME NEW p \in Parts, parts[p] = NoPart, NEW b \in PartRange(p), b <= Len(file)
      PROVE  store # NoObject /\ b <= Len(store) /\ store[b] = file[b]
  <2>1. b \in Blocks /\ partNum(b - 1) = p
    BY PartFacts DEF PartsDivide
  <2>2. buf[b].s # "flushed"
    BY <1>9, <2>1 DEF Sent, FlushedIsUploaded
  <2>3. ~Unclean(b)
    BY <1>4, <2>2 DEF Unclean, Dirtied
  <2> QED
    BY <1>3, <1>9, <2>1, <2>3, CleanIsFile DEF Stored
<1>10. WantIsParts' /\ TodoIsAll'
  BY <1>1, <1>2, <1>8, <1>9 DEF WantIsParts, TodoIsAll, Completing, Off, PartRange
<1> QED
  BY <1>2, <1>3, <1>5, <1>6, <1>7, <1>10, ToldAlone

(* What is committed is the file as it was then. *)
LEMMA CommitWhole ==
    ASSUME TypeInv, Told, MultipartBlobCommit
    PROVE  /\ Joined(NumParts(job.size)) = job.want
           /\ Len(job.want) <= job.size
<1> DEFINE n == NumParts(job.size)
           w == job.want
<1>1. job.pc = "commit" /\ \E p \in 1..n : parts[p] # NoPart
  BY DEF MultipartBlobCommit
<1>2. job \in Jobs /\ job.size \in 0..NB /\ w \in Contents /\ Len(w) \in Nat
  BY TypeFacts DEF TypeInv, Jobs, Contents
<1>3. n \in 0..NP /\ \A p \in Parts : p <= n <=> Off(p) < job.size
  BY <1>2, NumPartsFacts
<1>4. Len(w) <= job.size
  BY <1>1 DEF Told, WantIsFile, Completing
<1>5. NP \in Nat \ {0} /\ PartBlocks \in Nat \ {0} /\ NB = NP * PartBlocks
  BY Constants DEF NB
<1> HIDE DEF n
<1>6. n \in 1..NP
  BY <1>1, <1>3, <1>5
<1>7. \A p \in 1..n : p \in Parts /\ parts[p] # NoPart
  BY <1>1, <1>3, <1>5 DEF Told, TodoIsAll, Parts, n
<1>8. \A p \in 1..n : /\ Off(p) < Len(w)
                      /\ parts[p] = SubSeq(w, Off(p) + 1, IF Len(w) < p * PartBlocks
                                                          THEN Len(w) ELSE p * PartBlocks)
  BY <1>1, <1>7 DEF Told, WantIsParts, Completing
<1>9. n \in 1..n
  BY <1>6
<1>10. Len(w) <= Off(n) + PartBlocks
  <2>1. n \in Parts /\ Off(n) \in Nat /\ n * PartBlocks = Off(n) + PartBlocks
    BY <1>7, <1>9, PartFacts DEF PartsDivide
  <2>2. CASE n = NP
    BY <1>2, <1>4, <1>5, <2>1, <2>2
  <2>3. CASE n # NP
    <3>1. n + 1 \in Parts /\ ~(n + 1 <= n)
      BY <1>3, <1>5, <1>6, <2>3 DEF Parts
    <3>2. ~(Off(n + 1) < job.size)
      BY <1>3, <3>1
    <3>3. Off(n + 1) = n * PartBlocks
      BY <1>6 DEF Off
    <3>4. Off(n + 1) = Off(n) + PartBlocks
      BY <2>1, <3>3
    <3>5. job.size \in Nat /\ Off(n + 1) \in Nat /\ PartBlocks \in Nat
      BY <1>2, <1>5, <2>1, <3>1, PartFacts DEF PartsDivide
    <3>6. job.size <= Off(n) + PartBlocks
      BY <2>1, <3>2, <3>4, <3>5
    <3> QED
      BY <1>2, <1>4, <2>1, <3>5, <3>6
  <2> QED
    BY <2>2, <2>3
<1>11. Joined(n) = w
  BY <1>2, <1>6, <1>7, <1>8, <1>9, <1>10, JoinedIsWhole
<1> QED
  BY <1>4, <1>11 DEF n

(* An upload begins empty, and its completion begins with all that is not uploaded. *)
LEMMA ToldBegins ==
    ASSUME TypeInv, ShapeInv, Told, ~lost, ~lost', remote = 0, MultipartBegins \/ CompleteBegins
    PROVE  Told'
<1>1. job \in Jobs /\ Idle.pc = "none" /\ parts \in [Parts -> Contents \cup {NoPart}] /\ Size \in Nat
  BY TypeFacts DEF TypeInv, StateTypeOK, UploadTypeOK, Idle
<1>2. job.pc \in {"begin", "complete"} /\ UNCHANGED <<file, store, buf, get, pjob, cacheState>>
  BY DEF MultipartBegins, CompleteBegins, local, app, env
<1>3. PartsBusy' = {} /\ Size' = Size
  BY <1>2 DEF ShapeInv, JobAlone, PartsBusy, Size
<1>4. BlocksHold' /\ StoreWithin'
  BY <1>2, SameBuffers, ReadsKept DEF Told
<1>5. GetsHold' /\ NeverStored'
  BY <1>2, <1>3 DEF Told, GetsHold, NeverStored, Unclean
<1>6. CASE MultipartBegins
  <2>1. job' = Idle
    BY <1>6 DEF MultipartBegins
  <2>2. CASE UNCHANGED <<mpu, parts>>
    BY <1>1, <1>2, <2>1, <2>2, SameBuffers, ToldKept
  <2>3. CASE parts' = [p \in Parts |-> NoPart]
    <3>1. PartsHold'
      BY <2>3 DEF PartsHold
    <3>2. WantIsFile' /\ WantIsParts' /\ TodoIsAll'
      BY <1>1, <2>1 DEF WantIsFile, WantIsParts, TodoIsAll, Completing
    <3> QED
      BY <1>1, <1>3, <1>4, <1>5, <2>1, <3>1, <3>2, ToldAlone
  <2> QED
    BY <1>6, <2>2, <2>3 DEF MultipartBegins
<1>7. CASE CompleteBegins
  <2> DEFINE todo == {p \in 1..NumParts(Size) : parts[p] = NoPart}
  <2>1. job.pc = "complete" /\ mpu /\ UNCHANGED <<mpu, parts>>
    BY <1>7 DEF CompleteBegins, local, Told, WantIsFile, Completing
  <2>2. job' = [job EXCEPT !.pc = IF todo = {} THEN "commit" ELSE "copy", !.size = Size, !.todo = todo]
    BY <1>7, <2>1 DEF CompleteBegins
  <2>3. /\ job'.pc = (IF todo = {} THEN "commit" ELSE "copy")
        /\ job'.size = Size /\ job'.todo = todo /\ job'.want = job.want
    BY <1>1, <2>2 DEF Jobs
  <2>4. PartsHold'
    BY <1>2, <2>1, PartsKept DEF Dirtied
  <2>5. TodoIsAll'
    <3>1. \A p \in 1..NumParts(Size) : parts[p] = NoPart => p \in todo
      OBVIOUS
    <3>2. todo \subseteq 1..NumParts(Size)
      OBVIOUS
    <3> HIDE DEF todo
    <3> QED
      BY <2>1, <2>3, <3>1, <3>2 DEF TodoIsAll, NumParts
  <2> HIDE DEF todo
  <2>6. job'.pc \in {"copy", "commit"}
    BY <2>3
  <2>7. WantIsFile'
    BY <1>1, <1>2, <1>3, <2>1, <2>3, <2>6 DEF Told, WantIsFile, Completing, Holds, Off, Dirtied
  <2>8. WantIsParts'
    BY <1>2, <2>1, <2>3, <2>6 DEF Told, WantIsParts, Completing, Off, PartRange
  <2> QED
    BY <1>3, <1>4, <1>5, <2>4, <2>5, <2>6, <2>7, <2>8, ToldAlone
<1> QED
  BY <1>6, <1>7

(* A part that is copied out of the object is that part of the file. *)
LEMMA ToldCopy ==
    ASSUME TypeInv, ShapeInv, Told, ~lost, ~lost', remote = 0, NEW p \in Parts, MultipartBlobCopy(p)
    PROVE  Told'
<1> DEFINE s == SubSeq(store, Off(p) + 1, CopyEnd(p))
           w == job.want
<1>1. /\ job \in Jobs /\ parts \in [Parts -> Contents \cup {NoPart}] /\ Size \in Nat
      /\ w \in Contents /\ Len(w) \in Nat /\ job.size \in 0..NB /\ NB \in Nat
  BY TypeFacts DEF TypeInv, StateTypeOK, UploadTypeOK, Jobs, Contents
<1>2. /\ job.pc = "copy" /\ mpu /\ p \in job.todo /\ store # NoObject
      /\ UNCHANGED <<file, store, buf, get, pjob, cacheState, mpu>>
  BY DEF MultipartBlobCopy, Copyable, app, env
<1>3. /\ store \in Contents /\ CopyEnd(p) \in 0..NB
      /\ CopyEnd(p) <= Len(store) /\ s \in Contents /\ Len(s) <= PartBlocks
      /\ parts' = [parts EXCEPT ![p] = s]
  BY <1>2, CopyPart
<1>4. /\ job'.pc \in {"copy", "commit"} /\ job'.todo = job.todo \ {p}
      /\ (job'.pc = "commit" => job.todo = {p})
      /\ job'.size = job.size /\ job'.want = w
  BY <1>1 DEF MultipartBlobCopy, Jobs
<1>5. PartsBusy' = {} /\ Size' = Size
  BY <1>2 DEF ShapeInv, JobAlone, PartsBusy, Size
<1>6. BlocksHold' /\ StoreWithin'
  BY <1>2, SameBuffers, ReadsKept DEF Told
<1>7. GetsHold' /\ NeverStored'
  BY <1>2, <1>5 DEF Told, GetsHold, NeverStored, Unclean
<1>8. /\ Len(store) <= Len(w) /\ Len(w) <= job.size /\ Len(w) <= Size /\ Len(store) \in Nat
      /\ \A b \in 1..Size : ~Dirtied(b) => Holds(w, 1, b)
  BY <1>2, <1>3 DEF Told, WantIsFile, Completing, Contents
<1>9. parts[p] = NoPart /\ p \in 1..NumParts(job.size)
  BY <1>2 DEF Told, TodoIsAll, ShapeInv, TodoIsOpen
<1>10. \A b \in PartRange(p) : b <= Len(w) => b <= Len(store) /\ store[b] = w[b]
  BY <1>2, <1>9 DEF Told, WantIsParts, Completing
<1>11. /\ Off(p) \in Nat /\ PartBlocks \in Nat \ {0} /\ p * PartBlocks = Off(p) + PartBlocks
       /\ PartRange(p) = Off(p) + 1 .. Off(p) + PartBlocks /\ PartRange(p) \subseteq Blocks
  BY PartFacts DEF PartsDivide
<1>12. Off(p) < job.size
  BY <1>1, <1>9, NumPartsFacts
<1>13. CopyEnd(p) = (IF job.size < Off(p) + PartBlocks THEN job.size ELSE Off(p) + PartBlocks)
  BY <1>11 DEF CopyEnd
<1>14. /\ Len(s) = CopyEnd(p) - Off(p)
       /\ \A i \in 1..Len(s) : s[i] = store[Off(p) + i]
  <2> DEFINE o == Off(p)
             e == CopyEnd(p)
  <2>1. store \in Seq(Stamps) /\ o \in Nat /\ e \in Nat /\ e <= Len(store) /\ o < e
    BY <1>1, <1>3, <1>11, <1>12, <1>13 DEF Contents
  <2> HIDE DEF o, e
  <2>2. /\ Len(SubSeq(store, o + 1, e)) = e - o
        /\ \A i \in 1..(e - o) : SubSeq(store, o + 1, e)[i] = store[o + i]
    BY <2>1
  <2> QED
    BY <2>2 DEF o, e
<1> HIDE DEF s
<1>15. Len(s) > 0 /\ Off(p) + Len(s) <= Len(w) /\ Off(p) + Len(s) <= Size /\ Len(s) \in Nat
  BY <1>1, <1>3, <1>8, <1>11, <1>12, <1>13, <1>14
<1>16. ASSUME NEW b \in PartRange(p), b <= Len(w)
       PROVE  b - Off(p) \in 1..Len(s) /\ s[b - Off(p)] = w[b]
  <2>1. b \in Nat /\ Off(p) + 1 <= b /\ b <= Off(p) + PartBlocks
    BY <1>11
  <2>2. b <= CopyEnd(p)
    BY <1>1, <1>8, <1>11, <1>13, <1>16, <2>1
  <2>3. b - Off(p) \in 1..Len(s) /\ Off(p) + (b - Off(p)) = b
    BY <1>3, <1>11, <1>14, <2>1, <2>2
  <2> QED
    BY <1>10, <1>14, <1>16, <2>3
<1>17. s = SubSeq(w, Off(p) + 1, IF Len(w) < p * PartBlocks THEN Len(w) ELSE p * PartBlocks)
  BY <1>1, <1>3, <1>15, <1>16, CutPart
<1>18. s # NoPart /\ parts'[p] = s /\ \A q \in Parts : q # p => parts'[q] = parts[q]
  BY <1>1, <1>3, FirstPart
<1>19. PartsHold'
  <2>1. ASSUME NEW b \in PartRange(p), b <= Size, ~Dirtied(b) PROVE Holds(s, p, b)
    <3>1. b \in 1..Size /\ b - Off(1) = b
      BY <1>1, <1>11, <2>1, FirstPart DEF Blocks
    <3>2. b <= Len(w) /\ w[b] = file[b]
      BY <1>1, <1>8, <2>1, <3>1 DEF Holds
    <3> QED
      BY <1>16, <3>2 DEF Holds
  <2>2. ASSUME NEW q \in Parts, parts'[q] # NoPart
        PROVE  /\ Len(parts'[q]) > 0 /\ Off(q) + Len(parts'[q]) <= Size
               /\ \A b \in PartRange(q) : b <= Size /\ ~Dirtied(b) => Holds(parts'[q], q, b)
    <3>1. CASE q = p
      BY <1>15, <1>18, <2>1, <3>1
    <3>2. CASE q # p
      BY <1>2, <1>18, <2>2, <3>2 DEF Told, PartsHold
    <3> QED
      BY <3>1, <3>2
  <2> QED
    BY <1>2, <1>5, <2>2 DEF PartsHold, Holds, Off, PartRange, Dirtied
<1>20. WantIsFile'
  BY <1>2, <1>4, <1>5 DEF Told, WantIsFile, Completing, Holds, Off, Dirtied
<1>21. WantIsParts'
  <2>1. ASSUME NEW q \in Parts
        PROVE  /\ parts'[q] # NoPart =>
                     Off(q) < Len(w) /\
                     parts'[q] = SubSeq(w, Off(q) + 1, IF Len(w) < q * PartBlocks
                                                       THEN Len(w) ELSE q * PartBlocks)
               /\ parts'[q] = NoPart => \A b \in PartRange(q) : b <= Len(w) =>
                     store # NoObject /\ b <= Len(store) /\ store[b] = w[b]
    <3>1. CASE q = p
      <4>1. Off(p) < Len(w)
        BY <1>1, <1>11, <1>15
      <4> QED
        BY <1>17, <1>18, <3>1, <4>1
    <3>2. CASE q # p
      BY <1>2, <1>18, <3>2 DEF Told, WantIsParts, Completing
    <3> QED
      BY <3>1, <3>2
  <2> QED
    BY <1>2, <1>4, <2>1 DEF WantIsParts, Completing, Off, PartRange
<1>22. TodoIsAll'
  <2>1. /\ \A q \in 1..NumParts(job.size) : parts[q] = NoPart => q \in job.todo
        /\ job.todo \subseteq 1..NumParts(job.size)
    BY <1>2 DEF Told, TodoIsAll
  <2>2. 1..NumParts(job.size) \subseteq Parts
    BY <1>1, NumPartsFacts, Constants DEF Parts
  <2>3. \A q \in 1..NumParts(job.size) : parts'[q] = NoPart => q \in job.todo /\ q # p
    BY <1>18, <2>1, <2>2
  <2> QED
    BY <1>4, <2>1, <2>3 DEF TodoIsAll, NumParts
<1> QED
  BY <1>4, <1>5, <1>6, <1>7, <1>19, <1>20, <1>21, <1>22, ToldAlone

(* The commit publishes the file as it was when the completion was decided. *)
LEMMA ToldCommit ==
    ASSUME TypeInv, ShapeInv, Told, ~lost, ~lost', remote = 0, MultipartBlobCommit
    PROVE  Told'
<1> DEFINE w == job.want
<1>1. /\ job \in Jobs /\ Size \in Nat /\ w \in Contents /\ Len(w) \in Nat /\ 1..Size \subseteq Blocks
  BY TypeFacts DEF TypeInv, Jobs, Contents, Blocks
<1>2. /\ job.pc = "commit" /\ store' = w
      /\ UNCHANGED <<file, buf, get, pjob, cacheState, mpu, parts, remote>>
  BY CommitWhole DEF MultipartBlobCommit, local, app
<1>3. job'.pc = "committed" /\ job'.want = w /\ job'.size = job.size
  BY <1>1 DEF MultipartBlobCommit, Jobs
<1>4. PartsBusy' = {} /\ Size' = Size
  BY <1>2 DEF ShapeInv, JobAlone, PartsBusy, Size
<1>5. /\ mpu /\ Len(w) <= Size /\ Len(w) <= job.size /\ job.size <= Size
      /\ \A b \in 1..Size : ~Dirtied(b) => Holds(w, 1, b)
  BY <1>2 DEF Told, WantIsFile, Completing
<1>6. w # NoObject
  BY <1>1, FirstPart
<1>7. BlocksHold'
  <2>1. SUFFICES ASSUME NEW b \in 1..Size
                 PROVE  IF Unclean(b) THEN buf[b].v = file[b]
                        ELSE Stored(b)' /\ (buf[b].s = "clean" => buf[b].v = file[b])
    BY <1>2, <1>4 DEF BlocksHold, Unclean
  <2>2. b \in Blocks /\ b <= Size /\ b - Off(1) = b
    BY <1>1, FirstPart
  <2>3. /\ Unclean(b) => buf[b].v = file[b]
        /\ buf[b].s = "clean" => buf[b].v = file[b]
    BY <2>2, CleanIsFile
  <2>4. ASSUME ~Unclean(b) PROVE Stored(b)'
    <3>1. Holds(w, 1, b)
      BY <1>5, <2>4 DEF Unclean, Dirtied
    <3> QED
      BY <1>1, <1>2, <1>6, <2>2, <3>1 DEF Holds, Stored
  <2> QED
    BY <2>3, <2>4
<1>8. StoreWithin' /\ NeverStored'
  BY <1>2, <1>4, <1>5, <1>6 DEF StoreWithin, NeverStored
<1>9. GetsHold'
  BY <1>2, <1>4 DEF Told, GetsHold, Unclean
<1>10. PartsHold'
  BY <1>2, PartsKept DEF Dirtied
<1>11. WantIsFile'
  <2>1. Len(store') <= Len(w)
    BY <1>1, <1>2
  <2> QED
    BY <1>2, <1>3, <1>4, <1>5, <2>1 DEF WantIsFile, Completing, Holds, Off, Dirtied
<1>12. WantIsParts' /\ TodoIsAll'
  BY <1>3 DEF WantIsParts, TodoIsAll
<1> QED
  BY <1>3, <1>4, <1>7, <1>8, <1>9, <1>10, <1>11, <1>12, ToldAlone

(* When its answer comes what was flushed and not written again is in the object. *)
LEMMA ToldCommitReturns ==
    ASSUME TypeInv, ShapeInv, Told, ~lost, ~lost', remote = 0, CommitReturns
    PROVE  Told'
<1> DEFINE w == job.want
<1>1. /\ buf \in [Blocks -> Buffers] /\ job \in Jobs /\ Size \in Nat /\ w \in Contents /\ Len(w) \in Nat
      /\ 1..Size \subseteq Blocks /\ Idle.pc = "none"
  BY TypeFacts DEF TypeInv, StateTypeOK, BuffersTypeOK, Jobs, Contents, Blocks, Idle
<1>2. /\ job.pc = "committed" /\ job' = Idle /\ ~mpu' /\ Overtake(Cleaned)
      /\ UNCHANGED <<file, store, pjob, remote>>
      /\ buf' = [b \in Blocks |-> IF buf[b].s = "flushed" THEN Clean(buf[b].v) ELSE buf[b]]
  BY DEF CommitReturns, app, env
<1>3. PartsBusy' = {} /\ Size' = Size
  BY <1>2 DEF ShapeInv, JobAlone, PartsBusy, Size
<1>4. store = w /\ store # NoObject /\ \A b \in 1..Size : ~Dirtied(b) => Holds(w, 1, b)
  BY <1>1, <1>2, FirstPart DEF Told, WantIsFile, Completing
<1>5. \A b \in Blocks : buf'[b] = IF buf[b].s = "flushed" THEN Clean(buf[b].v) ELSE buf[b]
  BY <1>2
<1>6. \A v : Clean(v).s = "clean" /\ Clean(v).v = v
  BY DEF Clean
<1>7. BlocksHold'
  <2>1. SUFFICES ASSUME NEW b \in 1..Size
                 PROVE  IF Unclean(b)' THEN buf'[b].v = file[b]
                        ELSE Stored(b) /\ (buf'[b].s = "clean" => buf'[b].v = file[b])
    BY <1>2, <1>3 DEF BlocksHold, Stored
  <2>2. b \in Blocks /\ b <= Size /\ b - Off(1) = b
    BY <1>1, FirstPart
  <2>3. /\ Unclean(b) => buf[b].v = file[b]
        /\ buf[b].s = "clean" => buf[b].v = file[b]
        /\ ~Unclean(b) => Stored(b)
    BY <2>2, CleanIsFile
  <2>4. CASE buf[b].s = "flushed"
    <3>1. buf'[b].s = "clean" /\ buf'[b].v = buf[b].v /\ Unclean(b)
      BY <1>5, <1>6, <2>2, <2>4 DEF Unclean
    <3>2. Holds(w, 1, b)
      BY <1>4, <2>4 DEF Dirtied
    <3>3. Stored(b)
      BY <1>1, <1>4, <2>2, <3>2 DEF Holds, Stored
    <3> QED
      BY <2>3, <3>1, <3>3 DEF Unclean
  <2>5. CASE buf[b].s # "flushed"
    BY <1>5, <2>2, <2>3, <2>5 DEF Unclean
  <2> QED
    BY <2>4, <2>5
<1>8. StoreWithin' /\ NeverStored'
  BY <1>2, <1>3, <1>4 DEF Told, StoreWithin, NeverStored
<1>10. GetsHold'
  <2>1. \A b \in Blocks : Unclean(b) /\ ~Unclean(b)' => buf'[b].s = "clean"
    BY <1>5, <1>6 DEF Unclean
  <2> QED
    BY <1>2, <1>3, <2>1, AnswerGets DEF Told
<1>9. PutHolds' /\ ~Completing' /\ job'.pc # "smallLoad"
  BY <1>1, <1>2 DEF PutHolds, Completing
<1> QED
  BY <1>2, <1>3, <1>7, <1>8, <1>9, <1>10, ToldNoUpload

(* Every step of a tame history keeps what is told, or drops the local changes. *)
LEMMA ToldStep ==
    TypeInv /\ TypeInv' /\ ShapeInv /\ SentInv /\ Newest' /\ ToldInv /\ [Next]_vars => ToldInv'
<1> SUFFICES ASSUME TypeInv, TypeInv', ShapeInv, SentInv, Newest', ToldInv, [Next]_vars, Tame', ~lost'
             PROVE  Told'
  BY DEF ToldInv
<1>1. ~late' /\ truncates' = 0 /\ remote' = 0 /\ vanished' = 0
  BY DEF Tame, Steady
<1>2. truncates \in Nat /\ remote \in Nat /\ vanished \in Nat
  BY Constants DEF TypeInv, StateTypeOK, CountersTypeOK
<1>3. /\ \A n \in 0..NB : ~RemoteWrite(n)
      /\ ~UploadVanishes
      /\ \A n \in TruncateSizes : ~Truncate(n)
  BY <1>1, <1>2 DEF RemoteWrite, UploadVanishes, Truncate
<1>4. ~ResetCache /\ \A p \in Parts : ~CopyConflict(p)
  BY DEF ResetCache, CopyConflict
<1>5. CASE Refresh
  BY <1>1, <1>5, ToldRefresh
<1>6. CASE ~Refresh
  <2>1. ~World
    BY <1>3, <1>6 DEF World
  <2>2. ~TruncateEnds
    <3> SUFFICES ASSUME TruncateEnds PROVE FALSE
      OBVIOUS
    <3> QED
      BY <1>1 DEF TruncateEnds, ShapeInv, TruncateWaits
  <2>3. UNCHANGED <<truncates, remote, vanished, lost>>
    <3>1. CASE App
      BY <1>3, <1>4, <2>2, <3>1 DEF App, WriteFile, ReadFile, SyncFile, Release, ReadReturns, app, env, local
    <3>2. CASE Data \/ UNCHANGED vars \/ \E b \in Blocks : Evict(b)
      BY <3>2 DEF Data, GetBlob, BodyArrives, GetFails, Evict, app, env, local, vars
    <3>3. CASE Flush
      BY <1>4, <3>3 DEF Flush, StartSmall, SmallBegins, SmallLoaded, PutBlob, PutReturns, StartMultipart,
         MultipartBegins, StartPart, PartBegins, PartLoaded, MultipartBlobAdd, PartReturns, PartRefused,
         StartComplete, CompleteBegins, MultipartBlobCommit, CommitReturns, CompleteRefused,
         CompleteAborts, MultipartBlobCopy, app, env, local
    <3>4. CASE Failure
      BY <3>4 DEF Failure, PutFails, CopyFails, CommitFails, PartFails, LoadingStalls, app, env, local
    <3> QED
      BY <2>1, <3>1, <3>2, <3>3, <3>4 DEF Next
  <2>10. ~late
    BY <1>1, LateStep
  <2>4. Told /\ Sent /\ ~lost /\ remote = 0
    BY <1>1, <2>3, <2>10 DEF ToldInv, SentInv, Tame, Steady
  <2>5. CASE UNCHANGED vars
    <3>1. UNCHANGED <<file, store, parts, job, mpu, pjob, cacheState, buf, get>>
      BY <2>5 DEF vars
    <3> QED
      BY <2>4, <3>1, SameBuffers, ToldKept
  <2>6. CASE App
    BY <1>1, <1>3, <2>2, <2>4, <2>6, ToldWrite, ToldRead DEF App
  <2>7. CASE Data \/ \E b \in Blocks : Evict(b)
    BY <1>1, <2>4, <2>7, ToldRead DEF Data
  <2>8. CASE Failure
    BY <1>1, <2>4, <2>8, ToldGivenUp, ToldRead DEF Failure
  <2>9. CASE Flush
    <3>1. CASE StartSmall \/ StartMultipart \/ CompleteAborts \/ CompleteRefused
               \/ \E p \in Parts : StartPart(p) \/ PartRefused(p)
      BY <2>4, <3>1, ToldGivenUp
    <3>2. CASE SmallBegins \/ SmallLoaded \/ PutBlob \/ PutReturns
      BY <1>1, <2>4, <3>2, ToldSmall
    <3>3. CASE \E p \in Parts : PartBegins(p) \/ PartLoaded(p) \/ MultipartBlobAdd(p) \/ PartReturns(p)
      BY <2>4, <3>3, ToldPart
    <3>4. CASE StartComplete \/ MultipartBegins \/ CompleteBegins
      BY <2>4, <3>4, ToldStartComplete, ToldBegins
    <3>5. CASE MultipartBlobCommit \/ CommitReturns \/ \E p \in Parts : MultipartBlobCopy(p)
      BY <1>1, <2>4, <3>5, ToldCopy, ToldCommit, ToldCommitReturns
    <3> QED
      BY <1>4, <2>9, <3>1, <3>2, <3>3, <3>4, <3>5 DEF Flush
  <2> QED
    BY <2>1, <2>5, <2>6, <2>7, <2>8, <2>9 DEF Next
<1> QED
  BY <1>5, <1>6

-------------------------------------------------------------------------------
(* Theorems *)

(* The invariant holds in every state. *)
LEMMA FlushInit == Init => FlushInv
<1>1. Init => Newest
  BY DEF Init, Newest, Unclean, Hole
<1> QED
  BY <1>1, TypeInit, ShapeInit, SentInit, ToldInit DEF FlushInv

(* Every step keeps it. *)
LEMMA FlushStep == FlushInv /\ [Next]_vars => FlushInv'
BY TypeStep, ShapeStep, SentStep, NewestStep, ToldStep DEF FlushInv

(* Whatever fails, vanishes or is changed by others, and in whatever order bodies arrive: what is
   dirty or flushed in memory is the newest write of its block.  No GET, refused part or aborted
   upload puts older bytes over it. *)
THEOREM DirtyIsNewest == Spec => []Newest
<1>1. FlushInv => Newest
  BY DEF FlushInv
<1> QED
  BY <1>1, FlushInit, FlushStep, PTL DEF Spec

(* As long as nothing is truncated and no upload vanishes, a read of any block returns its newest
   write until a body is loaded that the answer of an upload of newer bytes has overtaken: what is
   clean or not in memory is in the object unless another client's change was met, through any
   number of writes, failures, retries, evictions and GETs that are outstanding meanwhile. *)
THEOREM ReadsReturnNewest == Spec => [](Steady => ReadsSeeWrites)
<1>1. FlushInv => (Steady => ReadsSeeWrites)
  <2> SUFFICES ASSUME FlushInv, Steady PROVE ReadsSeeWrites
    OBVIOUS
  <2>1. CASE ~lost /\ ~late /\ remote = 0
    BY <2>1 DEF FlushInv, ToldInv, Told, Tame, BlocksHold, ReadsSeeWrites
  <2>2. CASE lost \/ late \/ remote > 0
    <3>1. 1..Size \subseteq Blocks
      BY TypeFacts DEF FlushInv, TypeInv, Blocks
    <3> QED
      BY <2>2, <3>1 DEF FlushInv, Newest, ReadsSeeWrites
  <2>3. remote \in Nat
    BY Constants DEF FlushInv, TypeInv, StateTypeOK, CountersTypeOK
  <2> QED
    BY <2>1, <2>2, <2>3
<1> QED
  BY <1>1, FlushInit, FlushStep, PTL DEF Spec

(* In such histories an inode that SyncFile finds clean, with nothing in flight, is stored: the
   object has the length and every byte of the file, unless another client changed it. *)
THEOREM SyncedFileIsStored == Spec => [](Steady => SyncedIsStored)
<1>1. FlushInv => (Steady => SyncedIsStored)
  <2> SUFFICES ASSUME FlushInv, Steady, SyncDone, ~lost, ~late, remote = 0
               PROVE  store = file \/ (cacheState = "created" /\ file = <<>>)
    BY DEF SyncedIsStored
  <2>1. TypeInv /\ Told
    BY DEF FlushInv, ToldInv, Tame
  <2>2. \A b \in Blocks : ~Unclean(b)
    BY DEF SyncDone, isStillDirty, StillDirty, Unclean, FlushInv, ShapeInv, CachedIsClean
  <2>3. /\ file \in Contents /\ Len(file) = Size /\ Size \in Nat /\ 1..Size \subseteq Blocks
        /\ store \in Contents \cup {NoObject}
    BY <2>1, TypeFacts DEF TypeInv, StateTypeOK, UploadTypeOK, Size, Blocks
  <2>4. \A b \in 1..Size : Stored(b)
    BY <2>1, <2>2, <2>3, CleanIsFile
  <2>5. CASE store = NoObject
    <3>1. Size = 0
      BY <2>3, <2>4, <2>5 DEF Stored
    <3>2. file = <<>>
      BY <2>3, <3>1 DEF Contents
    <3> QED
      BY <2>1, <2>5, <3>2 DEF Told, NeverStored
  <2>6. CASE store # NoObject
    <3>1. store \in Seq(Stamps) /\ file \in Seq(Stamps) /\ Len(store) \in Nat
      BY <2>3, <2>6 DEF Contents
    <3>2. Len(store) <= Size
      BY <2>1, <2>6 DEF Told, StoreWithin
    <3>3. Size <= Len(store)
      BY <2>3, <2>4, <3>1 DEF Stored
    <3>4. Len(store) = Len(file) /\ \A b \in 1..Len(file) : store[b] = file[b]
      BY <2>3, <2>4, <3>1, <3>2, <3>3 DEF Stored
    <3>5. store = file
      BY <3>1, <3>4
    <3> QED
      BY <3>5
  <2> QED
    BY <2>5, <2>6
<1> QED
  BY <1>1, FlushInit, FlushStep, PTL DEF Spec

(* If also nobody else changes the object, a commit publishes the file as it was when the completion was decided, however
   the uploads of its parts and the copies of the others interleaved with writes. *)
THEOREM CommitsAreInstant ==
    ASSUME MaxTruncates = 0, MaxRemote = 0, MaxGone = 0
    PROVE  Spec => CommitIsInstant
<1> DEFINE A == job.pc = "commit" /\ ~lost /\ ~late /\ store' # store /\ remote' = remote =>
                  store' = SubSeq(job.want, 1, IF job.size < Len(job.want) THEN job.size
                                               ELSE Len(job.want))
<1>1. FlushInv /\ [Next]_vars => [A]_vars
  <2> SUFFICES ASSUME FlushInv, [Next]_vars, job.pc = "commit", ~lost, ~late, store' # store, remote' = remote
               PROVE  store' = SubSeq(job.want, 1, IF job.size < Len(job.want) THEN job.size
                                                   ELSE Len(job.want))
    OBVIOUS
  <2>1. TypeInv /\ Tame
    BY DEF FlushInv, TypeInv, StateTypeOK, CountersTypeOK, Tame, Steady
  <2>2. Told
    BY <2>1 DEF FlushInv, ToldInv
  <2>3. MultipartBlobCommit
    <3>1. CASE App
      BY <3>1 DEF App, WriteFile, Truncate, TruncateEnds, ReadFile, SyncFile, Release, ReadReturns, env
    <3>2. CASE Data \/ UNCHANGED vars \/ \E b \in Blocks : Evict(b)
      BY <3>2 DEF Data, GetBlob, BodyArrives, GetFails, Evict, env, vars
    <3>3. CASE Flush
      BY <3>3 DEF Flush, StartSmall, SmallBegins, SmallLoaded, PutBlob, PutReturns, StartMultipart,
         MultipartBegins, StartPart, PartBegins, PartLoaded, MultipartBlobAdd, PartReturns, PartRefused,
         StartComplete, CompleteBegins, CommitReturns, CompleteRefused, CompleteAborts,
         MultipartBlobCopy, CopyConflict, env
    <3>4. CASE Failure
      BY <3>4 DEF Failure, PutFails, CopyFails, CommitFails, PartFails, LoadingStalls
    <3>5. CASE World
      BY <2>1, <3>5 DEF World, UploadVanishes, Refresh, RemoteWrite, env, Tame
    <3> QED
      BY <3>1, <3>2, <3>3, <3>4, <3>5 DEF Next
  <2>4. store' = job.want /\ Len(job.want) <= job.size
    BY <2>1, <2>2, <2>3, CommitWhole DEF MultipartBlobCommit
  <2>5. job.want \in Seq(Stamps) /\ Len(job.want) \in Nat /\ job.size \in Nat
    BY <2>1, TypeFacts DEF TypeInv, Jobs, Contents
  <2>6. SubSeq(job.want, 1, Len(job.want)) = job.want
    BY <2>5
  <2> QED
    BY <2>4, <2>5, <2>6
<1>2. FlushInv /\ [Next]_vars => FlushInv'
  BY FlushStep
<1> QED
  BY <1>1, <1>2, FlushInit, PTL DEF Spec, CommitIsInstant
===============================================================================
