--------------------------- MODULE DirListingProofs ---------------------------
(***************************************************************************)
(* Proofs about DirListing, for every directory, page size and number of    *)
(* readers and lookups.                                                     *)
(*                                                                          *)
(* The argument for OwnView, NothingVanishes and TrustedIsFresh is one      *)
(* inductive invariant, ListInv, stated name by name: how the cache and the *)
(* bucket of one of this mount's files can differ while its upload or       *)
(* deletion is on its way (OwnFile), what an answer that does not mask a    *)
(* name says of the bucket (Seen), and which names a refresh has reached    *)
(* and therefore may not lose (Reached, Safe).                              *)
(*                                                                          *)
(* ReadDirComplete needs two more invariants of the directory handles:      *)
(* where a position, kept by number or by the last name, stands among what  *)
(* was returned (PositionInv), and that what a reader must return and has   *)
(* passed was returned and is still there (MustInv).                        *)
(***************************************************************************)
EXTENDS DirListing, FiniteSetTheorems, WellFoundedInduction, TLAPS

(* Types *)

ChildRec == [st : {"none", "created", "modified", "cached"}, etag : Contents, data : Contents,
             open : BOOLEAN, fresh : BOOLEAN]
PutRec == [pc : {"none", "sent", "stored", "unmasked"}, v : Contents]
DirRec == [marker : 0..N, last : 0..N, done : BOOLEAN, valid : BOOLEAN, forget : BOOLEAN]
HandleRec ==
    [pc : {"closed", "idle", "slurp", "loaded", "list", "flat", "entry", "ended"}, idx : -1..N,
     name : 0..N, entry : 0..N, start : 0..N, loaded : BOOLEAN, done : BOOLEAN,
     got : SUBSET Names, must : SUBSET Names, twice : BOOLEAN,
     whole : {"partly", "yes", "no"}]
LookRec == [pc : {"idle", "slurp", "head"}, n : 0..N, same : BOOLEAN]
ItemFuns == UNION {[S -> Contents] : S \in SUBSET Names}
RequestRec == [kind : {"none", "slurp", "flat", "head"}, from : 0..N, skip : SUBSET Names,
               answered : BOOLEAN, items : ItemFuns, more : BOOLEAN]

StoreTypes ==
    /\ bucket \in [Names -> Contents]
    /\ child \in [Names -> ChildRec]
    /\ deleted \in [Names -> BOOLEAN]
    /\ put \in [Names -> PutRec]
    /\ del \in [Names -> {"none", "sent", "stored"}]
    /\ dir \in DirRec
    /\ last \in [Names -> Contents]
    /\ quiet \in SUBSET Remote
    /\ writes \in 0..MaxWrites /\ remotes \in 0..MaxRemote

\* A position that waits for its entry to be delivered leaves room for one more.
ThreadTypes ==
    /\ handle \in [Readers -> HandleRec]
    /\ look \in [Lookers -> LookRec]
    /\ request \in [Procs -> RequestRec]
    /\ \A r \in Readers : handle[r].pc = "entry" => handle[r].entry \in Names /\ handle[r].idx < N
    /\ \A l \in Lookers : look[l].pc # "idle" => look[l].n \in Names
    /\ \A p \in Procs : request[p].kind = "head" => request[p].from \in Names

TypeInv == StoreTypes /\ ThreadTypes
----------------------------------------------------------------------------
(* The invariant of the listing *)

\* Nothing has happened that the files do not survive.
Orderly == races \cap FileRaces = {}

\* An upload or a deletion of n is on its way, masked or not.
Changes(n) == put[n].pc # "none" \/ del[n] # "none"

\* Every change on its way is masked: its ETag is known as soon as it no longer is.
NoneUnmasked == \A n \in Names : put[n].pc \in {"none", "sent", "stored"}

\* Which request a thread waits for.
ReaderInv(r) ==
    /\ handle[r].pc = "slurp" => request[r].kind = "slurp"
    /\ handle[r].pc = "flat" => request[r].kind = "flat"
    /\ request[r].kind # "none" => handle[r].pc \in {"slurp", "flat"}
    /\ request[r].kind = "slurp" => request[r].from = 0
    /\ handle[r].done => handle[r].pc = "loaded"

LookerInv(l) ==
    /\ look[l].pc # "idle" => request[l].kind # "none"
    /\ look[l].same => look[l].pc = "head" /\ request[l].kind = "head" /\ request[l].from = look[l].n

\* The cache and the bucket of one of this mount's files.
OwnFile(n) ==
    /\ del[n] # "none" => deleted[n] /\ put[n].pc = "none"
    /\ del[n] = "stored" => bucket[n] = 0
    /\ put[n].pc # "none" => put[n].v # 0
    /\ put[n].pc \in {"stored", "unmasked"} => bucket[n] = put[n].v
    /\ child[n].st = "none" /\ last[n] # 0 => bucket[n] = last[n] /\ ~deleted[n] /\ put[n].pc = "none"
    /\ child[n].st = "none" /\ last[n] = 0 /\ ~deleted[n] => bucket[n] = 0 /\ put[n].pc = "none"
    /\ child[n].st # "none" =>
           /\ last[n] # 0 /\ child[n].data = last[n]
           /\ deleted[n] => child[n].st = "created" /\ del[n] # "none"
    /\ child[n].st = "created" /\ ~deleted[n] /\ put[n].pc \in {"none", "sent"} => bucket[n] = 0
    /\ child[n].st = "modified" => bucket[n] # 0 /\ (put[n].pc \in {"none", "sent"} => child[n].etag = bucket[n])
    /\ child[n].st = "cached" =>
           put[n].pc = "none" /\ child[n].etag = bucket[n] /\ child[n].data = bucket[n]

\* Other clients' files are only ever cached; an entry that is up to date shows the bucket.
RemoteFile(n) ==
    /\ put[n].pc = "none" /\ del[n] = "none" /\ ~deleted[n] /\ ~child[n].open
    /\ child[n].st \in {"none", "cached"}
    /\ n \in quiet /\ child[n].fresh => child[n].st # "none" /\ bucket[n] # 0 /\ child[n].etag = bucket[n]

FileInv(n) ==
    /\ child[n].st = "none" => child[n].etag = 0 /\ ~child[n].open /\ ~child[n].fresh
    /\ n \in Own => OwnFile(n)
    /\ n \in Remote => RemoteFile(n)

\* The names an answer decides about: it shows them, or they are not in the bucket.
Decides(q, n) ==
    IF q.kind = "head" THEN n = q.from
    ELSE n > q.from /\ (q.more => \E m \in DOMAIN q.items : n <= m)

Tells(q, n) == (n \in Own /\ n \notin q.skip) \/ n \in quiet

\* What the answer of p says of n, unless it is masked, is still so.
Seen(n, p) ==
    request[p].kind # "none" /\ Tells(request[p], n) =>
        /\ ~Changes(n)
        /\ request[p].answered /\ n \in DOMAIN request[p].items =>
               bucket[n] # 0 /\ request[p].items[n] = bucket[n]
        /\ request[p].answered /\ n \notin DOMAIN request[p].items /\ Decides(request[p], n) =>
               bucket[n] = 0

RequestInv(n) ==
    /\ \A p \in Procs : Seen(n, p) /\ (request[p].answered => request[p].kind # "none")
    /\ n \in Remote => \A p \in Procs : n \notin request[p].skip

\* A lookup holds the inode of n: n is in the bucket.
HeldInv(n) ==
    n \in Own => \A l \in Lookers : look[l].same /\ look[l].n = n =>
        /\ child[n].st # "none" /\ bucket[n] # 0 /\ ~deleted[n]
        /\ request[l].answered => n \in DOMAIN request[l].items

\* n will survive removeExpired.
Kept(n) == child[n].st # "none" /\ (child[n].st = "cached" => child[n].fresh)

Safe(n) ==
    /\ n \in Own /\ last[n] # 0 => Kept(n)
    /\ n \in quiet /\ bucket[n] # 0 => Kept(n)

\* The refresh has passed n, or passes it over.
Reached(n) ==
    \/ n <= dir.marker \/ dir.done \/ dir.valid
    \/ \E r \in Readers : \/ handle[r].done
                          \/ request[r].kind # "none" /\ n <= request[r].from
                          \/ request[r].kind # "none" /\ n \in request[r].skip

RefreshInv(n) ==
    /\ Reached(n) => Safe(n)
    /\ dir.valid /\ n \in quiet /\ child[n].st # "none" => child[n].fresh

ThreadInv == (\A r \in Readers : ReaderInv(r)) /\ (\A l \in Lookers : LookerInv(l))
NameInv(n) == FileInv(n) /\ RequestInv(n) /\ HeldInv(n) /\ RefreshInv(n)
ListInv == TypeInv /\ ThreadInv /\ \A n \in Names : NameInv(n)
----------------------------------------------------------------------------
(* Sets of names *)

(* Names is finite, and so is the set of the cached ones. *)
LEMMA PresentSize ==
    ASSUME NEW ch, NEW S \in SUBSET Present(ch)
    PROVE  IsFiniteSet(S) /\ Cardinality(S) \in 0..N /\ S \subseteq Names
<1>1. N \in Nat
  BY Constants
<1>2. IsFiniteSet(Names) /\ Cardinality(Names) = N
  BY <1>1, FS_Interval DEF Names
<1>3. S \subseteq Names
  BY DEF Present
<1>4. IsFiniteSet(S) /\ Cardinality(S) <= N
  BY <1>2, <1>3, FS_Subset
<1>5. Cardinality(S) \in Nat
  BY <1>4, FS_CardinalityType
<1> QED
  BY <1>1, <1>3, <1>4, <1>5

(* A set of natural numbers that is not empty has a least element. *)
LEMMA LeastElement ==
    ASSUME NEW S \in SUBSET Nat, S # {}
    PROVE  \E x \in S : \A y \in S : x <= y
<1>1. \E x \in S : \A y \in S : ~(<<y, x>> \in OpToRel(<, Nat))
  BY NatLessThanWellFounded, WFMin
<1>2. PICK x \in S : \A y \in S : ~(<<y, x>> \in OpToRel(<, Nat))
  BY <1>1
<1>3. ASSUME NEW y \in S
      PROVE  x <= y
  <2>1. x \in Nat /\ y \in Nat
    OBVIOUS
  <2>2. ~(y < x)
    BY <1>2, <2>1 DEF OpToRel
  <2> QED
    BY <2>1, <2>2
<1> QED
  BY <1>3

(* Max of some of the names, or of the position before them. *)
LEMMA MaxOfNames ==
    ASSUME NEW S \in SUBSET (0..N), S # {}
    PROVE  Max(S) \in S /\ Max(S) \in 0..N /\ \A y \in S : y <= Max(S)
<1>1. N \in Nat
  BY Constants
<1> DEFINE T == {N - x : x \in S}
<1>2. T \in SUBSET Nat /\ T # {}
  <2>1. ASSUME NEW x \in S
        PROVE  N - x \in Nat
    BY <1>1
  <2>2. PICK x \in S : TRUE
    OBVIOUS
  <2>3. N - x \in T
    BY <2>2
  <2> QED
    BY <2>1, <2>3
<1> HIDE DEF T
<1>3. PICK t \in T : \A u \in T : t <= u
  BY <1>2, LeastElement
<1>4. PICK x \in S : t = N - x
  BY <1>3 DEF T
<1>5. ASSUME NEW y \in S
      PROVE  x >= y
  <2>1. N - y \in T
    BY DEF T
  <2> QED
    BY <1>1, <1>3, <1>4, <2>1
<1>6. \E z \in S : \A y \in S : z >= y
  BY <1>5
<1>7. Max(S) \in S /\ \A y \in S : Max(S) >= y
  BY <1>6 DEF Max
<1> QED
  BY <1>1, <1>7

(* Children[i] exists for every position before the last. *)
LEMMA ChildAtPosition ==
    ASSUME NEW ch, NEW i \in Nat, i < Cardinality(Present(ch))
    PROVE  /\ ChildAt(ch, i) \in Present(ch) /\ ChildAt(ch, i) \in Names
           /\ Cardinality({c \in Present(ch) : c < ChildAt(ch, i)}) = i
<1>1. N \in Nat
  BY Constants
<1> DEFINE S == Present(ch)
           Upto(k) == {c \in S : c <= k}
           K == {k \in Nat : Cardinality(Upto(k)) > i}
<1>2. S \subseteq Names
  BY DEF Present
<1>3. ASSUME NEW k
      PROVE  IsFiniteSet(Upto(k)) /\ Cardinality(Upto(k)) \in Nat
  <2>1. Upto(k) \in SUBSET S
    OBVIOUS
  <2> QED
    BY <2>1, PresentSize
<1>4. N \in K
  <2>1. Upto(N) = S
    BY <1>1, <1>2 DEF Names
  <2> QED
    BY <1>1, <2>1
<1> HIDE DEF Upto
<1>5. K \in SUBSET Nat /\ K # {}
  BY <1>4
<1> HIDE DEF K
<1>6. PICK k \in K : \A y \in K : k <= y
  BY <1>5, LeastElement
<1>7. k \in Nat /\ Cardinality(Upto(k)) > i
  BY <1>6 DEF K
<1>8. k # 0
  <2>1. Upto(0) = {}
    BY <1>2 DEF Names, Upto
  <2>2. Cardinality(Upto(0)) = 0
    BY <2>1, FS_EmptySet
  <2> QED
    BY <1>7, <2>2
<1>9. k - 1 \in Nat /\ k - 1 \notin K
  <2>1. k - 1 \in Nat /\ ~(k <= k - 1)
    BY <1>7, <1>8
  <2> QED
    BY <1>6, <2>1
<1>10. ~(Cardinality(Upto(k - 1)) > i)
  BY <1>9 DEF K
<1>11. Cardinality(Upto(k - 1)) <= i
  BY <1>3, <1>10
<1>12. CASE k \in S
  <2>1. Upto(k) = Upto(k - 1) \cup {k} /\ k \notin Upto(k - 1)
    BY <1>2, <1>7, <1>12 DEF Names, Upto
  <2>2. Cardinality(Upto(k)) = Cardinality(Upto(k - 1)) + 1
    BY <1>3, <2>1, FS_AddElement
  <2>3. Cardinality(Upto(k - 1)) = i
    BY <1>3, <1>7, <1>11, <2>2
  <2>4. Upto(k - 1) = {c \in S : c < k}
    BY <1>2, <1>7 DEF Names, Upto
  <2>5. \E n \in Present(ch) : Cardinality({c \in Present(ch) : c < n}) = i
    BY <1>12, <2>3, <2>4
  <2>6. ChildAt(ch, i) \in Present(ch) /\ Cardinality({c \in Present(ch) : c < ChildAt(ch, i)}) = i
    BY <2>5 DEF ChildAt
  <2> QED
    BY <1>2, <2>6
<1>13. CASE k \notin S
  <2>1. Upto(k) = Upto(k - 1)
    BY <1>2, <1>7, <1>13 DEF Names, Upto
  <2> QED
    BY <1>3, <1>7, <1>11, <2>1
<1> QED
  BY <1>12, <1>13

(* checkDirPosition finds a position of the directory. *)
LEMMA PositionType ==
    ASSUME NEW ch, NEW h \in HandleRec
    PROVE  Position(ch, h) \in 0..N
<1>1. N \in Nat
  BY Constants
<1>2. h.idx \in -1..N
  BY DEF HandleRec
<1>3. {c \in Present(ch) : c <= h.name} \in SUBSET Present(ch)
  OBVIOUS
<1>4. Cardinality({c \in Present(ch) : c <= h.name}) \in 0..N
  BY <1>3, PresentSize
<1> QED
  BY <1>1, <1>2, <1>4 DEF Position
----------------------------------------------------------------------------
(* Types *)

HandlesOK(hs) ==
    /\ hs \in [Readers -> HandleRec]
    /\ \A r \in Readers : hs[r].pc = "entry" => hs[r].entry \in Names /\ hs[r].idx < N

LooksOK(ls) ==
    /\ ls \in [Lookers -> LookRec]
    /\ \A l \in Lookers : ls[l].pc # "idle" => ls[l].n \in Names

(* The types of the initial records. *)
LEMMA RecordTypes ==
    /\ NoChild \in ChildRec /\ NoPut \in PutRec /\ NoRequest \in RequestRec
    /\ NewHandle \in HandleRec /\ Closed \in HandleRec /\ NoLook \in LookRec
<1>1. N \in Nat \ {0} /\ MaxWrites \in Nat /\ MaxRemote \in Nat
  BY Constants
<1>2. 0 \in Contents
  BY <1>1 DEF Contents
<1>3. [n \in {} |-> 0] \in ItemFuns
  <2>1. {} \in SUBSET Names /\ [n \in {} |-> 0] \in [{} -> Contents]
    OBVIOUS
  <2> QED
    BY <2>1 DEF ItemFuns
<1>4. NoChild \in ChildRec /\ NoPut \in PutRec
  BY <1>2 DEF NoChild, ChildRec, NoPut, PutRec
<1>5. NoRequest \in RequestRec
  BY <1>1, <1>3 DEF NoRequest, RequestRec
<1>6. NewHandle \in HandleRec
  BY <1>1 DEF NewHandle, HandleRec
<1>7. Closed \in HandleRec
  BY <1>6 DEF Closed, HandleRec
<1>8. NoLook \in LookRec
  BY <1>1 DEF NoLook, LookRec
<1> QED
  BY <1>4, <1>5, <1>6, <1>7, <1>8

(* Repositioned only invalidates positions and forgets returned names. *)
LEMMA RepositionedFacts ==
    ASSUME NEW hs, HandlesOK(hs), NEW old, NEW new
    PROVE  /\ HandlesOK(Repositioned(hs, old, new))
           /\ \A r \in Readers : /\ Repositioned(hs, old, new)[r].pc = hs[r].pc
                                 /\ Repositioned(hs, old, new)[r].done = hs[r].done
<1>1. N \in Nat
  BY Constants
<1> DEFINE come == Present(new) \ Present(old)
           moved == Present(old) \ Present(new) # {} \/ \E n \in come, c \in Present(old) : n < c
           new1(r) == [hs[r] EXCEPT !.idx = IF moved THEN -1 ELSE @, !.got = @ \ come]
           hs2 == Repositioned(hs, old, new)
<1>2. hs2 = [r \in Readers |-> IF hs[r].pc \in {"closed", "ended"} THEN hs[r] ELSE new1(r)]
  BY DEF Repositioned
<1> HIDE DEF come, moved, hs2
<1>3. ASSUME NEW r \in Readers
      PROVE  /\ new1(r) \in HandleRec /\ new1(r).pc = hs[r].pc /\ new1(r).done = hs[r].done
             /\ new1(r).entry = hs[r].entry /\ new1(r).idx \in {-1, hs[r].idx}
  <2>1. hs[r] \in HandleRec
    BY DEF HandlesOK
  <2>2. hs[r].got \ come \in SUBSET Names /\ -1 \in -1..N
    BY <1>1, <2>1 DEF HandleRec
  <2>3. PICK i \in {-1, hs[r].idx} : i = IF moved THEN -1 ELSE hs[r].idx
    OBVIOUS
  <2>4. new1(r) = [hs[r] EXCEPT !.idx = i, !.got = hs[r].got \ come]
    BY <2>3
  <2>5. [hs[r] EXCEPT !.idx = i, !.got = hs[r].got \ come] \in HandleRec
    BY <2>1, <2>2, <2>3 DEF HandleRec
  <2> QED
    BY <2>1, <2>3, <2>4, <2>5 DEF HandleRec
<1> HIDE DEF new1
<1>4. ASSUME NEW r \in Readers
      PROVE  /\ hs2[r] \in HandleRec /\ hs2[r].pc = hs[r].pc /\ hs2[r].done = hs[r].done
             /\ hs2[r].entry = hs[r].entry /\ hs2[r].idx \in {-1, hs[r].idx}
  BY <1>2, <1>3 DEF HandlesOK
<1>5. hs2 \in [Readers -> HandleRec]
  BY <1>2, <1>4
<1>6. HandlesOK(hs2)
  BY <1>1, <1>4, <1>5 DEF HandlesOK
<1> QED
  BY <1>4, <1>6 DEF hs2

(* Changed only shortens what a reader must return. *)
LEMMA ChangedFacts ==
    ASSUME NEW hs, HandlesOK(hs), NEW n
    PROVE  /\ HandlesOK(Changed(hs, n))
           /\ \A r \in Readers : /\ Changed(hs, n)[r].pc = hs[r].pc
                                 /\ Changed(hs, n)[r].done = hs[r].done
<1>1. ASSUME NEW r \in Readers
      PROVE  /\ Changed(hs, n)[r] \in HandleRec
             /\ Changed(hs, n)[r].pc = hs[r].pc /\ Changed(hs, n)[r].done = hs[r].done
             /\ Changed(hs, n)[r].entry = hs[r].entry /\ Changed(hs, n)[r].idx = hs[r].idx
  BY DEF Changed, HandlesOK, HandleRec
<1>2. Changed(hs, n) \in [Readers -> HandleRec]
  BY <1>1 DEF Changed
<1> QED
  BY <1>1, <1>2 DEF HandlesOK

(* Detached only detaches lookups whose entry is gone. *)
LEMMA DetachedFacts ==
    ASSUME NEW ls, LooksOK(ls), NEW new
    PROVE  /\ LooksOK(Detached(ls, new))
           /\ \A l \in Lookers : /\ Detached(ls, new)[l].pc = ls[l].pc
                                 /\ Detached(ls, new)[l].n = ls[l].n
                                 /\ Detached(ls, new)[l].same <=> ls[l].same /\ new[ls[l].n].st # "none"
<1>1. ASSUME NEW l \in Lookers
      PROVE  /\ Detached(ls, new)[l] \in LookRec
             /\ Detached(ls, new)[l].pc = ls[l].pc
             /\ Detached(ls, new)[l].n = ls[l].n
             /\ Detached(ls, new)[l].same <=> ls[l].same /\ new[ls[l].n].st # "none"
  BY DEF Detached, LooksOK, LookRec
<1>2. Detached(ls, new) \in [Lookers -> LookRec]
  BY <1>1 DEF Detached
<1> QED
  BY <1>1, <1>2 DEF LooksOK

\* What removeExpired does to the children.
Shrunk(ch, kept) ==
    \A n \in Names : \/ kept[n] = ch[n]
                     \/ /\ ch[n].st = "cached" /\ ~ch[n].fresh /\ ~ch[n].open
                        /\ kept[n] = NoChild

(* removeExpired drops stored entries that the refresh has not confirmed. *)
LEMMA RemoveExpiredFacts ==
    ASSUME NEW ch \in [Names -> ChildRec], NEW d, NEW from
    PROVE  /\ RemoveExpired(ch, d, from) \in [Names -> ChildRec]
           /\ Shrunk(ch, RemoveExpired(ch, d, from))
<1>1. NoChild \in ChildRec
  BY RecordTypes
<1> DEFINE kept == RemoveExpired(ch, d, from)
<1>2. \A n \in Names : \/ kept[n] = ch[n]
                       \/ /\ ch[n].st = "cached" /\ ~ch[n].fresh /\ ~ch[n].open
                          /\ kept[n] = NoChild
  BY DEF RemoveExpired
<1>3. kept \in [Names -> ChildRec]
  BY <1>1 DEF RemoveExpired
<1> QED
  BY <1>2, <1>3 DEF Shrunk

(* removeExpired of a sealed directory leaves nothing stale. *)
LEMMA SealedFacts ==
    ASSUME NEW ch \in [Names -> ChildRec], NEW d \in DirRec
    PROVE  /\ Sealed(d) \in DirRec
           /\ Sealed(d).marker = 0 /\ Sealed(d).done /\ Sealed(d).valid /\ Sealed(d).last = 0
           /\ \A n \in Names : LET c == RemoveExpired(ch, Sealed(d), 0)[n]
                               IN  c.st = "cached" /\ ~c.open => c.fresh
<1>1. N \in Nat
  BY Constants
<1>2. /\ Sealed(d) \in DirRec
      /\ Sealed(d).marker = 0 /\ Sealed(d).done /\ Sealed(d).valid /\ Sealed(d).last = 0
  <2>0. 0 \in 0..N /\ TRUE \in BOOLEAN
    BY <1>1
  <2>1. Sealed(d) \in DirRec
    BY <2>0, Zenon DEF Sealed, DirRec
  <2>2. Sealed(d).marker = 0 /\ Sealed(d).last = 0
    BY <1>1 DEF Sealed, DirRec
  <2>3. Sealed(d).done /\ Sealed(d).valid
    BY Zenon DEF Sealed, DirRec
  <2> QED
    BY <2>1, <2>2, <2>3
<1>3. ASSUME NEW n \in Names
      PROVE  LET c == RemoveExpired(ch, Sealed(d), 0)[n]
             IN  c.st = "cached" /\ ~c.open => c.fresh
  <2>1. n >= 0
    BY <1>1 DEF Names
  <2>2. NoChild.st = "none"
    BY DEF NoChild
  <2> QED
    BY <1>2, <2>1, <2>2 DEF RemoveExpired
<1> QED
  BY <1>2, <1>3

\* What one answer does to the entry of one name.
ShownAs(c, c2, gone, v) ==
    \/ c.st # "none" /\ c2 = FromBlob(c, v)
    \/ c.st = "none" /\ gone /\ c2 = NoChild
    \/ c.st = "none" /\ ~gone
         /\ c2 = [NoChild EXCEPT !.st = "cached", !.etag = v, !.data = v, !.fresh = TRUE]

(* The entries after an answer has been applied. *)
LEMMA AppliedFacts ==
    ASSUME NEW ch \in [Names -> ChildRec], NEW q \in RequestRec
    PROVE  /\ Applied(ch, q) \in [Names -> ChildRec]
           /\ \A n \in Names :
                  IF n \in DOMAIN q.items /\ n \notin q.skip
                  THEN ShownAs(ch[n], Applied(ch, q)[n], deleted[n], q.items[n])
                  ELSE Applied(ch, q)[n] = ch[n]
<1>1. NoChild \in ChildRec
  BY RecordTypes
<1>2. q.items \in ItemFuns
  BY DEF RequestRec
<1>3. ASSUME NEW n \in DOMAIN q.items
      PROVE  q.items[n] \in Contents
  <2>1. PICK S \in SUBSET Names : q.items \in [S -> Contents]
    BY <1>2 DEF ItemFuns
  <2> QED
    BY <2>1
<1>4. ASSUME NEW n \in Names
      PROVE  /\ Applied(ch, q)[n] \in ChildRec
             /\ IF n \in DOMAIN q.items /\ n \notin q.skip
                THEN ShownAs(ch[n], Applied(ch, q)[n], deleted[n], q.items[n])
                ELSE Applied(ch, q)[n] = ch[n]
  <2>1. CASE n \in DOMAIN q.items \ q.skip
    <3>1. q.items[n] \in Contents
      BY <1>3, <2>1
    <3>2. FromBlob(ch[n], q.items[n]) \in ChildRec
      BY <3>1 DEF FromBlob, ChildRec
    <3>3. [NoChild EXCEPT !.st = "cached", !.etag = q.items[n], !.data = q.items[n], !.fresh = TRUE]
            \in ChildRec
      BY <1>1, <3>1 DEF ChildRec
    <3>4. ShownAs(ch[n], Applied(ch, q)[n], deleted[n], q.items[n])
      BY <2>1 DEF Applied, ShownAs
    <3> QED
      BY <1>1, <2>1, <3>2, <3>3, <3>4 DEF ShownAs
  <2>2. CASE n \notin DOMAIN q.items \ q.skip
    BY <2>2 DEF Applied
  <2> QED
    BY <2>1, <2>2
<1>5. Applied(ch, q) = [n \in Names |-> Applied(ch, q)[n]]
  BY DEF Applied
<1>6. Applied(ch, q) \in [Names -> ChildRec]
  BY <1>4, <1>5
<1> QED
  BY <1>4, <1>6
----------------------------------------------------------------------------
(* What the steps of a reader come to *)

\* The other handles wait where they waited.
OthersWait(r, hs) ==
    \A o \in Readers \ {r} : handle'[o].pc = hs[o].pc /\ handle'[o].done = hs[o].done

\* The end of ReadDir, from the children ch and the directory d.
ReadTo(r, ch, d, hs) ==
    /\ child' \in [Names -> ChildRec] /\ Shrunk(ch, child')
    /\ look' = Detached(look, child')
    /\ dir' \in DirRec /\ dir'.marker = d.marker
    /\ dir'.done => d.done
    /\ dir'.valid => d.valid
    /\ HandlesOK(handle') /\ OthersWait(r, hs)
    /\ handle'[r].pc \in {"list", "ended", "entry"} /\ handle'[r].done = FALSE

(* The end of ReadDir delivers an entry or the end of the directory. *)
LEMMA ServeFacts ==
    ASSUME NEW r \in Readers, NEW ch \in [Names -> ChildRec], NEW d \in DirRec,
           NEW hs, HandlesOK(hs), Serve(r, ch, d, hs)
    PROVE  ReadTo(r, ch, d, hs)
<1>1. N \in Nat
  BY Constants
<1>2. hs[r] \in HandleRec /\ hs \in [Readers -> HandleRec]
  BY DEF HandlesOK
<1>3. PICK i \in 0..N : i = Position(ch, hs[r])
  BY <1>2, PositionType
<1>4. Shrunk(ch, ch)
  BY DEF Shrunk
<1>5. CASE i >= Cardinality(Present(ch))
  <2> DEFINE g == [Closed EXCEPT !.pc = "ended", !.must = hs[r].must \ hs[r].got,
                                 !.twice = hs[r].twice, !.whole = Met(hs[r], d, TRUE)]
  <2>1. /\ dir' = [d EXCEPT !.done = FALSE, !.valid = @ /\ ~d.forget]
        /\ Becomes(ch, [hs EXCEPT ![r] = g])
    BY <1>3, <1>5 DEF Serve
  <2>2. g \in HandleRec
    <3>1. Closed \in HandleRec
      BY RecordTypes
    <3>2. hs[r].must \ hs[r].got \in SUBSET Names /\ hs[r].twice \in BOOLEAN
      BY <1>2 DEF HandleRec
    <3>3. PICK m \in SUBSET Names : m = hs[r].must \ hs[r].got
      BY <3>2
    <3>4. PICK b \in BOOLEAN : b = hs[r].twice
      BY <3>2
    <3>5. PICK w \in {"partly", "yes", "no"} : w = Met(hs[r], d, TRUE)
      BY <1>2 DEF Met, HandleRec
    <3>6. [Closed EXCEPT !.pc = "ended", !.must = m, !.twice = b, !.whole = w] \in HandleRec
      BY <3>1, Zenon DEF HandleRec
    <3> QED
      BY <3>3, <3>4, <3>5, <3>6, Zenon
  <2>3. g.pc = "ended" /\ g.done = FALSE
    BY DEF Closed, NewHandle
  <2> HIDE DEF g
  <2>4. child' = ch /\ handle' = [hs EXCEPT ![r] = g] /\ look' = Detached(look, ch)
    BY <2>1 DEF Becomes
  <2>5. HandlesOK(handle') /\ OthersWait(r, hs) /\ handle'[r] = g
    BY <1>2, <2>2, <2>3, <2>4 DEF HandlesOK, OthersWait
  <2>6. dir' \in DirRec /\ dir'.marker = d.marker
    <3>1. PICK v \in BOOLEAN : v = (d.valid /\ ~d.forget)
      OBVIOUS
    <3>2. dir' = [d EXCEPT !.done = FALSE, !.valid = v]
      BY <2>1, <3>1
    <3> QED
      BY <3>2, Zenon DEF DirRec
  <2>7. (dir'.done => d.done) /\ (dir'.valid => d.valid)
    BY <2>1, Zenon DEF DirRec
  <2> QED
    BY <1>4, <2>3, <2>4, <2>5, <2>6, <2>7 DEF ReadTo
<1>6. CASE ~(i >= Cardinality(Present(ch)))
  <2>1. PICK e \in Names : e = ChildAt(ch, i)
    <3>1. Cardinality(Present(ch)) \in Nat
      BY PresentSize
    <3>2. i \in Nat /\ i < Cardinality(Present(ch))
      BY <1>1, <1>6, <3>1
    <3> QED
      BY <3>2, ChildAtPosition
  <2> DEFINE w == Met(hs[r], d, e > d.last)
             g == [Served(hs[r]) EXCEPT !.pc = "entry", !.idx = i, !.entry = e, !.whole = w]
  <2>2. /\ dir' = [d EXCEPT !.last = IF @ = e THEN 0 ELSE @]
        /\ Becomes(ch, [hs EXCEPT ![r] = g])
    BY <1>2, <1>3, <1>6, <2>1 DEF Serve
  <2>3. i < N
    <3>1. Cardinality(Present(ch)) \in 0..N
      BY PresentSize
    <3> QED
      BY <1>1, <1>6, <3>1
  <2>4. g \in HandleRec /\ g.pc = "entry" /\ g.done = FALSE /\ g.idx = i /\ g.entry = e
    <3>1. 0 \in 0..N /\ i \in -1..N /\ e \in 0..N /\ FALSE \in BOOLEAN
      BY <1>1 DEF Names
    <3>2. Served(hs[r]) \in HandleRec /\ Served(hs[r]).done = FALSE
      BY <1>2, <3>1, Zenon DEF Served, HandleRec
    <3>3. w \in {"partly", "yes", "no"}
      BY <1>2 DEF Met, HandleRec
    <3> HIDE DEF w
    <3> QED
      BY <3>1, <3>2, <3>3 DEF HandleRec
  <2> HIDE DEF g
  <2>5. child' = ch /\ handle' = [hs EXCEPT ![r] = g] /\ look' = Detached(look, ch)
    BY <2>2 DEF Becomes
  <2>6. HandlesOK(handle') /\ OthersWait(r, hs) /\ handle'[r] = g
    BY <1>2, <2>3, <2>4, <2>5 DEF HandlesOK, OthersWait
  <2>7. /\ dir' \in DirRec /\ dir'.marker = d.marker
        /\ dir'.done = d.done /\ dir'.valid = d.valid
    <3>1. PICK k \in 0..N : k = IF d.last = e THEN 0 ELSE d.last
      BY <1>1 DEF DirRec
    <3>2. dir' = [d EXCEPT !.last = k]
      BY <2>2, <3>1
    <3> QED
      BY <3>2 DEF DirRec
  <2> QED
    BY <1>4, <2>4, <2>5, <2>6, <2>7 DEF ReadTo
<1> QED
  BY <1>5, <1>6

(* The loop of loadListing goes on to the next page, or to the end of ReadDir. *)
LEMMA LoadFacts ==
    ASSUME NEW r \in Readers, NEW ch \in [Names -> ChildRec], NEW d \in DirRec,
           NEW hs, HandlesOK(hs), hs[r].done = FALSE, Load(r, ch, d, hs)
    PROVE  ReadTo(r, ch, d, hs)
<1>1. hs[r] \in HandleRec /\ hs \in [Readers -> HandleRec]
  BY DEF HandlesOK
<1>2. CASE d.last = 0 /\ ~d.done
  <2>1. /\ dir' = d /\ child' = ch /\ look' = Detached(look, ch)
        /\ handle' = [hs EXCEPT ![r].pc = "list"]
    BY <1>2 DEF Load, Becomes
  <2>2. [hs[r] EXCEPT !.pc = "list"] \in HandleRec
    BY <1>1 DEF HandleRec
  <2>3. handle' = [hs EXCEPT ![r] = [hs[r] EXCEPT !.pc = "list"]]
    BY <2>1
  <2>4. handle'[r].pc = "list" /\ handle'[r].done = FALSE
    BY <1>1, <2>1 DEF HandleRec
  <2>5. HandlesOK(handle') /\ OthersWait(r, hs)
    BY <1>1, <2>2, <2>3, <2>4 DEF HandlesOK, OthersWait
  <2>6. Shrunk(ch, ch)
    BY DEF Shrunk
  <2> QED
    BY <2>1, <2>4, <2>5, <2>6 DEF ReadTo
<1>3. CASE ~(d.last = 0 /\ ~d.done)
  <2>1. PICK kept : /\ kept = IF hs[r].loaded \/ d.done THEN RemoveExpired(ch, d, hs[r].start) ELSE ch
                    /\ Serve(r, kept, d, Repositioned(hs, ch, kept))
    BY <1>3 DEF Load
  <2>2. kept \in [Names -> ChildRec] /\ Shrunk(ch, kept)
    <3>1. Shrunk(ch, ch)
      BY DEF Shrunk
    <3> QED
      BY <2>1, <3>1, RemoveExpiredFacts
  <2>3. /\ HandlesOK(Repositioned(hs, ch, kept))
        /\ \A o \in Readers : /\ Repositioned(hs, ch, kept)[o].pc = hs[o].pc
                              /\ Repositioned(hs, ch, kept)[o].done = hs[o].done
    BY RepositionedFacts
  <2>4. ReadTo(r, kept, d, Repositioned(hs, ch, kept))
    BY <2>1, <2>2, <2>3, ServeFacts
  <2>5. OthersWait(r, hs)
    BY <2>3, <2>4 DEF ReadTo, OthersWait
  <2>6. Shrunk(ch, child')
    <3>1. NoChild.st = "none"
      BY DEF NoChild
    <3>2. Shrunk(kept, child')
      BY <2>4 DEF ReadTo
    <3> QED
      BY <2>2, <3>1, <3>2 DEF Shrunk
  <2> QED
    BY <2>4, <2>5, <2>6 DEF ReadTo
<1> QED
  BY <1>2, <1>3
----------------------------------------------------------------------------
(* Steps that leave the files alone and change what the cache shows of them *)

Browse == UNCHANGED <<bucket, deleted, put, del, last>>

Stays(n) == child'[n] = child[n]
Ages(n) == child'[n] = [child[n] EXCEPT !.fresh = FALSE]
Drops(n) == child[n].st \in {"none", "cached"} /\ child'[n] = NoChild
Shows(n) ==
    \E p \in Procs : /\ request[p].answered /\ n \in DOMAIN request[p].items /\ n \notin request[p].skip
                     /\ ShownAs(child[n], child'[n], deleted[n], request[p].items[n])
\* removeExpired.
Expires(n) == Drops(n) /\ ~child[n].fresh

\* The fields of an entry that an answer shows.
ShownRec(c, c2, gone, v) ==
    \/ /\ c.st # "none" /\ c.etag = v
       /\ c2.st = c.st /\ c2.etag = c.etag /\ c2.data = c.data /\ c2.open = c.open /\ c2.fresh
    \/ /\ c.st # "none" /\ c.etag # v
       /\ c2.st = "cached" /\ c2.etag = v /\ c2.data = v /\ c2.open = c.open /\ c2.fresh
    \/ c.st = "none" /\ gone /\ c2 = NoChild
    \/ /\ c.st = "none" /\ ~gone
       /\ c2.st = "cached" /\ c2.etag = v /\ c2.data = v /\ c2.open = FALSE /\ c2.fresh

(* An answer confirms an entry, replaces it, or brings it back. *)
LEMMA ShownFields ==
    ASSUME NEW c \in ChildRec, NEW c2, NEW gone \in BOOLEAN, NEW v \in Contents, ShownAs(c, c2, gone, v)
    PROVE  ShownRec(c, c2, gone, v)
<1>1. CASE c.st # "none" /\ c2 = FromBlob(c, v)
  BY <1>1 DEF FromBlob, ChildRec, ShownRec
<1>2. CASE c.st = "none" /\ gone /\ c2 = NoChild
  BY <1>2 DEF ShownRec
<1>3. CASE /\ c.st = "none" /\ ~gone
           /\ c2 = [NoChild EXCEPT !.st = "cached", !.etag = v, !.data = v, !.fresh = TRUE]
  BY <1>3 DEF NoChild, ShownRec
<1> QED
  BY <1>1, <1>2, <1>3 DEF ShownAs

(* The fields of NoChild. *)
LEMMA NoChildFields ==
    /\ NoChild.st = "none" /\ NoChild.etag = 0 /\ NoChild.data = 0
    /\ NoChild.open = FALSE /\ NoChild.fresh = FALSE
BY DEF NoChild

(* The contents that an answer holds. *)
LEMMA ItemContents ==
    ASSUME NEW q \in RequestRec, NEW n \in DOMAIN q.items
    PROVE  q.items[n] \in Contents /\ n \in Names
<1>1. PICK S \in SUBSET Names : q.items \in [S -> Contents]
  BY DEF RequestRec, ItemFuns
<1> QED
  BY <1>1

\* What an answer that shows n says of it, when it is one of the names that matter here.
Truthful(n) ==
    \A p \in Procs : /\ request[p].answered /\ n \in DOMAIN request[p].items
                     /\ Tells(request[p], n)
                     => /\ ~Changes(n)
                        /\ bucket[n] # 0 /\ request[p].items[n] = bucket[n]

(* An answered request speaks the truth about what it does not mask. *)
LEMMA AnswersAreTrue ==
    ASSUME NEW n, RequestInv(n)
    PROVE  Truthful(n)
BY DEF RequestInv, Seen, Truthful

(* The file of n and its entry stay in their relation, whatever an answer, an expiry, an
   eviction or the start of a refresh does to the entry. *)
LEMMA EntryKept ==
    ASSUME TypeInv, NEW n \in Names, FileInv(n), RequestInv(n), Browse,
           Stays(n) \/ Ages(n) \/ Drops(n) \/ Shows(n),
           n \in quiet' => n \in quiet \/ Ages(n)
    PROVE  FileInv(n)'
<1>1. child[n] \in ChildRec /\ deleted[n] \in BOOLEAN
  BY DEF TypeInv, StoreTypes
<1>2. /\ bucket'[n] = bucket[n] /\ deleted'[n] = deleted[n] /\ put'[n] = put[n] /\ del'[n] = del[n]
      /\ last'[n] = last[n]
  BY DEF Browse
<1>3. Truthful(n)
  BY AnswersAreTrue
<1>4. CASE Stays(n) /\ ~Ages(n)
  <2>1. child'[n] = child[n] /\ (n \in quiet' => n \in quiet)
    BY <1>4 DEF Stays
  <2> QED
    BY <1>2, <2>1 DEF FileInv, OwnFile, RemoteFile
<1>5. CASE Ages(n)
  <2>1. /\ child'[n].st = child[n].st /\ child'[n].etag = child[n].etag /\ child'[n].data = child[n].data
        /\ child'[n].open = child[n].open /\ child'[n].fresh = FALSE
    BY <1>1, <1>5 DEF Ages, ChildRec
  <2> QED
    BY <1>2, <2>1 DEF FileInv, OwnFile, RemoteFile
<1>6. CASE Drops(n)
  BY <1>2, <1>6, NoChildFields DEF Drops, FileInv, OwnFile, RemoteFile
<1>7. CASE Shows(n) /\ ~Ages(n)
  <2>1. PICK p \in Procs :
             /\ request[p].answered /\ n \in DOMAIN request[p].items /\ n \notin request[p].skip
             /\ ShownAs(child[n], child'[n], deleted[n], request[p].items[n])
    BY <1>7 DEF Shows
  <2>2. request[p] \in RequestRec
    BY DEF TypeInv, ThreadTypes
  <2>3. request[p].items[n] \in Contents
    BY <2>1, <2>2, ItemContents
  <2>4. PICK v \in Contents : v = request[p].items[n]
    BY <2>3
  <2>5. n \in Own \/ n \in quiet => ~Changes(n) /\ bucket[n] # 0 /\ v = bucket[n]
    BY <1>3, <2>1, <2>4 DEF Truthful, Tells
  <2>6. \/ /\ child[n].st # "none" /\ child[n].etag = v
           /\ child'[n].st = child[n].st /\ child'[n].etag = child[n].etag
           /\ child'[n].data = child[n].data /\ child'[n].open = child[n].open /\ child'[n].fresh
        \/ /\ child[n].st # "none" /\ child[n].etag # v
           /\ child'[n].st = "cached" /\ child'[n].etag = v /\ child'[n].data = v
           /\ child'[n].open = child[n].open /\ child'[n].fresh
        \/ child[n].st = "none" /\ deleted[n] /\ child'[n] = NoChild
        \/ /\ child[n].st = "none" /\ ~deleted[n]
           /\ child'[n].st = "cached" /\ child'[n].etag = v /\ child'[n].data = v
           /\ child'[n].open = FALSE /\ child'[n].fresh
    <3>1. ShownAs(child[n], child'[n], deleted[n], v)
      BY <2>1, <2>4
    <3>2. ShownRec(child[n], child'[n], deleted[n], v)
      BY <1>1, <3>1, ShownFields
    <3> QED
      BY <3>2 DEF ShownRec
  <2>7. child'[n].st = "none" => child'[n].etag = 0 /\ ~child'[n].open /\ ~child'[n].fresh
    BY <2>6, NoChildFields
  <2>8. n \in Own => OwnFile(n)'
    <3> SUFFICES ASSUME n \in Own
                 PROVE  OwnFile(n)'
      OBVIOUS
    <3>1. put[n].pc = "none" /\ del[n] = "none" /\ bucket[n] # 0 /\ v = bucket[n]
      BY <2>5 DEF Changes
    <3>2. OwnFile(n)
      BY DEF FileInv
    <3>3. child[n].st = "created" => FALSE
      BY <3>1, <3>2 DEF OwnFile
    <3>4. child[n].st \in {"modified", "cached"} => child[n].etag = v
      BY <3>1, <3>2 DEF OwnFile
    <3>5. child[n].st = "none" \/ child[n].st \in {"modified", "cached"}
      BY <1>1, <3>3 DEF ChildRec
    <3>6. child[n].st = "none" /\ ~deleted[n] => last[n] = v
      BY <3>1, <3>2 DEF OwnFile
    <3> QED
      BY <1>2, <2>6, <3>1, <3>2, <3>4, <3>5, <3>6, NoChildFields DEF OwnFile
  <2>9. n \in Remote => RemoteFile(n)'
    <3> SUFFICES ASSUME n \in Remote
                 PROVE  RemoteFile(n)'
      OBVIOUS
    <3>1. RemoteFile(n)
      BY DEF FileInv
    <3>2. n \in quiet' => bucket[n] # 0 /\ v = bucket[n]
      BY <1>7, <2>5
    <3> QED
      BY <1>2, <2>6, <3>1, <3>2, NoChildFields DEF RemoteFile
  <2> QED
    BY <2>7, <2>8, <2>9 DEF FileInv
<1> QED
  BY <1>4, <1>5, <1>6, <1>7

(* A name that the refresh has passed is not lost by an answer or an expiry. *)
LEMMA SafeKept ==
    ASSUME TypeInv, NEW n \in Names, Safe(n), Browse,
           Stays(n) \/ Expires(n) \/ Shows(n) \/ (Drops(n) /\ n \in Remote /\ (n \in quiet => bucket[n] = 0)),
           n \in quiet' => n \in quiet,
           FileInv(n)
    PROVE  Safe(n)'
<1>1. child[n] \in ChildRec /\ deleted[n] \in BOOLEAN
  BY DEF TypeInv, StoreTypes
<1>2. bucket'[n] = bucket[n] /\ last'[n] = last[n]
  BY DEF Browse
<1>3. CASE Stays(n)
  BY <1>2, <1>3 DEF Stays, Safe, Kept
<1>4. CASE Expires(n)
  BY <1>2, <1>4 DEF Expires, Drops, Safe, Kept
<1>5. CASE Drops(n) /\ n \in Remote /\ (n \in quiet => bucket[n] = 0)
  BY <1>2, <1>5 DEF Safe, Own
<1>6. CASE Shows(n)
  <2>1. PICK p \in Procs :
             /\ request[p].answered /\ n \in DOMAIN request[p].items /\ n \notin request[p].skip
             /\ ShownAs(child[n], child'[n], deleted[n], request[p].items[n])
    BY <1>6 DEF Shows
  <2>2. request[p] \in RequestRec
    BY DEF TypeInv, ThreadTypes
  <2>3. request[p].items[n] \in Contents
    BY <2>1, <2>2, ItemContents
  <2>4. \/ child[n].st # "none" /\ child'[n].st # "none" /\ child'[n].fresh
        \/ child[n].st = "none"
    <3>1. ShownRec(child[n], child'[n], deleted[n], request[p].items[n])
      BY <1>1, <2>1, <2>3, ShownFields
    <3> QED
      BY <3>1 DEF ShownRec
  <2> QED
    BY <1>2, <2>4 DEF Safe, Kept
<1> QED
  BY <1>3, <1>4, <1>5, <1>6

\* The part of the invariant that holds whatever refreshes overlap.
MirrorInv ==
    TypeInv /\ ThreadInv /\ \A n \in Names : FileInv(n) /\ RequestInv(n) /\ HeldInv(n)

Changing == {n \in Names : Changes(n)}

\* p sends a listing or a HEAD.
Sends(p) ==
    NoneUnmasked /\ \E k \in {"slurp", "flat", "head"}, f \in 0..N :
        (k = "head" => f \in Names) /\ request'[p] = addInflightListing(k, f)

\* A request that has just been sent.
JustSent(q, k, f) ==
    /\ q \in RequestRec /\ q.kind = k /\ q.from = f
    /\ q.answered = FALSE /\ q.skip = Changing

(* A request that was just sent masks the changes in flight and has no answer. *)
LEMMA SentRequest ==
    ASSUME NEW k \in {"slurp", "flat", "head"}, NEW f \in 0..N, NoneUnmasked
    PROVE  JustSent(addInflightListing(k, f), k, f)
<1>1. Changing \in SUBSET Names
  BY DEF Changing
<1>2. NoRequest \in RequestRec
  BY RecordTypes
<1>3. addInflightListing(k, f) = [NoRequest EXCEPT !.kind = k, !.from = f, !.skip = Changing]
  <2>1. ASSUME NEW n \in Names
        PROVE  inflightChange(n) <=> Changes(n)
    BY DEF inflightChange, Changes, NoneUnmasked
  <2>2. {n \in Names : inflightChange(n)} = Changing
    BY <2>1 DEF Changing
  <2> QED
    BY <2>2 DEF addInflightListing
<1>4. [NoRequest EXCEPT !.kind = k, !.from = f, !.skip = Changing] \in RequestRec
  BY <1>1, <1>2 DEF RequestRec
<1>5. [NoRequest EXCEPT !.kind = k, !.from = f, !.skip = Changing].answered = FALSE
  BY DEF NoRequest
<1>6. /\ [NoRequest EXCEPT !.kind = k, !.from = f, !.skip = Changing].kind = k
      /\ [NoRequest EXCEPT !.kind = k, !.from = f, !.skip = Changing].from = f
      /\ [NoRequest EXCEPT !.kind = k, !.from = f, !.skip = Changing].skip = Changing
  BY DEF NoRequest
<1> QED
  BY <1>3, <1>4, <1>5, <1>6 DEF JustSent

(* The same for the request that p sends. *)
LEMMA SentFields ==
    ASSUME NEW p, Sends(p)
    PROVE  /\ request'[p].answered = FALSE
           /\ request'[p].skip = Changing
           /\ request'[p].kind = "head" => request'[p].from \in Names
<1>1. PICK k \in {"slurp", "flat", "head"}, f \in 0..N :
          (k = "head" => f \in Names) /\ request'[p] = addInflightListing(k, f)
  BY DEF Sends
<1>2. JustSent(addInflightListing(k, f), k, f)
  BY SentRequest DEF Sends
<1> QED
  BY <1>1, <1>2 DEF JustSent

(* The fields of NoRequest. *)
LEMMA NoRequestFields ==
    NoRequest.kind = "none" /\ NoRequest.answered = FALSE /\ NoRequest.skip = {}
BY DEF NoRequest

(* Sending and forgetting requests keeps what the others say true. *)
LEMMA RequestsKept ==
    ASSUME NEW n \in Names, FileInv(n), RequestInv(n), Browse,
           \A p \in Procs : request'[p] = request[p] \/ request'[p] = NoRequest \/ Sends(p),
           n \in quiet' => n \in quiet \/ \A p \in Procs : request[p].kind = "none",
           n \in quiet' => n \in Remote
    PROVE  RequestInv(n)'
<1>1. bucket'[n] = bucket[n] /\ (Changes(n)' <=> Changes(n))
  BY DEF Browse, Changes
<1>2. n \in Remote => ~Changes(n)
  BY DEF FileInv, RemoteFile, Changes
<1>3. ASSUME NEW p \in Procs
      PROVE  /\ Seen(n, p)' /\ (request'[p].answered => request'[p].kind # "none")
             /\ n \in Remote => n \notin request'[p].skip
  <2>1. CASE request'[p] = request[p]
    <3>1. /\ Seen(n, p) /\ (request[p].answered => request[p].kind # "none")
          /\ n \in Remote => n \notin request[p].skip
      BY DEF RequestInv
    <3>2. request'[p].kind # "none" /\ Tells(request[p], n)' => Tells(request[p], n)
      BY <2>1 DEF Tells
    <3>3. Decides(request[p], n)' <=> Decides(request[p], n)
      BY <2>1 DEF Decides
    <3> QED
      BY <1>1, <2>1, <3>1, <3>2, <3>3 DEF Seen
  <2>2. CASE request'[p] = NoRequest
    BY <2>2, NoRequestFields DEF Seen
  <2>3. CASE Sends(p)
    <3>1. /\ request'[p].answered = FALSE
          /\ request'[p].skip = Changing
      BY <2>3, SentFields
    <3>2. Tells(request[p], n)' => ~Changes(n)
      BY <1>2, <3>1 DEF Tells, Changing
    <3> QED
      BY <1>1, <1>2, <3>1, <3>2 DEF Seen, Changing
  <2> QED
    BY <2>1, <2>2, <2>3
<1> QED
  BY <1>3 DEF RequestInv

\* A lookup goes on holding its inode, or takes hold of one.
Holds(l) ==
    look'[l].same =>
        \/ /\ look[l].same /\ look'[l].n = look[l].n /\ request'[l] = request[l]
           /\ look[l].n \in Own => child'[look[l].n].st # "none"
        \/ child[look'[l].n].st = "cached" /\ Stays(look'[l].n) /\ Sends(l)

(* Held inodes stay in the bucket. *)
LEMMA HeldKept ==
    ASSUME NEW n \in Names, FileInv(n), HeldInv(n), Browse, \A l \in Lookers : Holds(l)
    PROVE  HeldInv(n)'
<1> SUFFICES ASSUME n \in Own, NEW l \in Lookers, look'[l].same, look'[l].n = n
             PROVE  /\ child'[n].st # "none" /\ bucket'[n] # 0 /\ ~deleted'[n]
                    /\ request'[l].answered => n \in DOMAIN request'[l].items
  BY DEF HeldInv
<1>1. bucket'[n] = bucket[n] /\ deleted'[n] = deleted[n]
  BY DEF Browse
<1>2. CASE /\ look[l].same /\ look'[l].n = look[l].n /\ request'[l] = request[l]
           /\ look[l].n \in Own => child'[look[l].n].st # "none"
  BY <1>1, <1>2 DEF HeldInv
<1>3. CASE child[look'[l].n].st = "cached" /\ Stays(look'[l].n) /\ Sends(l)
  <2>1. child[n].st = "cached" /\ child'[n] = child[n]
    BY <1>3 DEF Stays
  <2>2. bucket[n] # 0 /\ ~deleted[n]
    BY <2>1 DEF FileInv, OwnFile
  <2>3. request'[l].answered = FALSE
    BY <1>3, SentFields
  <2> QED
    BY <1>1, <2>1, <2>2, <2>3
<1> QED
  BY <1>2, <1>3 DEF Holds

(* A step that only changes what the cache shows. *)
LEMMA BrowseInv ==
    ASSUME MirrorInv, Browse, TypeInv', ThreadInv',
           \A n \in Names : Stays(n) \/ Ages(n) \/ Drops(n) \/ Shows(n),
           \A p \in Procs : request'[p] = request[p] \/ request'[p] = NoRequest \/ Sends(p),
           \A n \in quiet' : n \in quiet \/ (Ages(n) /\ \A p \in Procs : request[p].kind = "none"),
           \A l \in Lookers : Holds(l)
    PROVE  MirrorInv'
<1>1. quiet' \subseteq Remote
  BY DEF TypeInv, StoreTypes
<1>2. TypeInv
  BY DEF MirrorInv
<1>3. ASSUME NEW n \in Names
      PROVE  FileInv(n)' /\ RequestInv(n)' /\ HeldInv(n)'
  <2>1. FileInv(n) /\ RequestInv(n) /\ HeldInv(n)
    BY DEF MirrorInv
  <2>2. FileInv(n)'
    BY <1>2, <2>1, EntryKept
  <2>3. RequestInv(n)'
    BY <1>1, <2>1, RequestsKept
  <2>4. HeldInv(n)'
    BY <2>1, HeldKept
  <2> QED
    BY <2>2, <2>3, <2>4
<1> QED
  BY <1>3 DEF MirrorInv

(* A thread that is not concerned keeps its part of the control. *)
LEMMA ReaderUndisturbed ==
    ASSUME NEW o \in Readers, ReaderInv(o), handle'[o].pc = handle[o].pc,
           handle'[o].done = handle[o].done, request'[o] = request[o]
    PROVE  ReaderInv(o)'
BY DEF ReaderInv

(* The same for a lookup. *)
LEMMA LookerUndisturbed ==
    ASSUME NEW l \in Lookers, LookerInv(l), look'[l].pc = look[l].pc, look'[l].n = look[l].n,
           look'[l].same => look[l].same, request'[l] = request[l]
    PROVE  LookerInv(l)'
BY DEF LookerInv

\* The frame of a reader's step.
ReaderFrame(r) ==
    /\ Browse /\ UNCHANGED <<writes, remotes>>
    /\ child' \in [Names -> ChildRec] /\ dir' \in DirRec
    /\ HandlesOK(handle') /\ OthersWait(r, handle) /\ ReaderInv(r)'
    /\ look' = Detached(look, child') \/ (look' = look /\ child' = child)
    /\ request' \in [Procs -> RequestRec]
    /\ \A p \in Procs : p # r => request'[p] = request[p]
    /\ request'[r] = request[r] \/ request'[r] = NoRequest \/ Sends(r)
    /\ \A n \in Names : Stays(n) \/ Ages(n) \/ Drops(n) \/ Shows(n)
    /\ quiet' \subseteq Remote
    /\ \A n \in quiet' : n \in quiet \/ (Ages(n) /\ \A p \in Procs : request[p].kind = "none")

(* A reader's step keeps the files, the requests and the control. *)
LEMMA ReaderFrameInv ==
    ASSUME MirrorInv, NEW r \in Readers, ReaderFrame(r)
    PROVE  MirrorInv'
<1>1. r \in Procs /\ \A l \in Lookers : l \in Procs /\ l # r
  BY Constants DEF Procs
<1>2. TypeInv /\ ThreadInv /\ LooksOK(look)
  BY DEF MirrorInv, TypeInv, ThreadTypes, LooksOK
<1>3. /\ LooksOK(look')
      /\ \A l \in Lookers : look'[l].pc = look[l].pc /\ look'[l].n = look[l].n /\ (look'[l].same => look[l].same)
  BY <1>2, DetachedFacts DEF ReaderFrame
<1>4. \A l \in Lookers : request'[l] = request[l]
  BY <1>1 DEF ReaderFrame
<1>5. TypeInv'
  <2>1. StoreTypes'
    BY <1>2 DEF TypeInv, StoreTypes, ReaderFrame, Browse
  <2>2. ThreadTypes'
    <3>1. \A p \in Procs : request'[p].kind = "head" => request'[p].from \in Names
      BY <1>2, NoRequestFields, SentFields DEF ReaderFrame, TypeInv, ThreadTypes
    <3> QED
      BY <1>3, <3>1 DEF ReaderFrame, HandlesOK, LooksOK, ThreadTypes
  <2> QED
    BY <2>1, <2>2 DEF TypeInv
<1>6. ThreadInv'
  <2>1. ASSUME NEW o \in Readers
        PROVE  ReaderInv(o)'
    <3>1. CASE o = r
      BY <3>1 DEF ReaderFrame
    <3>2. CASE o # r
      <4>1. request'[o] = request[o] /\ handle'[o].pc = handle[o].pc /\ handle'[o].done = handle[o].done
        BY <3>2 DEF ReaderFrame, OthersWait, Procs
      <4> QED
        BY <1>2, <4>1, ReaderUndisturbed DEF ThreadInv
    <3> QED
      BY <3>1, <3>2
  <2>2. ASSUME NEW l \in Lookers
        PROVE  LookerInv(l)'
    BY <1>2, <1>3, <1>4, LookerUndisturbed DEF ThreadInv
  <2> QED
    BY <2>1, <2>2 DEF ThreadInv
<1>7. ASSUME NEW l \in Lookers
      PROVE  Holds(l)
  <2> SUFFICES ASSUME look'[l].same, look[l].n \in Own
               PROVE  child'[look[l].n].st # "none"
    BY <1>3, <1>4 DEF Holds
  <2>1. CASE look' = Detached(look, child')
    BY <1>2, <2>1, DetachedFacts
  <2>2. CASE look' = look /\ child' = child
    <3>1. look[l].same /\ look[l].n \in Names
      BY <2>2 DEF Own
    <3>2. HeldInv(look[l].n)
      BY <3>1 DEF MirrorInv
    <3> QED
      BY <2>2, <3>1, <3>2 DEF HeldInv
  <2> QED
    BY <2>1, <2>2 DEF ReaderFrame
<1>8. \A p \in Procs : request'[p] = request[p] \/ request'[p] = NoRequest \/ Sends(p)
  BY DEF ReaderFrame
<1> QED
  BY <1>5, <1>6, <1>7, <1>8, BrowseInv DEF ReaderFrame
----------------------------------------------------------------------------
(* The steps of a reader *)

(* A request is not sent between the end of a mask and the ETag, or that is recorded. *)
LEMMA MaskedRequests ==
    ASSUME MirrorInv, Orderly', EarlyUnmask \subseteq races'
    PROVE  NoneUnmasked
<1>1. put \in [Names -> PutRec]
  BY DEF MirrorInv, TypeInv, StoreTypes
<1>2. "earlyUnmask" \notin races'
  BY DEF Orderly, FileRaces
<1>3. ASSUME NEW n \in Names, put[n].pc = "unmasked"
      PROVE  FALSE
  <2>1. "earlyUnmask" \in EarlyUnmask
    BY <1>3 DEF EarlyUnmask, Happens
  <2> QED
    BY <1>2, <2>1
<1> QED
  BY <1>1, <1>3 DEF NoneUnmasked, PutRec

(* What a reader may rely on. *)
LEMMA ReaderFacts ==
    ASSUME MirrorInv, NEW r \in Readers
    PROVE  /\ HandlesOK(handle) /\ handle \in [Readers -> HandleRec] /\ handle[r] \in HandleRec
           /\ LooksOK(look) /\ child \in [Names -> ChildRec] /\ dir \in DirRec
           /\ r \in Procs /\ request \in [Procs -> RequestRec] /\ request[r] \in RequestRec
           /\ quiet \subseteq Remote /\ ReaderInv(r)
           /\ handle[r].pc # "loaded" => handle[r].done = FALSE
<1>1. r \in Procs
  BY DEF Procs
<1>2. TypeInv /\ ReaderInv(r)
  BY DEF MirrorInv, ThreadInv
<1>3. handle \in [Readers -> HandleRec]
  BY <1>2 DEF TypeInv, ThreadTypes
<1>4. handle[r].pc # "loaded" => handle[r].done = FALSE
  BY <1>2, <1>3 DEF ReaderInv, HandleRec
<1> QED
  BY <1>1, <1>2, <1>3, <1>4 DEF TypeInv, StoreTypes, ThreadTypes, HandlesOK, LooksOK

\* Nothing but the handle of r changes, and r waits for nothing.
HandleStep(r) ==
    /\ handle[r].pc \notin {"slurp", "flat"}
    /\ HandlesOK(handle') /\ OthersWait(r, handle)
    /\ handle'[r].pc \in {"idle", "closed"} /\ handle'[r].done = FALSE
    /\ UNCHANGED <<bucket, child, deleted, put, del, dir, look, request, last, quiet, writes, remotes>>

(* opendir, closedir, and an entry that is delivered or has to wait. *)
LEMMA HandleSteps ==
    ASSUME MirrorInv, NEW r \in Readers, OpenDir(r) \/ CloseDir(r) \/ Advance(r) \/ BufferFull(r)
    PROVE  HandleStep(r)
<1>1. N \in Nat
  BY Constants
<1>2. /\ HandlesOK(handle) /\ handle \in [Readers -> HandleRec] /\ handle[r] \in HandleRec
      /\ handle[r].pc # "loaded" => handle[r].done = FALSE
  BY ReaderFacts
<1>3. ASSUME NEW g \in HandleRec, handle' = [handle EXCEPT ![r] = g],
             g.pc \in {"idle", "closed"}, g.done = FALSE
      PROVE  /\ HandlesOK(handle') /\ OthersWait(r, handle)
             /\ handle'[r].pc \in {"idle", "closed"} /\ handle'[r].done = FALSE
  BY <1>2, <1>3 DEF HandlesOK, OthersWait
<1>4. CASE OpenDir(r)
  <2>1. PICK m \in SUBSET Names : handle' = [handle EXCEPT ![r] = [NewHandle EXCEPT !.must = m]]
    <3>1. {n \in Own : last[n] # 0} \cup {n \in quiet : bucket[n] # 0} \in SUBSET Names
      BY Constants, ReaderFacts DEF Own
    <3> QED
      BY <1>4, <3>1 DEF OpenDir
  <2>2. NewHandle \in HandleRec
    BY RecordTypes
  <2>3. [NewHandle EXCEPT !.must = m] \in HandleRec
    BY <2>2 DEF HandleRec
  <2>4. [NewHandle EXCEPT !.must = m].pc = "idle" /\ [NewHandle EXCEPT !.must = m].done = FALSE
    BY DEF NewHandle
  <2>5. /\ HandlesOK(handle') /\ OthersWait(r, handle)
        /\ handle'[r].pc \in {"idle", "closed"} /\ handle'[r].done = FALSE
    BY <1>3, <2>1, <2>3, <2>4
  <2> QED
    BY <1>4, <2>5 DEF OpenDir, HandleStep, cache, jobs, bounds
<1>5. CASE CloseDir(r)
  <2>1. Closed \in HandleRec /\ Closed.pc = "closed" /\ Closed.done = FALSE
    BY RecordTypes DEF Closed, NewHandle
  <2>2. /\ HandlesOK(handle') /\ OthersWait(r, handle)
        /\ handle'[r].pc \in {"idle", "closed"} /\ handle'[r].done = FALSE
    BY <1>3, <1>5, <2>1 DEF CloseDir
  <2> QED
    BY <1>5, <2>2 DEF CloseDir, HandleStep, cache, jobs, bounds
<1>6. CASE Advance(r)
  <2>1. handle[r].entry \in Names /\ handle[r].idx < N /\ handle[r].done = FALSE
    BY <1>2, <1>6 DEF Advance, HandlesOK
  <2>2. PICK i \in -1..N : i = IF handle[r].idx >= 0 THEN handle[r].idx + 1 ELSE handle[r].idx
    BY <1>1, <1>2, <2>1 DEF HandleRec
  <2>3. PICK s \in SUBSET Names : s = handle[r].got \cup {handle[r].entry}
    BY <1>2, <2>1 DEF HandleRec
  <2>4. PICK b \in BOOLEAN : b = (handle[r].twice \/ handle[r].entry \in handle[r].got)
    OBVIOUS
  <2> DEFINE g == [handle[r] EXCEPT !.pc = "idle", !.idx = i, !.name = handle[r].entry, !.entry = 0,
                                    !.got = s, !.twice = b]
  <2>5. handle' = [handle EXCEPT ![r] = g]
    BY <1>6, <2>2, <2>3, <2>4 DEF Advance
  <2>6. g \in HandleRec /\ g.pc = "idle" /\ g.done = FALSE
    <3>1. 0 \in 0..N /\ handle[r].entry \in 0..N
      BY <1>1, <2>1 DEF Names
    <3> QED
      BY <1>2, <2>1, <3>1 DEF HandleRec
  <2> HIDE DEF g
  <2>7. /\ HandlesOK(handle') /\ OthersWait(r, handle)
        /\ handle'[r].pc \in {"idle", "closed"} /\ handle'[r].done = FALSE
    BY <1>3, <2>5, <2>6
  <2> QED
    BY <1>6, <2>7 DEF Advance, HandleStep, cache, jobs, bounds
<1>7. CASE BufferFull(r)
  <2> DEFINE g == [handle[r] EXCEPT !.pc = "idle", !.entry = 0]
  <2>1. handle' = [handle EXCEPT ![r] = g]
    BY <1>2, <1>7 DEF BufferFull
  <2>2. g \in HandleRec /\ g.pc = "idle" /\ g.done = FALSE
    <3>1. handle[r].done = FALSE /\ 0 \in 0..N
      BY <1>1, <1>2, <1>7 DEF BufferFull
    <3> QED
      BY <1>2, <3>1 DEF HandleRec
  <2> HIDE DEF g
  <2>3. /\ HandlesOK(handle') /\ OthersWait(r, handle)
        /\ handle'[r].pc \in {"idle", "closed"} /\ handle'[r].done = FALSE
    BY <1>3, <2>1, <2>2
  <2> QED
    BY <1>7, <2>3 DEF BufferFull, HandleStep, cache, jobs, bounds
<1> QED
  BY <1>4, <1>5, <1>6, <1>7

(* Such a step is one of a reader. *)
LEMMA HandleStepFrame ==
    ASSUME MirrorInv, NEW r \in Readers, HandleStep(r)
    PROVE  ReaderFrame(r)
<1>1. /\ child \in [Names -> ChildRec] /\ dir \in DirRec /\ quiet \subseteq Remote
      /\ request \in [Procs -> RequestRec] /\ ReaderInv(r)
  BY ReaderFacts
<1>2. \A n \in Names : Stays(n)
  BY DEF Stays, HandleStep
<1>3. ReaderInv(r)'
  BY <1>1 DEF ReaderInv, HandleStep
<1> QED
  BY <1>1, <1>2, <1>3 DEF HandleStep, ReaderFrame, Browse

(* A listing that fails is forgotten. *)
LEMMA ListFailsFrame ==
    ASSUME MirrorInv, NEW r \in Readers, ListFails(r)
    PROVE  /\ ReaderFrame(r) /\ UNCHANGED <<child, dir, quiet>>
           /\ \A o \in Readers : handle'[o].done => handle[o].done
           /\ \A o \in Readers : request'[o] = request[o] \/ request'[o] = NoRequest
<1>1. N \in Nat
  BY Constants
<1>2. /\ HandlesOK(handle) /\ handle \in [Readers -> HandleRec] /\ handle[r] \in HandleRec
      /\ child \in [Names -> ChildRec] /\ dir \in DirRec /\ quiet \subseteq Remote
      /\ r \in Procs /\ request \in [Procs -> RequestRec]
  BY ReaderFacts
<1> DEFINE g == [Served(handle[r]) EXCEPT !.pc = "idle"]
<1>3. /\ handle' = [handle EXCEPT ![r] = g] /\ request' = [request EXCEPT ![r] = NoRequest]
      /\ UNCHANGED <<cache, jobs, look, last, quiet, bounds>>
  BY <1>2 DEF ListFails
<1>4. g \in HandleRec /\ g.pc = "idle" /\ g.done = FALSE
  <2>1. 0 \in 0..N /\ FALSE \in BOOLEAN
    BY <1>1
  <2>2. Served(handle[r]) \in HandleRec /\ Served(handle[r]).done = FALSE
    BY <1>2, <2>1, Zenon DEF Served, HandleRec
  <2> QED
    BY <2>2 DEF HandleRec
<1> HIDE DEF g
<1>5. /\ HandlesOK(handle') /\ OthersWait(r, handle) /\ handle'[r] = g
      /\ \A o \in Readers : handle'[o].done => handle[o].done
  BY <1>2, <1>3, <1>4 DEF HandlesOK, OthersWait
<1>6. NoRequest \in RequestRec
  BY RecordTypes
<1>7. /\ request' \in [Procs -> RequestRec] /\ request'[r] = NoRequest
      /\ \A p \in Procs : p # r => request'[p] = request[p]
  BY <1>2, <1>3, <1>6
<1>8. ReaderInv(r)'
  BY <1>4, <1>5, <1>7, NoRequestFields DEF ReaderInv
<1>9. UNCHANGED <<bucket, deleted, put, del, last, child, dir, quiet, look, writes, remotes>>
  BY <1>3 DEF cache, jobs, bounds
<1>10. \A n \in Names : Stays(n)
  BY <1>9 DEF Stays
<1>11. \A o \in Readers : request'[o] = request[o] \/ request'[o] = NoRequest
  BY <1>7 DEF Procs
<1>12. ReaderFrame(r)
  BY <1>2, <1>5, <1>7, <1>8, <1>9, <1>10 DEF ReaderFrame, Browse
<1> QED
  BY <1>5, <1>9, <1>11, <1>12

(* The next page is asked for from the marker on. *)
LEMMA ListObjectsFlatFrame ==
    ASSUME MirrorInv, NEW r \in Readers, listObjectsFlat(r), Orderly'
    PROVE  /\ ReaderFrame(r) /\ UNCHANGED <<child, dir, quiet>>
           /\ \A o \in Readers : handle'[o].done => handle[o].done
           /\ \A o \in Readers : o # r => request'[o] = request[o]
           /\ JustSent(request'[r], "flat", dir.marker)
<1>1. N \in Nat /\ NoneUnmasked
  <2>1. EarlyUnmask \subseteq races'
    BY DEF listObjectsFlat
  <2> QED
    BY <2>1, Constants, MaskedRequests
<1>2. /\ HandlesOK(handle) /\ handle \in [Readers -> HandleRec] /\ handle[r] \in HandleRec
      /\ child \in [Names -> ChildRec] /\ dir \in DirRec /\ quiet \subseteq Remote
      /\ r \in Procs /\ request \in [Procs -> RequestRec]
      /\ handle[r].pc # "loaded" => handle[r].done = FALSE
  BY ReaderFacts
<1>3. PICK k \in 0..N : k = IF handle[r].loaded THEN handle[r].start ELSE dir.marker
  BY <1>2 DEF HandleRec, DirRec
<1>4. PICK f \in 0..N : f = dir.marker
  BY <1>2 DEF DirRec
<1> DEFINE g == [handle[r] EXCEPT !.pc = "flat", !.loaded = TRUE, !.start = k]
<1>5. /\ handle[r].pc = "list" /\ handle' = [handle EXCEPT ![r] = g]
      /\ request' = [request EXCEPT ![r] = addInflightListing("flat", f)]
      /\ UNCHANGED <<cache, jobs, look, last, quiet, bounds>>
  BY <1>2, <1>3, <1>4 DEF listObjectsFlat
<1>6. g \in HandleRec /\ g.pc = "flat" /\ g.done = FALSE
  <2>1. handle[r].done = FALSE /\ TRUE \in BOOLEAN
    BY <1>2, <1>5
  <2>2. g \in HandleRec
    BY <1>2, <2>1, Zenon DEF HandleRec
  <2> QED
    BY <1>2, <2>1, <2>2 DEF HandleRec
<1> HIDE DEF g
<1>7. /\ HandlesOK(handle') /\ OthersWait(r, handle) /\ handle'[r] = g
      /\ \A o \in Readers : handle'[o].done => handle[o].done
  BY <1>2, <1>5, <1>6 DEF HandlesOK, OthersWait
<1>8. JustSent(addInflightListing("flat", f), "flat", f)
  BY <1>1, SentRequest
<1>9. /\ request' \in [Procs -> RequestRec] /\ request'[r] = addInflightListing("flat", f)
      /\ \A p \in Procs : p # r => request'[p] = request[p]
  BY <1>2, <1>5, <1>8 DEF JustSent
<1>10. ReaderInv(r)'
  BY <1>6, <1>7, <1>8, <1>9 DEF ReaderInv, JustSent
<1>11. UNCHANGED <<bucket, deleted, put, del, last, child, dir, quiet, look, writes, remotes>>
  BY <1>5 DEF cache, jobs, bounds
<1>12. \A n \in Names : Stays(n)
  BY <1>11 DEF Stays
<1>13. Sends(r)
  BY <1>1, <1>9 DEF Sends
<1>14. ReaderFrame(r)
  BY <1>2, <1>7, <1>9, <1>10, <1>11, <1>12, <1>13 DEF ReaderFrame, Browse
<1>15. \A o \in Readers : o # r => request'[o] = request[o]
  BY <1>9 DEF Procs
<1> QED
  BY <1>4, <1>7, <1>8, <1>9, <1>11, <1>14, <1>15

NoneStale(ch) == \A n \in Names : ch[n].st = "cached" /\ ~ch[n].open => ch[n].fresh

\* The children shrink, and a directory that becomes trusted has nothing stale left.
SealStep(r) ==
    /\ UNCHANGED <<request, quiet>>
    /\ Shrunk(child, child')
    /\ \A o \in Readers : handle'[o].done => handle[o].done
    /\ \/ /\ dir'.marker = dir.marker /\ (dir'.done => dir.done) /\ (dir'.valid => dir.valid)
       \/ /\ dir'.marker = 0 /\ handle[r].done
          /\ NoneStale(child')

(* Shrinking twice is shrinking. *)
LEMMA ShrunkTwice ==
    ASSUME NEW a, NEW b, NEW c, Shrunk(a, b), Shrunk(b, c)
    PROVE  Shrunk(a, c)
BY NoChildFields DEF Shrunk

(* loadListing after a page: a complete listing seals the directory. *)
LEMMA LoadedFrame ==
    ASSUME MirrorInv, NEW r \in Readers, Loaded(r)
    PROVE  ReaderFrame(r) /\ SealStep(r)
<1>1. /\ HandlesOK(handle) /\ handle \in [Readers -> HandleRec] /\ handle[r] \in HandleRec
      /\ child \in [Names -> ChildRec] /\ dir \in DirRec /\ quiet \subseteq Remote
      /\ r \in Procs /\ request \in [Procs -> RequestRec] /\ ReaderInv(r)
  BY ReaderFacts
<1>2. PICK d, ch, hs :
          /\ d = IF handle[r].done /\ ~dir.done THEN Sealed(dir) ELSE dir
          /\ ch = IF handle[r].done /\ ~dir.done THEN RemoveExpired(child, d, 0) ELSE child
          /\ hs = [Repositioned(handle, child, ch) EXCEPT ![r].done = FALSE]
          /\ Load(r, ch, d, hs)
  BY DEF Loaded
<1>3. /\ handle[r].pc = "loaded" /\ UNCHANGED <<jobs, request, last, quiet, bounds>>
  BY DEF Loaded
<1>4. Shrunk(child, child)
  BY DEF Shrunk
<1>5. /\ d \in DirRec /\ ch \in [Names -> ChildRec] /\ Shrunk(child, ch)
      /\ \/ d = dir
         \/ /\ d.marker = 0 /\ handle[r].done
            /\ NoneStale(ch)
  <2>1. CASE handle[r].done /\ ~dir.done
    <3>1. d = Sealed(dir) /\ ch = RemoveExpired(child, Sealed(dir), 0)
      BY <1>2, <2>1
    <3>2. /\ Sealed(dir) \in DirRec /\ Sealed(dir).marker = 0
          /\ NoneStale(ch)
      BY <1>1, <3>1, SealedFacts DEF NoneStale
    <3>3. ch \in [Names -> ChildRec] /\ Shrunk(child, ch)
      BY <1>1, <3>1, RemoveExpiredFacts
    <3> QED
      BY <2>1, <3>1, <3>2, <3>3
  <2>2. CASE ~(handle[r].done /\ ~dir.done)
    BY <1>1, <1>2, <1>4, <2>2
  <2> QED
    BY <2>1, <2>2
<1>6. PICK h1 : h1 = Repositioned(handle, child, ch)
  OBVIOUS
<1>7. /\ HandlesOK(h1)
      /\ \A o \in Readers : h1[o].pc = handle[o].pc /\ h1[o].done = handle[o].done
  BY <1>1, <1>6, RepositionedFacts
<1>8. /\ HandlesOK(hs) /\ hs[r].done = FALSE
      /\ \A o \in Readers \ {r} : hs[o].pc = handle[o].pc /\ hs[o].done = handle[o].done
  <2>1. hs = [h1 EXCEPT ![r] = [h1[r] EXCEPT !.done = FALSE]]
    BY <1>2, <1>6, <1>7 DEF HandlesOK
  <2>2. h1[r] \in HandleRec
    BY <1>7 DEF HandlesOK
  <2> DEFINE g == [h1[r] EXCEPT !.done = FALSE]
  <2>3. g \in HandleRec /\ g.done = FALSE /\ g.pc = h1[r].pc
    BY <2>2 DEF HandleRec
  <2> HIDE DEF g
  <2>4. hs = [h1 EXCEPT ![r] = g]
    BY <2>1 DEF g
  <2>5. g.pc # "entry"
    BY <1>3, <1>7, <2>3
  <2> QED
    BY <1>7, <2>3, <2>4, <2>5 DEF HandlesOK
<1>9. ReadTo(r, ch, d, hs)
  BY <1>2, <1>5, <1>8, LoadFacts
<1>10. OthersWait(r, handle)
  BY <1>8, <1>9 DEF ReadTo, OthersWait
<1>11. Shrunk(child, child')
  BY <1>5, <1>9, ShrunkTwice DEF ReadTo
<1>12. \A n \in Names : Stays(n) \/ Drops(n)
  BY <1>11 DEF Shrunk, Stays, Drops
<1>13. UNCHANGED <<bucket, deleted, put, del, last, request, quiet, writes, remotes>>
  BY <1>3 DEF jobs, bounds
<1>14. ReaderInv(r)'
  BY <1>1, <1>3, <1>9, <1>13 DEF ReaderInv, ReadTo
<1>15. ReaderFrame(r)
  BY <1>1, <1>9, <1>10, <1>12, <1>13, <1>14 DEF ReaderFrame, Browse, ReadTo
<1>16. \A o \in Readers : handle'[o].done => handle[o].done
  BY <1>9, <1>10 DEF OthersWait, ReadTo
<1>17. NoneStale(ch) => NoneStale(child')
  BY <1>9, NoChildFields DEF ReadTo, Shrunk, NoneStale
<1>18. SealStep(r)
  BY <1>5, <1>9, <1>11, <1>13, <1>16, <1>17 DEF SealStep, ReadTo
<1> QED
  BY <1>15, <1>18

\* The entries of a page are shown, others stay or expire.
PageShown(p) ==
    /\ request[p].answered
    /\ \A n \in Names : IF n \in DOMAIN request[p].items /\ n \notin request[p].skip
                        THEN Shows(n) ELSE Stays(n) \/ Expires(n)

(* The children after a page, and after what it does not mention has expired. *)
LEMMA PageEntries ==
    ASSUME TypeInv, NEW p \in Procs, request[p].answered, child' \in [Names -> ChildRec],
           Shrunk(Applied(child, request[p]), child')
    PROVE  PageShown(p)
<1>1. child \in [Names -> ChildRec] /\ request[p] \in RequestRec /\ deleted \in [Names -> BOOLEAN]
  BY DEF TypeInv, StoreTypes, ThreadTypes
<1>2. PICK all : all = Applied(child, request[p])
  OBVIOUS
<1>3. /\ all \in [Names -> ChildRec]
      /\ \A n \in Names : IF n \in DOMAIN request[p].items /\ n \notin request[p].skip
                          THEN ShownAs(child[n], all[n], deleted[n], request[p].items[n])
                          ELSE all[n] = child[n]
  BY <1>1, <1>2, AppliedFacts
<1>4. ASSUME NEW n \in Names, n \in DOMAIN request[p].items /\ n \notin request[p].skip
      PROVE  Shows(n)
  <2>1. ShownAs(child[n], all[n], deleted[n], request[p].items[n])
    BY <1>3, <1>4
  <2>2. request[p].items[n] \in Contents
    BY <1>1, <1>4, ItemContents
  <2>3. ShownRec(child[n], all[n], deleted[n], request[p].items[n])
    BY <1>1, <2>1, <2>2, ShownFields
  <2>4. all[n].fresh \/ all[n].st = "none"
    BY <2>3, NoChildFields DEF ShownRec
  <2>5. child'[n] = all[n]
    BY <1>2, <2>4 DEF Shrunk
  <2>6. ShownAs(child[n], child'[n], deleted[n], request[p].items[n])
    BY <2>1, <2>5
  <2> QED
    BY <1>4, <2>6 DEF Shows
<1>5. ASSUME NEW n \in Names, ~(n \in DOMAIN request[p].items /\ n \notin request[p].skip)
      PROVE  Stays(n) \/ Expires(n)
  <2>1. all[n] = child[n]
    BY <1>3, <1>5
  <2> QED
    BY <1>2, <2>1 DEF Shrunk, Stays, Expires, Drops
<1> QED
  BY <1>4, <1>5 DEF PageShown

\* A page is applied and the marker moves on, or the directory is sealed.
PageStep(r) ==
    /\ handle[r].pc \in {"slurp", "flat"} /\ PageShown(r)
    /\ request'[r] = NoRequest /\ (\A o \in Readers : o # r => request'[o] = request[o])
    /\ quiet' = quiet
    /\ \A o \in Readers : handle'[o].done => handle[o].done \/ ~request[r].more
    /\ \/ /\ request[r].more /\ dir'.done = dir.done /\ dir'.valid = dir.valid
          /\ \A n \in Names : n <= dir'.marker =>
                 n <= dir.marker \/ \E m \in DOMAIN request[r].items : n <= m
       \/ ~request[r].more /\ dir'.marker = 0 /\ NoneStale(child')

(* The state of the reader once its page is applied. *)
LEMMA PageHandle ==
    ASSUME MirrorInv, NEW r \in Readers, handle[r].pc # "entry", NEW ch, NEW all, NEW b \in BOOLEAN,
           handle' = [Repositioned(Repositioned(handle, child, all), all, ch)
                          EXCEPT ![r] = [@ EXCEPT !.pc = "loaded", !.done = b]]
    PROVE  /\ HandlesOK(handle') /\ OthersWait(r, handle)
           /\ handle'[r].pc = "loaded" /\ handle'[r].done = b
<1>1. HandlesOK(handle)
  BY ReaderFacts
<1>2. PICK h1 : h1 = Repositioned(handle, child, all)
  OBVIOUS
<1>3. HandlesOK(h1) /\ \A o \in Readers : h1[o].pc = handle[o].pc /\ h1[o].done = handle[o].done
  BY <1>1, <1>2, RepositionedFacts
<1>4. PICK h2 : h2 = Repositioned(h1, all, ch)
  OBVIOUS
<1>5. HandlesOK(h2) /\ \A o \in Readers : h2[o].pc = handle[o].pc /\ h2[o].done = handle[o].done
  BY <1>3, <1>4, RepositionedFacts
<1>6. h2[r] \in HandleRec /\ h2 \in [Readers -> HandleRec]
  BY <1>5 DEF HandlesOK
<1> DEFINE g == [h2[r] EXCEPT !.pc = "loaded", !.done = b]
<1>7. handle' = [h2 EXCEPT ![r] = g]
  BY <1>2, <1>4, <1>6
<1>8. g \in HandleRec /\ g.pc = "loaded" /\ g.done = b
  <2>1. h2[r] \in HandleRec /\ b \in BOOLEAN
    BY <1>6
  <2>2. [h2[r] EXCEPT !.pc = "loaded", !.done = b] \in HandleRec
    BY <2>1, Zenon DEF HandleRec
  <2>3. g.pc = "loaded" /\ g.done = b
    BY <2>1, Zenon DEF HandleRec
  <2> QED
    BY <2>2, <2>3
<1> HIDE DEF g
<1> QED
  BY <1>5, <1>6, <1>7, <1>8 DEF HandlesOK, OthersWait

(* The frame of a page. *)
LEMMA PageFrame ==
    ASSUME MirrorInv, NEW r \in Readers, PageShown(r), child' \in [Names -> ChildRec], dir' \in DirRec,
           HandlesOK(handle'), OthersWait(r, handle), handle'[r].pc = "loaded",
           look' = Detached(look, child'), request' = [request EXCEPT ![r] = NoRequest],
           UNCHANGED <<jobs, last, quiet, bounds>>
    PROVE  /\ ReaderFrame(r)
           /\ request'[r] = NoRequest /\ \A o \in Readers : o # r => request'[o] = request[o]
<1>1. /\ quiet \subseteq Remote /\ r \in Procs /\ request \in [Procs -> RequestRec]
  BY ReaderFacts
<1>2. NoRequest \in RequestRec
  BY RecordTypes
<1>3. /\ request' \in [Procs -> RequestRec] /\ request'[r] = NoRequest
      /\ \A p \in Procs : p # r => request'[p] = request[p]
  BY <1>1, <1>2
<1>4. ReaderInv(r)'
  BY <1>3, NoRequestFields DEF ReaderInv
<1>5. UNCHANGED <<bucket, deleted, put, del, last, quiet, writes, remotes>>
  BY DEF jobs, bounds
<1>6. \A n \in Names : Stays(n) \/ Drops(n) \/ Shows(n)
  BY DEF PageShown, Expires
<1>7. ReaderFrame(r)
  BY <1>1, <1>3, <1>4, <1>5, <1>6 DEF ReaderFrame, Browse
<1> QED
  BY <1>3, <1>7 DEF Procs

(* slurpOnce: a first page that is the last one seals the directory. *)
LEMMA SlurpedFrame ==
    ASSUME MirrorInv, NEW r \in Readers, Slurped(r)
    PROVE  ReaderFrame(r) /\ PageStep(r)
<1>1. /\ child \in [Names -> ChildRec] /\ dir \in DirRec
      /\ r \in Procs /\ request[r] \in RequestRec
  BY ReaderFacts
<1>2. TypeInv
  BY DEF MirrorInv
<1>3. PICK all, d, ch :
          /\ all = Applied(child, request[r])
          /\ d = IF request[r].more THEN dir ELSE Sealed(dir)
          /\ ch = IF request[r].more THEN all ELSE RemoveExpired(all, d, 0)
          /\ dir' = d
          /\ Becomes(ch, [Repositioned(Repositioned(handle, child, all), all, ch)
                              EXCEPT ![r].pc = "loaded", ![r].done = ~request[r].more])
  BY DEF Slurped
<1>4. /\ handle[r].pc = "slurp" /\ request[r].answered
      /\ request' = [request EXCEPT ![r] = NoRequest]
      /\ UNCHANGED <<jobs, last, quiet, bounds>>
  BY DEF Slurped
<1>5. all \in [Names -> ChildRec]
  BY <1>1, <1>3, AppliedFacts
<1>6. /\ ch \in [Names -> ChildRec] /\ Shrunk(all, ch) /\ d \in DirRec
      /\ \/ request[r].more /\ d = dir
         \/ ~request[r].more /\ d.marker = 0 /\ NoneStale(ch)
  <2>1. CASE request[r].more
    BY <1>1, <1>3, <1>5, <2>1 DEF Shrunk
  <2>2. CASE ~request[r].more
    <3>1. d = Sealed(dir) /\ ch = RemoveExpired(all, Sealed(dir), 0)
      BY <1>3, <2>2
    <3> QED
      BY <1>1, <1>5, <2>2, <3>1, RemoveExpiredFacts, SealedFacts DEF NoneStale
  <2> QED
    BY <2>1, <2>2
<1>7. /\ child' = ch /\ look' = Detached(look, child')
      /\ handle' = [Repositioned(Repositioned(handle, child, all), all, ch)
                        EXCEPT ![r].pc = "loaded", ![r].done = ~request[r].more]
  BY <1>3 DEF Becomes
<1>8. PICK b \in BOOLEAN : b = ~request[r].more
  BY <1>1 DEF RequestRec
<1>9. handle' = [Repositioned(Repositioned(handle, child, all), all, ch)
                    EXCEPT ![r] = [@ EXCEPT !.pc = "loaded", !.done = b]]
  BY <1>7, <1>8, Zenon
<1>10. /\ HandlesOK(handle') /\ OthersWait(r, handle)
       /\ handle'[r].pc = "loaded" /\ handle'[r].done = b
  BY <1>4, <1>9, PageHandle
<1>11. PageShown(r)
  BY <1>1, <1>2, <1>3, <1>4, <1>6, <1>7, PageEntries
<1>12. /\ ReaderFrame(r)
       /\ request'[r] = NoRequest /\ \A o \in Readers : o # r => request'[o] = request[o]
  BY <1>3, <1>4, <1>6, <1>7, <1>10, <1>11, PageFrame
<1>13. \A o \in Readers : handle'[o].done => handle[o].done \/ ~request[r].more
  BY <1>8, <1>10 DEF OthersWait
<1>14. PageStep(r)
  BY <1>3, <1>4, <1>6, <1>7, <1>11, <1>12, <1>13 DEF PageStep
<1> QED
  BY <1>12, <1>14

(* The state of the reader once a page of listObjectsFlat is applied. *)
LEMMA FlatHandle ==
    ASSUME MirrorInv, NEW r \in Readers, handle[r].pc = "flat", NEW ch, NEW all,
           handle' = [Repositioned(Repositioned(handle, child, all), all, ch) EXCEPT ![r].pc = "loaded"]
    PROVE  /\ HandlesOK(handle') /\ OthersWait(r, handle)
           /\ handle'[r].pc = "loaded" /\ handle'[r].done = FALSE
<1>1. HandlesOK(handle) /\ handle[r].done = FALSE
  BY ReaderFacts
<1>2. PICK h1 : h1 = Repositioned(handle, child, all)
  OBVIOUS
<1>3. HandlesOK(h1) /\ \A o \in Readers : h1[o].pc = handle[o].pc /\ h1[o].done = handle[o].done
  BY <1>1, <1>2, RepositionedFacts
<1>4. PICK h2 : h2 = Repositioned(h1, all, ch)
  OBVIOUS
<1>5. HandlesOK(h2) /\ \A o \in Readers : h2[o].pc = handle[o].pc /\ h2[o].done = handle[o].done
  BY <1>3, <1>4, RepositionedFacts
<1>6. h2[r] \in HandleRec /\ h2 \in [Readers -> HandleRec] /\ h2[r].done = FALSE
  BY <1>1, <1>5 DEF HandlesOK
<1> DEFINE g == [h2[r] EXCEPT !.pc = "loaded"]
<1>7. handle' = [h2 EXCEPT ![r] = g]
  BY <1>2, <1>4, <1>6
<1>8. g \in HandleRec /\ g.pc = "loaded" /\ g.done = FALSE
  <2>1. h2[r] \in HandleRec /\ h2[r].done = FALSE
    BY <1>6
  <2> QED
    BY <2>1 DEF HandleRec
<1> HIDE DEF g
<1> QED
  BY <1>5, <1>6, <1>7, <1>8 DEF HandlesOK, OthersWait

(* listObjectsFlat: the marker moves to the last entry of the page, or the directory is
   sealed. *)
LEMMA ListedFrame ==
    ASSUME MirrorInv, NEW r \in Readers, Listed(r)
    PROVE  ReaderFrame(r) /\ PageStep(r)
<1>1. /\ child \in [Names -> ChildRec] /\ dir \in DirRec
      /\ r \in Procs /\ request[r] \in RequestRec
  BY ReaderFacts
<1>2. TypeInv
  BY DEF MirrorInv
<1> DEFINE all == Applied(child, request[r])
           passed == [dir EXCEPT !.last = Max({@} \cup (DOMAIN request[r].items \ request[r].skip))]
           d == IF request[r].more
                THEN [passed EXCEPT !.marker = Max({@} \cup DOMAIN request[r].items)]
                ELSE Sealed(passed)
           ch == IF request[r].more THEN all ELSE RemoveExpired(all, d, 0)
<1>3. /\ all = Applied(child, request[r])
      /\ passed = [dir EXCEPT !.last = Max({@} \cup (DOMAIN request[r].items \ request[r].skip))]
      /\ d = IF request[r].more
             THEN [passed EXCEPT !.marker = Max({@} \cup DOMAIN request[r].items)]
             ELSE Sealed(passed)
      /\ ch = IF request[r].more THEN all ELSE RemoveExpired(all, d, 0)
      /\ dir' = d
      /\ Becomes(ch, [Repositioned(Repositioned(handle, child, all), all, ch) EXCEPT ![r].pc = "loaded"])
  BY DEF Listed
<1> HIDE DEF all, passed, d, ch
<1>4. /\ handle[r].pc = "flat" /\ request[r].answered
      /\ request' = [request EXCEPT ![r] = NoRequest]
      /\ UNCHANGED <<jobs, last, quiet, bounds>>
  BY DEF Listed
<1>5. all \in [Names -> ChildRec]
  BY <1>1, <1>3, AppliedFacts
<1>6. DOMAIN request[r].items \subseteq 0..N
  <2>1. ASSUME NEW n \in DOMAIN request[r].items
        PROVE  n \in 0..N
    <3>1. n \in Names
      BY <1>1, ItemContents
    <3> QED
      BY <3>1, Constants DEF Names
  <2> QED
    BY <2>1
<1>7. PICK j \in 0..N : j = Max({dir.last} \cup (DOMAIN request[r].items \ request[r].skip))
  <2>1. {dir.last} \cup (DOMAIN request[r].items \ request[r].skip) \in SUBSET (0..N)
    BY <1>1, <1>6 DEF DirRec
  <2> QED
    BY <2>1, MaxOfNames
<1>8. PICK k \in {dir.marker} \cup DOMAIN request[r].items :
          k = Max({dir.marker} \cup DOMAIN request[r].items) /\ k \in 0..N
  <2>1. {dir.marker} \cup DOMAIN request[r].items \in SUBSET (0..N)
    BY <1>1, <1>6 DEF DirRec
  <2> QED
    BY <2>1, MaxOfNames
<1>9. passed = [dir EXCEPT !.last = j] /\ passed \in DirRec
  <2>1. passed = [dir EXCEPT !.last = j]
    BY <1>3, <1>7
  <2> QED
    BY <1>1, <2>1 DEF DirRec
<1>10. /\ passed.marker = dir.marker /\ passed.done = dir.done /\ passed.valid = dir.valid
  BY <1>1, <1>9 DEF DirRec
<1>11. /\ ch \in [Names -> ChildRec] /\ Shrunk(all, ch) /\ d \in DirRec
       /\ \/ request[r].more /\ d.done = dir.done /\ d.valid = dir.valid /\ d.marker = k
          \/ ~request[r].more /\ d.marker = 0 /\ NoneStale(ch)
  <2>1. CASE request[r].more
    <3>1. ch = all /\ d = [passed EXCEPT !.marker = k]
      BY <1>3, <1>8, <1>10, <2>1
    <3>2. d \in DirRec /\ d.done = dir.done /\ d.valid = dir.valid /\ d.marker = k
      BY <1>8, <1>9, <1>10, <3>1 DEF DirRec
    <3> QED
      BY <1>5, <2>1, <3>1, <3>2 DEF Shrunk
  <2>2. CASE ~request[r].more
    <3>1. d = Sealed(passed) /\ ch = RemoveExpired(all, Sealed(passed), 0)
      BY <1>3, <2>2
    <3> QED
      BY <1>5, <1>9, <2>2, <3>1, RemoveExpiredFacts, SealedFacts DEF NoneStale
  <2> QED
    BY <2>1, <2>2
<1>12. /\ child' = ch /\ look' = Detached(look, child')
       /\ handle' = [Repositioned(Repositioned(handle, child, all), all, ch) EXCEPT ![r].pc = "loaded"]
  BY <1>3 DEF Becomes
<1>13. /\ HandlesOK(handle') /\ OthersWait(r, handle)
       /\ handle'[r].pc = "loaded" /\ handle'[r].done = FALSE
  BY <1>4, <1>12, FlatHandle
<1>14. PageShown(r)
  BY <1>1, <1>2, <1>3, <1>4, <1>11, <1>12, PageEntries
<1>15. /\ ReaderFrame(r)
       /\ request'[r] = NoRequest /\ \A o \in Readers : o # r => request'[o] = request[o]
  BY <1>3, <1>4, <1>11, <1>12, <1>13, <1>14, PageFrame
<1>16. \A o \in Readers : handle'[o].done => handle[o].done \/ ~request[r].more
  BY <1>13 DEF OthersWait
<1>17. \A n \in Names : n <= k => n <= dir.marker \/ \E m \in DOMAIN request[r].items : n <= m
  BY <1>8
<1>18. PageStep(r)
  BY <1>3, <1>4, <1>11, <1>12, <1>14, <1>15, <1>16, <1>17 DEF PageStep
<1> QED
  BY <1>15, <1>18

\* A listing of the directory is sent without starting a refresh.
SlurpStep(r) ==
    /\ UNCHANGED <<child, dir, quiet>>
    /\ \A o \in Readers : handle'[o].done => handle[o].done
    /\ \A o \in Readers : o # r => request'[o] = request[o]
    /\ JustSent(request'[r], "slurp", 0)

\* A refresh starts.
RefreshStep(r) ==
    /\ "overlappingRefresh" \in races' \/ \A o \in Readers : ~Loading(o)
    /\ dir'.marker = 0 /\ ~dir'.done /\ ~dir'.valid
    /\ \A n \in Names : Ages(n)
    /\ \A o \in Readers : handle'[o].done => handle[o].done
    /\ \A o \in Readers : o # r => request'[o] = request[o]
    /\ request'[r] = request[r] \/ JustSent(request'[r], "slurp", 0)

(* Starting a refresh only ages the entries. *)
LEMMA StartedFacts ==
    ASSUME NEW ch \in [Names -> ChildRec]
    PROVE  /\ Started(ch) \in [Names -> ChildRec]
           /\ \A n \in Names : Started(ch)[n] = [ch[n] EXCEPT !.fresh = FALSE]
<1>1. ASSUME NEW n \in Names
      PROVE  [ch[n] EXCEPT !.fresh = FALSE] \in ChildRec
  BY DEF ChildRec
<1> QED
  BY <1>1 DEF Started

(* A frame for the end of ReadDir with nothing sent. *)
LEMMA ReadToFrame ==
    ASSUME MirrorInv, NEW r \in Readers, handle[r].pc \notin {"slurp", "flat"}, NEW hs,
           \A o \in Readers : hs[o].pc = handle[o].pc /\ hs[o].done = handle[o].done,
           ReadTo(r, child, dir, hs), UNCHANGED <<jobs, last, bounds, request, quiet>>
    PROVE  ReaderFrame(r) /\ SealStep(r)
<1>1. /\ request \in [Procs -> RequestRec] /\ ReaderInv(r) /\ quiet \subseteq Remote
  BY ReaderFacts
<1>2. OthersWait(r, handle) /\ \A o \in Readers : handle'[o].done => handle[o].done
  BY DEF ReadTo, OthersWait
<1>3. ReaderInv(r)'
  BY <1>1 DEF ReaderInv, ReadTo
<1>4. \A n \in Names : Stays(n) \/ Drops(n)
  BY DEF ReadTo, Shrunk, Stays, Drops
<1>5. UNCHANGED <<bucket, deleted, put, del, last, request, quiet, writes, remotes>>
  BY DEF jobs, bounds
<1>6. ReaderFrame(r)
  BY <1>1, <1>2, <1>3, <1>4, <1>5 DEF ReaderFrame, Browse, ReadTo
<1>7. SealStep(r)
  BY <1>2, <1>5 DEF SealStep, ReadTo
<1> QED
  BY <1>6, <1>7

(* A frame for the listing that ReadDir sends, and for the start of a refresh. *)
LEMMA StartFrame ==
    ASSUME MirrorInv, NEW r \in Readers, handle[r].pc = "idle", NEW hs,
           HandlesOK(hs), \A o \in Readers : hs[o].pc = handle[o].pc /\ hs[o].done = handle[o].done,
           NEW pc \in {"slurp", "list"}, handle' = [hs EXCEPT ![r].pc = pc],
           child' \in [Names -> ChildRec], dir' \in DirRec, look' = Detached(look, child'),
           IF pc = "slurp" THEN request' = [request EXCEPT ![r] = addInflightListing("slurp", 0)]
           ELSE request' = request,
           pc = "slurp" => NoneUnmasked,
           UNCHANGED <<jobs, last, bounds>>,
           \A n \in Names : Stays(n) \/ Ages(n),
           quiet' \subseteq Remote,
           \A n \in quiet' : n \in quiet \/ (Ages(n) /\ \A p \in Procs : request[p].kind = "none")
    PROVE  /\ ReaderFrame(r)
           /\ \A o \in Readers : handle'[o].done => handle[o].done
           /\ \A o \in Readers : o # r => request'[o] = request[o]
           /\ pc = "slurp" => JustSent(request'[r], "slurp", 0)
           /\ pc = "list" => request'[r] = request[r]
<1>0. 0 \in 0..N
  BY Constants
<1>1. /\ r \in Procs /\ request \in [Procs -> RequestRec] /\ ReaderInv(r)
      /\ handle[r].done = FALSE
  BY ReaderFacts
<1>2. hs \in [Readers -> HandleRec] /\ hs[r] \in HandleRec
  BY DEF HandlesOK
<1> DEFINE g == [hs[r] EXCEPT !.pc = pc]
<1>3. handle' = [hs EXCEPT ![r] = g]
  BY <1>2
<1>4. g \in HandleRec /\ g.pc = pc /\ g.done = FALSE
  <2>1. hs[r].done = FALSE
    BY <1>1
  <2> QED
    BY <1>2, <2>1 DEF HandleRec
<1> HIDE DEF g
<1>5. /\ HandlesOK(handle') /\ OthersWait(r, handle) /\ handle'[r] = g
      /\ \A o \in Readers : handle'[o].done => handle[o].done
  BY <1>2, <1>3, <1>4 DEF HandlesOK, OthersWait
<1>6. pc = "slurp" => JustSent(addInflightListing("slurp", 0), "slurp", 0)
  BY <1>0, SentRequest
<1>7. /\ request' \in [Procs -> RequestRec]
      /\ \A p \in Procs : p # r => request'[p] = request[p]
      /\ pc = "slurp" => request'[r] = addInflightListing("slurp", 0)
      /\ pc = "list" => request'[r] = request[r]
  BY <1>1, <1>6 DEF JustSent
<1>8. pc = "slurp" => Sends(r) /\ JustSent(request'[r], "slurp", 0)
  BY <1>0, <1>6, <1>7 DEF Sends
<1>9. ReaderInv(r)'
  <2>1. CASE pc = "slurp"
    BY <1>4, <1>5, <1>8, <2>1 DEF ReaderInv, JustSent
  <2>2. CASE pc = "list"
    BY <1>1, <1>4, <1>5, <1>7, <2>2 DEF ReaderInv
  <2> QED
    BY <2>1, <2>2
<1>10. UNCHANGED <<bucket, deleted, put, del, last, writes, remotes>>
  BY DEF jobs, bounds
<1>11. ReaderFrame(r)
  BY <1>5, <1>7, <1>8, <1>9, <1>10 DEF ReaderFrame, Browse
<1> QED
  BY <1>5, <1>7, <1>8, <1>11 DEF Procs

(* ReadDir answers from the cache, goes on with a listing, or starts a refresh. *)
LEMMA ReadDirFrame ==
    ASSUME MirrorInv, NEW r \in Readers, ReadDir(r), Orderly'
    PROVE  ReaderFrame(r) /\ (SealStep(r) \/ SlurpStep(r) \/ RefreshStep(r))
<1>1. /\ HandlesOK(handle) /\ handle \in [Readers -> HandleRec] /\ handle[r] \in HandleRec
      /\ LooksOK(look) /\ child \in [Names -> ChildRec] /\ dir \in DirRec /\ quiet \subseteq Remote
  BY ReaderFacts
<1> DEFINE d == IF Refreshes THEN [dir EXCEPT !.last = 0, !.forget = FALSE] ELSE dir
           ch == IF Refreshes THEN Started(child) ELSE child
           hs == [handle EXCEPT ![r].idx = Position(child, handle[r])]
<1>2. /\ handle[r].pc = "idle" /\ UNCHANGED <<jobs, last, bounds>>
      /\ \/ dir.valid /\ Serve(r, child, dir, hs) /\ UNCHANGED <<request, quiet>>
         \/ /\ ~dir.valid
            /\ Refreshes => "overlappingRefresh" \in races' \/ \A o \in Readers : ~Loading(o)
            /\ quiet' = IF ~Refreshes THEN quiet
                        ELSE IF \E p \in Procs : request[p].kind # "none" THEN quiet ELSE Remote
            /\ \/ /\ dir' = d
                  /\ Becomes(ch, [hs EXCEPT ![r].pc = "slurp"])
                  /\ request' = [request EXCEPT ![r] = addInflightListing("slurp", 0)]
                  /\ NoneUnmasked
               \/ Load(r, ch, d, hs) /\ UNCHANGED request
  <2>1. EarlyUnmask \subseteq races' => NoneUnmasked
    BY MaskedRequests
  <2>2. Refreshes /\ Overlapping \subseteq races' =>
            "overlappingRefresh" \in races' \/ \A o \in Readers : ~Loading(o)
    BY DEF Overlapping, Happens
  <2> HIDE DEF d, ch, hs
  <2>3. CASE dir.valid /\ Serve(r, child, dir, hs) /\ UNCHANGED <<request, quiet>>
    BY <2>3 DEF ReadDir
  <2>4. CASE ~dir.valid
    <3>1. /\ quiet' = IF ~Refreshes THEN quiet
                      ELSE IF \E p \in Procs : request[p].kind # "none" THEN quiet ELSE Remote
          /\ Overlapping \subseteq races'
          /\ \/ /\ dir' = d
                /\ Becomes(ch, [hs EXCEPT ![r].pc = "slurp"])
                /\ request' = [request EXCEPT ![r] = addInflightListing("slurp", 0)]
                /\ EarlyUnmask \subseteq races'
             \/ Load(r, ch, d, hs) /\ UNCHANGED request
      BY <2>4 DEF ReadDir, d, ch, hs
    <3> QED
      BY <2>1, <2>2, <2>4, <3>1 DEF ReadDir
  <2> QED
    BY <2>3, <2>4 DEF ReadDir, d, ch, hs
<1>3. /\ HandlesOK(hs)
      /\ \A o \in Readers : hs[o].pc = handle[o].pc /\ hs[o].done = handle[o].done
  <2>1. PICK i \in 0..N : i = Position(child, handle[r])
    BY <1>1, PositionType
  <2>2. hs = [handle EXCEPT ![r] = [handle[r] EXCEPT !.idx = i]]
    BY <1>1, <2>1
  <2> DEFINE g == [handle[r] EXCEPT !.idx = i]
  <2>3. g \in HandleRec /\ g.pc = handle[r].pc /\ g.done = handle[r].done
    <3>1. i \in -1..N
      BY Constants
    <3> QED
      BY <1>1, <3>1 DEF HandleRec
  <2>4. hs = [handle EXCEPT ![r] = g]
    BY <2>2
  <2> HIDE DEF g, hs
  <2> QED
    BY <1>1, <1>2, <2>3, <2>4 DEF HandlesOK
<1>4. hs[r].done = FALSE
  BY <1>2, <1>3, ReaderFacts
<1>5. /\ d \in DirRec /\ d.marker = dir.marker /\ d.done = dir.done /\ d.valid = dir.valid
      /\ Refreshes => d.last = 0 /\ d.marker = 0 /\ ~d.done
      /\ ~Refreshes => d = dir
  <2>1. CASE Refreshes
    <3>1. d = [dir EXCEPT !.last = 0, !.forget = FALSE]
      BY <2>1
    <3>2. 0 \in 0..N /\ FALSE \in BOOLEAN
      BY Constants
    <3>3. d \in DirRec
      BY <1>1, <3>1, <3>2, Zenon DEF DirRec
    <3>4. /\ d.marker = dir.marker /\ d.done = dir.done /\ d.valid = dir.valid /\ d.last = 0
      BY <1>1, <3>1 DEF DirRec
    <3> QED
      BY <2>1, <3>3, <3>4 DEF Refreshes
  <2>2. CASE ~Refreshes
    BY <1>1, <2>2
  <2> QED
    BY <2>1, <2>2
<1>6. /\ ch \in [Names -> ChildRec]
      /\ Refreshes => \A n \in Names : ch[n] = [child[n] EXCEPT !.fresh = FALSE]
      /\ ~Refreshes => ch = child
  BY <1>1, StartedFacts
<1> HIDE DEF d, ch, hs
<1>8. CASE dir.valid /\ Serve(r, child, dir, hs) /\ UNCHANGED <<request, quiet>>
  <2>1. ReadTo(r, child, dir, hs)
    BY <1>1, <1>3, <1>8, ServeFacts
  <2> QED
    BY <1>2, <1>3, <1>8, <2>1, ReadToFrame
<1>9. CASE ~Refreshes /\ Load(r, ch, d, hs) /\ UNCHANGED <<request, quiet>>
  <2>1. ReadTo(r, child, dir, hs)
    BY <1>1, <1>3, <1>4, <1>5, <1>6, <1>9, LoadFacts
  <2> QED
    BY <1>2, <1>3, <1>9, <2>1, ReadToFrame
<1>10. CASE /\ ~dir.valid /\ ~Refreshes /\ quiet' = quiet
            /\ dir' = d
            /\ Becomes(ch, [hs EXCEPT ![r].pc = "slurp"])
            /\ request' = [request EXCEPT ![r] = addInflightListing("slurp", 0)]
            /\ NoneUnmasked
  <2>1. /\ child' = child /\ dir' = dir /\ look' = Detached(look, child')
        /\ handle' = [hs EXCEPT ![r].pc = "slurp"]
    BY <1>5, <1>6, <1>10 DEF Becomes
  <2>2. \A n \in Names : Stays(n)
    BY <2>1 DEF Stays
  <2>3. /\ ReaderFrame(r)
        /\ \A o \in Readers : handle'[o].done => handle[o].done
        /\ \A o \in Readers : o # r => request'[o] = request[o]
        /\ JustSent(request'[r], "slurp", 0)
    <3>1. PICK pc \in {"slurp", "list"} : pc = "slurp"
      OBVIOUS
    <3>2. /\ child' \in [Names -> ChildRec] /\ dir' \in DirRec /\ quiet' \subseteq Remote
          /\ \A n \in quiet' : n \in quiet
          /\ handle' = [hs EXCEPT ![r].pc = pc]
      BY <1>1, <1>10, <2>1, <3>1
    <3> QED
      BY <1>2, <1>3, <1>10, <2>1, <2>2, <3>1, <3>2, StartFrame
  <2> QED
    BY <1>10, <2>1, <2>3 DEF SlurpStep
<1>11. CASE /\ ~dir.valid /\ Refreshes
            /\ \/ /\ dir' = d
                  /\ Becomes(ch, [hs EXCEPT ![r].pc = "slurp"])
                  /\ request' = [request EXCEPT ![r] = addInflightListing("slurp", 0)]
                  /\ NoneUnmasked
               \/ Load(r, ch, d, hs) /\ UNCHANGED request
  <2>1. PICK pc \in {"slurp", "list"} :
            /\ dir' = d /\ Becomes(ch, [hs EXCEPT ![r].pc = pc])
            /\ pc = "slurp" => NoneUnmasked
            /\ IF pc = "slurp" THEN request' = [request EXCEPT ![r] = addInflightListing("slurp", 0)]
               ELSE request' = request
    <3>1. CASE /\ dir' = d /\ Becomes(ch, [hs EXCEPT ![r].pc = "slurp"]) /\ NoneUnmasked
               /\ request' = [request EXCEPT ![r] = addInflightListing("slurp", 0)]
      BY <3>1
    <3>2. CASE Load(r, ch, d, hs) /\ UNCHANGED request
      <4>1. dir' = d /\ Becomes(ch, [hs EXCEPT ![r].pc = "list"])
        BY <1>5, <1>11, <3>2 DEF Load
      <4> QED
        BY <3>2, <4>1
    <3> QED
      BY <1>11, <3>1, <3>2
  <2>2. child' = ch /\ look' = Detached(look, child') /\ handle' = [hs EXCEPT ![r].pc = pc]
    BY <2>1 DEF Becomes
  <2>3. \A n \in Names : Ages(n)
    BY <1>6, <1>11, <2>2 DEF Ages
  <2>4. /\ quiet' \subseteq Remote
        /\ \A n \in quiet' : n \in quiet \/ (Ages(n) /\ \A p \in Procs : request[p].kind = "none")
    <3>1. /\ quiet' = IF \E p \in Procs : request[p].kind # "none" THEN quiet ELSE Remote
      BY <1>2, <1>11
    <3>2. Remote \subseteq Names /\ quiet \subseteq Remote
      BY <1>1, Constants
    <3> QED
      BY <2>3, <3>1, <3>2
  <2>5. child' \in [Names -> ChildRec] /\ dir' \in DirRec
    BY <1>5, <1>6, <2>1, <2>2
  <2>6. /\ ReaderFrame(r)
        /\ \A o \in Readers : handle'[o].done => handle[o].done
        /\ \A o \in Readers : o # r => request'[o] = request[o]
        /\ pc = "slurp" => JustSent(request'[r], "slurp", 0)
        /\ pc = "list" => request'[r] = request[r]
    BY <1>2, <1>3, <2>1, <2>2, <2>3, <2>4, <2>5, StartFrame
  <2>7. RefreshStep(r)
    BY <1>2, <1>5, <1>11, <2>1, <2>3, <2>6 DEF RefreshStep
  <2> QED
    BY <2>6, <2>7
<1> QED
  BY <1>2, <1>8, <1>9, <1>10, <1>11
----------------------------------------------------------------------------
(* The steps of a lookup *)

\* The frame of a lookup's step; what it drops is not in the bucket.
LookerFrame(l) ==
    /\ Browse /\ UNCHANGED <<dir, quiet, writes, remotes>>
    /\ child' \in [Names -> ChildRec]
    /\ HandlesOK(handle')
    /\ \A o \in Readers : handle'[o].pc = handle[o].pc /\ handle'[o].done = handle[o].done
    /\ LooksOK(look') /\ LookerInv(l)' /\ Holds(l)
    /\ \A k \in Lookers : k # l => \/ look'[k] = Detached(look, child')[k]
                                   \/ look'[k] = look[k] /\ child' = child
    /\ request' \in [Procs -> RequestRec]
    /\ \A p \in Procs : p # l => request'[p] = request[p]
    /\ request'[l] = NoRequest \/ Sends(l)
    /\ \A n \in Names : \/ Stays(n) \/ Shows(n)
                        \/ Drops(n) /\ n \in Remote /\ (n \in quiet => bucket[n] = 0)

(* A lookup's step keeps the files, the requests and the control. *)
LEMMA LookerFrameInv ==
    ASSUME MirrorInv, NEW l \in Lookers, LookerFrame(l)
    PROVE  MirrorInv'
<1>1. l \in Procs /\ \A r \in Readers : r \in Procs /\ r # l
  BY Constants DEF Procs
<1>2. TypeInv /\ ThreadInv /\ LooksOK(look)
  BY DEF MirrorInv, TypeInv, ThreadTypes, LooksOK
<1>3. ASSUME NEW k \in Lookers, k # l
      PROVE  /\ look'[k].pc = look[k].pc /\ look'[k].n = look[k].n /\ (look'[k].same => look[k].same)
             /\ request'[k] = request[k]
  BY <1>2, <1>3, DetachedFacts DEF LookerFrame, Procs
<1>4. TypeInv'
  <2>1. StoreTypes'
    BY <1>2 DEF TypeInv, StoreTypes, LookerFrame, Browse
  <2>2. ThreadTypes'
    <3>1. \A p \in Procs : request'[p].kind = "head" => request'[p].from \in Names
      BY <1>2, NoRequestFields, SentFields DEF LookerFrame, TypeInv, ThreadTypes
    <3> QED
      BY <3>1 DEF LookerFrame, HandlesOK, LooksOK, ThreadTypes
  <2> QED
    BY <2>1, <2>2 DEF TypeInv
<1>5. ThreadInv'
  <2>1. ASSUME NEW o \in Readers
        PROVE  ReaderInv(o)'
    <3>1. request'[o] = request[o] /\ handle'[o].pc = handle[o].pc /\ handle'[o].done = handle[o].done
      BY <1>1 DEF LookerFrame
    <3> QED
      BY <1>2, <3>1, ReaderUndisturbed DEF ThreadInv
  <2>2. ASSUME NEW k \in Lookers
        PROVE  LookerInv(k)'
    BY <1>2, <1>3, LookerUndisturbed DEF ThreadInv, LookerFrame
  <2> QED
    BY <2>1, <2>2 DEF ThreadInv
<1>6. ASSUME NEW k \in Lookers
      PROVE  Holds(k)
  <2>1. CASE k = l
    BY <2>1 DEF LookerFrame
  <2>2. CASE k # l
    <3> SUFFICES ASSUME look'[k].same, look[k].n \in Own
                 PROVE  child'[look[k].n].st # "none"
      BY <1>3, <2>2 DEF Holds
    <3>1. CASE look'[k] = Detached(look, child')[k]
      BY <1>2, <3>1, DetachedFacts
    <3>2. CASE look'[k] = look[k] /\ child' = child
      <4>1. look[k].same /\ look[k].n \in Names
        BY <3>2 DEF Own
      <4>2. HeldInv(look[k].n)
        BY <4>1 DEF MirrorInv
      <4> QED
        BY <3>2, <4>1, <4>2 DEF HeldInv
    <3> QED
      BY <2>2, <3>1, <3>2 DEF LookerFrame
  <2> QED
    BY <2>1, <2>2
<1>7. \A p \in Procs : request'[p] = request[p] \/ request'[p] = NoRequest \/ Sends(p)
  BY DEF LookerFrame
<1>8. /\ \A n \in Names : Stays(n) \/ Ages(n) \/ Drops(n) \/ Shows(n)
      /\ \A n \in quiet' : n \in quiet
  BY DEF LookerFrame
<1>9. Browse
  BY DEF LookerFrame
<1> QED
  BY <1>4, <1>5, <1>6, <1>7, <1>8, <1>9, BrowseInv

(* What a lookup may rely on. *)
LEMMA LookerFacts ==
    ASSUME MirrorInv, NEW l \in Lookers
    PROVE  /\ HandlesOK(handle) /\ LooksOK(look) /\ look \in [Lookers -> LookRec] /\ look[l] \in LookRec
           /\ child \in [Names -> ChildRec] /\ LookerInv(l) /\ TypeInv
           /\ l \in Procs /\ request \in [Procs -> RequestRec] /\ request[l] \in RequestRec
           /\ look[l].pc # "idle" => look[l].n \in Names /\ look[l].n \in 0..N
<1>1. l \in Procs
  BY DEF Procs
<1>2. TypeInv /\ LookerInv(l)
  BY DEF MirrorInv, ThreadInv
<1>3. Names \subseteq 0..N
  BY Constants DEF Names
<1> QED
  BY <1>1, <1>2, <1>3 DEF TypeInv, StoreTypes, ThreadTypes, HandlesOK, LooksOK

(* The frame of a lookup that becomes ls for l and sends or forgets a request. *)
LEMMA LookerFrameFrom ==
    ASSUME MirrorInv, NEW l \in Lookers, NEW g \in LookRec, NEW q \in RequestRec,
           child' \in [Names -> ChildRec],
           handle' = Repositioned(handle, child, child') \/ handle' = handle,
           \/ look' = [Detached(look, child') EXCEPT ![l] = g]
           \/ look' = [look EXCEPT ![l] = g] /\ child' = child,
           g.pc # "idle" => g.n \in Names,
           request' = [request EXCEPT ![l] = q],
           q = NoRequest \/ Sends(l),
           LookerInv(l)', Holds(l),
           UNCHANGED <<dir, jobs, last, quiet, bounds>>,
           \A n \in Names : \/ Stays(n) \/ Shows(n)
                            \/ Drops(n) /\ n \in Remote /\ (n \in quiet => bucket[n] = 0)
    PROVE  LookerFrame(l)
<1>1. /\ HandlesOK(handle) /\ LooksOK(look) /\ look \in [Lookers -> LookRec]
      /\ l \in Procs /\ request \in [Procs -> RequestRec]
  BY LookerFacts
<1>2. /\ HandlesOK(handle')
      /\ \A o \in Readers : handle'[o].pc = handle[o].pc /\ handle'[o].done = handle[o].done
  BY <1>1, RepositionedFacts
<1>3. PICK ls : ls = Detached(look, child')
  OBVIOUS
<1>4. LooksOK(ls)
  BY <1>1, <1>3, DetachedFacts
<1>5. /\ LooksOK(look')
      /\ \A k \in Lookers : k # l => look'[k] = ls[k] \/ (look'[k] = look[k] /\ child' = child)
  <2>1. CASE look' = [ls EXCEPT ![l] = g]
    BY <1>4, <2>1 DEF LooksOK
  <2>2. CASE look' = [look EXCEPT ![l] = g] /\ child' = child
    BY <1>1, <2>2 DEF LooksOK
  <2> QED
    BY <1>3, <2>1, <2>2
<1>6. /\ request' \in [Procs -> RequestRec] /\ request'[l] = q
      /\ \A p \in Procs : p # l => request'[p] = request[p]
  BY <1>1
<1>7. UNCHANGED <<bucket, deleted, put, del, last, dir, quiet, writes, remotes>>
  BY DEF jobs, bounds
<1> QED
  BY <1>2, <1>3, <1>5, <1>6, <1>7 DEF LookerFrame, Browse

(* A lookup that the cache cannot answer asks the store. *)
LEMMA LookUpCachedFrame ==
    ASSUME MirrorInv, NEW l \in Lookers, NEW n \in LookedUp, LookUpCached(l, n), Orderly'
    PROVE  LookerFrame(l)
<1>1. /\ look \in [Lookers -> LookRec] /\ child \in [Names -> ChildRec]
      /\ l \in Procs /\ request \in [Procs -> RequestRec]
  BY LookerFacts
<1>2. n \in Names /\ n \in 0..N /\ NoneUnmasked
  <2>1. EarlyUnmask \subseteq races'
    BY DEF LookUpCached
  <2> QED
    BY <2>1, Constants, MaskedRequests DEF Names
<1>3. PICK kind \in {"slurp", "flat", "head"} :
          /\ kind = IF child[n].st = "none" /\ Preload THEN "slurp" ELSE "head"
          /\ request' = [request EXCEPT ![l] = addInflightListing(kind, n)]
          /\ look' = [look EXCEPT ![l] = [pc |-> kind, n |-> n, same |-> child[n].st # "none"]]
  BY DEF LookUpCached
<1>4. /\ child[n].st # "none" => child[n].st = "cached"
      /\ UNCHANGED <<cache, jobs, handle, last, quiet, bounds>>
  BY DEF LookUpCached
<1>5. PICK s \in BOOLEAN : s = (child[n].st # "none")
  OBVIOUS
<1> DEFINE g == [pc |-> kind, n |-> n, same |-> s]
<1>6. look' = [look EXCEPT ![l] = g]
  BY <1>3, <1>5
<1>7. g \in LookRec /\ g.pc = kind /\ g.n = n /\ g.same = s
  BY <1>2, <1>3, <1>5 DEF LookRec
<1> HIDE DEF g
<1>8. child' = child /\ dir' = dir
  BY <1>4 DEF cache
<1>9. PICK q : q = addInflightListing(kind, n)
  OBVIOUS
<1>10. JustSent(q, kind, n)
  BY <1>2, <1>9, SentRequest
<1>11. request' = [request EXCEPT ![l] = q] /\ request'[l] = q /\ look'[l] = g
  BY <1>1, <1>3, <1>6, <1>9
<1>12. Sends(l)
  BY <1>2, <1>9, <1>11 DEF Sends
<1>13. \A m \in Names : Stays(m)
  BY <1>8 DEF Stays
<1>14. LookerInv(l)'
  BY <1>3, <1>5, <1>7, <1>10, <1>11 DEF LookerInv, JustSent
<1>15. Holds(l)
  BY <1>2, <1>4, <1>5, <1>7, <1>11, <1>12, <1>13 DEF Holds
<1>16. q \in RequestRec
  BY <1>10 DEF JustSent
<1>17. UNCHANGED <<dir, jobs, last, quiet, bounds>> /\ handle' = handle
  BY <1>4, <1>8
<1> QED
  BY <1>1, <1>2, <1>6, <1>7, <1>8, <1>11, <1>12, <1>13, <1>14, <1>15, <1>16, <1>17, LookerFrameFrom

(* A page that a lookup applies; a name that it does not bring is asked for. *)
LEMMA LookUpSlurpedFrame ==
    ASSUME MirrorInv, NEW l \in Lookers, LookUpSlurped(l), Orderly'
    PROVE  LookerFrame(l)
<1>1. /\ HandlesOK(handle) /\ LooksOK(look) /\ look \in [Lookers -> LookRec] /\ look[l] \in LookRec
      /\ child \in [Names -> ChildRec] /\ LookerInv(l) /\ TypeInv
      /\ l \in Procs /\ request \in [Procs -> RequestRec] /\ request[l] \in RequestRec
      /\ look[l].pc # "idle" => look[l].n \in Names /\ look[l].n \in 0..N
  BY LookerFacts
<1> DEFINE ch == Applied(child, request[l])
           n == look[l].n
           found == ch[n].st # "none"
           ls == Detached(look, ch)
           g == IF found THEN NoLook ELSE [ls[l] EXCEPT !.pc = "head"]
           q == IF found THEN NoRequest ELSE addInflightListing("head", n)
<1>2. LooksOK(ls) /\ ls[l].pc = look[l].pc /\ ls[l].n = look[l].n /\ (ls[l].same => look[l].same)
  BY <1>1, DetachedFacts
<1>3. /\ look[l].pc = "slurp" /\ request[l].answered
      /\ child' = ch /\ handle' = Repositioned(handle, child, ch)
      /\ UNCHANGED <<dir, jobs, last, quiet, bounds>>
      /\ request' = [request EXCEPT ![l] = q]
  BY DEF LookUpSlurped
<1>4. look' = [ls EXCEPT ![l] = g]
  BY <1>2 DEF LookUpSlurped, LooksOK
<1>5. ch \in [Names -> ChildRec]
  BY <1>1, AppliedFacts
<1>6. ls[l] \in LookRec /\ ~ls[l].same
  BY <1>1, <1>2, <1>3 DEF LooksOK, LookerInv
<1>7. n \in Names /\ n \in 0..N
  BY <1>1, <1>3
<1>8. g \in LookRec /\ g.same = FALSE /\ g.n \in 0..N /\ (g.pc # "idle" => g.n \in Names)
      /\ (g.pc # "idle" => ~found)
  <2>1. CASE found
    BY <2>1, RecordTypes DEF NoLook, LookRec
  <2>2. CASE ~found
    <3>1. g = [ls[l] EXCEPT !.pc = "head"]
      BY <2>2
    <3> HIDE DEF ls, g
    <3> QED
      BY <1>2, <1>6, <1>7, <2>2, <3>1 DEF LookRec
  <2> QED
    BY <2>1, <2>2
<1>9. ~found => NoneUnmasked /\ JustSent(addInflightListing("head", n), "head", n)
  <2>1. ~found => EarlyUnmask \subseteq races'
    BY DEF LookUpSlurped
  <2>2. ~found => NoneUnmasked
    BY <2>1, MaskedRequests
  <2> QED
    BY <1>7, <2>2, SentRequest
<1>10. q \in RequestRec /\ (~found => q.kind = "head") 
       /\ (q = NoRequest \/ (q = addInflightListing("head", n) /\ NoneUnmasked))
  BY <1>9, RecordTypes DEF JustSent
<1> HIDE DEF q
<1>11. request'[l] = q
  BY <1>1, <1>3
<1>12. look'[l] = g
  BY <1>2, <1>4 DEF LooksOK
<1>13. q = NoRequest \/ Sends(l)
  BY <1>7, <1>10, <1>11 DEF Sends
<1> HIDE DEF g, found
<1>14. LookerInv(l)'
  BY <1>8, <1>10, <1>11, <1>12 DEF LookerInv
<1>15. Holds(l)
  BY <1>8, <1>12 DEF Holds
<1>16. \A m \in Names : Stays(m) \/ Shows(m)
  <2>1. Shrunk(ch, child')
    BY <1>3 DEF Shrunk
  <2>2. child' \in [Names -> ChildRec]
    BY <1>3, <1>5
  <2>3. PageShown(l)
    BY <1>1, <1>3, <2>1, <2>2, PageEntries
  <2>4. ASSUME NEW m \in Names, Expires(m)
        PROVE  Shows(m) \/ Stays(m)
    <3>1. CASE m \in DOMAIN request[l].items /\ m \notin request[l].skip
      BY <2>3, <3>1 DEF PageShown
    <3>2. CASE ~(m \in DOMAIN request[l].items /\ m \notin request[l].skip)
      <4>1. ch[m] = child[m]
        BY <1>1, <3>2, AppliedFacts
      <4> QED
        BY <1>3, <4>1 DEF Stays
    <3> QED
      BY <3>1, <3>2
  <2> QED
    BY <2>3, <2>4 DEF PageShown
<1>17. look' = [Detached(look, child') EXCEPT ![l] = g] /\ handle' = Repositioned(handle, child, child')
  BY <1>3, <1>4
<1>18. child' \in [Names -> ChildRec]
  BY <1>3, <1>5
<1> HIDE DEF ch, n, ls
<1> QED
  BY <1>3, <1>8, <1>10, <1>13, <1>14, <1>15, <1>16, <1>17, <1>18, LookerFrameFrom

(* The end of a lookup. *)
LEMMA LookEndFrame ==
    ASSUME MirrorInv, NEW l \in Lookers, child' \in [Names -> ChildRec],
           handle' = Repositioned(handle, child, child'),
           look' = [Detached(look, child') EXCEPT ![l] = NoLook],
           request' = [request EXCEPT ![l] = NoRequest],
           UNCHANGED <<dir, jobs, last, quiet, bounds>>,
           \A n \in Names : \/ Stays(n) \/ Shows(n)
                            \/ Drops(n) /\ n \in Remote /\ (n \in quiet => bucket[n] = 0)
    PROVE  LookerFrame(l)
<1>1. LooksOK(look) /\ l \in Procs /\ request \in [Procs -> RequestRec]
  BY LookerFacts
<1>2. NoLook \in LookRec /\ NoLook.pc = "idle" /\ NoLook.same = FALSE
  BY RecordTypes DEF NoLook
<1>3. NoRequest \in RequestRec
  BY RecordTypes
<1>4. look'[l] = NoLook /\ request'[l] = NoRequest
  <2>1. LooksOK(Detached(look, child'))
    BY <1>1, DetachedFacts
  <2> QED
    BY <1>1, <2>1 DEF LooksOK
<1>5. LookerInv(l)' /\ Holds(l)
  BY <1>2, <1>4 DEF LookerInv, Holds
<1> QED
  BY <1>2, <1>3, <1>5, LookerFrameFrom

(* A HEAD is answered: the object is applied, or the inode that was held is removed, which
   is never one of this mount's files. *)
LEMMA LookUpReturnsFrame ==
    ASSUME MirrorInv, NEW l \in Lookers, LookUpReturns(l)
    PROVE  LookerFrame(l)
<1>1. /\ child \in [Names -> ChildRec] /\ LookerInv(l) /\ TypeInv
      /\ l \in Procs /\ request[l] \in RequestRec
      /\ look[l].pc # "idle" => look[l].n \in Names /\ look[l].n \in 0..N
  BY LookerFacts
<1> DEFINE n == look[l].n
           ch == IF n \in DOMAIN request[l].items THEN Applied(child, request[l])
                 ELSE IF look[l].same THEN [child EXCEPT ![n] = NoChild] ELSE child
<1>2. /\ look[l].pc = "head" /\ request[l].answered
      /\ child' = ch /\ handle' = Repositioned(handle, child, ch)
      /\ look' = [Detached(look, ch) EXCEPT ![l] = NoLook]
      /\ request' = [request EXCEPT ![l] = NoRequest]
      /\ UNCHANGED <<dir, jobs, last, quiet, bounds>>
  BY DEF LookUpReturns
<1>3. PICK m \in Names : m = look[l].n
  BY <1>1, <1>2
<1>4. CASE m \in DOMAIN request[l].items
  <2>1. ch = Applied(child, request[l])
    BY <1>3, <1>4
  <2>2. child' \in [Names -> ChildRec]
    BY <1>1, <1>2, <2>1, AppliedFacts
  <2>3. Shrunk(Applied(child, request[l]), child')
    BY <1>2, <2>1 DEF Shrunk
  <2>4. PageShown(l)
    BY <1>1, <1>2, <2>2, <2>3, PageEntries
  <2>5. ASSUME NEW k \in Names
        PROVE  Shows(k) \/ Stays(k)
    <3>1. CASE k \in DOMAIN request[l].items /\ k \notin request[l].skip
      BY <2>4, <3>1 DEF PageShown
    <3>2. CASE ~(k \in DOMAIN request[l].items /\ k \notin request[l].skip)
      <4>1. ch[k] = child[k]
        BY <1>1, <2>1, <3>2, AppliedFacts
      <4> QED
        BY <1>2, <4>1 DEF Stays
    <3> QED
      BY <3>1, <3>2
  <2> HIDE DEF ch
  <2> QED
    BY <1>2, <2>2, <2>5, LookEndFrame
<1>5. CASE m \notin DOMAIN request[l].items /\ look[l].same
  <2>1. child' = [child EXCEPT ![m] = NoChild]
    BY <1>2, <1>3, <1>5
  <2>2. child' \in [Names -> ChildRec]
    BY <1>1, <2>1, RecordTypes
  <2>3. FileInv(m) /\ RequestInv(m) /\ HeldInv(m)
    BY DEF MirrorInv
  <2>4. m \in Remote
    <3>1. m \in Own => m \in DOMAIN request[l].items
      BY <1>2, <1>3, <1>5, <2>3 DEF HeldInv
    <3> QED
      BY <1>5, <3>1 DEF Own
  <2>5. m \in quiet => bucket[m] = 0
    <3>1. Seen(m, l)
      BY <1>1, <2>3 DEF RequestInv
    <3>2. Decides(request[l], m) /\ request[l].kind # "none"
      BY <1>1, <1>3, <1>5 DEF LookerInv, Decides
    <3> QED
      BY <1>2, <1>5, <3>1, <3>2 DEF Seen, Tells
  <2>6. Drops(m)
    BY <1>1, <2>1, <2>3, <2>4 DEF Drops, FileInv, RemoteFile
  <2>7. \A k \in Names : k # m => Stays(k)
    BY <1>1, <2>1 DEF Stays
  <2> HIDE DEF ch
  <2> QED
    BY <1>2, <2>2, <2>4, <2>5, <2>6, <2>7, LookEndFrame
<1>6. CASE m \notin DOMAIN request[l].items /\ ~look[l].same
  <2>1. child' = child
    BY <1>2, <1>3, <1>6
  <2>2. \A k \in Names : Stays(k)
    BY <2>1 DEF Stays
  <2> HIDE DEF ch
  <2> QED
    BY <1>1, <1>2, <2>1, <2>2, LookEndFrame
<1> QED
  BY <1>4, <1>5, <1>6

(* A lookup that fails, and held no inode. *)
LEMMA LookUpFailsFrame ==
    ASSUME MirrorInv, NEW l \in Lookers, LookUpFails(l), Orderly'
    PROVE  LookerFrame(l)
<1>1. child \in [Names -> ChildRec]
  BY LookerFacts
<1>2. child' = child /\ handle' = Repositioned(handle, child, child)
  <2>1. "failedLookup" \notin races'
    BY DEF Orderly, FileRaces
  <2>2. ~look[l].same
    BY <2>1 DEF LookUpFails, Happens
  <2> QED
    BY <2>2 DEF LookUpFails
<1>3. /\ look' = [Detached(look, child) EXCEPT ![l] = NoLook]
      /\ request' = [request EXCEPT ![l] = NoRequest]
      /\ UNCHANGED <<dir, jobs, last, quiet, bounds>>
  BY <1>2 DEF LookUpFails
<1>4. \A k \in Names : Stays(k)
  BY <1>2 DEF Stays
<1> QED
  BY <1>1, <1>2, <1>3, <1>4, LookEndFrame
----------------------------------------------------------------------------
(* The store answers *)

\* The request of p is answered.
Answers(p) ==
    /\ request' \in [Procs -> RequestRec] /\ request[p].kind # "none"
    /\ \A o \in Procs : o # p => request'[o] = request[o]
    /\ request'[p].kind = request[p].kind /\ request'[p].from = request[p].from
    /\ request'[p].skip = request[p].skip
    /\ \A n \in Names : n \in DOMAIN request'[p].items =>
           bucket[n] # 0 /\ request'[p].items[n] = bucket[n]
    /\ \A n \in Names : n \notin DOMAIN request'[p].items /\ Decides(request'[p], n) => bucket[n] = 0
    /\ UNCHANGED <<bucket, child, deleted, put, del, dir, handle, look, last, quiet, writes, remotes>>

(* A page is a prefix of what follows the marker. *)
LEMMA PageIsPrefix ==
    ASSUME NEW after \in SUBSET Names, NEW n \in after, NEW m \in Names, n <= m,
           Cardinality({x \in after : x < m}) < PageSize
    PROVE  Cardinality({x \in after : x < n}) < PageSize
<1>1. N \in Nat /\ PageSize \in Nat
  BY Constants
<1>2. IsFiniteSet(Names)
  BY <1>1, FS_Interval DEF Names
<1>3. {x \in after : x < n} \subseteq {x \in after : x < m}
  <2>1. ASSUME NEW x \in after, x < n
        PROVE  x < m
    <3>1. x \in Int /\ n \in Int /\ m \in Int
      BY <1>1 DEF Names
    <3> QED
      BY <2>1, <3>1
  <2> QED
    BY <2>1
<1>4. IsFiniteSet({x \in after : x < m})
  BY <1>2, FS_Subset
<1>5. /\ Cardinality({x \in after : x < n}) <= Cardinality({x \in after : x < m})
      /\ IsFiniteSet({x \in after : x < n})
  BY <1>3, <1>4, FS_Subset
<1>6. /\ Cardinality({x \in after : x < n}) \in Nat /\ Cardinality({x \in after : x < m}) \in Nat
  BY <1>4, <1>5, FS_CardinalityType
<1> QED
  BY <1>1, <1>5, <1>6

(* The store answers from the bucket of that moment. *)
LEMMA AnswerFacts ==
    ASSUME TypeInv, NEW p \in Procs, Answer(p)
    PROVE  Answers(p)
<1>1. /\ request \in [Procs -> RequestRec] /\ request[p] \in RequestRec
      /\ bucket \in [Names -> Contents]
  BY DEF TypeInv, ThreadTypes, StoreTypes
<1> DEFINE after == {n \in Names : bucket[n] # 0 /\ n > request[p].from}
           page == {n \in after : Cardinality({m \in after : m < n}) < PageSize}
           found == IF request[p].kind = "head" THEN {n \in {request[p].from} : bucket[n] # 0} ELSE page
           more == request[p].kind # "head" /\ page # after
           items == [n \in found |-> bucket[n]]
<1>2. /\ request[p].kind # "none"
      /\ request' = [request EXCEPT ![p].answered = TRUE, ![p].items = items, ![p].more = more]
      /\ UNCHANGED <<bucket, child, deleted, put, del, dir, handle, look, last, quiet, bounds>>
  BY DEF Answer
<1>3. after \in SUBSET Names /\ page \in SUBSET Names
  OBVIOUS
<1>4. found \cap Names \in SUBSET Names /\ \A n \in found : bucket[n] # 0
  OBVIOUS
<1>5. ASSUME NEW n \in Names, n \notin found,
             IF request[p].kind = "head" THEN n = request[p].from
             ELSE n > request[p].from /\ (more => \E m \in found : n <= m)
      PROVE  bucket[n] = 0
  <2>1. CASE request[p].kind = "head"
    BY <1>5, <2>1
  <2>2. CASE request[p].kind # "head"
    <3> SUFFICES ASSUME bucket[n] # 0
                 PROVE  FALSE
      OBVIOUS
    <3>1. n \in after /\ n \notin page /\ found = page
      BY <1>5, <2>2
    <3>2. more
      BY <2>2, <3>1
    <3>3. PICK m \in page : n <= m
      BY <1>5, <2>2, <3>1, <3>2
    <3>4. Cardinality({x \in after : x < m}) < PageSize
      BY <3>3
    <3> HIDE DEF after
    <3>5. Cardinality({x \in after : x < n}) < PageSize
      BY <1>3, <3>1, <3>3, <3>4, PageIsPrefix
    <3> QED
      BY <3>1, <3>5
  <2> QED
    BY <2>1, <2>2
<1>6. PICK b \in BOOLEAN : b = more
  OBVIOUS
<1>7. found \subseteq Names
  <2>1. request[p].kind = "head" => request[p].from \in Names
    BY DEF TypeInv, ThreadTypes
  <2> QED
    BY <1>3, <2>1
<1>8. items \in ItemFuns
  <2>1. items \in [found -> Contents]
    BY <1>1, <1>7
  <2> QED
    BY <1>7, <2>1 DEF ItemFuns
<1>9. DOMAIN items = found /\ \A n \in found : items[n] = bucket[n]
  OBVIOUS
<1> HIDE DEF after, page, more, found, items
<1> DEFINE q == [request[p] EXCEPT !.answered = TRUE, !.items = items, !.more = b]
<1>10. request' = [request EXCEPT ![p] = q]
  BY <1>1, <1>2, <1>6
<1>11. /\ q \in RequestRec /\ q.kind = request[p].kind /\ q.from = request[p].from
       /\ q.skip = request[p].skip /\ q.items = items /\ q.more = b
  <2>1. TRUE \in BOOLEAN
    OBVIOUS
  <2>2. q \in RequestRec
    BY <1>1, <1>8, <2>1, Zenon DEF RequestRec
  <2> QED
    BY <1>1, <2>2 DEF RequestRec
<1> HIDE DEF q
<1>12. /\ request' \in [Procs -> RequestRec] /\ request'[p] = q
       /\ \A o \in Procs : o # p => request'[o] = request[o]
  BY <1>1, <1>10, <1>11
<1>13. ASSUME NEW n \in Names, n \notin DOMAIN items, Decides(q, n)
       PROVE  bucket[n] = 0
  BY <1>5, <1>6, <1>9, <1>11, <1>13 DEF Decides
<1> QED
  BY <1>2, <1>4, <1>9, <1>11, <1>12, <1>13 DEF Answers, bounds

(* An answer keeps the files, the requests and the control. *)
LEMMA AnswerInv ==
    ASSUME MirrorInv, NEW p \in Procs, Answer(p)
    PROVE  MirrorInv' /\ Answers(p)
<1>1. TypeInv /\ ThreadInv
  BY DEF MirrorInv
<1>2. Answers(p)
  BY <1>1, AnswerFacts
<1>3. \A o \in Procs : /\ request'[o].kind = request[o].kind /\ request'[o].from = request[o].from
                       /\ request'[o].skip = request[o].skip
  BY <1>2 DEF Answers
<1>4. TypeInv'
  BY <1>1, <1>2, <1>3 DEF TypeInv, StoreTypes, ThreadTypes, Answers
<1>5. ThreadInv'
  <2>1. \A r \in Readers : ReaderInv(r)'
    BY <1>1, <1>2, <1>3 DEF ThreadInv, ReaderInv, Answers, Procs
  <2>2. \A l \in Lookers : LookerInv(l)'
    BY <1>1, <1>2, <1>3 DEF ThreadInv, LookerInv, Answers, Procs
  <2> QED
    BY <2>1, <2>2 DEF ThreadInv
<1>6. ASSUME NEW n \in Names
      PROVE  FileInv(n)' /\ RequestInv(n)' /\ HeldInv(n)'
  <2>1. FileInv(n) /\ RequestInv(n) /\ HeldInv(n)
    BY DEF MirrorInv
  <2>2. FileInv(n)'
    BY <1>2, <2>1 DEF FileInv, OwnFile, RemoteFile, Answers
  <2>3. RequestInv(n)'
    <3>1. ASSUME NEW o \in Procs
          PROVE  /\ Seen(n, o)' /\ (request'[o].answered => request'[o].kind # "none")
                 /\ n \in Remote => n \notin request'[o].skip
      <4>1. /\ Seen(n, o) /\ (request[o].answered => request[o].kind # "none")
            /\ n \in Remote => n \notin request[o].skip
        BY <2>1 DEF RequestInv
      <4>2. /\ bucket'[n] = bucket[n] /\ (Changes(n)' <=> Changes(n))
            /\ Tells(request[o], n)' <=> Tells(request[o], n)
        BY <1>2, <1>3 DEF Answers, Changes, Tells
      <4>3. CASE o = p
        <5>1. request[p].kind # "none" /\ request'[p].kind # "none"
          BY <1>2, <1>3 DEF Answers
        <5>2. /\ n \in DOMAIN request'[p].items => bucket[n] # 0 /\ request'[p].items[n] = bucket[n]
              /\ n \notin DOMAIN request'[p].items /\ Decides(request'[p], n) => bucket[n] = 0
          BY <1>2 DEF Answers
        <5>3. Decides(request[p], n)' <=> Decides(request'[p], n)
          BY DEF Decides
        <5> QED
          BY <1>3, <4>1, <4>2, <4>3, <5>1, <5>2, <5>3 DEF Seen
      <4>4. CASE o # p
        <5>1. request'[o] = request[o]
          BY <1>2, <4>4 DEF Answers
        <5>2. Decides(request[o], n)' <=> Decides(request[o], n)
          BY <5>1 DEF Decides
        <5> QED
          BY <4>1, <4>2, <5>1, <5>2 DEF Seen
      <4> QED
        BY <4>3, <4>4
    <3> QED
      BY <3>1 DEF RequestInv
  <2>4. HeldInv(n)'
    <3> SUFFICES ASSUME n \in Own, NEW l \in Lookers, look'[l].same, look'[l].n = n
                 PROVE  /\ child'[n].st # "none" /\ bucket'[n] # 0 /\ ~deleted'[n]
                        /\ request'[l].answered => n \in DOMAIN request'[l].items
      BY DEF HeldInv
    <3>1. look[l].same /\ look[l].n = n
      BY <1>2 DEF Answers
    <3>2. /\ child[n].st # "none" /\ bucket[n] # 0 /\ ~deleted[n]
          /\ request[l].answered => n \in DOMAIN request[l].items
      BY <2>1, <3>1 DEF HeldInv
    <3>3. request'[l].answered => n \in DOMAIN request'[l].items
      <4>1. CASE l = p
        <5>1. request'[l].kind = "head" /\ request'[l].from = n
          BY <1>1, <1>3, <3>1 DEF ThreadInv, LookerInv, Procs
        <5>2. Decides(request'[l], n)
          BY <5>1 DEF Decides
        <5> QED
          BY <1>2, <3>2, <4>1, <5>2 DEF Answers
      <4>2. CASE l # p
        BY <1>2, <3>2, <4>2 DEF Answers, Procs
      <4> QED
        BY <4>1, <4>2
    <3> QED
      BY <1>2, <3>2, <3>3 DEF Answers
  <2> QED
    BY <2>2, <2>3, <2>4
<1> QED
  BY <1>2, <1>4, <1>5, <1>6 DEF MirrorInv
----------------------------------------------------------------------------
(* Steps of one file *)

\* The step changes the file m, masks it at most, and leaves the other names alone.
FileFrame(m) ==
    /\ StoreTypes'
    /\ \A n \in Names \ {m} : /\ child'[n] = child[n] /\ bucket'[n] = bucket[n]
                              /\ deleted'[n] = deleted[n] /\ put'[n] = put[n] /\ del'[n] = del[n]
                              /\ last'[n] = last[n]
    /\ quiet' \subseteq quiet /\ quiet \ {m} \subseteq quiet'
    /\ dir'.marker = dir.marker /\ dir'.done = dir.done
    /\ dir'.valid => dir.valid
    /\ HandlesOK(handle')
    /\ \A r \in Readers : handle'[r].pc = handle[r].pc /\ handle'[r].done = handle[r].done
    /\ LooksOK(look')
    /\ \A l \in Lookers : /\ look'[l].pc = look[l].pc /\ look'[l].n = look[l].n
                          /\ look'[l].same => look[l].same
    /\ request' = request \/ addInflightChange(m)

\* The requests keep all but the names they mask.
Masks(m) ==
    /\ request' \in [Procs -> RequestRec]
    /\ \A p \in Procs :
           /\ request'[p].kind = request[p].kind /\ request'[p].from = request[p].from
           /\ request'[p].answered = request[p].answered /\ request'[p].items = request[p].items
           /\ request'[p].more = request[p].more
           /\ request'[p].skip \in {request[p].skip, request[p].skip \cup {m}}

(* addInflightChange only extends what the requests mask. *)
LEMMA MaskFacts ==
    ASSUME TypeInv, NEW m \in Names, request' = request \/ addInflightChange(m)
    PROVE  /\ Masks(m)
           /\ addInflightChange(m) =>
                  \A p \in Procs : request[p].kind # "none" => m \in request'[p].skip
<1>1. request \in [Procs -> RequestRec]
  BY DEF TypeInv, ThreadTypes
<1>2. CASE request' = request
  <2>1. Masks(m)
    BY <1>1, <1>2 DEF Masks
  <2>2. ASSUME addInflightChange(m), NEW p \in Procs, request[p].kind # "none"
        PROVE  m \in request'[p].skip
    <3>1. request'[p] = [request[p] EXCEPT !.skip = @ \cup {m}]
      BY <2>2 DEF addInflightChange
    <3>2. request[p] \in RequestRec
      BY <1>1
    <3> QED
      BY <3>1, <3>2 DEF RequestRec
  <2> QED
    BY <2>1, <2>2
<1>3. CASE addInflightChange(m)
  <2>1. ASSUME NEW p \in Procs, request[p].kind = "none"
        PROVE  request'[p] = request[p]
    BY <1>3, <2>1 DEF addInflightChange
  <2>2. ASSUME NEW p \in Procs, request[p].kind # "none"
        PROVE  /\ request'[p] \in RequestRec
               /\ request'[p].kind = request[p].kind /\ request'[p].from = request[p].from
               /\ request'[p].answered = request[p].answered /\ request'[p].items = request[p].items
               /\ request'[p].more = request[p].more
               /\ request'[p].skip = request[p].skip \cup {m}
    <3>1. request'[p] = [request[p] EXCEPT !.skip = request[p].skip \cup {m}]
      BY <1>3, <2>2 DEF addInflightChange
    <3>2. request[p] \in RequestRec
      BY <1>1
    <3>3. request[p].skip \cup {m} \in SUBSET Names
      BY <3>2 DEF RequestRec
    <3> QED
      BY <3>1, <3>2, <3>3 DEF RequestRec
  <2>3. request' \in [Procs -> RequestRec]
    BY <1>1, <1>3, <2>1, <2>2 DEF addInflightChange
  <2> QED
    BY <2>1, <2>2, <2>3 DEF Masks
<1> QED
  BY <1>2, <1>3

(* The control and the other names after a step of the file m. *)
LEMMA FileFrameInv ==
    ASSUME MirrorInv, NEW m \in Names, FileFrame(m), FileInv(m)', RequestInv(m)', HeldInv(m)'
    PROVE  MirrorInv'
<1>1. TypeInv /\ ThreadInv
  BY DEF MirrorInv
<1>2. Masks(m)
  BY <1>1, MaskFacts DEF FileFrame
<1>3. TypeInv'
  <2>1. ThreadTypes'
    BY <1>1, <1>2 DEF TypeInv, ThreadTypes, FileFrame, HandlesOK, LooksOK, Masks
  <2> QED
    BY <2>1 DEF TypeInv, FileFrame
<1>4. ThreadInv'
  <2>1. \A r \in Readers : ReaderInv(r)'
    BY <1>1, <1>2 DEF ThreadInv, ReaderInv, FileFrame, Masks, Procs
  <2>2. \A l \in Lookers : LookerInv(l)'
    BY <1>1, <1>2 DEF ThreadInv, LookerInv, FileFrame, Masks, Procs
  <2> QED
    BY <2>1, <2>2 DEF ThreadInv
<1>5. ASSUME NEW n \in Names, n # m
      PROVE  FileInv(n)' /\ RequestInv(n)' /\ HeldInv(n)'
  <2>1. FileInv(n) /\ RequestInv(n) /\ HeldInv(n)
    BY DEF MirrorInv
  <2>2. /\ child'[n] = child[n] /\ bucket'[n] = bucket[n] /\ deleted'[n] = deleted[n]
        /\ put'[n] = put[n] /\ del'[n] = del[n] /\ last'[n] = last[n]
        /\ n \in quiet' <=> n \in quiet
    BY <1>5 DEF FileFrame
  <2>3. FileInv(n)'
    BY <2>1, <2>2 DEF FileInv, OwnFile, RemoteFile
  <2>4. RequestInv(n)'
    <3>1. ASSUME NEW p \in Procs
          PROVE  /\ Seen(n, p)' /\ (request'[p].answered => request'[p].kind # "none")
                 /\ n \in Remote => n \notin request'[p].skip
      <4>1. /\ Seen(n, p) /\ (request[p].answered => request[p].kind # "none")
            /\ n \in Remote => n \notin request[p].skip
        BY <2>1 DEF RequestInv
      <4>2. /\ request'[p].kind = request[p].kind /\ request'[p].from = request[p].from
            /\ request'[p].answered = request[p].answered /\ request'[p].items = request[p].items
            /\ request'[p].more = request[p].more
            /\ n \in request'[p].skip <=> n \in request[p].skip
        BY <1>2, <1>5 DEF Masks
      <4>3. /\ Changes(n)' <=> Changes(n)
            /\ Tells(request[p], n)' <=> Tells(request[p], n)
        BY <2>2, <4>2 DEF Changes, Tells
      <4>4. Decides(request[p], n)' <=> Decides(request[p], n)
        BY <4>2 DEF Decides
      <4> QED
        BY <2>2, <4>1, <4>2, <4>3, <4>4 DEF Seen
    <3> QED
      BY <3>1 DEF RequestInv
  <2>5. HeldInv(n)'
    BY <1>2, <2>1, <2>2 DEF HeldInv, FileFrame, Masks, Procs
  <2> QED
    BY <2>3, <2>4, <2>5
<1> QED
  BY <1>3, <1>4, <1>5 DEF MirrorInv

\* All that a step of the file m owes the invariant.
StepAt(m) ==
    /\ FileFrame(m) /\ FileInv(m)' /\ RequestInv(m)' /\ HeldInv(m)'
    /\ m \notin quiet'
    /\ Safe(m) => Safe(m)'
    /\ request' = request \/ Safe(m)'

(* The requests and m when no change of m in flight ends or begins, nor its object changes. *)
LEMMA RequestsAtRest ==
    ASSUME NEW m \in Names, RequestInv(m), request' = request, quiet' = quiet,
           bucket'[m] = bucket[m],
           Changes(m)' => Changes(m)
    PROVE  RequestInv(m)'
<1>1. ASSUME NEW p \in Procs
      PROVE  Seen(m, p)'
  <2>1. Seen(m, p)
    BY DEF RequestInv
  <2>2. /\ Decides(request[p], m)' <=> Decides(request[p], m)
        /\ Tells(request[p], m)' <=> Tells(request[p], m)
    BY DEF Decides, Tells
  <2> QED
    BY <2>1, <2>2 DEF Seen
<1> QED
  BY <1>1 DEF RequestInv

(* The requests and m while a change of m is in flight: all of them mask it. *)
LEMMA RequestsMasked ==
    ASSUME NEW m \in Own, RequestInv(m), request' = request, Changes(m),
           quiet' \subseteq Remote
    PROVE  RequestInv(m)'
<1>1. m \notin Remote /\ m \notin quiet'
  BY DEF Own
<1>2. ASSUME NEW p \in Procs
      PROVE  Seen(m, p)' /\ (request'[p].answered => request'[p].kind # "none")
  <2>1. Seen(m, p) /\ (request[p].answered => request[p].kind # "none")
    BY DEF RequestInv
  <2>2. request[p].kind # "none" => m \in request[p].skip
    BY <2>1 DEF Seen, Tells
  <2> QED
    BY <1>1, <2>1, <2>2 DEF Seen, Tells
<1> QED
  BY <1>1, <1>2 DEF RequestInv

(* The requests and m when a change of m begins: all of them mask it from now on. *)
LEMMA RequestsMask ==
    ASSUME TypeInv, NEW m \in Own, RequestInv(m), addInflightChange(m), quiet' \subseteq Remote
    PROVE  RequestInv(m)'
<1>1. m \notin Remote /\ m \notin quiet' /\ m \in Names
  BY DEF Own
<1>2. /\ Masks(m)
      /\ \A p \in Procs : request[p].kind # "none" => m \in request'[p].skip
  BY <1>1, MaskFacts
<1>3. ASSUME NEW p \in Procs
      PROVE  Seen(m, p)' /\ (request'[p].answered => request'[p].kind # "none")
  <2>1. request[p].answered => request[p].kind # "none"
    BY DEF RequestInv
  <2> QED
    BY <1>1, <1>2, <2>1 DEF Seen, Tells, Masks
<1> QED
  BY <1>1, <1>3 DEF RequestInv

(* What a step of a file may rely on. *)
LEMMA FileFacts ==
    ASSUME MirrorInv, NEW m \in Names
    PROVE  /\ TypeInv /\ StoreTypes /\ HandlesOK(handle) /\ LooksOK(look)
           /\ child[m] \in ChildRec /\ bucket[m] \in Contents /\ put[m] \in PutRec
           /\ FileInv(m) /\ RequestInv(m) /\ HeldInv(m)
           /\ m \in Own => OwnFile(m) /\ m \notin Remote /\ m \notin quiet
           /\ m \notin Own => RemoteFile(m)
<1>1. TypeInv /\ FileInv(m) /\ RequestInv(m) /\ HeldInv(m)
  BY DEF MirrorInv
<1>2. /\ StoreTypes /\ HandlesOK(handle) /\ LooksOK(look)
      /\ child[m] \in ChildRec /\ bucket[m] \in Contents /\ put[m] \in PutRec /\ quiet \subseteq Remote
  BY <1>1 DEF TypeInv, StoreTypes, ThreadTypes, HandlesOK, LooksOK
<1> QED
  BY <1>1, <1>2 DEF FileInv, Own

(* The contents that the application and other clients give. *)
LEMMA NewContents ==
    /\ writes \in 0..MaxWrites /\ writes < MaxWrites =>
           writes + 2 \in Contents /\ writes + 2 # 0 /\ writes + 1 \in 0..MaxWrites
    /\ remotes \in 0..MaxRemote /\ remotes < MaxRemote =>
           {0, 2 + MaxWrites + remotes} \subseteq Contents /\ remotes + 1 \in 0..MaxRemote
<1>1. MaxWrites \in Nat /\ MaxRemote \in Nat
  BY Constants
<1> QED
  BY <1>1 DEF Contents

(* The frame of a step that replaces the entry of m. *)
LEMMA EntryFrame ==
    ASSUME MirrorInv, NEW m \in Own, NEW c \in ChildRec, child' = [child EXCEPT ![m] = c],
           NEW v \in Contents, last' = [last EXCEPT ![m] = v],
           NEW g \in BOOLEAN, deleted' = [deleted EXCEPT ![m] = g],
           UNCHANGED <<bucket, put, del, dir, request, quiet, remotes>>, writes' \in 0..MaxWrites,
           \/ handle' = handle /\ look' = look
           \/ Becomes(child', Repositioned(handle, child, child'))
           \/ Becomes(child', Changed(Repositioned(handle, child, child'), m))
    PROVE  /\ FileFrame(m) /\ child'[m] = c /\ last'[m] = v /\ deleted'[m] = g
           /\ bucket'[m] = bucket[m] /\ put'[m] = put[m] /\ del'[m] = del[m]
           /\ RequestInv(m)' /\ m \notin quiet' /\ m \notin Remote
<1>1. m \in Names
  BY DEF Own
<1>2. /\ StoreTypes /\ HandlesOK(handle) /\ LooksOK(look) /\ RequestInv(m)
      /\ m \notin quiet /\ m \notin Remote
  BY <1>1, FileFacts
<1>3. /\ child'[m] = c /\ last'[m] = v /\ deleted'[m] = g
      /\ bucket'[m] = bucket[m] /\ put'[m] = put[m] /\ del'[m] = del[m]
  BY <1>1, <1>2 DEF StoreTypes
<1>4. StoreTypes'
  BY <1>1, <1>2 DEF StoreTypes
<1>5. \A n \in Names \ {m} : /\ child'[n] = child[n] /\ bucket'[n] = bucket[n]
                             /\ deleted'[n] = deleted[n] /\ put'[n] = put[n] /\ del'[n] = del[n]
                             /\ last'[n] = last[n]
  BY <1>2 DEF StoreTypes
<1>6. /\ HandlesOK(handle')
      /\ \A r \in Readers : handle'[r].pc = handle[r].pc /\ handle'[r].done = handle[r].done
  <2>1. CASE handle' = handle
    BY <1>2, <2>1
  <2>2. PICK hs : hs = Repositioned(handle, child, child')
    OBVIOUS
  <2>3. /\ HandlesOK(hs) /\ \A r \in Readers : hs[r].pc = handle[r].pc /\ hs[r].done = handle[r].done
    BY <1>2, <2>2, RepositionedFacts
  <2>4. CASE handle' = hs
    BY <2>3, <2>4
  <2>5. CASE handle' = Changed(hs, m)
    BY <2>3, <2>5, ChangedFacts
  <2> QED
    BY <2>1, <2>2, <2>4, <2>5 DEF Becomes
<1>7. /\ LooksOK(look')
      /\ \A l \in Lookers : /\ look'[l].pc = look[l].pc /\ look'[l].n = look[l].n
                            /\ look'[l].same => look[l].same
  <2>1. CASE look' = look
    BY <1>2, <2>1
  <2>2. CASE look' = Detached(look, child')
    BY <1>2, <2>2, DetachedFacts
  <2> QED
    BY <2>1, <2>2 DEF Becomes
<1>8. FileFrame(m)
  BY <1>4, <1>5, <1>6, <1>7 DEF FileFrame
<1>9. RequestInv(m)'
  BY <1>1, <1>2, RequestsAtRest DEF Changes
<1> QED
  BY <1>2, <1>3, <1>8, <1>9

(* A lookup that holds m goes on holding it. *)
LEMMA HeldAtRest ==
    ASSUME TypeInv, NEW m \in Names, HeldInv(m), FileFrame(m), bucket[m] # 0 => bucket'[m] # 0,
           deleted'[m] => deleted[m], child[m].st # "none" => child'[m].st # "none"
    PROVE  HeldInv(m)'
<1>1. Masks(m)
  BY MaskFacts DEF FileFrame
<1> QED
  BY <1>1 DEF HeldInv, FileFrame, Masks, Procs

(* CreateOrOpen. *)
LEMMA CreateStep ==
    ASSUME MirrorInv, NEW m \in Names, Create(m), "recreated" \notin races'
    PROVE  StepAt(m)
<1>1. m \in Own /\ child[m].st = "none" /\ last[m] = 0 /\ (deleted[m] => del[m] # "none")
  BY DEF Create, Happens
<1>2. /\ StoreTypes /\ HeldInv(m) /\ OwnFile(m)
  BY <1>1, FileFacts
<1>3. PICK v \in Contents : v = writes + 2 /\ v # 0 /\ writes + 1 \in 0..MaxWrites
  BY <1>2, NewContents DEF Create, StoreTypes
<1> DEFINE c == [NoChild EXCEPT !.st = "created", !.data = v, !.open = TRUE, !.fresh = TRUE]
<1>4. c \in ChildRec /\ c.st = "created" /\ c.data = v /\ c.etag = 0
  <2>1. NoChild \in ChildRec /\ TRUE \in BOOLEAN
    BY RecordTypes
  <2>2. c \in ChildRec
    BY <2>1, Zenon DEF ChildRec
  <2> QED
    BY <2>2 DEF NoChild
<1>5. /\ child' = [child EXCEPT ![m] = c] /\ last' = [last EXCEPT ![m] = v] /\ writes' = writes + 1
      /\ Becomes(child', Repositioned(handle, child, child'))
      /\ UNCHANGED <<dir, jobs, request, quiet, remotes>>
  BY <1>3 DEF Create, Becomes
<1>6. UNCHANGED <<bucket, put, del, dir, request, quiet, remotes>> /\ deleted' = deleted
  BY <1>5 DEF jobs
<1>7. deleted' = [deleted EXCEPT ![m] = deleted[m]] /\ deleted[m] \in BOOLEAN
  BY <1>2, <1>6 DEF StoreTypes
<1> HIDE DEF c
<1>8. /\ FileFrame(m) /\ child'[m] = c /\ last'[m] = v /\ deleted'[m] = deleted[m]
      /\ bucket'[m] = bucket[m] /\ put'[m] = put[m] /\ del'[m] = del[m]
      /\ RequestInv(m)' /\ m \notin quiet' /\ m \notin Remote
  <2>1. writes' \in 0..MaxWrites
    BY <1>3, <1>5
  <2> QED
    BY <1>1, <1>4, <1>5, <1>6, <1>7, <2>1, EntryFrame
<1>9. OwnFile(m)'
  BY <1>1, <1>2, <1>3, <1>4, <1>8 DEF OwnFile
<1>10. FileInv(m)'
  BY <1>4, <1>8, <1>9 DEF FileInv
<1>11. HeldInv(m)'
  <2>1. \A l \in Lookers : ~(look[l].same /\ look[l].n = m)
    BY <1>1, <1>2 DEF HeldInv
  <2> QED
    BY <1>8, <2>1 DEF HeldInv, FileFrame
<1>12. Safe(m)'
  BY <1>4, <1>8 DEF Safe, Kept
<1> QED
  BY <1>8, <1>10, <1>11, <1>12 DEF StepAt

(* An application opens or closes the file. *)
LEMMA OpenReleaseStep ==
    ASSUME MirrorInv, NEW m \in Names, Open(m) \/ Release(m)
    PROVE  StepAt(m)
<1>1. /\ StoreTypes /\ FileInv(m) /\ HeldInv(m) /\ child[m] \in ChildRec
      /\ m \in Own => OwnFile(m)
      /\ m \notin Own => RemoteFile(m)
  BY FileFacts
<1>2. m \in Own /\ child[m].st # "none"
  BY <1>1 DEF Open, Release, FileInv, RemoteFile
<1>3. PICK b \in BOOLEAN : child' = [child EXCEPT ![m].open = b]
  BY DEF Open, Release
<1>4. UNCHANGED <<dir, jobs, handle, look, request, last, quiet, bounds>>
  BY DEF Open, Release
<1> DEFINE c == [child[m] EXCEPT !.open = b]
<1>5. c \in ChildRec /\ c.st = child[m].st /\ c.etag = child[m].etag /\ c.data = child[m].data
      /\ c.fresh = child[m].fresh
  BY <1>1 DEF ChildRec
<1>6. child' = [child EXCEPT ![m] = c]
  BY <1>1, <1>3 DEF StoreTypes
<1> HIDE DEF c
<1>7. /\ UNCHANGED <<bucket, put, del, dir, request, quiet, remotes>>
      /\ handle' = handle /\ look' = look
  BY <1>4 DEF jobs, bounds
<1>8. /\ deleted' = [deleted EXCEPT ![m] = deleted[m]] /\ deleted[m] \in BOOLEAN
      /\ last' = [last EXCEPT ![m] = last[m]] /\ last[m] \in Contents /\ writes' \in 0..MaxWrites
  BY <1>1, <1>4 DEF StoreTypes, jobs, bounds
<1>9. /\ FileFrame(m) /\ child'[m] = c /\ last'[m] = last[m] /\ deleted'[m] = deleted[m]
      /\ bucket'[m] = bucket[m] /\ put'[m] = put[m] /\ del'[m] = del[m]
      /\ RequestInv(m)' /\ m \notin quiet' /\ m \notin Remote
  BY <1>2, <1>5, <1>6, <1>7, <1>8, EntryFrame
<1>10. OwnFile(m)'
  BY <1>1, <1>2, <1>5, <1>9 DEF OwnFile
<1>11. FileInv(m)'
  BY <1>2, <1>5, <1>9, <1>10 DEF FileInv
<1>12. HeldInv(m)'
  <2>1. TypeInv
    BY FileFacts
  <2> QED
    BY <1>1, <1>5, <1>9, <2>1, HeldAtRest
<1>13. Safe(m) => Safe(m)'
  BY <1>5, <1>9 DEF Safe, Kept
<1> QED
  BY <1>7, <1>9, <1>11, <1>12, <1>13 DEF StepAt

(* An application writes. *)
LEMMA WriteFileStep ==
    ASSUME MirrorInv, NEW m \in Names, WriteFile(m)
    PROVE  StepAt(m)
<1>1. /\ StoreTypes /\ FileInv(m) /\ HeldInv(m) /\ child[m] \in ChildRec
      /\ m \in Own => OwnFile(m)
      /\ m \notin Own => RemoteFile(m)
  BY FileFacts
<1>2. m \in Own /\ child[m].st # "none"
  BY <1>1 DEF WriteFile, FileInv, RemoteFile
<1>3. PICK v \in Contents : v = writes + 2 /\ v # 0 /\ writes + 1 \in 0..MaxWrites
  BY <1>1, NewContents DEF WriteFile, StoreTypes
<1>4. PICK st \in {"created", "modified"} : st = IF child[m].st = "cached" THEN "modified" ELSE child[m].st
  BY <1>1, <1>2 DEF ChildRec
<1> DEFINE c == [child[m] EXCEPT !.data = v, !.st = st]
<1>5. /\ child' = [child EXCEPT ![m] = c] /\ last' = [last EXCEPT ![m] = v] /\ writes' = writes + 1
      /\ UNCHANGED <<dir, jobs, handle, look, request, quiet, remotes>>
  BY <1>1, <1>3, <1>4 DEF WriteFile, StoreTypes
<1>6. c \in ChildRec /\ c.st = st /\ c.etag = child[m].etag /\ c.data = v
  BY <1>1, <1>3, <1>4 DEF ChildRec
<1> HIDE DEF c
<1>7. /\ UNCHANGED <<bucket, put, del, dir, request, quiet, remotes>> /\ deleted' = deleted
      /\ handle' = handle /\ look' = look
  BY <1>5 DEF jobs
<1>8. /\ deleted' = [deleted EXCEPT ![m] = deleted[m]] /\ deleted[m] \in BOOLEAN
      /\ writes' \in 0..MaxWrites
  BY <1>1, <1>3, <1>5, <1>7 DEF StoreTypes
<1>9. /\ FileFrame(m) /\ child'[m] = c /\ last'[m] = v /\ deleted'[m] = deleted[m]
      /\ bucket'[m] = bucket[m] /\ put'[m] = put[m] /\ del'[m] = del[m]
      /\ RequestInv(m)' /\ m \notin quiet' /\ m \notin Remote
  BY <1>2, <1>5, <1>6, <1>7, <1>8, EntryFrame
<1>10. OwnFile(m)'
  <2>1. CASE child[m].st = "cached"
    BY <1>1, <1>2, <1>3, <1>4, <1>6, <1>9, <2>1 DEF OwnFile
  <2>2. CASE child[m].st # "cached"
    BY <1>1, <1>2, <1>3, <1>4, <1>6, <1>9, <2>2 DEF OwnFile
  <2> QED
    BY <2>1, <2>2
<1>11. FileInv(m)'
  BY <1>4, <1>6, <1>9, <1>10 DEF FileInv
<1>12. HeldInv(m)'
  <2>1. TypeInv
    BY FileFacts
  <2> QED
    BY <1>1, <1>4, <1>6, <1>9, <2>1, HeldAtRest
<1>13. Safe(m)'
  BY <1>4, <1>6, <1>9 DEF Safe, Kept
<1> QED
  BY <1>7, <1>9, <1>11, <1>12, <1>13 DEF StepAt

(* doUnlink. *)
LEMMA UnlinkStep ==
    ASSUME MirrorInv, NEW m \in Names, Unlink(m)
    PROVE  StepAt(m)
<1>1. m \in Own /\ child[m].st # "none"
  BY DEF Unlink
<1>2. StoreTypes /\ HeldInv(m) /\ OwnFile(m) /\ child[m] \in ChildRec /\ LooksOK(look)
  BY <1>1, FileFacts
<1>3. PICK g \in BOOLEAN : g = (deleted[m] \/ child[m].st # "created" \/ put[m].pc # "none")
  OBVIOUS
<1>4. PICK v \in Contents : v = 0
  BY Constants DEF Contents
<1>5. /\ child' = [child EXCEPT ![m] = NoChild] /\ last' = [last EXCEPT ![m] = v]
      /\ Becomes(child', Changed(Repositioned(handle, child, child'), m))
      /\ UNCHANGED <<bucket, put, del, dir, request, quiet, bounds>>
  BY <1>4 DEF Unlink, Becomes
<1>6. deleted' = [deleted EXCEPT ![m] = g]
  BY <1>2, <1>3 DEF Unlink, StoreTypes
<1>7. NoChild \in ChildRec
  BY RecordTypes
<1>8. /\ UNCHANGED <<bucket, put, del, dir, request, quiet, remotes>> /\ writes' \in 0..MaxWrites
  BY <1>2, <1>5 DEF bounds, StoreTypes
<1>9. /\ FileFrame(m) /\ child'[m] = NoChild /\ last'[m] = 0 /\ deleted'[m] = g
      /\ bucket'[m] = bucket[m] /\ put'[m] = put[m] /\ del'[m] = del[m]
      /\ RequestInv(m)' /\ m \notin quiet' /\ m \notin Remote
  BY <1>1, <1>4, <1>5, <1>6, <1>7, <1>8, EntryFrame
<1>10. OwnFile(m)'
  BY <1>1, <1>2, <1>3, <1>9, NoChildFields DEF OwnFile
<1>11. FileInv(m)'
  BY <1>9, <1>10, NoChildFields DEF FileInv
<1>12. HeldInv(m)'
  <2>1. look' = Detached(look, child')
    BY <1>5 DEF Becomes
  <2>2. \A l \in Lookers : look'[l].n = look[l].n /\ (look'[l].same => child'[look[l].n].st # "none")
    BY <1>2, <2>1, DetachedFacts
  <2> QED
    BY <1>9, <2>2, NoChildFields DEF HeldInv
<1>13. Safe(m)'
  BY <1>9 DEF Safe
<1> QED
  BY <1>8, <1>9, <1>11, <1>12, <1>13 DEF StepAt

(* The frame of a step of an upload or a deletion of m. *)
LEMMA JobFrame ==
    ASSUME MirrorInv, NEW m \in Own, StoreTypes',
           \A n \in Names \ {m} : /\ child'[n] = child[n] /\ bucket'[n] = bucket[n]
                                  /\ deleted'[n] = deleted[n] /\ put'[n] = put[n] /\ del'[n] = del[n],
           UNCHANGED <<dir, handle, look, last, quiet>>,
           request' = request \/ addInflightChange(m)
    PROVE  FileFrame(m) /\ m \notin quiet' /\ m \notin Remote
<1>1. m \in Names
  BY DEF Own
<1>2. /\ StoreTypes /\ HandlesOK(handle) /\ LooksOK(look) /\ m \notin quiet /\ m \notin Remote
  BY <1>1, FileFacts
<1>3. FileFrame(m)
  BY <1>2 DEF FileFrame
<1> QED
  BY <1>2, <1>3

(* What a step of an upload or a deletion of m may rely on. *)
LEMMA JobFacts ==
    ASSUME MirrorInv, NEW m \in Names, m \in Own \/ put[m].pc # "none" \/ del[m] # "none" \/ deleted[m]
                                                 \/ child[m].st \in {"created", "modified"}
    PROVE  /\ m \in Own /\ StoreTypes /\ TypeInv /\ OwnFile(m) /\ FileInv(m)
           /\ RequestInv(m) /\ HeldInv(m)
           /\ put[m] \in PutRec /\ child[m] \in ChildRec /\ quiet \subseteq Remote
<1>1. m \in Own
  BY FileFacts DEF RemoteFile
<1> QED
  BY <1>1, FileFacts DEF StoreTypes

(* flushSmallObject up to the PUT. *)
LEMMA SendPutStep ==
    ASSUME MirrorInv, NEW m \in Names, SendPut(m)
    PROVE  StepAt(m)
<1>1. child[m].st \in {"created", "modified"} /\ ~deleted[m] /\ put[m].pc = "none"
  BY DEF SendPut
<1>2. /\ m \in Own /\ StoreTypes /\ TypeInv /\ OwnFile(m) /\ FileInv(m) /\ RequestInv(m) /\ HeldInv(m)
      /\ child[m] \in ChildRec /\ quiet \subseteq Remote
  BY <1>1, JobFacts
<1>3. PICK u \in PutRec : u = [pc |-> "sent", v |-> child[m].data]
  BY <1>2 DEF PutRec, ChildRec
<1>4. u.pc = "sent" /\ u.v = child[m].data
  BY <1>3
<1>5. put' = [put EXCEPT ![m] = u] /\ addInflightChange(m)
  BY <1>3 DEF SendPut
<1>6. UNCHANGED <<bucket, child, deleted, del, dir, handle, look, last, quiet, writes, remotes>>
  BY DEF SendPut, cache, bounds
<1>7. StoreTypes' /\ put'[m] = u /\ \A n \in Names \ {m} : put'[n] = put[n]
  BY <1>2, <1>5, <1>6 DEF StoreTypes
<1>8. FileFrame(m) /\ m \notin quiet' /\ m \notin Remote
  BY <1>2, <1>5, <1>6, <1>7, JobFrame
<1>9. OwnFile(m)'
  BY <1>1, <1>2, <1>4, <1>6, <1>7 DEF OwnFile
<1>10. FileInv(m)'
  BY <1>2, <1>6, <1>8, <1>9 DEF FileInv
<1>11. RequestInv(m)'
  BY <1>2, <1>5, <1>6, RequestsMask
<1>12. HeldInv(m)'
  BY <1>2, <1>6, <1>8, HeldAtRest
<1>13. Safe(m)'
  BY <1>1, <1>6, <1>8 DEF Safe, Kept
<1> QED
  BY <1>8, <1>10, <1>11, <1>12, <1>13 DEF StepAt

(* The store takes the object. *)
LEMMA StorePutStep ==
    ASSUME MirrorInv, NEW m \in Names, StorePut(m)
    PROVE  StepAt(m)
<1>1. put[m].pc = "sent"
  BY DEF StorePut
<1>2. /\ m \in Own /\ StoreTypes /\ TypeInv /\ OwnFile(m) /\ FileInv(m) /\ RequestInv(m) /\ HeldInv(m)
      /\ put[m] \in PutRec /\ quiet \subseteq Remote
  BY <1>1, JobFacts
<1>3. PICK u \in PutRec : u = [put[m] EXCEPT !.pc = "stored"]
  BY <1>2 DEF PutRec
<1>4. u.pc = "stored" /\ u.v = put[m].v /\ put[m].v \in Contents
  BY <1>2, <1>3 DEF PutRec
<1>5. put' = [put EXCEPT ![m] = u] /\ bucket' = [bucket EXCEPT ![m] = put[m].v]
  BY <1>2, <1>3 DEF StorePut, StoreTypes
<1>6. UNCHANGED <<child, deleted, del, dir, handle, look, request, last, quiet, writes, remotes>>
  BY DEF StorePut, cache, bounds
<1>7. /\ StoreTypes' /\ put'[m] = u /\ bucket'[m] = put[m].v
      /\ \A n \in Names \ {m} : put'[n] = put[n] /\ bucket'[n] = bucket[n]
  BY <1>2, <1>4, <1>5, <1>6 DEF StoreTypes
<1>8. FileFrame(m) /\ m \notin quiet' /\ m \notin Remote
  BY <1>2, <1>6, <1>7, JobFrame
<1>9. OwnFile(m)'
  BY <1>1, <1>2, <1>4, <1>6, <1>7 DEF OwnFile
<1>10. FileInv(m)'
  BY <1>2, <1>6, <1>8, <1>9 DEF FileInv
<1>11. RequestInv(m)'
  BY <1>1, <1>2, <1>6, RequestsMasked DEF Changes
<1>12. HeldInv(m)'
  <2>1. bucket'[m] # 0
    BY <1>1, <1>2, <1>7 DEF OwnFile
  <2> QED
    BY <1>2, <1>6, <1>8, <2>1, HeldAtRest
<1>13. Safe(m) => Safe(m)'
  BY <1>6, <1>8 DEF Safe, Kept
<1> QED
  BY <1>6, <1>8, <1>10, <1>11, <1>12, <1>13 DEF StepAt

(* completeInflightChange: the requests on their way go on masking the name. *)
LEMMA PutUnmasksStep ==
    ASSUME MirrorInv, NEW m \in Names, PutUnmasks(m)
    PROVE  StepAt(m)
<1>1. put[m].pc = "stored"
  BY DEF PutUnmasks
<1>2. /\ m \in Own /\ StoreTypes /\ TypeInv /\ OwnFile(m) /\ FileInv(m) /\ RequestInv(m) /\ HeldInv(m)
      /\ put[m] \in PutRec /\ quiet \subseteq Remote
  BY <1>1, JobFacts
<1>3. PICK u \in PutRec : u = [put[m] EXCEPT !.pc = "unmasked"]
  BY <1>2 DEF PutRec
<1>4. u.pc = "unmasked" /\ u.v = put[m].v
  BY <1>2, <1>3 DEF PutRec
<1>5. put' = [put EXCEPT ![m] = u]
  BY <1>2, <1>3 DEF PutUnmasks, StoreTypes
<1>6. UNCHANGED <<bucket, child, deleted, del, dir, handle, look, request, last, quiet, writes, remotes>>
  BY DEF PutUnmasks, cache, bounds
<1>7. StoreTypes' /\ put'[m] = u /\ \A n \in Names \ {m} : put'[n] = put[n]
  BY <1>2, <1>5, <1>6 DEF StoreTypes
<1>8. FileFrame(m) /\ m \notin quiet' /\ m \notin Remote
  BY <1>2, <1>6, <1>7, JobFrame
<1>9. OwnFile(m)'
  BY <1>1, <1>2, <1>4, <1>6, <1>7 DEF OwnFile
<1>10. FileInv(m)'
  BY <1>2, <1>6, <1>8, <1>9 DEF FileInv
<1>11. RequestInv(m)'
  BY <1>1, <1>2, <1>6, RequestsMasked DEF Changes
<1>12. HeldInv(m)'
  BY <1>2, <1>6, <1>8, HeldAtRest
<1>13. Safe(m) => Safe(m)'
  BY <1>6, <1>8 DEF Safe, Kept
<1> QED
  BY <1>6, <1>8, <1>10, <1>11, <1>12, <1>13 DEF StepAt

(* updateFromFlush. *)
LEMMA PutReturnsStep ==
    ASSUME MirrorInv, NEW m \in Names, PutReturns(m)
    PROVE  StepAt(m)
<1>1. put[m].pc = "unmasked"
  BY DEF PutReturns
<1>2. /\ m \in Own /\ StoreTypes /\ TypeInv /\ OwnFile(m) /\ FileInv(m) /\ RequestInv(m) /\ HeldInv(m)
      /\ put[m] \in PutRec /\ child[m] \in ChildRec /\ quiet \subseteq Remote
  BY <1>1, JobFacts
<1>3. put' = [put EXCEPT ![m] = NoPut] /\ NoPut \in PutRec /\ NoPut.pc = "none"
  BY RecordTypes DEF PutReturns, NoPut
<1>4. UNCHANGED <<bucket, deleted, del, dir, handle, look, request, last, quiet, writes, remotes>>
  BY DEF PutReturns, bounds
<1>5. PICK st \in {"cached", "modified"} :
          st = IF child[m].st = "cached" \/ child[m].data = put[m].v THEN "cached" ELSE "modified"
  OBVIOUS
<1> DEFINE c == [child[m] EXCEPT !.etag = put[m].v, !.fresh = TRUE, !.st = st]
<1>6. put[m].v \in Contents /\ TRUE \in BOOLEAN
  BY <1>2 DEF PutRec
<1>7. /\ c \in ChildRec /\ c.st = st /\ c.etag = put[m].v /\ c.data = child[m].data
      /\ c.fresh
  <2>1. c \in ChildRec
    BY <1>2, <1>5, <1>6 DEF ChildRec
  <2> QED
    BY <1>2, <2>1 DEF ChildRec
<1>8. ~deleted[m] => child' = [child EXCEPT ![m] = c]
  BY <1>2, <1>5 DEF PutReturns, StoreTypes
<1> HIDE DEF c
<1>9. /\ deleted[m] => child' = child /\ child[m].st = "none" /\ last[m] = 0
      /\ ~deleted[m] => child'[m] = c /\ child[m].st # "none" /\ child[m].st # "cached"
      /\ bucket[m] = put[m].v /\ del[m] = "none" /\ put[m].v # 0
  <2>1. deleted[m] => child' = child
    BY DEF PutReturns
  <2>2. ~deleted[m] => child'[m] = c
    BY <1>2, <1>8 DEF StoreTypes
  <2>3. bucket[m] = put[m].v /\ del[m] = "none" /\ put[m].v # 0 /\ child[m].st # "cached"
    BY <1>1, <1>2 DEF OwnFile
  <2>4. deleted[m] => child[m].st = "none" /\ last[m] = 0
    BY <1>2, <2>3 DEF OwnFile
  <2>5. ~deleted[m] => child[m].st # "none"
    BY <1>1, <1>2 DEF OwnFile
  <2> QED
    BY <2>1, <2>2, <2>3, <2>4, <2>5
<1>10. /\ StoreTypes' /\ put'[m].pc = "none"
       /\ \A n \in Names \ {m} : put'[n] = put[n] /\ child'[n] = child[n]
  <2>1. child' \in [Names -> ChildRec] /\ \A n \in Names \ {m} : child'[n] = child[n]
    <3>1. CASE deleted[m]
      BY <1>2, <1>9, <3>1 DEF StoreTypes
    <3>2. CASE ~deleted[m]
      BY <1>2, <1>7, <1>8, <3>2 DEF StoreTypes
    <3> QED
      BY <3>1, <3>2
  <2>2. put' \in [Names -> PutRec] /\ put'[m].pc = "none" /\ \A n \in Names \ {m} : put'[n] = put[n]
    BY <1>2, <1>3 DEF StoreTypes
  <2> QED
    BY <1>2, <1>4, <2>1, <2>2 DEF StoreTypes
<1>11. FileFrame(m) /\ m \notin quiet' /\ m \notin Remote
  BY <1>2, <1>4, <1>10, JobFrame
<1>12. OwnFile(m)'
  <2>1. CASE deleted[m]
    BY <1>2, <1>4, <1>9, <1>10, <2>1 DEF OwnFile
  <2>2. CASE ~deleted[m]
    BY <1>2, <1>4, <1>5, <1>7, <1>9, <1>10, <2>2 DEF OwnFile
  <2> QED
    BY <2>1, <2>2
<1>13. FileInv(m)'
  <2>1. child'[m].st = "none" => child'[m] = child[m]
    BY <1>5, <1>7, <1>9
  <2> QED
    BY <1>2, <1>11, <1>12, <2>1 DEF FileInv
<1>14. RequestInv(m)'
  BY <1>1, <1>2, <1>4, RequestsMasked DEF Changes
<1>15. HeldInv(m)'
  BY <1>2, <1>4, <1>5, <1>7, <1>9, <1>11, HeldAtRest
<1>16. Safe(m)'
  BY <1>4, <1>5, <1>7, <1>9, <1>11 DEF Safe, Kept
<1> QED
  BY <1>4, <1>11, <1>13, <1>14, <1>15, <1>16 DEF StepAt

(* The upload fails, and nothing was stored. *)
LEMMA PutFailsStep ==
    ASSUME MirrorInv, NEW m \in Names, PutFails(m), "lostAnswer" \notin races'
    PROVE  StepAt(m)
<1>1. put[m].pc = "sent"
  BY DEF PutFails, Happens
<1>2. /\ m \in Own /\ StoreTypes /\ TypeInv /\ OwnFile(m) /\ FileInv(m) /\ RequestInv(m) /\ HeldInv(m)
      /\ quiet \subseteq Remote
  BY <1>1, JobFacts
<1>3. put' = [put EXCEPT ![m] = NoPut] /\ NoPut \in PutRec /\ NoPut.pc = "none"
  BY RecordTypes DEF PutFails, NoPut
<1>4. UNCHANGED <<bucket, child, deleted, del, dir, handle, look, request, last, quiet, writes, remotes>>
  BY DEF PutFails, cache, bounds
<1>5. StoreTypes' /\ put'[m].pc = "none" /\ \A n \in Names \ {m} : put'[n] = put[n]
  BY <1>2, <1>3, <1>4 DEF StoreTypes
<1>6. FileFrame(m) /\ m \notin quiet' /\ m \notin Remote
  BY <1>2, <1>4, <1>5, JobFrame
<1>7. OwnFile(m)'
  BY <1>1, <1>2, <1>4, <1>5 DEF OwnFile
<1>8. FileInv(m)'
  BY <1>2, <1>4, <1>6, <1>7 DEF FileInv
<1>9. RequestInv(m)'
  BY <1>1, <1>2, <1>4, RequestsMasked DEF Changes
<1>10. HeldInv(m)'
  BY <1>2, <1>4, <1>6, HeldAtRest
<1>11. Safe(m) => Safe(m)'
  BY <1>4, <1>6 DEF Safe, Kept
<1> QED
  BY <1>4, <1>6, <1>8, <1>9, <1>10, <1>11 DEF StepAt

(* SendDelete up to the request. *)
LEMMA SendDeleteStep ==
    ASSUME MirrorInv, NEW m \in Names, SendDelete(m)
    PROVE  StepAt(m)
<1>1. deleted[m] /\ put[m].pc = "none" /\ del[m] = "none"
  BY DEF SendDelete
<1>2. /\ m \in Own /\ StoreTypes /\ TypeInv /\ OwnFile(m) /\ FileInv(m) /\ RequestInv(m) /\ HeldInv(m)
      /\ quiet \subseteq Remote
  BY <1>1, JobFacts
<1>3. del' = [del EXCEPT ![m] = "sent"] /\ addInflightChange(m)
  BY DEF SendDelete
<1>4. UNCHANGED <<bucket, child, deleted, put, dir, handle, look, last, quiet, writes, remotes>>
  BY DEF SendDelete, cache, bounds
<1>5. StoreTypes' /\ del'[m] = "sent" /\ \A n \in Names \ {m} : del'[n] = del[n]
  BY <1>2, <1>3, <1>4 DEF StoreTypes
<1>6. FileFrame(m) /\ m \notin quiet' /\ m \notin Remote
  BY <1>2, <1>3, <1>4, <1>5, JobFrame
<1>7. child[m].st = "none" /\ last[m] = 0
  BY <1>1, <1>2 DEF OwnFile
<1>8. OwnFile(m)'
  BY <1>1, <1>2, <1>4, <1>5, <1>7 DEF OwnFile
<1>9. FileInv(m)'
  BY <1>2, <1>4, <1>6, <1>8 DEF FileInv
<1>10. RequestInv(m)'
  BY <1>2, <1>3, <1>4, RequestsMask
<1>11. HeldInv(m)'
  BY <1>2, <1>4, <1>6, HeldAtRest
<1>12. Safe(m)'
  BY <1>4, <1>6, <1>7 DEF Safe
<1> QED
  BY <1>6, <1>9, <1>10, <1>11, <1>12 DEF StepAt

(* The store deletes the object: no lookup holds the inode any more. *)
LEMMA StoreDeleteStep ==
    ASSUME MirrorInv, NEW m \in Names, StoreDelete(m)
    PROVE  StepAt(m)
<1>1. del[m] = "sent"
  BY DEF StoreDelete
<1>2. /\ m \in Own /\ StoreTypes /\ TypeInv /\ OwnFile(m) /\ FileInv(m) /\ RequestInv(m) /\ HeldInv(m)
      /\ quiet \subseteq Remote
  BY <1>1, JobFacts
<1>3. del' = [del EXCEPT ![m] = "stored"] /\ bucket' = [bucket EXCEPT ![m] = 0]
  BY DEF StoreDelete
<1>4. UNCHANGED <<child, deleted, put, dir, handle, look, request, last, quiet, writes, remotes>>
  BY DEF StoreDelete, cache, bounds
<1>5. /\ StoreTypes' /\ del'[m] = "stored" /\ bucket'[m] = 0
      /\ \A n \in Names \ {m} : del'[n] = del[n] /\ bucket'[n] = bucket[n]
  <2>1. 0 \in Contents
    BY Constants DEF Contents
  <2> QED
    BY <1>2, <1>3, <1>4, <2>1 DEF StoreTypes
<1>6. FileFrame(m) /\ m \notin quiet' /\ m \notin Remote
  BY <1>2, <1>4, <1>5, JobFrame
<1>7. deleted[m] /\ put[m].pc = "none"
  BY <1>1, <1>2 DEF OwnFile
<1>8. OwnFile(m)'
  BY <1>2, <1>4, <1>5, <1>7 DEF OwnFile
<1>9. FileInv(m)'
  BY <1>2, <1>4, <1>6, <1>8 DEF FileInv
<1>10. RequestInv(m)'
  BY <1>1, <1>2, <1>4, RequestsMasked DEF Changes
<1>11. HeldInv(m)'
  BY <1>2, <1>4, <1>7 DEF HeldInv
<1>12. Safe(m) => Safe(m)'
  BY <1>4, <1>6 DEF Safe, Kept
<1> QED
  BY <1>4, <1>6, <1>9, <1>10, <1>11, <1>12 DEF StepAt

(* The DELETE returns: the name leaves DeletedChildren. *)
LEMMA DeleteReturnsStep ==
    ASSUME MirrorInv, NEW m \in Names, DeleteReturns(m)
    PROVE  StepAt(m)
<1>1. del[m] = "stored"
  BY DEF DeleteReturns
<1>2. /\ m \in Own /\ StoreTypes /\ TypeInv /\ OwnFile(m) /\ FileInv(m) /\ RequestInv(m) /\ HeldInv(m)
      /\ quiet \subseteq Remote
  BY <1>1, JobFacts
<1>3. del' = [del EXCEPT ![m] = "none"] /\ deleted' = [deleted EXCEPT ![m] = FALSE]
  BY DEF DeleteReturns
<1>4. UNCHANGED <<bucket, child, put, dir, handle, look, request, last, quiet, writes, remotes>>
  BY DEF DeleteReturns, cache, bounds
<1>5. /\ StoreTypes' /\ del'[m] = "none" /\ deleted'[m] = FALSE
      /\ \A n \in Names \ {m} : del'[n] = del[n] /\ deleted'[n] = deleted[n]
  <2>1. deleted' \in [Names -> BOOLEAN] /\ deleted'[m] = FALSE
        /\ \A n \in Names \ {m} : deleted'[n] = deleted[n]
    BY <1>2, <1>3 DEF StoreTypes
  <2>2. del' \in [Names -> {"none", "sent", "stored"}] /\ del'[m] = "none"
        /\ \A n \in Names \ {m} : del'[n] = del[n]
    BY <1>2, <1>3 DEF StoreTypes
  <2> QED
    BY <1>2, <1>4, <2>1, <2>2 DEF StoreTypes
<1>6. FileFrame(m) /\ m \notin quiet' /\ m \notin Remote
  BY <1>2, <1>4, <1>5, JobFrame
<1>7. deleted[m] /\ put[m].pc = "none" /\ bucket[m] = 0
  BY <1>1, <1>2 DEF OwnFile
<1>8. OwnFile(m)'
  BY <1>2, <1>4, <1>5, <1>7 DEF OwnFile
<1>9. FileInv(m)'
  BY <1>2, <1>4, <1>6, <1>8 DEF FileInv
<1>10. RequestInv(m)'
  BY <1>1, <1>2, <1>4, RequestsMasked DEF Changes
<1>11. HeldInv(m)'
  BY <1>2, <1>4, <1>7 DEF HeldInv
<1>12. Safe(m) => Safe(m)'
  BY <1>4, <1>6 DEF Safe, Kept
<1> QED
  BY <1>4, <1>6, <1>9, <1>10, <1>11, <1>12 DEF StepAt

(* The DELETE fails and will be repeated. *)
LEMMA DeleteFailsStep ==
    ASSUME MirrorInv, NEW m \in Names, DeleteFails(m), "recreated" \notin races'
    PROVE  StepAt(m)
<1>1. del[m] # "none" /\ child[m].st = "none"
  BY DEF DeleteFails, Happens
<1>2. /\ m \in Own /\ StoreTypes /\ TypeInv /\ OwnFile(m) /\ FileInv(m) /\ RequestInv(m) /\ HeldInv(m)
      /\ quiet \subseteq Remote
  BY <1>1, JobFacts
<1>3. del' = [del EXCEPT ![m] = "none"]
  BY DEF DeleteFails
<1>4. UNCHANGED <<bucket, child, deleted, put, dir, handle, look, request, last, quiet, writes, remotes>>
  BY DEF DeleteFails, cache, bounds
<1>5. StoreTypes' /\ del'[m] = "none" /\ \A n \in Names \ {m} : del'[n] = del[n]
  BY <1>2, <1>3, <1>4 DEF StoreTypes
<1>6. FileFrame(m) /\ m \notin quiet' /\ m \notin Remote
  BY <1>2, <1>4, <1>5, JobFrame
<1>7. OwnFile(m)'
  BY <1>1, <1>2, <1>4, <1>5 DEF OwnFile
<1>8. FileInv(m)'
  BY <1>2, <1>4, <1>6, <1>7 DEF FileInv
<1>9. RequestInv(m)'
  BY <1>1, <1>2, <1>4, RequestsMasked DEF Changes
<1>10. HeldInv(m)'
  BY <1>2, <1>4, <1>6, HeldAtRest
<1>11. Safe(m) => Safe(m)'
  BY <1>4, <1>6 DEF Safe, Kept
<1> QED
  BY <1>4, <1>6, <1>8, <1>9, <1>10, <1>11 DEF StepAt

\* An entry leaves the cache: the directory is no longer trusted, and no reader is about.
EvictStep(m) ==
    /\ FileFrame(m) /\ FileInv(m)' /\ RequestInv(m)' /\ HeldInv(m)'
    /\ dir'.valid = FALSE /\ request' = request
    /\ \A r \in Readers : handle[r].pc = "closed"
    /\ "evictedListing" \in races' \/ Refreshes

(* EvictEntry. *)
LEMMA EvictEntryStep ==
    ASSUME MirrorInv, NEW m \in Names, EvictEntry(m)
    PROVE  EvictStep(m)
<1>1. /\ child[m].st = "cached" /\ \A r \in Readers : handle[r].pc = "closed"
      /\ "evictedListing" \in races' \/ Refreshes
  BY DEF EvictEntry, Happens
<1>2. /\ TypeInv /\ StoreTypes /\ HandlesOK(handle) /\ LooksOK(look)
      /\ FileInv(m) /\ RequestInv(m) /\ HeldInv(m)
  BY FileFacts
<1>3. /\ child' = [child EXCEPT ![m] = NoChild] /\ NoChild \in ChildRec
      /\ Becomes(child', Repositioned(handle, child, child'))
      /\ dir' = [dir EXCEPT !.valid = FALSE, !.forget = TRUE]
  BY RecordTypes DEF EvictEntry, Becomes
<1>4. UNCHANGED <<bucket, deleted, put, del, request, last, quiet, writes, remotes>>
  BY DEF EvictEntry, jobs, bounds
<1>5. /\ child' \in [Names -> ChildRec] /\ child'[m] = NoChild
      /\ \A n \in Names \ {m} : child'[n] = child[n]
  BY <1>2, <1>3 DEF StoreTypes
<1>6. /\ dir' \in DirRec /\ dir'.marker = dir.marker /\ dir'.done = dir.done /\ dir'.valid = FALSE
  <2>1. dir \in DirRec /\ TRUE \in BOOLEAN /\ FALSE \in BOOLEAN
    BY <1>2 DEF StoreTypes
  <2>2. [dir EXCEPT !.valid = FALSE, !.forget = TRUE] \in DirRec
    BY <2>1, Zenon DEF DirRec
  <2>3. /\ [dir EXCEPT !.valid = FALSE, !.forget = TRUE].marker = dir.marker
        /\ [dir EXCEPT !.valid = FALSE, !.forget = TRUE].done = dir.done
        /\ [dir EXCEPT !.valid = FALSE, !.forget = TRUE].valid = FALSE
    BY <2>1 DEF DirRec
  <2> QED
    BY <1>3, <2>2, <2>3
<1>7. StoreTypes'
  BY <1>2, <1>4, <1>5, <1>6 DEF StoreTypes
<1>8. /\ HandlesOK(handle')
      /\ \A r \in Readers : handle'[r].pc = handle[r].pc /\ handle'[r].done = handle[r].done
  BY <1>2, <1>3, RepositionedFacts DEF Becomes
<1>9. /\ LooksOK(look')
      /\ \A l \in Lookers : /\ look'[l].pc = look[l].pc /\ look'[l].n = look[l].n
                            /\ look'[l].same => look[l].same /\ child'[look[l].n].st # "none"
  <2>1. look' = Detached(look, child')
    BY <1>3 DEF Becomes
  <2> QED
    BY <1>2, <2>1, DetachedFacts
<1>10. FileFrame(m)
  BY <1>4, <1>5, <1>6, <1>7, <1>8, <1>9 DEF FileFrame
<1>11. FileInv(m)'
  <2>1. Browse /\ Drops(m)
    BY <1>1, <1>4, <1>5 DEF Browse, Drops
  <2> QED
    BY <1>2, <1>4, <2>1, EntryKept
<1>12. RequestInv(m)'
  BY <1>2, <1>4, RequestsAtRest DEF Changes
<1>13. HeldInv(m)'
  BY <1>5, <1>9, NoChildFields DEF HeldInv
<1> QED
  BY <1>1, <1>4, <1>6, <1>10, <1>11, <1>12, <1>13 DEF EvictStep

(* Another client changes the object. *)
LEMMA RemoteChangeStep ==
    ASSUME MirrorInv, NEW m \in Names, RemoteChange(m)
    PROVE  StepAt(m)
<1>1. m \in Remote /\ m \notin Own /\ remotes < MaxRemote
  BY DEF RemoteChange, Own
<1>2. /\ TypeInv /\ StoreTypes /\ HandlesOK(handle) /\ LooksOK(look)
      /\ FileInv(m) /\ RequestInv(m) /\ RemoteFile(m)
  BY <1>1, FileFacts
<1>3. {0, 2 + MaxWrites + remotes} \subseteq Contents /\ remotes + 1 \in 0..MaxRemote
  BY <1>1, <1>2, NewContents DEF StoreTypes
<1>4. PICK v \in Contents : bucket' = [bucket EXCEPT ![m] = v]
  BY <1>3 DEF RemoteChange
<1>5. /\ remotes' = remotes + 1 /\ quiet' = quiet \ {m} /\ handle' = Changed(handle, m)
      /\ UNCHANGED <<child, dir, deleted, put, del, look, request, last, writes>>
  BY DEF RemoteChange, cache
<1>6. /\ StoreTypes' /\ \A n \in Names \ {m} : bucket'[n] = bucket[n]
  BY <1>2, <1>3, <1>4, <1>5 DEF StoreTypes
<1>7. /\ HandlesOK(handle')
      /\ \A r \in Readers : handle'[r].pc = handle[r].pc /\ handle'[r].done = handle[r].done
  BY <1>2, <1>5, ChangedFacts
<1>8. FileFrame(m) /\ m \notin quiet'
  BY <1>2, <1>5, <1>6, <1>7 DEF FileFrame
<1>9. FileInv(m)'
  BY <1>1, <1>2, <1>5, <1>8 DEF FileInv, RemoteFile
<1>10. RequestInv(m)'
  <2>1. ASSUME NEW p \in Procs
        PROVE  Seen(m, p)' /\ (request'[p].answered => request'[p].kind # "none")
    BY <1>1, <1>2, <1>5, <1>8 DEF Seen, Tells, RequestInv
  <2> QED
    BY <1>2, <1>5, <2>1 DEF RequestInv
<1>11. HeldInv(m)' /\ Safe(m)'
  BY <1>1, <1>8 DEF HeldInv, Safe
<1> QED
  BY <1>5, <1>8, <1>9, <1>10, <1>11 DEF StepAt

(* StatCacheTTL passes. *)
LEMMA ExpireDirStep ==
    ASSUME MirrorInv, ExpireDir
    PROVE  /\ \A m \in Names : FileFrame(m)
           /\ UNCHANGED <<bucket, child, deleted, put, del, handle, look, request, last, quiet>>
           /\ dir'.valid = FALSE
           /\ MirrorInv'
<1>1. PICK m \in Names : TRUE
  <2>1. N \in Nat \ {0}
    BY Constants
  <2> QED
    BY <2>1 DEF Names
<1>2. /\ TypeInv /\ StoreTypes /\ HandlesOK(handle) /\ LooksOK(look)
      /\ FileInv(m) /\ RequestInv(m) /\ HeldInv(m)
  BY <1>1, FileFacts
<1>3. /\ dir' = [dir EXCEPT !.valid = FALSE]
      /\ UNCHANGED <<bucket, child, deleted, put, del, handle, look, request, last, quiet, writes, remotes>>
  BY DEF ExpireDir, jobs, bounds
<1>4. dir' \in DirRec /\ dir'.marker = dir.marker /\ dir'.done = dir.done /\ dir'.valid = FALSE
  BY <1>2, <1>3 DEF StoreTypes, DirRec
<1>5. StoreTypes'
  BY <1>2, <1>3, <1>4 DEF StoreTypes
<1>6. \A k \in Names : FileFrame(k)
  BY <1>2, <1>3, <1>4, <1>5 DEF FileFrame
<1>7. FileInv(m)'
  BY <1>2, <1>3 DEF FileInv, OwnFile, RemoteFile
<1>8. RequestInv(m)'
  BY <1>1, <1>2, <1>3, RequestsAtRest DEF Changes
<1>9. HeldInv(m)'
  BY <1>2, <1>3 DEF HeldInv
<1> QED
  BY <1>1, <1>3, <1>4, <1>6, <1>7, <1>8, <1>9, FileFrameInv
----------------------------------------------------------------------------
(* The files, the requests and the control, whatever refreshes overlap *)

(* Every step of a file. *)
LEMMA FileSteps ==
    ASSUME MirrorInv, NEW m \in Names, FileStep(m) \/ RemoteChange(m), Orderly'
    PROVE  StepAt(m)
<1>1. "lostAnswer" \notin races' /\ "recreated" \notin races'
  BY DEF Orderly, FileRaces
<1>2. CASE Create(m)
  BY <1>1, <1>2, CreateStep
<1>3. CASE Open(m) \/ Release(m)
  BY <1>3, OpenReleaseStep
<1>4. CASE WriteFile(m)
  BY <1>4, WriteFileStep
<1>5. CASE Unlink(m)
  BY <1>5, UnlinkStep
<1>6. CASE SendPut(m)
  BY <1>6, SendPutStep
<1>7. CASE StorePut(m)
  BY <1>7, StorePutStep
<1>8. CASE PutUnmasks(m) \/ PutReturns(m)
  BY <1>8, PutUnmasksStep, PutReturnsStep
<1>9. CASE PutFails(m)
  BY <1>1, <1>9, PutFailsStep
<1>10. CASE SendDelete(m)
  BY <1>10, SendDeleteStep
<1>11. CASE StoreDelete(m)
  BY <1>11, StoreDeleteStep
<1>12. CASE DeleteReturns(m)
  BY <1>12, DeleteReturnsStep
<1>13. CASE DeleteFails(m)
  BY <1>1, <1>13, DeleteFailsStep
<1>14. CASE RemoteChange(m)
  BY <1>14, RemoteChangeStep
<1> QED
  BY <1>2, <1>3, <1>4, <1>5, <1>6, <1>7, <1>8, <1>9, <1>10, <1>11, <1>12, <1>13, <1>14 DEF FileStep

(* Every step of a lookup. *)
LEMMA LookerSteps ==
    ASSUME MirrorInv, NEW l \in Lookers, LookerStep(l), Orderly'
    PROVE  LookerFrame(l)
<1>2. CASE \E n \in LookedUp : LookUpCached(l, n)
  BY <1>2, LookUpCachedFrame
<1>3. CASE LookUpSlurped(l)
  BY <1>3, LookUpSlurpedFrame
<1>4. CASE LookUpReturns(l)
  BY <1>4, LookUpReturnsFrame
<1>5. CASE LookUpFails(l)
  BY <1>5, LookUpFailsFrame
<1> QED
  BY <1>2, <1>3, <1>4, <1>5 DEF LookerStep

(* Every step of a reader. *)
LEMMA ReaderSteps ==
    ASSUME MirrorInv, NEW r \in Readers, ReaderStep(r), Orderly'
    PROVE  ReaderFrame(r)
<1>1. CASE OpenDir(r) \/ CloseDir(r) \/ Advance(r) \/ BufferFull(r)
  BY <1>1, HandleSteps, HandleStepFrame
<1>2. CASE ReadDir(r)
  BY <1>2, ReadDirFrame
<1>3. CASE Slurped(r)
  BY <1>3, SlurpedFrame
<1>4. CASE Loaded(r)
  BY <1>4, LoadedFrame
<1>5. CASE listObjectsFlat(r)
  BY <1>5, ListObjectsFlatFrame
<1>6. CASE Listed(r)
  BY <1>6, ListedFrame
<1>7. CASE ListFails(r)
  BY <1>7, ListFailsFrame
<1> QED
  BY <1>1, <1>2, <1>3, <1>4, <1>5, <1>6, <1>7 DEF ReaderStep

(* The initial state. *)
LEMMA ListInit ==
    ASSUME Init
    PROVE  ListInv
<1>1. /\ NoChild \in ChildRec /\ NoPut \in PutRec /\ NoRequest \in RequestRec
      /\ Closed \in HandleRec /\ NoLook \in LookRec
  BY RecordTypes
<1>2. N \in Nat \ {0} /\ MaxWrites \in Nat /\ MaxRemote \in Nat
  BY Constants
<1>3. 0 \in Contents /\ 1 \in Contents /\ 0 \in 0..N
  BY <1>2 DEF Contents
<1>4. /\ \A n \in Names : /\ bucket[n] \in {0, 1} /\ child[n] = NoChild /\ deleted[n] = FALSE
                          /\ put[n] = NoPut /\ del[n] = "none"
                          /\ last[n] = IF n \in Own THEN bucket[n] ELSE 0
      /\ \A r \in Readers : handle[r] = Closed /\ request[r] = NoRequest
      /\ \A l \in Lookers : look[l] = NoLook /\ request[l] = NoRequest
      /\ \A p \in Procs : request[p] = NoRequest
      /\ dir = [marker |-> 0, last |-> 0, done |-> FALSE, valid |-> FALSE, forget |-> FALSE]
      /\ quiet = Remote
  BY DEF Init, Procs
<1>5. StoreTypes
  <2>1. bucket \in [Names -> Contents] /\ last \in [Names -> Contents]
    BY <1>3 DEF Init
  <2>2. dir \in DirRec
    BY <1>3, <1>4, Zenon DEF DirRec
  <2>3. writes \in 0..MaxWrites /\ remotes \in 0..MaxRemote
    BY <1>2 DEF Init
  <2>4. child \in [Names -> ChildRec] /\ put \in [Names -> PutRec]
    BY <1>1 DEF Init
  <2>5. del \in [Names -> {"none", "sent", "stored"}]
    BY DEF Init
  <2>6. deleted \in [Names -> BOOLEAN]
    BY DEF Init
  <2> QED
    BY <1>4, <2>1, <2>2, <2>3, <2>4, <2>5, <2>6 DEF StoreTypes
<1>6. Closed.pc = "closed" /\ Closed.done = FALSE /\ NoLook.pc = "idle" /\ NoLook.same = FALSE
  BY DEF Closed, NewHandle, NoLook
<1>7. ThreadTypes
  <2>1. handle \in [Readers -> HandleRec] /\ look \in [Lookers -> LookRec] /\ request \in [Procs -> RequestRec]
    BY <1>1 DEF Init
  <2> QED
    BY <1>4, <1>6, <2>1, NoRequestFields DEF ThreadTypes
<1>8. ThreadInv
  BY <1>4, <1>6, NoRequestFields DEF ThreadInv, ReaderInv, LookerInv
<1>9. ASSUME NEW n \in Names
      PROVE  NameInv(n)
  <2>1. /\ child[n] = NoChild /\ deleted[n] = FALSE /\ put[n].pc = "none" /\ del[n] = "none"
        /\ last[n] = IF n \in Own THEN bucket[n] ELSE 0
    BY <1>4 DEF NoPut
  <2>2. FileInv(n)
    BY <1>4, <2>1, NoChildFields DEF FileInv, OwnFile, RemoteFile
  <2>3. RequestInv(n)
    BY <1>4, NoRequestFields DEF RequestInv, Seen
  <2>4. HeldInv(n)
    BY <1>4, <1>6 DEF HeldInv
  <2>5. ~Reached(n)
    BY <1>2, <1>4, <1>6, NoRequestFields DEF Reached, Names
  <2> QED
    BY <1>4, <2>2, <2>3, <2>4, <2>5 DEF NameInv, RefreshInv
<1> QED
  BY <1>5, <1>7, <1>8, <1>9 DEF ListInv, TypeInv

(* Every step keeps the files, the requests and the control. *)
LEMMA MirrorStep ==
    ASSUME MirrorInv, [Next]_vars, Orderly'
    PROVE  MirrorInv'
<1>1. CASE \E r \in Readers : ReaderStep(r)
  BY <1>1, ReaderSteps, ReaderFrameInv
<1>2. CASE \E p \in Procs : Answer(p)
  BY <1>2, AnswerInv
<1>3. CASE \E l \in Lookers : LookerStep(l)
  BY <1>3, LookerSteps, LookerFrameInv
<1>4. CASE \E n \in Names : FileStep(n) \/ RemoteChange(n)
  <2>1. PICK m \in Names : FileStep(m) \/ RemoteChange(m)
    BY <1>4
  <2>2. StepAt(m)
    BY <2>1, FileSteps
  <2> QED
    BY <2>2, FileFrameInv DEF StepAt
<1>5. CASE \E n \in Names : EvictEntry(n)
  <2>1. PICK m \in Names : EvictEntry(m)
    BY <1>5
  <2>2. EvictStep(m)
    BY <2>1, EvictEntryStep
  <2> QED
    BY <2>2, FileFrameInv DEF EvictStep
<1>6. CASE ExpireDir
  BY <1>6, ExpireDirStep
<1>7. CASE UNCHANGED vars
  BY <1>7 DEF vars, MirrorInv, TypeInv, StoreTypes, ThreadTypes, ThreadInv, ReaderInv, LookerInv,
              FileInv, OwnFile, RemoteFile, RequestInv, Seen, Tells, Decides, Changes, HeldInv
<1> QED
  BY <1>1, <1>2, <1>3, <1>4, <1>5, <1>6, <1>7 DEF Next
----------------------------------------------------------------------------
(* What a refresh has reached is safe *)

(* A change in flight is one of a file that removeExpired leaves alone. *)
LEMMA InflightSafe ==
    ASSUME NEW n \in Names, FileInv(n), Changes(n)
    PROVE  n \in Own /\ child[n].st # "cached" /\ (child[n].st = "none" => last[n] = 0)
<1>1. n \in Own
  BY DEF FileInv, RemoteFile, Changes, Own
<1>2. OwnFile(n)
  BY <1>1 DEF FileInv
<1>3. CASE put[n].pc # "none"
  BY <1>1, <1>2, <1>3 DEF OwnFile
<1>4. CASE del[n] # "none"
  BY <1>1, <1>2, <1>4 DEF OwnFile
<1> QED
  BY <1>3, <1>4 DEF Changes

(* The same as a fact about what is reached. *)
LEMMA InflightIsSafe ==
    ASSUME NEW n \in Names, FileInv(n), Changes(n), quiet \subseteq Remote
    PROVE  Safe(n)
<1>1. n \in Own /\ child[n].st # "cached" /\ (child[n].st = "none" => last[n] = 0)
  BY InflightSafe
<1> QED
  BY <1>1 DEF Safe, Kept, Own

\* n keeps its entry, or an answer or an expiry changes it.
Turns(n) ==
    Stays(n) \/ Expires(n) \/ Shows(n) \/ (Drops(n) /\ n \in Remote /\ (n \in quiet => bucket[n] = 0))

(* An entry that is up to date and stays in the cache stays up to date. *)
LEMMA FreshKept ==
    ASSUME TypeInv, NEW n \in Names, Turns(n), child[n].st # "none" => child[n].fresh,
           child'[n].st # "none"
    PROVE  child'[n].fresh
<1>1. child[n] \in ChildRec /\ deleted[n] \in BOOLEAN
  BY DEF TypeInv, StoreTypes
<1>2. CASE Stays(n)
  BY <1>2 DEF Stays
<1>3. CASE Expires(n) \/ Drops(n)
  BY <1>3, NoChildFields DEF Expires, Drops
<1>4. CASE Shows(n)
  <2>1. PICK p \in Procs :
             /\ request[p].answered /\ n \in DOMAIN request[p].items /\ n \notin request[p].skip
             /\ ShownAs(child[n], child'[n], deleted[n], request[p].items[n])
    BY <1>4 DEF Shows
  <2>2. request[p] \in RequestRec
    BY DEF TypeInv, ThreadTypes
  <2>3. request[p].items[n] \in Contents
    BY <2>1, <2>2, ItemContents
  <2>4. ShownRec(child[n], child'[n], deleted[n], request[p].items[n])
    BY <1>1, <2>1, <2>3, ShownFields
  <2> QED
    BY <2>4, NoChildFields DEF ShownRec
<1> QED
  BY <1>2, <1>3, <1>4 DEF Turns

(* A step that reaches no more names keeps the reached ones safe. *)
LEMMA RefreshKept ==
    ASSUME TypeInv, NEW n \in Names, FileInv(n), RefreshInv(n), Browse, Turns(n), quiet' = quiet,
           Reached(n)' => Reached(n) \/ Safe(n), dir'.valid => dir.valid
    PROVE  RefreshInv(n)'
<1>1. Reached(n)' => Safe(n)'
  <2> SUFFICES ASSUME Reached(n)' PROVE Safe(n)'
    OBVIOUS
  <2>1. Safe(n)
    BY DEF RefreshInv
  <2> QED
    BY <2>1, SafeKept DEF Turns
<1>2. ASSUME dir'.valid, n \in quiet', child'[n].st # "none"
      PROVE  child'[n].fresh
  <2>1. child[n].st # "none" => child[n].fresh
    BY <1>2 DEF RefreshInv
  <2> QED
    BY <1>2, <2>1, FreshKept
<1> QED
  BY <1>1, <1>2 DEF RefreshInv

(* A trusted directory in which nothing stale is left. *)
LEMMA SealedIsFresh ==
    ASSUME NEW n \in Names, FileInv(n)', quiet' \subseteq Remote, NoneStale(child')
    PROVE  n \in quiet' /\ child'[n].st # "none" => child'[n].fresh
<1> SUFFICES ASSUME n \in quiet', child'[n].st # "none"
             PROVE  child'[n].fresh
  OBVIOUS
<1>1. RemoteFile(n)'
  BY DEF FileInv
<1>2. child'[n].st = "cached" /\ ~child'[n].open
  BY <1>1 DEF RemoteFile
<1> QED
  BY <1>2 DEF NoneStale

(* What is reached when the handles load no more than before and the requests mask no more. *)
LEMMA ReachedBefore ==
    ASSUME MirrorInv, NEW n \in Names,
           n <= dir'.marker => n <= dir.marker, dir'.done => dir.done, dir'.valid => dir.valid,
           \A o \in Readers : handle'[o].done => handle[o].done,
           \A o \in Readers : \/ request'[o].kind = request[o].kind /\ request'[o].from = request[o].from
                                 /\ (n \in request'[o].skip => n \in request[o].skip)
                              \/ request'[o] = NoRequest
                              \/ \E k : JustSent(request'[o], k, 0)
                              \/ \E k : JustSent(request'[o], k, dir.marker)
    PROVE  Reached(n)' => Reached(n) \/ Safe(n)
<1> SUFFICES ASSUME Reached(n)'
             PROVE  Reached(n) \/ Safe(n)
  OBVIOUS
<1>1. FileInv(n) /\ quiet \subseteq Remote /\ n > 0 /\ n \in Nat
  BY Constants DEF MirrorInv, TypeInv, StoreTypes, Names
<1>2. Changes(n) => Safe(n)
  BY <1>1, InflightIsSafe
<1>3. CASE n <= dir'.marker \/ dir'.done \/ dir'.valid \/ \E r \in Readers : handle'[r].done
  BY <1>3 DEF Reached
<1>4. CASE \E r \in Readers : request'[r].kind # "none" /\ (n <= request'[r].from \/ n \in request'[r].skip)
  <2>1. PICK r \in Readers : request'[r].kind # "none" /\ (n <= request'[r].from \/ n \in request'[r].skip)
    BY <1>4
  <2>2. CASE request'[r].kind = request[r].kind /\ request'[r].from = request[r].from
             /\ (n \in request'[r].skip => n \in request[r].skip)
    BY <2>1, <2>2 DEF Reached
  <2>3. CASE request'[r] = NoRequest
    BY <2>1, <2>3, NoRequestFields
  <2>4. CASE \E k : JustSent(request'[r], k, 0)
    <3>1. request'[r].from = 0 /\ request'[r].skip = Changing
      BY <2>4 DEF JustSent
    <3>2. n \in Changing
      BY <1>1, <2>1, <3>1
    <3> QED
      BY <1>2, <3>2 DEF Changing
  <2>5. CASE \E k : JustSent(request'[r], k, dir.marker)
    <3>1. request'[r].from = dir.marker /\ request'[r].skip = Changing
      BY <2>5 DEF JustSent
    <3>2. n <= dir.marker \/ n \in Changing
      BY <2>1, <3>1
    <3> QED
      BY <1>2, <3>2 DEF Changing, Reached
  <2> QED
    BY <2>2, <2>3, <2>4, <2>5
<1> QED
  BY <1>3, <1>4 DEF Reached

(* Steps of a handle, a listing that fails, and one that is sent. *)
LEMMA WaitingRefresh ==
    ASSUME MirrorInv, NEW r \in Readers, NEW n \in Names, RefreshInv(n),
           HandleStep(r) \/ ListFails(r) \/ listObjectsFlat(r) \/ (SlurpStep(r) /\ ReaderFrame(r)),
           Orderly'
    PROVE  RefreshInv(n)'
<1>1. TypeInv /\ FileInv(n) /\ r \in Procs
  BY DEF MirrorInv, Procs
<1>2. /\ Browse /\ UNCHANGED <<child, dir, quiet>>
      /\ \A o \in Readers : handle'[o].done => handle[o].done
      /\ \A o \in Readers : \/ request'[o] = request[o] \/ request'[o] = NoRequest
                            \/ \E k : JustSent(request'[o], k, 0)
                            \/ \E k : JustSent(request'[o], k, dir.marker)
  <2>1. CASE HandleStep(r)
    BY <2>1 DEF HandleStep, OthersWait, Browse
  <2>2. CASE ListFails(r)
    BY <2>2, ListFailsFrame DEF ReaderFrame
  <2>3. CASE listObjectsFlat(r)
    BY <2>3, ListObjectsFlatFrame DEF ReaderFrame
  <2>4. CASE SlurpStep(r) /\ ReaderFrame(r)
    BY <2>4 DEF SlurpStep, ReaderFrame
  <2> QED
    BY <2>1, <2>2, <2>3, <2>4
<1>3. Turns(n)
  BY <1>2 DEF Turns, Stays
<1>4. Reached(n)' => Reached(n) \/ Safe(n)
  BY <1>2, ReachedBefore
<1> QED
  BY <1>1, <1>2, <1>3, <1>4, RefreshKept

(* The end of a listing: what it has reached is everything. *)
LEMMA SealRefresh ==
    ASSUME MirrorInv, MirrorInv', NEW r \in Readers, NEW n \in Names, RefreshInv(n),
           SealStep(r), ReaderFrame(r)
    PROVE  RefreshInv(n)'
<1>1. TypeInv /\ FileInv(n) /\ Browse /\ quiet' = quiet /\ FileInv(n)' /\ quiet' \subseteq Remote
  BY DEF MirrorInv, ReaderFrame, SealStep
<1>2. Turns(n) /\ (Stays(n) \/ Expires(n))
  BY DEF SealStep, Shrunk, Stays, Expires, Drops, Turns
<1>3. CASE dir'.marker = dir.marker /\ (dir'.done => dir.done) /\ (dir'.valid => dir.valid)
  <2>1. Reached(n)' => Reached(n) \/ Safe(n)
    BY <1>3, ReachedBefore DEF SealStep
  <2> QED
    BY <1>1, <1>2, <1>3, <2>1, RefreshKept
<1>4. CASE dir'.marker = 0 /\ handle[r].done /\ NoneStale(child')
  <2>1. Safe(n)
    BY <1>4 DEF RefreshInv, Reached
  <2>2. Safe(n)'
    BY <1>1, <1>2, <2>1, SafeKept
  <2>3. n \in quiet' /\ child'[n].st # "none" => child'[n].fresh
    BY <1>1, <1>4, SealedIsFresh
  <2> QED
    BY <2>2, <2>3 DEF RefreshInv
<1> QED
  BY <1>3, <1>4 DEF SealStep

(* The start of a refresh: only the changes in flight are reached. *)
LEMMA StartRefresh ==
    ASSUME MirrorInv, NEW r \in Readers, NEW n \in Names, RefreshStep(r), ReaderFrame(r),
           races' = {}
    PROVE  RefreshInv(n)'
<1>1. /\ TypeInv /\ FileInv(n) /\ n > 0 /\ n \in Nat /\ \A o \in Readers : ReaderInv(o)
      /\ child[n] \in ChildRec
  BY Constants DEF MirrorInv, TypeInv, StoreTypes, Names, ThreadInv
<1>2. \A o \in Readers : ~Loading(o)
  BY DEF RefreshStep
<1>3. \A o \in Readers : ~handle[o].done /\ request[o].kind = "none"
  BY <1>1, <1>2 DEF Loading, ReaderInv
<1>4. /\ dir'.marker = 0 /\ ~dir'.done /\ ~dir'.valid /\ Ages(n)
      /\ \A o \in Readers : ~handle'[o].done
      /\ \A o \in Readers : request'[o].kind = "none" \/ (o = r /\ JustSent(request'[r], "slurp", 0))
  BY <1>3 DEF RefreshStep
<1>5. ASSUME Reached(n)'
      PROVE  Safe(n)'
  <2>1. n \in Changing
    <3>1. PICK o \in Readers : request'[o].kind # "none" /\ (n <= request'[o].from \/ n \in request'[o].skip)
      BY <1>1, <1>4, <1>5 DEF Reached
    <3>2. request'[o].from = 0 /\ request'[o].skip = Changing
      BY <1>4, <3>1 DEF JustSent
    <3> QED
      BY <1>1, <3>1, <3>2
  <2>2. n \in Own /\ child[n].st # "cached" /\ (child[n].st = "none" => last[n] = 0)
    BY <1>1, <2>1, InflightSafe DEF Changing
  <2>3. child'[n].st = child[n].st /\ last'[n] = last[n]
    BY <1>1, <1>4 DEF Ages, ReaderFrame, Browse, ChildRec
  <2>4. n \notin quiet'
    BY <2>2 DEF ReaderFrame, Own
  <2> QED
    BY <2>2, <2>3, <2>4 DEF Safe, Kept
<1> QED
  BY <1>4, <1>5 DEF RefreshInv

\* The page of r goes past n.
Covers(r, n) == ~request[r].more \/ \E m \in DOMAIN request[r].items : n <= m

(* A page shows the names it goes past, or leaves what it cannot know of alone. *)
LEMMA PageCovers ==
    ASSUME MirrorInv, NEW r \in Readers, NEW n \in Names, RefreshInv(n), PageStep(r), ReaderFrame(r),
           Covers(r, n)
    PROVE  Safe(n)'
<1>1. /\ TypeInv /\ FileInv(n) /\ RequestInv(n) /\ r \in Procs /\ ReaderInv(r) /\ quiet \subseteq Remote
      /\ child[n] \in ChildRec /\ deleted[n] \in BOOLEAN /\ request[r] \in RequestRec
  BY DEF MirrorInv, TypeInv, StoreTypes, ThreadTypes, ThreadInv, Procs
<1>2. request[r].kind \in {"slurp", "flat"} /\ request[r].answered /\ quiet' = quiet
  BY <1>1 DEF ReaderInv, PageStep, PageShown
<1>3. bucket'[n] = bucket[n] /\ last'[n] = last[n] /\ Browse
  BY DEF ReaderFrame, Browse
<1>4. CASE n <= request[r].from \/ n \in request[r].skip
  <2>1. Safe(n)
    BY <1>2, <1>4 DEF RefreshInv, Reached
  <2>2. Stays(n) \/ Expires(n) \/ Shows(n)
    BY DEF PageStep, PageShown
  <2> QED
    BY <1>1, <1>2, <1>3, <2>1, <2>2, SafeKept
<1>5. CASE ~(n <= request[r].from) /\ n \notin request[r].skip
  <2>1. n > request[r].from
    <3>1. n \in Int /\ request[r].from \in Int
      BY <1>1, Constants DEF RequestRec, Names
    <3> QED
      BY <1>5, <3>1
  <2>2. Decides(request[r], n)
    BY <1>2, <2>1 DEF Decides, Covers
  <2>3. n \in Own \/ n \in quiet => Tells(request[r], n)
    BY <1>5 DEF Tells
  <2>4. Seen(n, r)
    BY <1>1 DEF RequestInv
  <2>5. CASE n \in DOMAIN request[r].items
    <3>1. n \in Own \/ n \in quiet => bucket[n] # 0 /\ request[r].items[n] = bucket[n]
      BY <1>2, <2>3, <2>4, <2>5 DEF Seen
    <3>2. PICK p \in Procs :
               /\ request[p].answered /\ n \in DOMAIN request[p].items /\ n \notin request[p].skip
               /\ ShownAs(child[n], child'[n], deleted[n], request[p].items[n])
      BY <1>5, <2>5 DEF PageStep, PageShown, Shows
    <3>3. request[p] \in RequestRec
      BY <1>1 DEF TypeInv, ThreadTypes
    <3>4. request[p].items[n] \in Contents
      BY <3>2, <3>3, ItemContents
    <3>5. ShownRec(child[n], child'[n], deleted[n], request[p].items[n])
      BY <1>1, <3>2, <3>4, ShownFields
    <3>6. (child'[n].st # "none" /\ child'[n].fresh) \/ (child[n].st = "none" /\ deleted[n])
      BY <3>5 DEF ShownRec
    <3>7. CASE child'[n].st # "none" /\ child'[n].fresh
      BY <3>7 DEF Safe, Kept
    <3>8. CASE child[n].st = "none" /\ deleted[n]
      <4>1. n \in Own /\ OwnFile(n)
        BY <1>1, <3>8 DEF FileInv, RemoteFile, Own
      <4>2. last[n] = 0 /\ n \notin quiet'
        BY <1>1, <1>2, <3>8, <4>1 DEF OwnFile, Own
      <4> QED
        BY <1>3, <4>2 DEF Safe
    <3> QED
      BY <3>6, <3>7, <3>8
  <2>6. CASE n \notin DOMAIN request[r].items
    <3>1. n \in Own \/ n \in quiet => bucket[n] = 0
      BY <1>2, <2>2, <2>3, <2>4, <2>6 DEF Seen
    <3>2. ASSUME n \in Own, last[n] # 0
          PROVE  child[n].st = "created"
      <4>1. OwnFile(n) /\ bucket[n] = 0
        BY <1>1, <3>1, <3>2 DEF FileInv
      <4> QED
        BY <1>1, <3>2, <4>1 DEF OwnFile, ChildRec
    <3>3. Stays(n) \/ Expires(n)
      BY <2>6 DEF PageStep, PageShown
    <3>4. ASSUME n \in Own, last[n] # 0
          PROVE  child'[n].st = "created"
      BY <3>2, <3>3, <3>4 DEF Stays, Expires, Drops
    <3> QED
      BY <1>2, <1>3, <3>1, <3>4 DEF Safe, Kept
  <2> QED
    BY <2>5, <2>6
<1> QED
  BY <1>4, <1>5

(* A page is applied. *)
LEMMA PageRefresh ==
    ASSUME MirrorInv, MirrorInv', NEW r \in Readers, NEW n \in Names, RefreshInv(n),
           PageStep(r), ReaderFrame(r)
    PROVE  RefreshInv(n)'
<1>1. /\ TypeInv /\ FileInv(n) /\ FileInv(n)' /\ quiet' = quiet /\ Browse /\ quiet' \subseteq Remote
  BY DEF MirrorInv, PageStep, ReaderFrame
<1>2. Turns(n) /\ (Stays(n) \/ Expires(n) \/ Shows(n))
  BY DEF PageStep, PageShown, Turns
<1>3. Reached(n) => Safe(n)'
  BY <1>1, <1>2, SafeKept DEF RefreshInv
<1>4. Covers(r, n) => Safe(n)'
  BY PageCovers
<1>5. Reached(n)' => Reached(n) \/ Covers(r, n)
  <2> SUFFICES ASSUME Reached(n)', request[r].more
               PROVE  Reached(n) \/ Covers(r, n)
    BY DEF Covers
  <2>1. n <= dir'.marker => n <= dir.marker \/ Covers(r, n)
    BY DEF PageStep, Covers
  <2>2. dir'.done = dir.done /\ dir'.valid = dir.valid
    BY DEF PageStep
  <2>3. \A o \in Readers : handle'[o].done => handle[o].done
    BY DEF PageStep
  <2>4. \A o \in Readers : request'[o].kind # "none" => request'[o] = request[o]
    BY NoRequestFields DEF PageStep
  <2> QED
    BY <2>1, <2>2, <2>3, <2>4 DEF Reached
<1>6. dir'.valid /\ n \in quiet' /\ child'[n].st # "none" => child'[n].fresh
  <2>1. CASE request[r].more
    <3> SUFFICES ASSUME dir'.valid, n \in quiet', child'[n].st # "none"
                 PROVE  child'[n].fresh
      OBVIOUS
    <3>1. dir.valid
      BY <2>1 DEF PageStep
    <3>2. child[n].st # "none" => child[n].fresh
      BY <1>1, <3>1 DEF RefreshInv
    <3> QED
      BY <1>1, <1>2, <3>2, FreshKept
  <2>2. CASE ~request[r].more
    <3>1. NoneStale(child')
      BY <2>2 DEF PageStep
    <3> QED
      BY <1>1, <3>1, SealedIsFresh
  <2> QED
    BY <2>1, <2>2
<1> QED
  BY <1>3, <1>4, <1>5, <1>6 DEF RefreshInv

(* A lookup's step. *)
LEMMA LookerRefresh ==
    ASSUME MirrorInv, NEW l \in Lookers, NEW n \in Names, RefreshInv(n), LookerFrame(l)
    PROVE  RefreshInv(n)'
<1>1. TypeInv /\ FileInv(n) /\ Browse /\ quiet' = quiet /\ dir' = dir
  BY DEF MirrorInv, LookerFrame
<1>2. Turns(n)
  BY DEF LookerFrame, Turns
<1>3. \A o \in Readers : o \in Procs /\ o # l
  BY Constants DEF Procs
<1>4. \A o \in Readers : handle'[o].done = handle[o].done /\ request'[o] = request[o]
  BY <1>3 DEF LookerFrame
<1>5. Reached(n)' => Reached(n) \/ Safe(n)
  BY <1>1, <1>4, ReachedBefore
<1> QED
  BY <1>1, <1>2, <1>5, RefreshKept

(* The store answers. *)
LEMMA AnswerRefresh ==
    ASSUME MirrorInv, NEW p \in Procs, NEW n \in Names, RefreshInv(n), Answers(p)
    PROVE  RefreshInv(n)'
<1>1. TypeInv /\ FileInv(n) /\ Browse /\ quiet' = quiet /\ dir' = dir /\ handle' = handle /\ Stays(n)
  BY DEF MirrorInv, Answers, Browse, Stays
<1>2. \A o \in Readers : /\ request'[o].kind = request[o].kind /\ request'[o].from = request[o].from
                         /\ request'[o].skip = request[o].skip
  BY DEF Answers, Procs
<1>3. Reached(n)' => Reached(n) \/ Safe(n)
  BY <1>1, <1>2, ReachedBefore
<1> QED
  BY <1>1, <1>3, RefreshKept DEF Turns

(* A name that a step of another file leaves alone. *)
LEMMA OtherRefresh ==
    ASSUME MirrorInv, NEW m \in Names, NEW n \in Names, n # m, RefreshInv(n), FileFrame(m)
    PROVE  RefreshInv(n)'
<1>1. TypeInv /\ Masks(m)
  BY MaskFacts DEF MirrorInv, FileFrame
<1>2. /\ child'[n] = child[n] /\ bucket'[n] = bucket[n] /\ last'[n] = last[n]
      /\ n \in quiet' <=> n \in quiet
  BY DEF FileFrame
<1>3. Safe(n)' <=> Safe(n)
  BY <1>2 DEF Safe, Kept
<1>4. \A o \in Readers : /\ request'[o].kind = request[o].kind /\ request'[o].from = request[o].from
                         /\ n \in request'[o].skip => n \in request[o].skip
  BY <1>1 DEF Masks, Procs
<1>5. Reached(n)' => Reached(n) \/ Safe(n)
  BY <1>4, ReachedBefore DEF FileFrame
<1> QED
  BY <1>2, <1>3, <1>5 DEF RefreshInv, FileFrame

(* A step of a file, for its own name and for the others. *)
LEMMA FileRefresh ==
    ASSUME MirrorInv, NEW m \in Names, NEW n \in Names, RefreshInv(n), StepAt(m)
    PROVE  RefreshInv(n)'
<1>1. CASE n # m
  BY <1>1, OtherRefresh DEF StepAt
<1>2. CASE n = m
  <2>1. Reached(m)' => Safe(m)'
    <3>1. CASE request' = request
      <4>1. Reached(m)' => Reached(m) \/ Safe(m)
        BY <3>1, ReachedBefore DEF StepAt, FileFrame
      <4> QED
        BY <1>2, <4>1 DEF StepAt, RefreshInv
    <3>2. CASE Safe(m)'
      BY <3>2
    <3> QED
      BY <3>1, <3>2 DEF StepAt
  <2> QED
    BY <1>2, <2>1 DEF RefreshInv, StepAt
<1> QED
  BY <1>1, <1>2

(* An eviction: no refresh is under way, so that nothing is reached. *)
LEMMA EvictRefresh ==
    ASSUME MirrorInv, NEW m \in Names, NEW n \in Names, EvictStep(m), races' = {}
    PROVE  RefreshInv(n)'
<1>1. /\ n > 0 /\ n \in Nat /\ \A o \in Readers : ReaderInv(o)
  BY Constants DEF MirrorInv, Names, ThreadInv
<1>2. Refreshes /\ \A o \in Readers : handle[o].pc = "closed"
  BY DEF EvictStep
<1>3. \A o \in Readers : ~handle[o].done /\ request[o].kind = "none"
  BY <1>1, <1>2 DEF ReaderInv
<1>4. /\ dir'.marker = 0 /\ ~dir'.done /\ ~dir'.valid /\ request' = request
      /\ \A o \in Readers : ~handle'[o].done
  BY <1>2, <1>3 DEF EvictStep, FileFrame, Refreshes
<1>5. ~Reached(n)'
  BY <1>1, <1>3, <1>4 DEF Reached
<1> QED
  BY <1>4, <1>5 DEF RefreshInv

(* StatCacheTTL passes. *)
LEMMA ExpireRefresh ==
    ASSUME MirrorInv, NEW n \in Names, RefreshInv(n), ExpireDir
    PROVE  RefreshInv(n)'
<1>1. /\ FileFrame(n) /\ dir'.valid = FALSE
      /\ UNCHANGED <<bucket, child, deleted, put, del, handle, look, request, last, quiet>>
  BY ExpireDirStep
<1>2. Reached(n)' => Reached(n) \/ Safe(n)
  BY <1>1, ReachedBefore DEF FileFrame
<1>3. Safe(n)' <=> Safe(n)
  BY <1>1 DEF Safe, Kept
<1> QED
  BY <1>1, <1>2, <1>3 DEF RefreshInv

(* Every step keeps what a refresh has reached safe. *)
LEMMA RefreshStepInv ==
    ASSUME ListInv, MirrorInv, MirrorInv', [Next]_vars, races' = {}, NEW n \in Names
    PROVE  RefreshInv(n)'
<1>1. RefreshInv(n) /\ Orderly'
  BY DEF ListInv, NameInv, Orderly
<1>2. CASE \E r \in Readers : ReaderStep(r)
  <2>1. PICK r \in Readers : ReaderStep(r)
    BY <1>2
  <2>2. CASE OpenDir(r) \/ CloseDir(r) \/ Advance(r) \/ BufferFull(r)
    BY <1>1, <2>2, HandleSteps, WaitingRefresh
  <2>3. CASE ReadDir(r)
    <3>1. ReaderFrame(r) /\ (SealStep(r) \/ SlurpStep(r) \/ RefreshStep(r))
      BY <1>1, <2>3, ReadDirFrame
    <3> QED
      BY <1>1, <3>1, SealRefresh, WaitingRefresh, StartRefresh
  <2>4. CASE Slurped(r)
    BY <1>1, <2>4, SlurpedFrame, PageRefresh
  <2>5. CASE Loaded(r)
    BY <1>1, <2>5, LoadedFrame, SealRefresh
  <2>6. CASE listObjectsFlat(r) \/ ListFails(r)
    BY <1>1, <2>6, WaitingRefresh
  <2>7. CASE Listed(r)
    BY <1>1, <2>7, ListedFrame, PageRefresh
  <2> QED
    BY <2>1, <2>2, <2>3, <2>4, <2>5, <2>6, <2>7 DEF ReaderStep
<1>3. CASE \E p \in Procs : Answer(p)
  BY <1>1, <1>3, AnswerInv, AnswerRefresh
<1>4. CASE \E l \in Lookers : LookerStep(l)
  BY <1>1, <1>4, LookerSteps, LookerRefresh
<1>5. CASE \E m \in Names : FileStep(m) \/ RemoteChange(m)
  BY <1>1, <1>5, FileSteps, FileRefresh
<1>6. CASE \E m \in Names : EvictEntry(m)
  BY <1>6, EvictEntryStep, EvictRefresh
<1>7. CASE ExpireDir
  BY <1>1, <1>7, ExpireRefresh
<1>8. CASE UNCHANGED vars
  BY <1>1, <1>8 DEF vars, RefreshInv, Reached, Safe, Kept
<1> QED
  BY <1>2, <1>3, <1>4, <1>5, <1>6, <1>7, <1>8 DEF Next
----------------------------------------------------------------------------
(* Theorems *)

(* The types of every variable follow from the invariant. *)
LEMMA TypesOK ==
    ASSUME TypeInv, races \subseteq AllRaces
    PROVE  TypeOK
<1>1. ASSUME NEW r \in Readers
      PROVE  /\ handle[r].pc \in {"closed", "idle", "slurp", "loaded", "list", "flat", "entry", "ended"}
             /\ handle[r].idx \in -1..N /\ {handle[r].name, handle[r].start} \subseteq 0..N
             /\ handle[r].pc = "entry" => handle[r].entry \in Names
  BY DEF TypeInv, ThreadTypes, HandleRec
<1>2. \A l \in Lookers : look[l].pc \in {"idle", "slurp", "head"}
  BY DEF TypeInv, ThreadTypes, LookRec
<1>3. ASSUME NEW p \in Procs
      PROVE  request[p].skip \subseteq Names /\ DOMAIN request[p].items \subseteq Names
  BY DEF TypeInv, ThreadTypes, RequestRec, ItemFuns
<1>4. StoreTypes
  BY DEF TypeInv
<1> QED
  BY <1>1, <1>2, <1>3, <1>4 DEF TypeOK, StoreTypes, ChildRec, PutRec, DirRec

(* What has happened stays recorded. *)
LEMMA RacesGrow ==
    ASSUME [Next]_vars
    PROVE  races \subseteq races' /\ (races \subseteq AllRaces => races' \subseteq AllRaces)
<1>1. /\ EarlyUnmask \subseteq AllRaces /\ Overlapping \subseteq AllRaces
  BY DEF EarlyUnmask, Overlapping, Happens, AllRaces, FileRaces
<1>2. ASSUME NEW race \in {"lostAnswer", "recreated", "failedLookup", "evictedListing"}, NEW c
      PROVE  Happens(race, c) \subseteq AllRaces
  BY DEF Happens, AllRaces, FileRaces
<1>3. CASE \E r \in Readers : ReaderStep(r)
  <2>1. PICK r \in Readers : ReaderStep(r)
    BY <1>3
  <2>2. CASE ReadDir(r)
    <3>1. races' \in {races, races \cup Overlapping, races \cup Overlapping \cup EarlyUnmask}
      BY <2>2 DEF ReadDir
    <3> QED
      BY <1>1, <3>1
  <2>3. CASE listObjectsFlat(r)
    BY <1>1, <2>3 DEF listObjectsFlat
  <2>4. CASE \/ OpenDir(r) \/ CloseDir(r) \/ Slurped(r) \/ Loaded(r) \/ Listed(r) \/ ListFails(r)
             \/ Advance(r) \/ BufferFull(r)
    <3>1. races' = races
      BY <2>4 DEF OpenDir, CloseDir, Slurped, Loaded, Listed, ListFails, Advance, BufferFull
    <3> QED
      BY <3>1
  <2> QED
    BY <2>1, <2>2, <2>3, <2>4 DEF ReaderStep
<1>4. CASE \E l \in Lookers : LookerStep(l)
  <2>1. PICK l \in Lookers : LookerStep(l)
    BY <1>4
  <2>2. CASE LookUpFails(l)
    BY <1>2, <2>2 DEF LookUpFails
  <2>3. CASE (\E n \in LookedUp : LookUpCached(l, n)) \/ LookUpSlurped(l) \/ LookUpReturns(l)
    <3>1. races' \in {races, races \cup EarlyUnmask}
      BY <2>3 DEF LookUpCached, LookUpSlurped, LookUpReturns
    <3> QED
      BY <1>1, <3>1
  <2> QED
    BY <2>1, <2>2, <2>3 DEF LookerStep
<1>5. CASE \E n \in Names : FileStep(n) \/ EvictEntry(n) \/ RemoteChange(n)
  <2>1. PICK n \in Names : FileStep(n) \/ EvictEntry(n) \/ RemoteChange(n)
    BY <1>5
  <2>2. CASE Create(n)
    BY <1>2, <2>2 DEF Create
  <2>3. CASE PutFails(n)
    BY <1>2, <2>3 DEF PutFails
  <2>4. CASE DeleteFails(n)
    BY <1>2, <2>4 DEF DeleteFails
  <2>5. CASE EvictEntry(n)
    BY <1>2, <2>5 DEF EvictEntry
  <2>6. CASE \/ Open(n) \/ Release(n) \/ WriteFile(n) \/ Unlink(n) \/ SendPut(n) \/ StorePut(n)
             \/ PutUnmasks(n) \/ PutReturns(n) \/ SendDelete(n) \/ StoreDelete(n) \/ DeleteReturns(n)
             \/ RemoteChange(n)
    <3>1. races' = races
      BY <2>6 DEF Open, Release, WriteFile, Unlink, SendPut, StorePut, PutUnmasks, PutReturns,
                  SendDelete, StoreDelete, DeleteReturns, RemoteChange
    <3> QED
      BY <3>1
  <2> QED
    BY <2>1, <2>2, <2>3, <2>4, <2>5, <2>6 DEF FileStep
<1>6. CASE (\E p \in Procs : Answer(p)) \/ ExpireDir \/ UNCHANGED vars
  <2>1. races' = races
    BY <1>6 DEF Answer, ExpireDir, vars
  <2> QED
    BY <2>1
<1> QED
  BY <1>3, <1>4, <1>5, <1>6 DEF Next

(* MirrorInv is what the files, the requests and the control keep until the answer of an
   upload is lost, a request is sent between the end of a mask and the ETag, the HEAD of a
   cached entry fails, or a name is created again before its DELETE is sent; refreshes and
   evictions may overlap as they like. *)
THEOREM FilesAreMirrored == Spec => [](Orderly => MirrorInv)
<1> DEFINE Inv == Orderly => MirrorInv
<1>1. Init => Inv
  BY ListInit DEF ListInv, NameInv, MirrorInv
<1>2. ASSUME Inv, [Next]_vars
      PROVE  Inv'
  <2> SUFFICES ASSUME Orderly'
               PROVE  MirrorInv'
    OBVIOUS
  <2>1. Orderly
    BY <1>2, RacesGrow DEF Orderly
  <2> QED
    BY <1>2, <2>1, MirrorStep
<1> HIDE DEF Inv
<1>3. Spec => []Inv
  BY <1>1, <1>2, PTL DEF Spec
<1> QED
  BY <1>3 DEF Inv

(* The directory keeps its types. *)
THEOREM TypesHold == Spec => [](Orderly => TypeOK)
<1>1. Init => races \subseteq AllRaces
  BY DEF Init
<1>2. races \subseteq AllRaces /\ [Next]_vars => (races \subseteq AllRaces)'
  BY RacesGrow
<1>3. races \subseteq AllRaces /\ (Orderly => MirrorInv) => (Orderly => TypeOK)
  BY TypesOK DEF MirrorInv
<1> QED
  BY <1>1, <1>2, <1>3, FilesAreMirrored, PTL DEF Spec

(* No page, HEAD, expiry or eviction shows an older version of one of this mount's files,
   revives an unlinked one, or discards a change that is not stored yet (the masking by
   inflightChanges and DeletedChildren), for any number of readers, lookups and writes, until
   one of FileRaces has happened. *)
THEOREM OwnFilesAreShown == Spec => []OwnView
<1>1. ASSUME Orderly => MirrorInv
      PROVE  OwnView
  <2> SUFFICES ASSUME Orderly
               PROVE  FilesShown
    BY DEF OwnView, Orderly
  <2>1. ASSUME NEW n \in Own
        PROVE  OwnFile(n)
    BY <1>1, FileFacts DEF Own
  <2> QED
    BY <2>1 DEF FilesShown, OwnFile
<1> QED
  BY <1>1, FilesAreMirrored, PTL

(* ListInv is inductive until one of AllRaces has happened. *)
THEOREM ListingInvariant == Spec => [](races = {} => ListInv)
<1> DEFINE Inv == races = {} => ListInv
<1>1. Init => Inv
  BY ListInit
<1>2. ASSUME Inv, [Next]_vars
      PROVE  Inv'
  <2> SUFFICES ASSUME races' = {}
               PROVE  ListInv'
    OBVIOUS
  <2>1. races = {}
    BY <1>2, RacesGrow
  <2>2. ListInv /\ MirrorInv /\ Orderly'
    BY <1>2, <2>1 DEF ListInv, NameInv, MirrorInv, Orderly
  <2>3. MirrorInv'
    BY <1>2, <2>2, MirrorStep
  <2>4. \A n \in Names : RefreshInv(n)'
    BY <1>2, <2>2, <2>3, RefreshStepInv
  <2> QED
    BY <2>3, <2>4 DEF ListInv, NameInv, MirrorInv
<1> HIDE DEF Inv
<1>3. Spec => []Inv
  BY <1>1, <1>2, PTL DEF Spec
<1> QED
  BY <1>3 DEF Inv

(* A file that has left the cache is complete in the bucket and is asked for by the next
   lookup (removeExpired, sealDir, EvictEntry, recheckInode), until one of AllRaces has
   happened. *)
THEOREM NoFileVanishes == Spec => []NothingVanishes
<1>1. ASSUME races = {} => ListInv
      PROVE  NothingVanishes
  <2> SUFFICES ASSUME races = {}, NEW n \in Own, last[n] # 0, child[n].st = "none"
               PROVE  bucket[n] = last[n] /\ ~deleted[n] /\ ~dir.valid
    BY DEF NothingVanishes
  <2>1. n \in Names /\ OwnFile(n) /\ RefreshInv(n)
    BY <1>1 DEF ListInv, NameInv, FileInv, Own
  <2>2. ~Safe(n)
    BY DEF Safe, Kept
  <2> QED
    BY <2>1, <2>2 DEF OwnFile, RefreshInv, Reached
<1> QED
  BY <1>1, ListingInvariant, PTL

(* A trusted directory shows the names other clients left alone since the refresh began in
   the version of the bucket (page borders, removeExpired, sealDir), until one of AllRaces
   has happened. *)
THEOREM TrustedDirIsFresh == Spec => []TrustedIsFresh
<1>1. ASSUME races = {} => ListInv
      PROVE  TrustedIsFresh
  <2> SUFFICES ASSUME races = {}, dir.valid, NEW n \in quiet
               PROVE  child[n].etag = bucket[n] /\ (bucket[n] = 0 => child[n].st = "none")
    BY DEF TrustedIsFresh
  <2>1. quiet \subseteq Remote /\ Remote \subseteq Names
    BY <1>1, Constants DEF ListInv, TypeInv, StoreTypes
  <2>2. n \in Names /\ FileInv(n) /\ RemoteFile(n) /\ RefreshInv(n)
    BY <1>1, <2>1 DEF ListInv, NameInv, FileInv
  <2>3. Safe(n)
    BY <2>2 DEF RefreshInv, Reached
  <2>4. CASE child[n].st # "none"
    BY <2>2, <2>4 DEF RefreshInv, RemoteFile
  <2>5. CASE child[n].st = "none"
    BY <2>2, <2>3, <2>5 DEF Safe, Kept, FileInv
  <2> QED
    BY <2>4, <2>5
<1> QED
  BY <1>1, ListingInvariant, PTL
----------------------------------------------------------------------------
(* The positions of the directory handles *)

\* How many of the names P come before c.
Rank(P, c) == Cardinality({x \in P : x < c})

Reads(h) == h.pc \notin {"closed", "ended"}

\* What was returned and is still there lies before the position, found by number or by the
\* last name; an entry that waits to be delivered was not returned before.
PositionInv(P, h) ==
    /\ ~h.twice
    /\ Reads(h) =>
         /\ \A c \in P : c \in h.got => c <= h.name /\ (h.idx >= 0 => Rank(P, c) < h.idx)
         /\ h.idx >= 0 => h.idx <= Cardinality(P) /\ \A c \in P : Rank(P, c) < h.idx => c <= h.name
         /\ h.pc = "entry" =>
              /\ h.entry \notin h.got /\ \A c \in P : c \in h.got => c < h.entry
              /\ h.idx >= 0 => h.entry \in P /\ Rank(P, h.entry) = h.idx

(* Ranks are numbers, and in the order of the names. *)
LEMMA RankOrder ==
    ASSUME NEW P \in SUBSET Names
    PROVE  /\ IsFiniteSet(P) /\ Cardinality(P) \in Nat
           /\ \A c \in P : Rank(P, c) \in Nat /\ Rank(P, c) < Cardinality(P)
           /\ \A a, b \in P : a < b => Rank(P, a) < Rank(P, b)
<1>1. N \in Nat /\ \A n \in Names : n \in Nat
  BY Constants DEF Names
<1>2. IsFiniteSet(P) /\ Cardinality(P) \in Nat
  <2>1. IsFiniteSet(Names)
    BY <1>1, FS_Interval DEF Names
  <2> QED
    BY <2>1, FS_Subset, FS_CardinalityType
<1>3. ASSUME NEW S \in SUBSET P, NEW a \in P, a \in S
      PROVE  /\ Rank(P, a) \in Nat
             /\ {x \in P : x < a} \subseteq S => Rank(P, a) < Cardinality(S)
  <2> DEFINE L == {x \in P : x < a}
  <2>1. L \subseteq P /\ a \notin L
    BY <1>1
  <2>2. IsFiniteSet(L) /\ IsFiniteSet(S) /\ Cardinality(L) \in Nat
    BY <1>2, <2>1, FS_Subset, FS_CardinalityType
  <2>3. ASSUME L \subseteq S
        PROVE  Cardinality(L) < Cardinality(S)
    BY <1>3, <2>1, <2>2, <2>3, FS_Subset, FS_CardinalityType
  <2> QED
    BY <2>2, <2>3 DEF Rank
<1>4. ASSUME NEW c \in P
      PROVE  Rank(P, c) \in Nat /\ Rank(P, c) < Cardinality(P)
  BY <1>3
<1>5. ASSUME NEW a \in P, NEW b \in P, a < b
      PROVE  Rank(P, a) < Rank(P, b)
  <2> DEFINE S == {x \in P : x < b}
  <2>1. S \in SUBSET P /\ a \in S
    BY <1>5
  <2>2. {x \in P : x < a} \subseteq S
    BY <1>1, <1>5
  <2>3. Rank(P, a) < Cardinality(S)
    BY <1>3, <2>1, <2>2
  <2> QED
    BY <2>3 DEF Rank
<1> QED
  BY <1>2, <1>4, <1>5

(* Ranks tell names apart. *)
LEMMA RankIsStrict ==
    ASSUME NEW P \in SUBSET Names, NEW a \in P, NEW b \in P
    PROVE  /\ Rank(P, a) < Rank(P, b) <=> a < b
           /\ Rank(P, a) <= Rank(P, b) <=> a <= b
<1>1. a \in Nat /\ b \in Nat /\ Rank(P, a) \in Nat /\ Rank(P, b) \in Nat
  BY RankOrder, Constants DEF Names
<1>2. (a < b => Rank(P, a) < Rank(P, b)) /\ (b < a => Rank(P, b) < Rank(P, a))
  BY RankOrder
<1>3. a = b => Rank(P, a) = Rank(P, b)
  OBVIOUS
<1> QED
  BY <1>1, <1>2, <1>3

(* checkDirPosition: the names before the position that is found again by the last name. *)
LEMMA RankUpto ==
    ASSUME NEW P \in SUBSET Names, NEW m \in 0..N
    PROVE  LET k == Cardinality({x \in P : x <= m})
           IN  /\ k \in Nat /\ k <= Cardinality(P)
               /\ \A c \in P : Rank(P, c) < k <=> c <= m
<1> DEFINE U == {x \in P : x <= m}
           k == Cardinality(U)
<1>1. \A n \in Names : n \in Nat
  BY Constants DEF Names
<1>2. IsFiniteSet(P) /\ Cardinality(P) \in Nat /\ m \in Nat
  BY RankOrder, Constants
<1>3. U \in SUBSET P /\ IsFiniteSet(U) /\ k \in Nat /\ k <= Cardinality(P)
  <2>1. U \in SUBSET P
    OBVIOUS
  <2> QED
    BY <1>2, <2>1, FS_Subset, FS_CardinalityType
<1>4. ASSUME NEW c \in P
      PROVE  Rank(P, c) < k <=> c <= m
  <2> DEFINE L == {x \in P : x < c}
  <2>1. Rank(P, c) = Cardinality(L) /\ Cardinality(L) \in Nat /\ IsFiniteSet(L)
    <3>1. L \subseteq P
      OBVIOUS
    <3> QED
      BY <1>2, <3>1, FS_Subset, FS_CardinalityType DEF Rank
  <2>2. c \in Nat /\ \A x \in P : x \in Nat
    BY <1>1
  <2>3. CASE c <= m
    <3>1. L \subseteq U /\ c \in U /\ c \notin L
      <4>1. ASSUME NEW x \in P, x < c
            PROVE  x <= m
        BY <1>2, <2>2, <2>3, <4>1
      <4>2. ~(c < c)
        BY <2>2
      <4> QED
        BY <2>3, <4>1, <4>2
    <3> QED
      BY <1>3, <2>1, <2>3, <3>1, FS_Subset
  <2>4. CASE ~(c <= m)
    <3>1. U \subseteq L
      <4>1. ASSUME NEW x \in P, x <= m
            PROVE  x < c
        BY <1>2, <2>2, <2>4, <4>1
      <4> QED
        BY <4>1
    <3>2. k <= Cardinality(L)
      BY <2>1, <3>1, FS_Subset
    <3> QED
      BY <1>3, <2>1, <2>4, <3>2
  <2> QED
    BY <2>3, <2>4
<1> QED
  BY <1>3, <1>4

(* Names that come after all others leave the ranks alone. *)
LEMMA RankAppended ==
    ASSUME NEW P \in SUBSET Names, NEW Q \in SUBSET Names, P \subseteq Q,
           \A n \in Q \ P, c \in P : ~(n < c)
    PROVE  /\ Cardinality(P) <= Cardinality(Q)
           /\ \A c \in P : Rank(Q, c) = Rank(P, c)
           /\ \A c \in Q \ P : Cardinality(P) <= Rank(Q, c)
<1>1. \A n \in Names : n \in Nat
  BY Constants DEF Names
<1>2. IsFiniteSet(P) /\ IsFiniteSet(Q) /\ Cardinality(P) \in Nat /\ Cardinality(Q) \in Nat
  BY RankOrder
<1>3. Cardinality(P) <= Cardinality(Q)
  BY <1>2, FS_Subset
<1>4. ASSUME NEW c \in P
      PROVE  Rank(Q, c) = Rank(P, c)
  <2>1. {x \in Q : x < c} = {x \in P : x < c}
    BY <1>4
  <2> QED
    BY <2>1 DEF Rank
<1>5. ASSUME NEW c \in Q \ P
      PROVE  Cardinality(P) <= Rank(Q, c)
  <2> DEFINE L == {x \in Q : x < c}
  <2>1. ASSUME NEW x \in P
        PROVE  x < c
    <3>1. ~(c < x) /\ c # x
      BY <1>5, <2>1
    <3> QED
      BY <1>1, <1>5, <2>1, <3>1
  <2>2. P \subseteq L /\ L \subseteq Q
    BY <2>1
  <2>3. IsFiniteSet(L)
    BY <1>2, <2>2, FS_Subset
  <2> QED
    BY <2>2, <2>3, FS_Subset DEF Rank
<1> QED
  BY <1>3, <1>4, <1>5

\* Where a handle stands.
SamePlace(g, h) == g.idx = h.idx /\ g.name = h.name /\ g.got = h.got /\ g.twice = h.twice

(* A handle that loads, or waits, where it stood. *)
LEMMA PlaceKept ==
    ASSUME NEW P, NEW g, NEW h, PositionInv(P, h), Reads(h), SamePlace(g, h), g.pc # "entry"
    PROVE  PositionInv(P, g)
BY DEF PositionInv, Reads, SamePlace

\* A removal, or an insertion before another name.
Moved(P, Q) == P \ Q # {} \/ \E n \in Q \ P, c \in P : n < c

(* The fields of a handle after a change of the children. *)
LEMMA RepositionedFields ==
    ASSUME NEW hs, HandlesOK(hs), NEW r \in Readers, NEW old, NEW new
    PROVE  LET g == Repositioned(hs, old, new)[r]
               h == hs[r]
           IN  /\ g \in HandleRec
               /\ ~Reads(h) => g = h
               /\ /\ g.pc = h.pc /\ g.name = h.name /\ g.entry = h.entry /\ g.must = h.must
                  /\ g.twice = h.twice /\ g.whole = h.whole
                  /\ g.start = h.start /\ g.loaded = h.loaded /\ g.done = h.done
               /\ Reads(h) =>
                    /\ g.got = h.got \ (Present(new) \ Present(old))
                    /\ Moved(Present(old), Present(new)) => g.idx = -1
                    /\ ~Moved(Present(old), Present(new)) => g.idx = h.idx
<1> DEFINE P == Present(old)
           Q == Present(new)
           moved == P \ Q # {} \/ \E n \in Q \ P, c \in P : n < c
           h == hs[r]
<1>1. h \in HandleRec
  BY DEF HandlesOK
<1>2. Repositioned(hs, old, new)[r] \in HandleRec
  BY RepositionedFacts DEF HandlesOK
<1>3. Repositioned(hs, old, new)[r] =
        IF h.pc \in {"closed", "ended"} THEN h
        ELSE [h EXCEPT !.idx = IF moved THEN -1 ELSE @, !.got = @ \ (Q \ P)]
  BY DEF Repositioned
<1>4. PICK i : i = IF moved THEN -1 ELSE h.idx
  OBVIOUS
<1>5. PICK s : s = h.got \ (Q \ P)
  OBVIOUS
<1>6. CASE ~Reads(h)
  BY <1>2, <1>3, <1>6 DEF Reads
<1>7. CASE Reads(h)
  <2>1. Repositioned(hs, old, new)[r] = [h EXCEPT !.idx = i, !.got = s]
    BY <1>3, <1>4, <1>5, <1>7 DEF Reads
  <2>2. moved <=> Moved(P, Q)
    BY DEF Moved
  <2>3. (moved => i = -1) /\ (~moved => i = h.idx)
    BY <1>4
  <2> HIDE DEF moved, P, Q, h
  <2>4. LET g == [h EXCEPT !.idx = i, !.got = s]
        IN  /\ g.pc = h.pc /\ g.name = h.name /\ g.entry = h.entry /\ g.must = h.must
            /\ g.twice = h.twice /\ g.whole = h.whole
            /\ g.start = h.start /\ g.loaded = h.loaded /\ g.done = h.done
            /\ g.idx = i /\ g.got = s
    BY <1>1 DEF HandleRec
  <2> QED
    BY <1>2, <1>5, <1>7, <2>1, <2>2, <2>3, <2>4 DEF P, Q, h
<1> QED
  BY <1>6, <1>7

(* A change of the children: positions are invalidated, or stay right. *)
LEMMA RepositionedPosition ==
    ASSUME NEW hs, HandlesOK(hs), NEW r \in Readers, NEW old, NEW new,
           PositionInv(Present(old), hs[r])
    PROVE  PositionInv(Present(new), Repositioned(hs, old, new)[r])
<1> DEFINE P == Present(old)
           Q == Present(new)
           h == hs[r]
           g == Repositioned(hs, old, new)[r]
<1>1. P \in SUBSET Names /\ Q \in SUBSET Names
  BY DEF Present
<1>2. /\ ~Reads(h) => g = h
      /\ g.pc = h.pc /\ g.name = h.name /\ g.entry = h.entry /\ g.twice = h.twice
      /\ Reads(h) => /\ g.got = h.got \ (Q \ P)
                     /\ Moved(P, Q) => g.idx = -1
                     /\ ~Moved(P, Q) => g.idx = h.idx
  BY RepositionedFields
<1>3. h.idx \in Int
  BY Constants DEF HandlesOK, HandleRec
<1>4. PositionInv(P, h)
  OBVIOUS
<1> SUFFICES PositionInv(Q, g)
  OBVIOUS
<1> HIDE DEF P, Q, h, g
<1>5. CASE ~Reads(h)
  BY <1>2, <1>4, <1>5 DEF PositionInv
<1>6. CASE Reads(h) /\ Moved(P, Q)
  <2>1. ~(g.idx >= 0)
    BY <1>2, <1>6
  <2>2. \A c \in Q : c \in g.got => c \in P /\ c \in h.got
    BY <1>2, <1>6
  <2>3. g.entry \notin h.got => g.entry \notin g.got
    BY <1>2, <1>6
  <2> QED
    BY <1>2, <1>4, <1>6, <2>1, <2>2, <2>3 DEF PositionInv, Reads
<1>7. CASE Reads(h) /\ ~Moved(P, Q)
  <2>1. P \subseteq Q /\ \A n \in Q \ P, c \in P : ~(n < c)
    BY <1>7 DEF Moved
  <2>2. /\ Cardinality(P) <= Cardinality(Q)
        /\ \A c \in P : Rank(Q, c) = Rank(P, c)
        /\ \A c \in Q \ P : Cardinality(P) <= Rank(Q, c)
    BY <1>1, <2>1, RankAppended
  <2>3. /\ Cardinality(P) \in Nat /\ Cardinality(Q) \in Nat /\ \A c \in Q : Rank(Q, c) \in Nat
    BY <1>1, RankOrder
  <2>4. \A c \in Q : c \in g.got => c \in P /\ c \in h.got
    BY <1>2, <1>7
  <2>5. g.idx = h.idx
    BY <1>2, <1>7
  <2>6. ASSUME g.idx >= 0
        PROVE  /\ g.idx <= Cardinality(Q)
               /\ \A c \in Q : Rank(Q, c) < g.idx => c <= g.name
    <3>1. h.idx <= Cardinality(P)
      BY <1>4, <1>7, <2>5, <2>6 DEF PositionInv
    <3>2. g.idx <= Cardinality(Q)
      BY <1>3, <2>2, <2>3, <2>5, <3>1
    <3>3. ASSUME NEW c \in Q, Rank(Q, c) < g.idx
          PROVE  c \in P
      BY <1>3, <2>2, <2>3, <2>5, <3>1, <3>3
    <3> QED
      BY <1>2, <1>4, <1>7, <2>2, <2>5, <2>6, <3>2, <3>3 DEF PositionInv
  <2>7. \A c \in Q : c \in g.got => c <= g.name /\ (g.idx >= 0 => Rank(Q, c) < g.idx)
    BY <1>2, <1>4, <1>7, <2>2, <2>4, <2>5 DEF PositionInv
  <2>8. g.entry \notin h.got => g.entry \notin g.got
    BY <1>2, <1>7
  <2>9. g.pc = "entry" =>
              /\ g.entry \notin g.got /\ \A c \in Q : c \in g.got => c < g.entry
              /\ g.idx >= 0 => g.entry \in Q /\ Rank(Q, g.entry) = g.idx
    BY <1>2, <1>4, <1>7, <2>1, <2>2, <2>4, <2>5, <2>8 DEF PositionInv
  <2> QED
    BY <1>2, <1>4, <2>6, <2>7, <2>9 DEF PositionInv
<1> QED
  BY <1>5, <1>6, <1>7

(* checkDirPosition. *)
LEMMA PositionFound ==
    ASSUME NEW ch, NEW h \in HandleRec, PositionInv(Present(ch), h), Reads(h), NEW g,
           g.idx = Position(ch, h), g.name = h.name, g.got = h.got, g.twice = h.twice, g.pc # "entry"
    PROVE  PositionInv(Present(ch), g) /\ g.idx >= 0 /\ g.idx <= Cardinality(Present(ch))
<1> DEFINE P == Present(ch)
           k == Cardinality({x \in P : x <= h.name})
<1>1. P \in SUBSET Names /\ h.name \in 0..N /\ h.idx \in Int
  BY Constants DEF Present, HandleRec
<1>2. CASE h.idx >= 0
  <2>1. SamePlace(g, h)
    BY <1>2 DEF Position, SamePlace
  <2> QED
    BY <1>2, <2>1, PlaceKept DEF PositionInv, SamePlace
<1>3. CASE ~(h.idx >= 0)
  <2>1. g.idx = k
    BY <1>3 DEF Position
  <2>2. /\ k \in Nat /\ k <= Cardinality(P)
        /\ \A c \in P : Rank(P, c) < k <=> c <= h.name
    BY <1>1, RankUpto
  <2> HIDE DEF P, k
  <2>3. g.idx >= 0
    BY <2>1, <2>2
  <2>4. PositionInv(P, h)
    BY DEF P
  <2> QED
    BY <2>1, <2>2, <2>3, <2>4 DEF PositionInv, P
<1> QED
  BY <1>2, <1>3

\* While the reader has not passed the end of an incomplete listing: what it must return and
\* the position has passed was returned and is still there.
MustInv(P, h) ==
    /\ Reads(h) /\ h.whole # "no" =>
         \A n \in h.must :
            /\ n \in h.got \/ h.whole = "yes" => n \in P
            /\ n <= h.name => n \in h.got
            /\ h.pc = "entry" => (n < h.entry => n \in h.got) /\ (n = h.entry => n \in P)
    /\ h.pc = "ended" /\ h.whole = "yes" => h.must = {}

(* A change of the children that keeps what must be returned. *)
LEMMA RepositionedMust ==
    ASSUME NEW hs, HandlesOK(hs), NEW r \in Readers, NEW old, NEW new,
           MustInv(Present(old), hs[r]),
           Reads(hs[r]) => \A n \in hs[r].must : n \in Present(old) => n \in Present(new)
    PROVE  MustInv(Present(new), Repositioned(hs, old, new)[r])
<1> DEFINE P == Present(old)
           Q == Present(new)
           h == hs[r]
           g == Repositioned(hs, old, new)[r]
<1>1. /\ ~Reads(h) => g = h
      /\ g.pc = h.pc /\ g.name = h.name /\ g.entry = h.entry /\ g.must = h.must /\ g.whole = h.whole
      /\ Reads(h) => g.got = h.got \ (Q \ P)
  BY RepositionedFields
<1>2. MustInv(P, h) /\ (Reads(h) => \A n \in h.must : n \in P => n \in Q)
  OBVIOUS
<1> SUFFICES MustInv(Q, g)
  OBVIOUS
<1> HIDE DEF P, Q, h, g
<1>3. CASE ~Reads(h)
  BY <1>1, <1>2, <1>3 DEF MustInv
<1>4. CASE Reads(h)
  <2>1. Reads(g) /\ g.pc # "ended"
    BY <1>1, <1>4 DEF Reads
  <2>2. ASSUME g.whole # "no", NEW n \in g.must
        PROVE  /\ n \in g.got \/ g.whole = "yes" => n \in Q
               /\ n <= g.name => n \in g.got
               /\ g.pc = "entry" => (n < g.entry => n \in g.got) /\ (n = g.entry => n \in Q)
    <3>1. /\ n \in h.got \/ h.whole = "yes" => n \in P
          /\ n <= h.name => n \in h.got
          /\ h.pc = "entry" => (n < h.entry => n \in h.got) /\ (n = h.entry => n \in P)
      BY <1>1, <1>2, <1>4, <2>2 DEF MustInv
    <3>2. n \in P => n \in Q
      BY <1>1, <1>2, <1>4, <2>2
    <3>3. n \in g.got <=> n \in h.got
      BY <1>1, <1>4, <3>1
    <3> QED
      BY <1>1, <3>1, <3>2, <3>3
  <2> QED
    BY <2>1, <2>2 DEF MustInv
<1> QED
  BY <1>3, <1>4

(* A handle that loads, or waits, where it stood. *)
LEMMA MustKept ==
    ASSUME NEW P, NEW g, NEW h, MustInv(P, h), Reads(h), g.name = h.name, g.got = h.got,
           g.must = h.must, g.whole = h.whole, g.pc \notin {"entry", "ended"}
    PROVE  MustInv(P, g)
BY DEF MustInv, Reads

\* What the end of ReadDir does to the handle h: e is delivered, or the directory has ended.
Delivered(g, h, d, i, e) ==
    /\ g.pc = "entry" /\ g.idx = i /\ g.entry = e /\ g.whole = Met(h, d, e > d.last)
    /\ g.name = h.name /\ g.got = h.got /\ g.must = h.must /\ g.twice = h.twice
Ended(g, h, d) ==
    g.pc = "ended" /\ g.must = h.must \ h.got /\ g.twice = h.twice /\ g.whole = Met(h, d, TRUE)

(* The end of ReadDir, field by field. *)
LEMMA ServeFields ==
    ASSUME NEW r \in Readers, NEW ch, NEW d \in DirRec, NEW hs, HandlesOK(hs), Serve(r, ch, d, hs)
    PROVE  /\ child' = ch
           /\ \A o \in Readers : o # r => handle'[o] = hs[o]
           /\ LET i == Position(ch, hs[r])
              IN  IF i >= Cardinality(Present(ch))
                  THEN Ended(handle'[r], hs[r], d) /\ dir'.last = d.last /\ dir'.marker = d.marker
                  ELSE /\ Delivered(handle'[r], hs[r], d, i, ChildAt(ch, i))
                       /\ dir'.last \in {0, d.last} /\ dir'.marker = d.marker
<1> DEFINE i == Position(ch, hs[r])
           e == ChildAt(ch, i)
           h == hs[r]
<1>1. hs \in [Readers -> HandleRec] /\ h \in HandleRec
  BY DEF HandlesOK
<1>2. CASE i >= Cardinality(Present(ch))
  <2> DEFINE m == h.must \ h.got
             w == Met(h, d, TRUE)
             b == h.twice
             g == [Closed EXCEPT !.pc = "ended", !.must = m, !.twice = b, !.whole = w]
             v == d.valid /\ ~d.forget
  <2>1. /\ dir' = [d EXCEPT !.done = FALSE, !.valid = v]
        /\ Becomes(ch, [hs EXCEPT ![r] = g])
    BY <1>2 DEF Serve
  <2>2. g.pc = "ended" /\ g.must = m /\ g.twice = b /\ g.whole = w
    <3> HIDE DEF m, w, b
    <3> QED
      BY DEF Closed, NewHandle
  <2>3. dir'.last = d.last /\ dir'.marker = d.marker
    <3> HIDE DEF v
    <3> QED
      BY <2>1 DEF DirRec
  <2> HIDE DEF g
  <2>4. child' = ch /\ handle' = [hs EXCEPT ![r] = g]
    BY <2>1 DEF Becomes
  <2>5. handle'[r] = g /\ \A o \in Readers : o # r => handle'[o] = hs[o]
    BY <1>1, <2>4
  <2> QED
    BY <1>2, <2>2, <2>3, <2>4, <2>5 DEF Ended
<1>3. CASE ~(i >= Cardinality(Present(ch)))
  <2> DEFINE w == Met(h, d, e > d.last)
             g == [Served(h) EXCEPT !.pc = "entry", !.idx = i, !.entry = e, !.whole = w]
             k == IF d.last = e THEN 0 ELSE d.last
  <2>1. /\ dir' = [d EXCEPT !.last = k]
        /\ Becomes(ch, [hs EXCEPT ![r] = g])
    BY <1>1, <1>3 DEF Serve
  <2>2. /\ g.pc = "entry" /\ g.idx = i /\ g.entry = e /\ g.whole = w
        /\ g.name = h.name /\ g.got = h.got /\ g.must = h.must /\ g.twice = h.twice
    <3> HIDE DEF i, e, w, h
    <3> QED
      BY <1>1 DEF Served, HandleRec
  <2>3. dir'.last = k /\ k \in {0, d.last} /\ dir'.marker = d.marker
    <3>1. k \in {0, d.last}
      OBVIOUS
    <3> HIDE DEF k
    <3> QED
      BY <2>1, <3>1 DEF DirRec
  <2> HIDE DEF g
  <2>4. child' = ch /\ handle' = [hs EXCEPT ![r] = g]
    BY <2>1 DEF Becomes
  <2>5. handle'[r] = g /\ \A o \in Readers : o # r => handle'[o] = hs[o]
    BY <1>1, <2>4
  <2> QED
    BY <1>3, <2>2, <2>3, <2>4, <2>5 DEF Delivered
<1> QED
  BY <1>2, <1>3

(* What the end of ReadDir leaves alone. *)
LEMMA ServeRest ==
    ASSUME NEW r \in Readers, NEW ch, NEW d \in DirRec, NEW hs, HandlesOK(hs), Serve(r, ch, d, hs)
    PROVE  /\ child' = ch
           /\ \A o \in Readers : o # r => handle'[o] = hs[o]
           /\ handle'[r].must \subseteq hs[r].must
           /\ dir'.last \in {0, d.last} /\ dir'.marker = d.marker
<1>1. CASE Position(ch, hs[r]) >= Cardinality(Present(ch))
  <2>1. /\ child' = ch /\ \A o \in Readers : o # r => handle'[o] = hs[o]
        /\ Ended(handle'[r], hs[r], d) /\ dir'.last = d.last /\ dir'.marker = d.marker
    BY <1>1, ServeFields
  <2> QED
    BY <2>1 DEF Ended
<1>2. CASE ~(Position(ch, hs[r]) >= Cardinality(Present(ch)))
  <2>1. PICK i : i = Position(ch, hs[r])
    OBVIOUS
  <2>2. /\ child' = ch /\ \A o \in Readers : o # r => handle'[o] = hs[o]
        /\ Delivered(handle'[r], hs[r], d, i, ChildAt(ch, i))
        /\ dir'.last \in {0, d.last} /\ dir'.marker = d.marker
    BY <1>2, <2>1, ServeFields
  <2> QED
    BY <2>2 DEF Delivered
<1> QED
  BY <1>1, <1>2

(* The end of ReadDir keeps the position: the entry at the position was not returned yet. *)
LEMMA ServePosition ==
    ASSUME NEW r \in Readers, NEW ch, NEW d \in DirRec, NEW hs, HandlesOK(hs), Serve(r, ch, d, hs),
           Reads(hs[r]), hs[r].pc # "entry", PositionInv(Present(ch), hs[r])
    PROVE  PositionInv(Present(ch), handle'[r])
<1> DEFINE i == Position(ch, hs[r])
           e == ChildAt(ch, i)
           h == hs[r]
           h0 == [h EXCEPT !.idx = i]
           P == Present(ch)
           g == handle'[r]
<1>1. h \in HandleRec /\ P \in SUBSET Names
  BY DEF HandlesOK, Present
<1>2. h0.idx = i /\ h0.name = h.name /\ h0.got = h.got /\ h0.twice = h.twice /\ h0.pc = h.pc
  <2> HIDE DEF i, h
  <2> QED
    BY <1>1 DEF HandleRec
<1> HIDE DEF h0
<1>3. PositionInv(P, h0) /\ i >= 0 /\ i <= Cardinality(P)
  BY <1>1, <1>2, PositionFound
<1>4. i \in 0..N
  BY <1>1, PositionType
<1>5. CASE i >= Cardinality(P)
  <2>1. Ended(g, h, d)
    BY <1>5, ServeFields
  <2> QED
    BY <2>1 DEF Ended, PositionInv, Reads
<1>6. CASE ~(i >= Cardinality(P))
  <2>1. Delivered(g, h, d, i, e)
    BY <1>6, ServeFields
  <2>2. Cardinality(P) \in Nat /\ i \in Nat /\ i < Cardinality(P)
    BY <1>1, <1>4, <1>6, RankOrder
  <2>3. e \in P /\ Rank(P, e) = i
    BY <2>2, ChildAtPosition DEF Rank
  <2> SUFFICES PositionInv(P, g)
    OBVIOUS
  <2> HIDE DEF i, e, h, P, g
  <2>4. /\ \A c \in P : c \in g.got => c <= g.name /\ Rank(P, c) < i
        /\ \A c \in P : Rank(P, c) < i => c <= g.name
        /\ ~g.twice
    BY <1>2, <1>3, <2>1 DEF PositionInv, Reads, Delivered, h
  <2>5. ASSUME NEW c \in P, c \in g.got
        PROVE  c < e
    BY <1>1, <2>3, <2>4, <2>5, RankIsStrict
  <2>6. e \notin g.got
    BY <1>1, <2>3, <2>4, RankOrder
  <2> QED
    BY <1>3, <2>1, <2>2, <2>3, <2>4, <2>5, <2>6 DEF PositionInv, Delivered
<1> QED
  BY <1>5, <1>6

(* The end of ReadDir passes over nothing that must be returned. *)
LEMMA ServeMust ==
    ASSUME NEW r \in Readers, NEW ch, NEW d \in DirRec, NEW hs, HandlesOK(hs), Serve(r, ch, d, hs),
           Reads(hs[r]), hs[r].pc # "entry", PositionInv(Present(ch), hs[r]), MustInv(Present(ch), hs[r]),
           \A n \in hs[r].must : d.valid \/ d.done \/ n <= d.last => n \in Present(ch)
    PROVE  MustInv(Present(ch), handle'[r])
<1> DEFINE i == Position(ch, hs[r])
           e == ChildAt(ch, i)
           h == hs[r]
           h0 == [h EXCEPT !.idx = i]
           P == Present(ch)
           g == handle'[r]
<1>1. /\ h \in HandleRec /\ P \in SUBSET Names /\ d.last \in Nat /\ h.must \subseteq Names
      /\ \A n \in Names : n \in Nat
  BY Constants DEF HandlesOK, Present, DirRec, HandleRec, Names
<1>2. h0.idx = i /\ h0.name = h.name /\ h0.got = h.got /\ h0.twice = h.twice /\ h0.pc = h.pc
  <2> HIDE DEF i, h
  <2> QED
    BY <1>1 DEF HandleRec
<1> HIDE DEF h0
<1>3. PositionInv(P, h0) /\ i >= 0 /\ i <= Cardinality(P)
  BY <1>1, <1>2, PositionFound
<1>4. i \in 0..N
  BY <1>1, PositionType
<1>5. \A c \in P : Rank(P, c) < i => c <= h.name
  BY <1>2, <1>3 DEF PositionInv, Reads
<1>6. h.whole # "no" =>
        \A n \in h.must : /\ n \in h.got \/ h.whole = "yes" => n \in P
                          /\ n <= h.name => n \in h.got
  BY DEF MustInv
<1>7. \A n \in h.must : d.valid \/ d.done \/ n <= d.last => n \in P
  OBVIOUS
<1>8. CASE i >= Cardinality(P)
  <2>1. Ended(g, h, d)
    BY <1>8, ServeFields
  <2> SUFFICES ASSUME g.whole = "yes" PROVE g.must = {}
    BY <2>1 DEF Ended, MustInv, Reads
  <2>2. h.whole # "no" /\ \A n \in h.must : n \in P
    BY <1>6, <1>7, <2>1 DEF Ended, Met
  <2>3. ASSUME NEW n \in h.must
        PROVE  n \in h.got
    <3>1. Rank(P, n) \in Nat /\ Rank(P, n) < Cardinality(P) /\ Cardinality(P) \in Nat
      BY <1>1, <2>2, RankOrder
    <3>2. Rank(P, n) < i
      BY <1>4, <1>8, <3>1
    <3> QED
      BY <1>5, <1>6, <2>2, <3>2
  <2> QED
    BY <2>1, <2>3 DEF Ended
<1>9. CASE ~(i >= Cardinality(P))
  <2>1. Delivered(g, h, d, i, e)
    BY <1>9, ServeFields
  <2>2. Cardinality(P) \in Nat /\ i \in Nat /\ i < Cardinality(P)
    BY <1>1, <1>4, <1>9, RankOrder
  <2>3. e \in P /\ Rank(P, e) = i
    BY <2>2, ChildAtPosition DEF Rank
  <2> SUFFICES MustInv(P, g)
    OBVIOUS
  <2> HIDE DEF i, e, h, P, g
  <2>4. ASSUME g.whole # "no"
        PROVE  /\ h.whole # "no"
               /\ g.whole = "yes" => h.whole = "yes" \/ d.valid \/ d.done
               /\ g.whole # "yes" => ~(e > d.last)
    <3>1. h.whole \in {"partly", "yes", "no"}
      BY <1>1 DEF HandleRec
    <3> QED
      BY <2>1, <2>4, <3>1 DEF Delivered, Met
  <2>5. ASSUME g.whole # "no", NEW n \in g.must
        PROVE  /\ n \in g.got \/ g.whole = "yes" => n \in P
               /\ n <= g.name => n \in g.got
               /\ n < g.entry => n \in g.got
               /\ n = g.entry => n \in P
    <3>1. n \in h.must /\ n \in Nat /\ e \in Nat
      BY <1>1, <2>1, <2>3, <2>5 DEF Delivered
    <3>2. n \in g.got \/ g.whole = "yes" => n \in P
      BY <1>6, <1>7, <2>1, <2>4, <2>5, <3>1 DEF Delivered
    <3>3. n <= g.name => n \in g.got
      BY <1>6, <2>1, <2>4, <2>5, <3>1 DEF Delivered
    <3>4. ASSUME n < e
          PROVE  n \in g.got
      <4>1. CASE g.whole = "yes"
        BY <3>2, <4>1, <3>4, <1>1, <2>3, <1>5, <3>3, <2>1, RankIsStrict DEF Delivered
      <4>2. CASE g.whole # "yes"
        <5>1. n <= d.last
          BY <1>1, <2>4, <2>5, <3>1, <3>4, <4>2
        <5>2. n \in P
          BY <1>7, <3>1, <5>1
        <5> QED
          BY <5>2, <3>4, <1>1, <2>3, <1>5, <3>3, <2>1, RankIsStrict DEF Delivered
      <4> QED
        BY <4>1, <4>2
    <3> QED
      BY <2>1, <2>3, <3>2, <3>3, <3>4 DEF Delivered
  <2> QED
    BY <2>1, <2>5 DEF MustInv, Delivered
<1> QED
  BY <1>8, <1>9

(* Next counts on from the entry that was delivered. *)
LEMMA AdvancePosition ==
    ASSUME NEW r \in Readers, NEW P \in SUBSET Names, handle \in [Readers -> HandleRec], Advance(r),
           PositionInv(P, handle[r]), handle[r].entry \in Names
    PROVE  /\ PositionInv(P, handle'[r])
           /\ MustInv(P, handle[r]) => MustInv(P, handle'[r])
           /\ handle'[r].must = handle[r].must
           /\ \A o \in Readers : o # r => handle'[o] = handle[o]
<1> DEFINE h == handle[r]
           i == IF h.idx >= 0 THEN h.idx + 1 ELSE h.idx
           s == h.got \cup {h.entry}
           b == h.twice \/ h.entry \in h.got
           e == h.entry
           g == [h EXCEPT !.pc = "idle", !.idx = i, !.name = e, !.entry = 0, !.got = s, !.twice = b]
<1>1. h \in HandleRec /\ h.pc = "entry" /\ handle' = [handle EXCEPT ![r] = g]
  BY DEF Advance
<1>2. /\ g.pc = "idle" /\ g.idx = i /\ g.name = e /\ g.got = s /\ g.twice = b
      /\ g.must = h.must /\ g.whole = h.whole
  <2> HIDE DEF i, s, b, e, h
  <2> QED
    BY <1>1 DEF HandleRec
<1> HIDE DEF g
<1>3. handle'[r] = g /\ \A o \in Readers : o # r => handle'[o] = handle[o]
  BY <1>1
<1>4. h.idx \in Int /\ e \in Nat /\ \A c \in P : c \in Nat /\ Rank(P, c) \in Nat
  <2>1. h.idx \in Int /\ \A c \in Names : c \in Nat
    BY <1>1, Constants DEF HandleRec, Names
  <2>2. \A c \in P : Rank(P, c) \in Nat
    BY RankOrder
  <2> QED
    BY <2>1, <2>2
<1>5. PositionInv(P, h)
  OBVIOUS
<1> HIDE DEF h
<1>6. /\ ~h.twice /\ e \notin h.got /\ \A c \in P : c \in h.got => c < e
      /\ h.idx >= 0 => /\ e \in P /\ Rank(P, e) = h.idx
                       /\ \A c \in P : c \in h.got => Rank(P, c) < h.idx
  BY <1>1, <1>5 DEF PositionInv, Reads
<1>7. PositionInv(P, g)
  <2>1. ~g.twice
    BY <1>2, <1>6
  <2>2. \A c \in P : c \in g.got => c <= e
    BY <1>2, <1>4, <1>6
  <2>3. ASSUME g.idx >= 0
        PROVE  /\ g.idx <= Cardinality(P)
               /\ \A c \in P : c \in g.got => Rank(P, c) < g.idx
               /\ \A c \in P : Rank(P, c) < g.idx => c <= e
    <3>1. h.idx >= 0 /\ g.idx = h.idx + 1
      BY <1>2, <1>4, <2>3
    <3>2. e \in P /\ Rank(P, e) = h.idx /\ Rank(P, e) < Cardinality(P) /\ Cardinality(P) \in Nat
      BY <1>6, <3>1, RankOrder
    <3>3. g.idx <= Cardinality(P)
      BY <1>4, <3>1, <3>2
    <3>4. ASSUME NEW c \in P, c \in g.got
          PROVE  Rank(P, c) < g.idx
      <4>1. c \in h.got \/ c = e
        BY <1>2, <3>4
      <4> QED
        BY <1>4, <1>6, <3>1, <3>2, <4>1
    <3>5. ASSUME NEW c \in P, Rank(P, c) < g.idx
          PROVE  c <= e
      <4>1. Rank(P, c) <= Rank(P, e)
        BY <1>4, <3>1, <3>2, <3>5
      <4> QED
        BY <3>2, <4>1, RankIsStrict
    <3> QED
      BY <3>3, <3>4, <3>5
  <2> QED
    BY <1>2, <2>1, <2>2, <2>3 DEF PositionInv
<1>8. ASSUME MustInv(P, h)
      PROVE  MustInv(P, g)
  <2>1. ASSUME g.whole # "no", NEW n \in g.must
        PROVE  /\ n \in g.got \/ g.whole = "yes" => n \in P
               /\ n <= g.name => n \in g.got
    <3>1. /\ n \in h.got \/ h.whole = "yes" => n \in P
          /\ (n < e => n \in h.got) /\ (n = e => n \in P)
      BY <1>1, <1>2, <1>8, <2>1 DEF MustInv, Reads
    <3>2. n \in Nat
      BY <1>1, <1>2, <2>1, Constants DEF HandleRec, Names
    <3>3. n <= e => n < e \/ n = e
      BY <1>4, <3>2
    <3> QED
      BY <1>2, <3>1, <3>3
  <2> QED
    BY <1>2, <2>1 DEF MustInv
<1> QED
  BY <1>2, <1>3, <1>7, <1>8 DEF h
----------------------------------------------------------------------------
(* The positions through the steps of the readers *)

\* A name that a reader can rely on: one of this mount's files, or one that other clients
\* left alone.
Lasts(n) == (n \in Own /\ last[n] # 0) \/ (n \in quiet /\ bucket[n] # 0)

StandInv(ch, hs) == \A o \in Readers : PositionInv(Present(ch), hs[o])
OweInv(ch, hs) == \A o \in Readers : MustInv(Present(ch), hs[o])
LastsInv == \A r \in Readers : Reads(handle[r]) => \A n \in handle[r].must : Lasts(n)
DirLast == dir.last <= dir.marker

\* What the readers rely on, on top of ListInv.
OwedInv == OweInv(child, handle) /\ LastsInv /\ DirLast

(* A safe name that must be returned is in the cache and survives removeExpired. *)
LEMMA LastsKept ==
    ASSUME NEW n \in Names, Lasts(n), Safe(n)
    PROVE  Kept(n) /\ n \in Present(child)
BY DEF Lasts, Safe, Kept, Present

\* The names that d promises are in ch, and survive removeExpired.
Promises(d, ch, n) ==
    d.valid \/ d.done \/ n <= d.last => ch[n].st # "none" /\ (ch[n].st = "cached" => ch[n].fresh)

(* removeExpired in the loop of loadListing drops nothing that is promised. *)
LEMMA PromiseKept ==
    ASSUME NEW ch \in [Names -> ChildRec], NEW d \in DirRec, NEW from, NEW n \in Names, Promises(d, ch, n),
           ~(d.last = 0 /\ ~d.done)
    PROVE  /\ RemoveExpired(ch, d, from)[n] = ch[n]
           /\ n \in Present(ch) <=> n \in Present(RemoveExpired(ch, d, from))
<1>1. n \in Nat /\ d.last \in Nat
  BY Constants DEF Names, DirRec
<1>2. RemoveExpired(ch, d, from)[n] = ch[n]
  <2>1. ASSUME d.last # 0 => n < d.last, ch[n].st = "cached", ~ch[n].fresh
        PROVE  FALSE
    BY <1>1, <2>1 DEF Promises
  <2> QED
    BY <2>1 DEF RemoveExpired
<1> QED
  BY <1>2 DEF Present

(* The loop of loadListing and the end of ReadDir keep the positions. *)
LEMMA LoadStands ==
    ASSUME NEW r \in Readers, NEW ch \in [Names -> ChildRec], NEW d \in DirRec, NEW hs, HandlesOK(hs),
           Reads(hs[r]), hs[r].pc # "entry", Load(r, ch, d, hs), StandInv(ch, hs)
    PROVE  /\ StandInv(child, handle)'
           /\ \A o \in Readers : /\ handle'[o].must \subseteq hs[o].must
                                 /\ Reads(handle'[o]) => Reads(hs[o])
<1>1. hs \in [Readers -> HandleRec]
  BY DEF HandlesOK
<1>2. CASE d.last = 0 /\ ~d.done
  <2> DEFINE g == [hs[r] EXCEPT !.pc = "list"]
  <2>1. child' = ch /\ handle' = [hs EXCEPT ![r] = g]
    BY <1>1, <1>2 DEF Load, Becomes
  <2>2. SamePlace(g, hs[r]) /\ g.pc = "list" /\ g.must = hs[r].must
    <3>1. hs[r] \in HandleRec
      BY <1>1
    <3> QED
      BY <3>1 DEF SamePlace, HandleRec
  <2> HIDE DEF g
  <2>3. PositionInv(Present(ch), g)
    BY <2>2, PlaceKept DEF StandInv
  <2>4. handle'[r] = g /\ \A o \in Readers : o # r => handle'[o] = hs[o]
    BY <1>1, <2>1
  <2> QED
    BY <2>1, <2>2, <2>3, <2>4 DEF StandInv
<1>3. CASE ~(d.last = 0 /\ ~d.done)
  <2>1. PICK kept : /\ kept = (IF hs[r].loaded \/ d.done THEN RemoveExpired(ch, d, hs[r].start) ELSE ch)
                    /\ Serve(r, kept, d, Repositioned(hs, ch, kept))
    BY <1>3 DEF Load
  <2> DEFINE hs2 == Repositioned(hs, ch, kept)
  <2>2. HandlesOK(hs2)
    BY RepositionedFacts
  <2>3. \A o \in Readers : /\ PositionInv(Present(kept), hs2[o])
                           /\ hs2[o].pc = hs[o].pc /\ hs2[o].must = hs[o].must
    BY RepositionedPosition, RepositionedFields DEF StandInv
  <2>4. Reads(hs2[r]) /\ hs2[r].pc # "entry"
    BY <2>3 DEF Reads
  <2> HIDE DEF hs2
  <2>5. Serve(r, kept, d, hs2)
    BY <2>1 DEF hs2
  <2>6. PositionInv(Present(kept), handle'[r])
    BY <2>2, <2>3, <2>4, <2>5, ServePosition
  <2>7. child' = kept /\ \A o \in Readers : o # r => handle'[o] = hs2[o]
    <3>1. /\ child' = kept
          /\ \A o \in Readers : o # r => handle'[o] = hs2[o]
          /\ handle'[r].must \subseteq hs2[r].must
          /\ dir'.last \in {0, d.last} /\ dir'.marker = d.marker
      BY <2>2, <2>5, ServeRest
    <3> QED
      BY <3>1
  <2>8. handle'[r].must \subseteq hs2[r].must
    BY <2>2, <2>5, ServeRest
  <2> QED
    BY <2>3, <2>4, <2>6, <2>7, <2>8 DEF StandInv, Reads
<1> QED
  BY <1>2, <1>3

(* The same for what must be returned: all that is promised is still there. *)
LEMMA LoadOwes ==
    ASSUME NEW r \in Readers, NEW ch \in [Names -> ChildRec], NEW d \in DirRec, NEW hs, HandlesOK(hs),
           Reads(hs[r]), hs[r].pc # "entry", Load(r, ch, d, hs), StandInv(ch, hs), OweInv(ch, hs),
           \A o \in Readers : Reads(hs[o]) => \A n \in hs[o].must : Promises(d, ch, n),
           d.last <= d.marker
    PROVE  OweInv(child, handle)' /\ DirLast'
<1>1. hs \in [Readers -> HandleRec] /\ d.last \in Nat /\ d.marker \in Nat
  BY Constants DEF HandlesOK, DirRec
<1>2. CASE d.last = 0 /\ ~d.done
  <2> DEFINE g == [hs[r] EXCEPT !.pc = "list"]
  <2>1. child' = ch /\ handle' = [hs EXCEPT ![r] = g] /\ dir' = d
    BY <1>1, <1>2 DEF Load, Becomes
  <2>2. /\ g.name = hs[r].name /\ g.got = hs[r].got /\ g.must = hs[r].must /\ g.whole = hs[r].whole
        /\ g.pc = "list"
    <3>1. hs[r] \in HandleRec
      BY <1>1
    <3> QED
      BY <3>1 DEF HandleRec
  <2> HIDE DEF g
  <2>3. MustInv(Present(ch), g)
    BY <2>2, MustKept DEF OweInv
  <2>4. handle'[r] = g /\ \A o \in Readers : o # r => handle'[o] = hs[o]
    BY <1>1, <2>1
  <2> QED
    BY <2>1, <2>3, <2>4 DEF OweInv, DirLast
<1>3. CASE ~(d.last = 0 /\ ~d.done)
  <2>1. PICK kept : /\ kept = (IF hs[r].loaded \/ d.done THEN RemoveExpired(ch, d, hs[r].start) ELSE ch)
                    /\ Serve(r, kept, d, Repositioned(hs, ch, kept))
    BY <1>3 DEF Load
  <2> DEFINE hs2 == Repositioned(hs, ch, kept)
  <2>2. HandlesOK(hs2)
    BY RepositionedFacts
  <2>3. ASSUME NEW o \in Readers, Reads(hs[o]), NEW n \in hs[o].must
        PROVE  n \in Names /\ kept[n] = ch[n] /\ (n \in Present(ch) <=> n \in Present(kept))
    <3>1. n \in Names
      BY <1>1, <2>3 DEF HandleRec
    <3>2. Promises(d, ch, n)
      BY <2>3
    <3>3. CASE kept = ch
      BY <3>1, <3>3
    <3>4. CASE kept = RemoveExpired(ch, d, hs[r].start)
      BY <1>3, <3>1, <3>2, <3>4, PromiseKept
    <3> QED
      BY <2>1, <3>3, <3>4
  <2>4. \A o \in Readers : /\ PositionInv(Present(kept), hs2[o])
                           /\ hs2[o].pc = hs[o].pc /\ hs2[o].must = hs[o].must
    BY RepositionedPosition, RepositionedFields DEF StandInv
  <2>5. \A o \in Readers : MustInv(Present(kept), hs2[o])
    BY <2>3, RepositionedMust DEF OweInv
  <2>6. Reads(hs2[r]) /\ hs2[r].pc # "entry"
    BY <2>4 DEF Reads
  <2> HIDE DEF hs2
  <2>7. Serve(r, kept, d, hs2)
    BY <2>1 DEF hs2
  <2>8. ASSUME NEW n \in hs2[r].must, d.valid \/ d.done \/ n <= d.last
        PROVE  n \in Present(kept)
    <3>1. n \in hs[r].must
      BY <2>4, <2>8
    <3>2. n \in Names /\ kept[n] = ch[n] /\ ch[n].st # "none"
      BY <2>3, <2>8, <3>1 DEF Promises
    <3> QED
      BY <3>2 DEF Present
  <2>9. MustInv(Present(kept), handle'[r])
    BY <2>2, <2>4, <2>5, <2>6, <2>7, <2>8, ServeMust
  <2>10. child' = kept /\ \A o \in Readers : o # r => handle'[o] = hs2[o]
    <3>1. /\ child' = kept
          /\ \A o \in Readers : o # r => handle'[o] = hs2[o]
          /\ handle'[r].must \subseteq hs2[r].must
          /\ dir'.last \in {0, d.last} /\ dir'.marker = d.marker
      BY <2>2, <2>7, ServeRest
    <3> QED
      BY <3>1
  <2>11. dir'.last \in {0, d.last} /\ dir'.marker = d.marker
    BY <2>2, <2>7, ServeRest
  <2> QED
    BY <1>1, <2>5, <2>9, <2>10, <2>11 DEF OweInv, DirLast
<1> QED
  BY <1>2, <1>3

(* What must be returned lasts while nobody changes it. *)
LEMMA LastsStep ==
    ASSUME LastsInv, UNCHANGED <<bucket, last>>, quiet \subseteq quiet',
           \A o \in Readers : Reads(handle'[o]) => Reads(handle[o]) /\ handle'[o].must \subseteq handle[o].must
    PROVE  LastsInv'
BY DEF LastsInv, Lasts

\* The handle of r waits at its place, and nothing else that matters here changes.
Waits(r) ==
    /\ child' = child /\ \A o \in Readers : o # r => handle'[o] = handle[o]
    /\ Reads(handle[r]) /\ SamePlace(handle'[r], handle[r]) /\ handle'[r].pc \notin {"entry", "ended"}
    /\ handle'[r].must = handle[r].must /\ handle'[r].whole = handle[r].whole
    /\ UNCHANGED <<bucket, last, quiet>> /\ dir'.last = dir.last /\ dir'.marker = dir.marker

(* A handle that waits keeps all that is said of it. *)
LEMMA WaitsKeeps ==
    ASSUME NEW r \in Readers, Waits(r), StandInv(child, handle)
    PROVE  StandInv(child, handle)' /\ (OwedInv => OwedInv')
<1>1. \A o \in Readers : PositionInv(Present(child), handle'[o])
  BY PlaceKept DEF Waits, StandInv
<1>2. ASSUME OwedInv
      PROVE  OwedInv'
  <2>1. MustInv(Present(child), handle[r])
    BY <1>2 DEF OwedInv, OweInv
  <2>2. MustInv(Present(child), handle'[r])
    BY <2>1, MustKept DEF Waits, SamePlace
  <2>3. OweInv(child, handle)'
    BY <1>2, <2>2 DEF OwedInv, OweInv, Waits
  <2>4. LastsInv'
    BY <1>2, LastsStep DEF OwedInv, Waits
  <2> QED
    BY <1>2, <2>3, <2>4 DEF OwedInv, DirLast, Waits
<1> QED
  BY <1>1, <1>2 DEF StandInv, Waits

(* listObjectsFlat sends its request, a listing fails, the kernel's buffer is full. *)
LEMMA WaitingSteps ==
    ASSUME MirrorInv, NEW r \in Readers, listObjectsFlat(r) \/ ListFails(r) \/ BufferFull(r)
    PROVE  Waits(r)
<1>1. handle \in [Readers -> HandleRec] /\ handle[r] \in HandleRec
  BY ReaderFacts
<1>2. ASSUME NEW g, handle' = [handle EXCEPT ![r] = g], UNCHANGED <<child, dir, bucket, last, quiet>>,
             Reads(handle[r]), SamePlace(g, handle[r]), g.pc \notin {"entry", "ended"},
             g.must = handle[r].must, g.whole = handle[r].whole
      PROVE  Waits(r)
  BY <1>1, <1>2 DEF Waits
<1>3. CASE listObjectsFlat(r)
  <2>1. PICK k : k = IF handle[r].loaded THEN handle[r].start ELSE dir.marker
    OBVIOUS
  <2> DEFINE g == [handle[r] EXCEPT !.pc = "flat", !.loaded = TRUE, !.start = k]
  <2>2. handle' = [handle EXCEPT ![r] = g] /\ Reads(handle[r])
    BY <1>1, <1>3, <2>1 DEF listObjectsFlat, Reads
  <2>3. SamePlace(g, handle[r]) /\ g.pc = "flat" /\ g.must = handle[r].must /\ g.whole = handle[r].whole
    BY <1>1 DEF SamePlace, HandleRec
  <2> HIDE DEF g
  <2>4. UNCHANGED <<child, dir, bucket, last, quiet>>
    BY <1>3 DEF listObjectsFlat, cache, jobs
  <2> QED
    BY <1>2, <2>2, <2>3, <2>4
<1>4. CASE ListFails(r)
  <2> DEFINE g == [handle[r] EXCEPT !.pc = "idle", !.start = 0, !.loaded = FALSE, !.done = FALSE]
  <2>1. [Served(handle[r]) EXCEPT !.pc = "idle"] = g
    BY <1>1 DEF Served, HandleRec
  <2>2. handle' = [handle EXCEPT ![r] = g] /\ Reads(handle[r])
    BY <1>1, <1>4, <2>1 DEF ListFails, Reads
  <2>3. SamePlace(g, handle[r]) /\ g.pc = "idle" /\ g.must = handle[r].must /\ g.whole = handle[r].whole
    BY <1>1 DEF SamePlace, HandleRec
  <2> HIDE DEF g
  <2>4. UNCHANGED <<child, dir, bucket, last, quiet>>
    BY <1>4 DEF ListFails, cache, jobs
  <2> QED
    BY <1>2, <2>2, <2>3, <2>4
<1>5. CASE BufferFull(r)
  <2> DEFINE g == [handle[r] EXCEPT !.pc = "idle", !.entry = 0]
  <2>2. handle' = [handle EXCEPT ![r] = g] /\ Reads(handle[r])
    BY <1>1, <1>5 DEF BufferFull, Reads
  <2>3. SamePlace(g, handle[r]) /\ g.pc = "idle" /\ g.must = handle[r].must /\ g.whole = handle[r].whole
    BY <1>1 DEF SamePlace, HandleRec
  <2> HIDE DEF g
  <2>4. UNCHANGED <<child, dir, bucket, last, quiet>>
    BY <1>5 DEF BufferFull, cache, jobs
  <2> QED
    BY <1>2, <2>2, <2>3, <2>4
<1> QED
  BY <1>3, <1>4, <1>5

(* opendir, closedir and Next. *)
LEMMA HandleMoves ==
    ASSUME MirrorInv, NEW r \in Readers, OpenDir(r) \/ CloseDir(r) \/ Advance(r), StandInv(child, handle)
    PROVE  StandInv(child, handle)' /\ (OwedInv => OwedInv')
<1>1. /\ handle \in [Readers -> HandleRec] /\ handle[r] \in HandleRec
      /\ Present(child) \in SUBSET Names /\ \A n \in Names : ~(n <= 0)
  <2>1. handle \in [Readers -> HandleRec] /\ handle[r] \in HandleRec
    BY ReaderFacts
  <2>2. Present(child) \in SUBSET Names
    BY DEF Present
  <2>3. \A n \in Names : ~(n <= 0)
    BY Constants DEF Names
  <2> QED
    BY <2>1, <2>2, <2>3
<1>2. /\ UNCHANGED <<child, dir, bucket, last, quiet>>
  BY DEF OpenDir, CloseDir, Advance, cache, jobs
<1>3. CASE OpenDir(r)
  <2> DEFINE m == {n \in Own : last[n] # 0} \cup {n \in quiet : bucket[n] # 0}
             g == [NewHandle EXCEPT !.must = m]
  <2>1. handle' = [handle EXCEPT ![r] = g]
    BY <1>3 DEF OpenDir
  <2>2. /\ g.pc = "idle" /\ g.idx = 0 /\ g.name = 0 /\ g.got = {} /\ g.twice = FALSE /\ g.must = m
        /\ g.whole = "partly"
    <3> HIDE DEF m
    <3> QED
      BY DEF NewHandle
  <2> HIDE DEF g
  <2>3. handle'[r] = g /\ \A o \in Readers : o # r => handle'[o] = handle[o]
    BY <1>1, <2>1
  <2>4. PositionInv(Present(child), g)
    <3>1. ASSUME NEW c \in Present(child)
          PROVE  ~(Rank(Present(child), c) < 0)
      <4>1. Rank(Present(child), c) \in Nat
        BY <1>1, RankOrder
      <4> QED
        BY <4>1
    <3>2. 0 <= Cardinality(Present(child))
      BY <1>1, RankOrder
    <3> QED
      BY <2>2, <3>1, <3>2 DEF PositionInv
  <2>5. MustInv(Present(child), g)
    <3>1. \A n \in m : ~(n <= 0)
      <4>1. m \subseteq Names
        BY Constants, ReaderFacts DEF Own
      <4> QED
        BY <1>1, <4>1
    <3> HIDE DEF m
    <3> QED
      BY <2>2, <3>1 DEF MustInv
  <2>6. \A n \in g.must : Lasts(n)
    BY <2>2 DEF Lasts
  <2> QED
    BY <1>2, <2>3, <2>4, <2>5, <2>6 DEF StandInv, OwedInv, OweInv, LastsInv, Lasts, DirLast
<1>4. CASE CloseDir(r)
  <2>1. handle' = [handle EXCEPT ![r] = Closed]
    BY <1>4 DEF CloseDir
  <2>2. Closed.pc = "closed" /\ Closed.twice = FALSE
    BY DEF Closed, NewHandle
  <2>3. handle'[r] = Closed /\ \A o \in Readers : o # r => handle'[o] = handle[o]
    BY <1>1, <2>1
  <2>4. PositionInv(Present(child), Closed) /\ MustInv(Present(child), Closed) /\ ~Reads(Closed)
    BY <2>2 DEF PositionInv, MustInv, Reads
  <2> QED
    BY <1>2, <2>3, <2>4 DEF StandInv, OwedInv, OweInv, LastsInv, Lasts, DirLast
<1>5. CASE Advance(r)
  <2>1. handle[r].entry \in Names /\ Reads(handle[r])
    BY <1>5, ReaderFacts DEF HandlesOK, Advance, Reads
  <2>2. PICK P \in SUBSET Names : P = Present(child)
    BY <1>1
  <2>3. PositionInv(P, handle[r])
    BY <2>2 DEF StandInv
  <2>4. /\ PositionInv(P, handle'[r])
        /\ MustInv(P, handle[r]) => MustInv(P, handle'[r])
        /\ handle'[r].must = handle[r].must
        /\ \A o \in Readers : o # r => handle'[o] = handle[o]
    BY <1>1, <1>5, <2>1, <2>3, AdvancePosition
  <2> QED
    BY <1>2, <2>1, <2>2, <2>4 DEF StandInv, OwedInv, OweInv, LastsInv, Lasts, DirLast
<1> QED
  BY <1>3, <1>4, <1>5

(* A page removes nothing. *)
LEMMA AppliedKeeps ==
    ASSUME TypeInv, NEW p \in Procs, NEW n \in Present(child)
    PROVE  n \in Present(Applied(child, request[p]))
<1>1. /\ n \in Names /\ child[n].st # "none" /\ child[n] \in ChildRec /\ child \in [Names -> ChildRec]
      /\ deleted[n] \in BOOLEAN /\ request[p] \in RequestRec
  BY DEF TypeInv, StoreTypes, ThreadTypes, Present
<1>2. CASE n \in DOMAIN request[p].items /\ n \notin request[p].skip
  <2>1. ShownAs(child[n], Applied(child, request[p])[n], deleted[n], request[p].items[n])
    BY <1>1, <1>2, AppliedFacts
  <2>2. request[p].items[n] \in Contents
    BY <1>1, <1>2, ItemContents
  <2>3. ShownRec(child[n], Applied(child, request[p])[n], deleted[n], request[p].items[n])
    BY <1>1, <2>1, <2>2, ShownFields
  <2> QED
    BY <1>1, <2>3 DEF ShownRec, Present
<1>3. CASE ~(n \in DOMAIN request[p].items /\ n \notin request[p].skip)
  <2>1. Applied(child, request[p])[n] = child[n]
    BY <1>1, <1>3, AppliedFacts
  <2> QED
    BY <1>1, <2>1 DEF Present
<1> QED
  BY <1>2, <1>3

\* A page is applied for r: the children become all, then ch.
Pages(r, all, ch) ==
    /\ child' = ch /\ all = Applied(child, request[r])
    /\ \E g : /\ handle' = [Repositioned(Repositioned(handle, child, all), all, ch) EXCEPT ![r] = g]
              /\ LET h == Repositioned(Repositioned(handle, child, all), all, ch)[r]
                 IN  SamePlace(g, h) /\ g.must = h.must /\ g.whole = h.whole /\ g.pc = "loaded"
    /\ Reads(handle[r]) /\ handle[r].pc # "entry"
    /\ UNCHANGED <<bucket, last, quiet>>
    /\ \/ ch = all /\ (dir.last <= dir.marker => dir'.last <= dir'.marker)
       \/ dir'.valid /\ dir'.last = 0 /\ dir'.marker = 0

(* The positions after a page. *)
LEMMA PageStands ==
    ASSUME MirrorInv, NEW r \in Readers, NEW all, NEW ch, Pages(r, all, ch), StandInv(child, handle)
    PROVE  /\ StandInv(child, handle)'
           /\ OwedInv /\ ListInv' => OwedInv'
<1>1. HandlesOK(handle) /\ r \in Procs /\ TypeInv
  BY ReaderFacts DEF MirrorInv
<1>2. PICK h1 : h1 = Repositioned(handle, child, all)
  OBVIOUS
<1>3. PICK h2 : h2 = Repositioned(h1, all, ch)
  OBVIOUS
<1>4. HandlesOK(h1) /\ HandlesOK(h2) /\ h2 \in [Readers -> HandleRec]
  BY <1>1, <1>2, <1>3, RepositionedFacts DEF HandlesOK
<1>5. PICK g : /\ handle' = [h2 EXCEPT ![r] = g]
               /\ SamePlace(g, h2[r]) /\ g.must = h2[r].must /\ g.whole = h2[r].whole /\ g.pc = "loaded"
  BY <1>2, <1>3 DEF Pages
<1>6. handle'[r] = g /\ \A o \in Readers : o # r => handle'[o] = h2[o]
  BY <1>4, <1>5
<1>7. \A o \in Readers : /\ h1[o].pc = handle[o].pc /\ h1[o].must = handle[o].must
                         /\ PositionInv(Present(all), h1[o])
  BY <1>1, <1>2, RepositionedFields, RepositionedPosition DEF StandInv
<1>8. \A o \in Readers : /\ h2[o].pc = handle[o].pc /\ h2[o].must = handle[o].must
                         /\ PositionInv(Present(ch), h2[o])
  <2>1. \A o \in Readers : h2[o].pc = h1[o].pc /\ h2[o].must = h1[o].must
    BY <1>3, <1>4, RepositionedFields
  <2>2. \A o \in Readers : PositionInv(Present(ch), h2[o])
    BY <1>3, <1>4, <1>7, RepositionedPosition
  <2> QED
    BY <1>7, <2>1, <2>2
<1>9. Reads(h2[r])
  BY <1>8 DEF Pages, Reads
<1>10. PositionInv(Present(ch), g)
  BY <1>5, <1>8, <1>9, PlaceKept
<1>11. \A o \in Readers : (Reads(handle'[o]) => Reads(handle[o])) /\ handle'[o].must = handle[o].must
  BY <1>5, <1>6, <1>8 DEF Pages, Reads
<1>12. ASSUME OwedInv, ListInv'
       PROVE  OwedInv'
  <2>1. LastsInv'
    BY <1>11, <1>12, LastsStep DEF OwedInv, Pages
  <2>2. ASSUME NEW o \in Readers, Reads(handle[o]), NEW n \in handle[o].must
        PROVE  /\ n \in Present(child) => n \in Present(all)
               /\ n \in Present(all) => n \in Present(ch)
    <3>1. n \in Present(child) => n \in Present(all)
      BY <1>1, AppliedKeeps DEF Pages
    <3>2. CASE ch = all
      BY <3>1, <3>2
    <3>3. CASE dir'.valid
      <4>1. n \in Names
        BY <1>1, <2>2 DEF HandlesOK, HandleRec
      <4>2. Lasts(n)
        BY <1>12, <2>2 DEF OwedInv, LastsInv
      <4>3. Lasts(n)'
        BY <4>2 DEF Lasts, Pages
      <4>4. Safe(n)'
        BY <1>12, <3>3, <4>1 DEF ListInv, NameInv, RefreshInv, Reached
      <4>5. child'[n].st # "none"
        BY <4>3, <4>4 DEF Lasts, Safe, Kept
      <4>6. n \in Present(ch)
        BY <4>1, <4>5 DEF Present, Pages
      <4> QED
        BY <3>1, <4>6
    <3> QED
      BY <3>2, <3>3 DEF Pages
  <2>3. \A o \in Readers : MustInv(Present(all), h1[o])
    BY <1>1, <1>2, <1>12, <2>2, RepositionedMust DEF OwedInv, OweInv
  <2>4. ASSUME NEW o \in Readers
        PROVE  MustInv(Present(ch), h2[o])
    <3>1. Reads(h1[o]) => Reads(handle[o])
      BY <1>7 DEF Reads
    <3>2. Reads(h1[o]) => \A n \in h1[o].must : n \in Present(all) => n \in Present(ch)
      BY <1>7, <2>2, <3>1
    <3>3. MustInv(Present(all), h1[o])
      BY <2>3
    <3> QED
      BY <1>3, <1>4, <3>2, <3>3, RepositionedMust
  <2>5. MustInv(Present(ch), g)
    <3>1. MustInv(Present(ch), h2[r])
      BY <2>4
    <3>2. g.name = h2[r].name /\ g.got = h2[r].got /\ g.pc \notin {"entry", "ended"}
      BY <1>5 DEF SamePlace
    <3> QED
      BY <1>5, <1>9, <3>1, <3>2, MustKept
  <2>6. OweInv(child, handle)'
    BY <1>6, <2>4, <2>5 DEF OweInv, Pages
  <2>7. DirLast'
    BY <1>12 DEF OwedInv, DirLast, Pages
  <2> QED
    BY <2>1, <2>6, <2>7 DEF OwedInv
<1>13. StandInv(child, handle)'
  BY <1>6, <1>8, <1>10 DEF StandInv, Pages
<1> QED
  BY <1>12, <1>13

(* slurpOnce. *)
LEMMA SlurpedPages ==
    ASSUME MirrorInv, NEW r \in Readers, Slurped(r)
    PROVE  \E all, ch : Pages(r, all, ch)
<1>1. /\ child \in [Names -> ChildRec] /\ dir \in DirRec /\ HandlesOK(handle)
      /\ r \in Procs /\ request[r] \in RequestRec
  BY ReaderFacts
<1>2. PICK all, d, ch :
          /\ all = Applied(child, request[r])
          /\ d = IF request[r].more THEN dir ELSE Sealed(dir)
          /\ ch = IF request[r].more THEN all ELSE RemoveExpired(all, d, 0)
          /\ dir' = d
          /\ Becomes(ch, [Repositioned(Repositioned(handle, child, all), all, ch)
                              EXCEPT ![r].pc = "loaded", ![r].done = ~request[r].more])
  BY DEF Slurped
<1>3. PICK h2 : h2 = Repositioned(Repositioned(handle, child, all), all, ch)
  OBVIOUS
<1>4. HandlesOK(h2)
  BY <1>1, <1>3, RepositionedFacts
<1>5. h2[r] \in HandleRec /\ h2 \in [Readers -> HandleRec]
  BY <1>4 DEF HandlesOK
<1>6. PICK b : b = ~request[r].more
  OBVIOUS
<1> DEFINE g == [h2[r] EXCEPT !.pc = "loaded", !.done = b]
<1>7. child' = ch /\ handle' = [h2 EXCEPT ![r] = g]
  BY <1>2, <1>3, <1>5, <1>6 DEF Becomes
<1>8. SamePlace(g, h2[r]) /\ g.must = h2[r].must /\ g.whole = h2[r].whole /\ g.pc = "loaded"
  BY <1>5 DEF SamePlace, HandleRec
<1> HIDE DEF g
<1>9. handle[r].pc = "slurp" /\ UNCHANGED <<bucket, last, quiet>>
  BY DEF Slurped, jobs
<1>10. \/ ch = all /\ (dir.last <= dir.marker => dir'.last <= dir'.marker)
       \/ dir'.valid /\ dir'.last = 0 /\ dir'.marker = 0
  <2>1. CASE request[r].more
    BY <1>2, <2>1
  <2>2. CASE ~request[r].more
    <3>1. dir' = Sealed(dir)
      BY <1>2, <2>2
    <3> QED
      BY <1>1, <3>1, SealedFacts
  <2> QED
    BY <2>1, <2>2
<1>11. Pages(r, all, ch)
  BY <1>2, <1>3, <1>7, <1>8, <1>9, <1>10 DEF Pages, Reads
<1> QED
  BY <1>11

(* A page of listObjectsFlat: lastFromCloud stays behind the marker. *)
LEMMA ListedPages ==
    ASSUME MirrorInv, NEW r \in Readers, Listed(r)
    PROVE  \E all, ch : Pages(r, all, ch)
<1>1. /\ child \in [Names -> ChildRec] /\ dir \in DirRec /\ HandlesOK(handle)
      /\ r \in Procs /\ request[r] \in RequestRec
  BY ReaderFacts
<1> DEFINE items == DOMAIN request[r].items
           shown == items \ request[r].skip
           passed == [dir EXCEPT !.last = Max({@} \cup shown)]
<1>2. PICK all, d, ch :
          /\ all = Applied(child, request[r])
          /\ d = IF request[r].more THEN [passed EXCEPT !.marker = Max({@} \cup items)] ELSE Sealed(passed)
          /\ ch = IF request[r].more THEN all ELSE RemoveExpired(all, d, 0)
          /\ dir' = d
          /\ Becomes(ch, [Repositioned(Repositioned(handle, child, all), all, ch) EXCEPT ![r].pc = "loaded"])
  BY DEF Listed
<1>3. PICK h2 : h2 = Repositioned(Repositioned(handle, child, all), all, ch)
  OBVIOUS
<1>4. HandlesOK(h2)
  BY <1>1, <1>3, RepositionedFacts
<1>5. h2[r] \in HandleRec /\ h2 \in [Readers -> HandleRec]
  BY <1>4 DEF HandlesOK
<1> DEFINE g == [h2[r] EXCEPT !.pc = "loaded"]
<1>6. child' = ch /\ handle' = [h2 EXCEPT ![r] = g]
  BY <1>2, <1>3, <1>5 DEF Becomes
<1>7. SamePlace(g, h2[r]) /\ g.must = h2[r].must /\ g.whole = h2[r].whole /\ g.pc = "loaded"
  BY <1>5 DEF SamePlace, HandleRec
<1> HIDE DEF g
<1>8. handle[r].pc = "flat" /\ UNCHANGED <<bucket, last, quiet>>
  BY DEF Listed, jobs
<1>9. items \subseteq 0..N /\ dir.last \in 0..N /\ dir.marker \in 0..N /\ N \in Nat
  <2>1. ASSUME NEW n \in items
        PROVE  n \in 0..N
    <3>1. n \in Names
      BY <1>1, ItemContents
    <3> QED
      BY <3>1, Constants DEF Names
  <2> QED
    BY <1>1, <2>1, Constants DEF DirRec
<1>10. PICK j \in 0..N : j = Max({dir.last} \cup shown) /\ j \in {dir.last} \cup shown
  <2>1. {dir.last} \cup shown \in SUBSET (0..N)
    BY <1>9
  <2> QED
    BY <2>1, MaxOfNames
<1>11. PICK k \in 0..N : k = Max({dir.marker} \cup items) /\ \A y \in {dir.marker} \cup items : y <= k
  <2>1. {dir.marker} \cup items \in SUBSET (0..N)
    BY <1>9
  <2> QED
    BY <2>1, MaxOfNames
<1>12. passed = [dir EXCEPT !.last = j] /\ passed \in DirRec /\ passed.marker = dir.marker /\ passed.last = j
  <2>1. passed = [dir EXCEPT !.last = j]
    BY <1>10
  <2> QED
    BY <1>1, <2>1 DEF DirRec
<1>13. \/ ch = all /\ (dir.last <= dir.marker => dir'.last <= dir'.marker)
       \/ dir'.valid /\ dir'.last = 0 /\ dir'.marker = 0
  <2>1. CASE request[r].more
    <3>1. ch = all
      BY <1>2, <2>1
    <3>2. dir' = [passed EXCEPT !.marker = k]
      BY <1>2, <1>11, <1>12, <2>1
    <3> HIDE DEF passed
    <3>3. dir'.last = j /\ dir'.marker = k
      BY <1>12, <3>2 DEF DirRec
    <3>4. dir.last <= dir.marker => j <= k
      <4>1. CASE j = dir.last
        BY <1>9, <1>11, <4>1
      <4>2. CASE j \in items
        BY <1>11, <4>2
      <4> QED
        BY <1>10, <4>1, <4>2
    <3> QED
      BY <3>1, <3>3, <3>4
  <2>2. CASE ~request[r].more
    <3>1. dir' = Sealed(passed)
      BY <1>2, <2>2
    <3> QED
      BY <1>1, <1>12, <3>1, SealedFacts
  <2> QED
    BY <2>1, <2>2
<1>14. Pages(r, all, ch)
  BY <1>2, <1>3, <1>6, <1>7, <1>8, <1>13 DEF Pages, Reads
<1> QED
  BY <1>14

(* What must be returned is there as far as the directory promises it. *)
LEMMA PromisesHold ==
    ASSUME ListInv, LastsInv, DirLast, NEW o \in Readers, Reads(handle[o]), NEW n \in handle[o].must
    PROVE  /\ n \in Names /\ Lasts(n) /\ Promises(dir, child, n)
           /\ (\E r \in Readers : handle[r].done) => Kept(n) /\ n \in Present(child)
<1>1. n \in Names /\ n \in Nat /\ dir.last \in Nat /\ dir.marker \in Nat
  <2>1. handle \in [Readers -> HandleRec] /\ dir \in DirRec
    BY DEF ListInv, TypeInv, StoreTypes, ThreadTypes, HandlesOK
  <2>2. handle[o].must \subseteq Names
    BY <2>1 DEF HandleRec
  <2>3. \A m \in Names : m \in Nat
    BY Constants DEF Names
  <2>4. dir.last \in Nat /\ dir.marker \in Nat
    BY <2>1, Constants DEF DirRec
  <2> QED
    BY <2>2, <2>3, <2>4
<1>2. Lasts(n)
  BY DEF LastsInv
<1>3. Reached(n) => Kept(n) /\ n \in Present(child)
  BY <1>1, <1>2, LastsKept DEF ListInv, NameInv, RefreshInv
<1>4. dir.valid \/ dir.done \/ n <= dir.last => Reached(n)
  BY <1>1 DEF DirLast, Reached
<1>5. (\E r \in Readers : handle[r].done) => Reached(n)
  BY DEF Reached
<1> QED
  BY <1>1, <1>2, <1>3, <1>4, <1>5 DEF Promises, Kept

(* loadListing after a page. *)
LEMMA LoadedKeeps ==
    ASSUME MirrorInv, NEW r \in Readers, Loaded(r), StandInv(child, handle)
    PROVE  /\ StandInv(child, handle)'
           /\ ListInv /\ OwedInv => OwedInv'
<1>1. /\ HandlesOK(handle) /\ handle \in [Readers -> HandleRec] /\ handle[r] \in HandleRec
      /\ child \in [Names -> ChildRec] /\ dir \in DirRec
  BY ReaderFacts
<1>2. PICK seal, d, ch :
          /\ seal = (handle[r].done /\ ~dir.done)
          /\ d = IF seal THEN Sealed(dir) ELSE dir
          /\ ch = IF seal THEN RemoveExpired(child, d, 0) ELSE child
          /\ Load(r, ch, d, [Repositioned(handle, child, ch) EXCEPT ![r].done = FALSE])
  BY DEF Loaded
<1>3. handle[r].pc = "loaded" /\ UNCHANGED <<bucket, last, quiet>>
  BY DEF Loaded, jobs
<1>4. d \in DirRec /\ ch \in [Names -> ChildRec]
  BY <1>1, <1>2, SealedFacts, RemoveExpiredFacts
<1>5. PICK h2 : h2 = Repositioned(handle, child, ch)
  OBVIOUS
<1>6. /\ HandlesOK(h2) /\ h2 \in [Readers -> HandleRec] /\ h2[r] \in HandleRec
  BY <1>1, <1>5, RepositionedFacts DEF HandlesOK
<1>7. \A o \in Readers : /\ h2[o].pc = handle[o].pc /\ h2[o].must = handle[o].must
                         /\ PositionInv(Present(ch), h2[o])
  BY <1>1, <1>5, RepositionedFields, RepositionedPosition DEF StandInv
<1> DEFINE g == [h2[r] EXCEPT !.done = FALSE]
           hs == [h2 EXCEPT ![r] = g]
<1>8. Load(r, ch, d, hs)
  BY <1>2, <1>5
<1>9. /\ g \in HandleRec /\ SamePlace(g, h2[r]) /\ g.pc = "loaded" /\ g.must = h2[r].must
      /\ g.whole = h2[r].whole
  BY <1>3, <1>6, <1>7 DEF SamePlace, HandleRec
<1> HIDE DEF g
<1>10. hs[r] = g /\ (\A o \in Readers : o # r => hs[o] = h2[o]) /\ hs \in [Readers -> HandleRec]
  BY <1>6, <1>9
<1> HIDE DEF hs
<1>11. HandlesOK(hs)
  BY <1>6, <1>9, <1>10 DEF HandlesOK
<1>12. Reads(hs[r]) /\ hs[r].pc # "entry" /\ Reads(h2[r])
  BY <1>3, <1>7, <1>9, <1>10 DEF Reads
<1>13. StandInv(ch, hs)
  <2>1. PositionInv(Present(ch), g)
    BY <1>7, <1>9, <1>12, PlaceKept
  <2> QED
    BY <1>7, <1>10, <2>1 DEF StandInv
<1>14. /\ StandInv(child, handle)'
       /\ \A o \in Readers : /\ handle'[o].must \subseteq hs[o].must
                             /\ Reads(handle'[o]) => Reads(hs[o])
  BY <1>4, <1>8, <1>11, <1>12, <1>13, LoadStands
<1>15. \A o \in Readers : hs[o].must = handle[o].must /\ (Reads(hs[o]) => Reads(handle[o]))
  BY <1>3, <1>7, <1>9, <1>10 DEF Reads
<1>16. ASSUME ListInv, OwedInv
       PROVE  OwedInv'
  <2>1. ASSUME NEW o \in Readers, Reads(handle[o]), NEW n \in handle[o].must
        PROVE  Promises(d, ch, n) /\ (n \in Present(child) => n \in Present(ch))
    <3>1. /\ n \in Names /\ Lasts(n) /\ Promises(dir, child, n)
          /\ (\E s \in Readers : handle[s].done) => Kept(n) /\ n \in Present(child)
      BY <1>16, <2>1, PromisesHold DEF OwedInv
    <3>2. CASE ~seal
      BY <1>2, <3>1, <3>2
    <3>3. CASE seal
      <4>1. Kept(n) /\ n \in Present(child)
        BY <1>2, <3>1, <3>3
      <4>2. ch[n] = child[n]
        BY <1>2, <3>1, <3>3, <4>1 DEF RemoveExpired, Kept
      <4> QED
        BY <3>1, <4>1, <4>2 DEF Promises, Kept, Present
    <3> QED
      BY <3>2, <3>3
  <2>2. \A o \in Readers : MustInv(Present(ch), h2[o])
    BY <1>1, <1>5, <1>16, <2>1, RepositionedMust DEF OwedInv, OweInv
  <2>3. MustInv(Present(ch), g)
    <3>1. MustInv(Present(ch), h2[r])
      BY <2>2
    <3>2. g.name = h2[r].name /\ g.got = h2[r].got /\ g.pc \notin {"entry", "ended"}
      BY <1>9 DEF SamePlace
    <3> QED
      BY <1>9, <1>12, <3>1, <3>2, MustKept
  <2>4. OweInv(ch, hs)
    BY <1>10, <2>2, <2>3 DEF OweInv
  <2>5. d.last <= d.marker
    <3>1. CASE ~seal
      BY <1>2, <1>16, <3>1 DEF OwedInv, DirLast
    <3>2. CASE seal
      BY <1>1, <1>2, <3>2, SealedFacts
    <3> QED
      BY <3>1, <3>2
  <2>6. \A o \in Readers : Reads(hs[o]) => \A n \in hs[o].must : Promises(d, ch, n)
    BY <1>15, <2>1
  <2>7. OweInv(child, handle)' /\ DirLast'
    BY <1>4, <1>8, <1>11, <1>12, <1>13, <2>4, <2>5, <2>6, LoadOwes
  <2>8. LastsInv'
    BY <1>3, <1>14, <1>15, <1>16, LastsStep DEF OwedInv
  <2> QED
    BY <2>7, <2>8 DEF OwedInv
<1> QED
  BY <1>14, <1>16

(* A refresh shows the same names. *)
LEMMA StartedPresent ==
    ASSUME child \in [Names -> ChildRec]
    PROVE  Present(Started(child)) = Present(child)
<1>1. ASSUME NEW n \in Names
      PROVE  Started(child)[n].st = child[n].st
  <2>1. child[n] \in ChildRec
    OBVIOUS
  <2>2. Started(child)[n] = [child[n] EXCEPT !.fresh = FALSE]
    BY DEF Started
  <2> QED
    BY <2>1, <2>2 DEF ChildRec
<1> QED
  BY <1>1 DEF Present

(* ReadDir: an answer from the cache, the next page, or a new refresh. *)
LEMMA ReadDirKeeps ==
    ASSUME MirrorInv, NEW r \in Readers, ReadDir(r), StandInv(child, handle)
    PROVE  /\ StandInv(child, handle)'
           /\ ListInv /\ OwedInv => OwedInv'
<1>1. /\ HandlesOK(handle) /\ handle \in [Readers -> HandleRec] /\ handle[r] \in HandleRec
      /\ child \in [Names -> ChildRec] /\ dir \in DirRec /\ quiet \subseteq Remote
  BY ReaderFacts
<1>2. PICK k \in 0..N : k = Position(child, handle[r])
  BY <1>1, PositionType
<1>3. handle[r].pc = "idle" /\ Reads(handle[r]) /\ UNCHANGED <<bucket, last>>
  BY DEF ReadDir, jobs, Reads
<1> DEFINE g == [handle[r] EXCEPT !.idx = k]
           hs == [handle EXCEPT ![r] = g]
<1>4. /\ g \in HandleRec /\ g.idx = k /\ g.name = handle[r].name /\ g.got = handle[r].got
      /\ g.twice = handle[r].twice /\ g.pc = "idle" /\ g.must = handle[r].must
      /\ g.whole = handle[r].whole
  <2>1. k \in -1..N
    BY Constants
  <2> QED
    BY <1>1, <1>3, <2>1 DEF HandleRec
<1> HIDE DEF g
<1>5. hs[r] = g /\ (\A o \in Readers : o # r => hs[o] = handle[o]) /\ hs \in [Readers -> HandleRec]
  BY <1>1, <1>4
<1>6. [handle EXCEPT ![r].idx = Position(child, handle[r])] = hs
  BY <1>2 DEF g
<1> HIDE DEF hs
<1>7. HandlesOK(hs) /\ Reads(hs[r]) /\ hs[r].pc # "entry" /\ hs[r].pc = "idle"
  BY <1>1, <1>4, <1>5 DEF HandlesOK, Reads
<1>8. StandInv(child, hs)
  <2>1. PositionInv(Present(child), g)
    <3>1. PositionInv(Present(child), handle[r])
      BY DEF StandInv
    <3> QED
      BY <1>1, <1>2, <1>3, <1>4, <3>1, PositionFound
  <2> QED
    BY <1>5, <2>1 DEF StandInv
<1>9. OwedInv => OweInv(child, hs)
  <2>1. ASSUME OwedInv
        PROVE  MustInv(Present(child), g)
    <3>1. MustInv(Present(child), handle[r])
      BY <2>1 DEF OwedInv, OweInv
    <3> QED
      BY <1>3, <1>4, <3>1, MustKept
  <2> QED
    BY <1>5, <2>1 DEF OwedInv, OweInv
<1>10. \A o \in Readers : hs[o].must = handle[o].must /\ (Reads(hs[o]) <=> Reads(handle[o]))
  BY <1>3, <1>4, <1>5, <1>7
<1>11. CASE dir.valid /\ Serve(r, child, dir, hs) /\ quiet' = quiet
  <2>1. /\ child' = child
        /\ \A o \in Readers : o # r => handle'[o] = hs[o]
        /\ handle'[r].must \subseteq hs[r].must
        /\ dir'.last \in {0, dir.last} /\ dir'.marker = dir.marker
    BY <1>1, <1>7, <1>11, ServeRest
  <2>2. PositionInv(Present(child), hs[r])
    BY <1>8 DEF StandInv
  <2>3. PositionInv(Present(child), handle'[r])
    BY <1>1, <1>7, <1>11, <2>2, ServePosition
  <2>4. StandInv(child, handle)'
    BY <1>8, <2>1, <2>3 DEF StandInv
  <2>5. ASSUME ListInv, OwedInv
        PROVE  OwedInv'
    <3>1. \A n \in hs[r].must : dir.valid \/ dir.done \/ n <= dir.last => n \in Present(child)
      <4>1. ASSUME NEW n \in handle[r].must, dir.valid \/ dir.done \/ n <= dir.last
            PROVE  n \in Present(child)
        <5>1. n \in Names /\ Promises(dir, child, n)
          <6>1. /\ n \in Names /\ Lasts(n) /\ Promises(dir, child, n)
                /\ (\E s \in Readers : handle[s].done) => Kept(n) /\ n \in Present(child)
            BY <1>3, <2>5, PromisesHold DEF OwedInv
          <6> QED
            BY <6>1
        <5> QED
          BY <4>1, <5>1 DEF Promises, Present
      <4> QED
        BY <1>10, <4>1
    <3>2. MustInv(Present(child), hs[r])
      BY <1>9, <2>5 DEF OweInv
    <3>3. MustInv(Present(child), handle'[r])
      BY <1>1, <1>7, <1>11, <2>2, <3>1, <3>2, ServeMust
    <3>4. OweInv(child, handle)'
      BY <1>9, <2>1, <2>5, <3>3 DEF OweInv
    <3>5. LastsInv'
      <4>1. \A o \in Readers : Reads(handle'[o]) => Reads(handle[o]) /\ handle'[o].must \subseteq handle[o].must
        BY <1>3, <1>10, <2>1
      <4> QED
        BY <1>3, <1>11, <2>5, <4>1, LastsStep DEF OwedInv
    <3>6. DirLast'
      <4>1. dir.last \in Nat /\ dir.marker \in Nat
        BY <1>1, Constants DEF DirRec
      <4> QED
        BY <2>1, <2>5, <4>1 DEF OwedInv, DirLast
    <3> QED
      BY <3>4, <3>5, <3>6 DEF OwedInv
  <2> QED
    BY <2>4, <2>5
<1> DEFINE d == IF Refreshes THEN [dir EXCEPT !.last = 0, !.forget = FALSE] ELSE dir
           ch == IF Refreshes THEN Started(child) ELSE child
<1>12. /\ d \in DirRec /\ ch \in [Names -> ChildRec] /\ Present(ch) = Present(child)
       /\ d.marker = dir.marker /\ d.valid = dir.valid /\ d.done = dir.done
       /\ Refreshes => d.last = 0 /\ d.marker = 0 /\ ~d.done
       /\ ~Refreshes => d = dir /\ ch = child
  <2>1. CASE Refreshes
    <3>1. d = [dir EXCEPT !.last = 0, !.forget = FALSE] /\ ch = Started(child)
      BY <2>1
    <3> HIDE DEF d, ch
    <3>2. /\ d \in DirRec /\ d.marker = dir.marker /\ d.valid = dir.valid /\ d.done = dir.done /\ d.last = 0
      <4>1. 0 \in 0..N
        BY Constants
      <4>2. d = [dir EXCEPT !.last = 0, !.forget = FALSE]
        BY <3>1
      <4> QED
        BY <1>1, <4>1, <4>2 DEF DirRec
    <3>3. ch \in [Names -> ChildRec] /\ Present(ch) = Present(child)
      BY <1>1, <3>1, StartedFacts, StartedPresent
    <3>4. dir.marker = 0 /\ ~dir.done
      BY <2>1 DEF Refreshes
    <3> QED
      BY <2>1, <3>2, <3>3, <3>4
  <2>2. CASE ~Refreshes
    BY <1>1, <2>2
  <2> QED
    BY <2>1, <2>2
<1>13. CASE ~dir.valid /\ quiet \subseteq quiet' /\ (Load(r, ch, d, hs) \/ (dir' = d /\ Becomes(ch, [hs EXCEPT ![r].pc = "slurp"])))
  <2> HIDE DEF d, ch
  <2>1. StandInv(ch, hs) /\ (OwedInv => OweInv(ch, hs))
    BY <1>8, <1>9, <1>12 DEF StandInv, OweInv
  <2>2. ASSUME OwedInv
        PROVE  d.last <= d.marker
    BY <1>12, <2>2 DEF OwedInv, DirLast
  <2>3. CASE Load(r, ch, d, hs)
    <3>1. /\ StandInv(child, handle)'
          /\ \A o \in Readers : /\ handle'[o].must \subseteq hs[o].must
                                /\ Reads(handle'[o]) => Reads(hs[o])
      BY <1>7, <1>12, <2>1, <2>3, LoadStands
    <3>2. ASSUME ListInv, OwedInv
          PROVE  OwedInv'
      <4>1. ASSUME NEW o \in Readers, Reads(hs[o]), NEW n \in hs[o].must
            PROVE  Promises(d, ch, n)
        <5>1. /\ n \in Names /\ Lasts(n) /\ Promises(dir, child, n)
              /\ (\E s \in Readers : handle[s].done) => Kept(n) /\ n \in Present(child)
          BY <1>10, <3>2, <4>1, PromisesHold DEF OwedInv
        <5>2. CASE Refreshes
          <6>1. ~(n <= 0)
            BY <5>1, Constants DEF Names
          <6> QED
            BY <1>12, <1>13, <5>2, <6>1 DEF Promises
        <5>3. CASE ~Refreshes
          BY <1>12, <5>1, <5>3
        <5> QED
          BY <5>2, <5>3
      <4>2. OweInv(child, handle)' /\ DirLast'
        BY <1>7, <1>12, <2>1, <2>2, <2>3, <3>2, <4>1, LoadOwes
      <4>3. LastsInv'
        BY <1>3, <1>10, <1>13, <3>1, <3>2, LastsStep DEF OwedInv
      <4> QED
        BY <4>2, <4>3 DEF OwedInv
    <3> QED
      BY <3>1, <3>2
  <2>4. CASE dir' = d /\ Becomes(ch, [hs EXCEPT ![r].pc = "slurp"])
    <3> DEFINE j == [hs[r] EXCEPT !.pc = "slurp"]
    <3>1. SamePlace(j, hs[r]) /\ j.pc = "slurp" /\ j.must = hs[r].must /\ j.whole = hs[r].whole
      <4>1. hs[r] \in HandleRec
        BY <1>5
      <4> QED
        BY <4>1 DEF SamePlace, HandleRec
    <3>2. child' = ch /\ handle' = [hs EXCEPT ![r] = j] /\ dir' = d
      BY <1>5, <2>4 DEF Becomes
    <3> HIDE DEF j
    <3>3. handle'[r] = j /\ \A o \in Readers : o # r => handle'[o] = hs[o]
      BY <1>5, <3>2
    <3>4. PositionInv(Present(ch), j)
      BY <1>7, <2>1, <3>1, PlaceKept DEF StandInv
    <3>5. StandInv(child, handle)'
      BY <2>1, <3>2, <3>3, <3>4 DEF StandInv
    <3>6. ASSUME OwedInv
          PROVE  OwedInv'
      <4>1. MustInv(Present(ch), hs[r])
        BY <2>1, <3>6 DEF OweInv
      <4>2. MustInv(Present(ch), j)
        BY <1>7, <3>1, <4>1, MustKept DEF SamePlace
      <4>3. OweInv(child, handle)'
        BY <2>1, <3>2, <3>3, <3>6, <4>2 DEF OweInv
      <4>4. \A o \in Readers : Reads(handle'[o]) => Reads(handle[o]) /\ handle'[o].must \subseteq handle[o].must
        BY <1>3, <1>10, <3>1, <3>3
      <4>5. LastsInv'
        BY <1>3, <1>13, <3>6, <4>4, LastsStep DEF OwedInv
      <4> QED
        BY <2>2, <3>2, <3>6, <4>3, <4>5 DEF OwedInv, DirLast
    <3> QED
      BY <3>5, <3>6
  <2> QED
    BY <1>13, <2>3, <2>4
<1>14. \/ dir.valid /\ Serve(r, child, dir, hs) /\ quiet' = quiet
       \/ /\ ~dir.valid /\ quiet \subseteq quiet'
          /\ Load(r, ch, d, hs) \/ (dir' = d /\ Becomes(ch, [hs EXCEPT ![r].pc = "slurp"]))
  BY <1>1, <1>6 DEF ReadDir
<1> QED
  BY <1>11, <1>13, <1>14
----------------------------------------------------------------------------
(* The positions through the other steps *)

\* What lasts goes on lasting, and lastFromCloud and the marker stay.
Quietly ==
    /\ \A n \in Names : Lasts(n) => Lasts(n)'
    /\ dir'.last = dir.last /\ dir'.marker = dir.marker

(* A step after which the directory shows the same names to the same handles. *)
LEMMA SameNames ==
    ASSUME HandlesOK(handle), Quietly, handle' = handle, Present(child') = Present(child),
           StandInv(child, handle)
    PROVE  StandInv(child, handle)' /\ (OwedInv => OwedInv')
<1>1. \A o \in Readers : handle[o].must \subseteq Names
  BY DEF HandlesOK, HandleRec
<1>2. LastsInv => LastsInv'
  BY <1>1 DEF Quietly, LastsInv
<1> QED
  BY <1>2 DEF Quietly, StandInv, OwedInv, OweInv, DirLast

(* A step that changes the children and keeps what must be returned. *)
LEMMA ChildrenMove ==
    ASSUME HandlesOK(handle), Quietly, handle' = Repositioned(handle, child, child'),
           StandInv(child, handle),
           OwedInv => \A o \in Readers : Reads(handle[o]) =>
                          \A n \in handle[o].must : n \in Present(child) => n \in Present(child')
    PROVE  StandInv(child, handle)' /\ (OwedInv => OwedInv')
<1>1. \A o \in Readers : handle[o].must \subseteq Names
  BY DEF HandlesOK, HandleRec
<1>2. \A o \in Readers : PositionInv(Present(child'), handle'[o])
  BY RepositionedPosition DEF StandInv
<1>3. \A o \in Readers : handle'[o].pc = handle[o].pc /\ handle'[o].must = handle[o].must
  BY RepositionedFields
<1>4. ASSUME OwedInv
      PROVE  OwedInv'
  <2>1. \A o \in Readers : MustInv(Present(child'), handle'[o])
    BY <1>4, RepositionedMust DEF OwedInv, OweInv
  <2>2. LastsInv'
    BY <1>1, <1>3, <1>4 DEF Quietly, LastsInv, OwedInv, Reads
  <2> QED
    BY <1>4, <2>1, <2>2 DEF OwedInv, OweInv, DirLast, Quietly
<1> QED
  BY <1>2, <1>4 DEF StandInv

(* Lookups: what is dropped was deleted by another client. *)
LEMMA LookupKeeps ==
    ASSUME MirrorInv, NEW l \in Lookers, LookerStep(l), Orderly', StandInv(child, handle)
    PROVE  StandInv(child, handle)' /\ (OwedInv => OwedInv')
<1>1. /\ HandlesOK(handle) /\ child \in [Names -> ChildRec] /\ TypeInv
  BY LookerFacts
<1>2. LookerFrame(l)
  BY LookerSteps
<1>3. UNCHANGED <<bucket, last, quiet, dir>>
  BY <1>2 DEF LookerFrame, Browse
<1>4. Quietly
  BY <1>3 DEF Quietly, Lasts
<1>5. CASE \E n \in LookedUp : LookUpCached(l, n)
  <2>1. handle' = handle /\ child' = child
    BY <1>5 DEF LookUpCached, cache
  <2> QED
    BY <1>1, <1>4, <2>1, SameNames
<1>6. CASE LookUpSlurped(l) \/ LookUpReturns(l) \/ LookUpFails(l)
  <2>1. handle' = Repositioned(handle, child, child')
    BY <1>6 DEF LookUpSlurped, LookUpReturns, LookUpFails
  <2>2. ASSUME OwedInv, NEW o \in Readers, Reads(handle[o]), NEW n \in handle[o].must, n \in Present(child)
        PROVE  n \in Present(child')
    <3>1. n \in Names /\ child[n].st # "none"
      BY <2>2 DEF Present
    <3>2. Lasts(n)
      BY <2>2 DEF OwedInv, LastsInv
    <3>3. ~(Drops(n) /\ n \in Remote /\ (n \in quiet => bucket[n] = 0))
      BY <3>2 DEF Lasts, Own
    <3>4. CASE Stays(n)
      BY <3>1, <3>4 DEF Stays, Present
    <3>5. CASE Shows(n)
      <4>1. PICK p \in Procs : /\ n \in DOMAIN request[p].items
                               /\ ShownAs(child[n], child'[n], deleted[n], request[p].items[n])
        BY <3>5 DEF Shows
      <4>2. child[n] \in ChildRec /\ deleted[n] \in BOOLEAN /\ request[p] \in RequestRec
        BY <1>1, <3>1 DEF TypeInv, StoreTypes, ThreadTypes
      <4>3. request[p].items[n] \in Contents
        BY <4>1, <4>2, ItemContents
      <4>4. ShownRec(child[n], child'[n], deleted[n], request[p].items[n])
        BY <4>1, <4>2, <4>3, ShownFields
      <4> QED
        BY <3>1, <4>4 DEF ShownRec, Present
    <3> QED
      BY <1>2, <3>1, <3>3, <3>4, <3>5 DEF LookerFrame
  <2> QED
    BY <1>1, <1>4, <2>1, <2>2, ChildrenMove
<1> QED
  BY <1>5, <1>6 DEF LookerStep

(* An entry whose state alone changes is still the same name. *)
LEMMA SameEntry ==
    ASSUME child \in [Names -> ChildRec], NEW m \in Names, NEW c, child' = [child EXCEPT ![m] = c],
           c.st # "none" <=> child[m].st # "none"
    PROVE  Present(child') = Present(child)
BY DEF Present

(* An application opens, closes and writes a file. *)
LEMMA FileUseKeeps ==
    ASSUME MirrorInv, NEW m \in Names, Open(m) \/ Release(m) \/ WriteFile(m), StandInv(child, handle)
    PROVE  StandInv(child, handle)' /\ (OwedInv => OwedInv')
<1>1. /\ HandlesOK(handle) /\ child \in [Names -> ChildRec] /\ child[m] \in ChildRec /\ StoreTypes
      /\ FileInv(m)
  BY FileFacts DEF StoreTypes
<1>2. handle' = handle /\ UNCHANGED <<bucket, quiet, dir>>
  BY DEF Open, Release, WriteFile, jobs
<1>3. CASE Open(m) \/ Release(m)
  <2>1. last' = last
    BY <1>3 DEF Open, Release
  <2>2. PICK b : child' = [child EXCEPT ![m] = [child[m] EXCEPT !.open = b]]
    BY <1>1, <1>3 DEF Open, Release
  <2>3. [child[m] EXCEPT !.open = b].st = child[m].st
    BY <1>1 DEF ChildRec
  <2>4. Present(child') = Present(child)
    BY <1>1, <2>2, <2>3, SameEntry
  <2>5. Quietly
    BY <1>2, <2>1 DEF Quietly, Lasts
  <2> QED
    BY <1>1, <1>2, <2>4, <2>5, SameNames
<1>4. CASE WriteFile(m)
  <2>1. writes + 2 # 0 /\ last' = [last EXCEPT ![m] = writes + 2] /\ last \in [Names -> Contents]
    BY <1>1, <1>4, NewContents DEF StoreTypes, WriteFile
  <2>2. Quietly
    BY <1>2, <2>1 DEF Quietly, Lasts
  <2>3. PICK v, s : /\ child' = [child EXCEPT ![m] = [child[m] EXCEPT !.data = v, !.st = s]]
                    /\ s = IF child[m].st = "cached" THEN "modified" ELSE child[m].st
    BY <1>1, <1>4 DEF WriteFile
  <2>4. [child[m] EXCEPT !.data = v, !.st = s].st = s
    BY <1>1 DEF ChildRec
  <2>5. s # "none" <=> child[m].st # "none"
    BY <2>3
  <2>6. Present(child') = Present(child)
    BY <1>1, <2>3, <2>4, <2>5, SameEntry
  <2> QED
    BY <1>1, <1>2, <2>2, <2>6, SameNames
<1> QED
  BY <1>3, <1>4

(* An upload or a deletion of this mount's file changes no name that readers rely on. *)
LEMMA JobKeeps ==
    ASSUME MirrorInv, NEW m \in Names, StandInv(child, handle),
           \/ SendPut(m) \/ StorePut(m) \/ PutUnmasks(m) \/ PutReturns(m) \/ PutFails(m)
           \/ SendDelete(m) \/ StoreDelete(m) \/ DeleteReturns(m) \/ DeleteFails(m)
    PROVE  StandInv(child, handle)' /\ (OwedInv => OwedInv')
<1>1. m \in Own \/ put[m].pc # "none" \/ del[m] # "none" \/ deleted[m] \/ child[m].st \in {"created", "modified"}
  BY DEF SendPut, StorePut, PutUnmasks, PutReturns, PutFails, SendDelete, StoreDelete, DeleteReturns, DeleteFails
<1>2. /\ m \in Own /\ StoreTypes /\ TypeInv /\ OwnFile(m) /\ FileInv(m)
      /\ RequestInv(m) /\ HeldInv(m)
      /\ put[m] \in PutRec /\ child[m] \in ChildRec /\ quiet \subseteq Remote
  BY <1>1, JobFacts
<1>3. HandlesOK(handle)
  BY FileFacts
<1>4. handle' = handle /\ UNCHANGED <<last, quiet, dir>>
  BY DEF SendPut, StorePut, PutUnmasks, PutReturns, PutFails, SendDelete, StoreDelete, DeleteReturns, DeleteFails, cache
<1>5. \A n \in Names \ {m} : bucket'[n] = bucket[n]
  BY <1>2 DEF SendPut, StorePut, PutUnmasks, PutReturns, PutFails, SendDelete, StoreDelete, DeleteReturns,
              DeleteFails, StoreTypes
<1>6. m \notin quiet
  BY <1>2 DEF Own
<1>7. Quietly
  BY <1>4, <1>5, <1>6 DEF Quietly, Lasts
<1>8. Present(child') = Present(child)
  <2>1. CASE PutReturns(m) /\ ~deleted[m]
    <3>1. put[m].pc # "none" /\ ~deleted[m]
      BY <2>1 DEF PutReturns
    <3>2. child[m].st # "none"
      BY <1>2, <3>1 DEF OwnFile
    <3>3. PICK v, b, s : /\ child' = [child EXCEPT ![m] = [child[m] EXCEPT !.etag = v, !.fresh = b, !.st = s]]
                         /\ s \in {"cached", "modified"}
      BY <1>2, <2>1 DEF PutReturns, StoreTypes
    <3>4. [child[m] EXCEPT !.etag = v, !.fresh = b, !.st = s].st = s
      BY <1>2 DEF ChildRec
    <3> QED
      BY <1>2, <3>2, <3>3, <3>4, SameEntry DEF StoreTypes
  <2>2. CASE child' = child
    BY <2>2
  <2> QED
    BY <2>1, <2>2 DEF SendPut, StorePut, PutUnmasks, PutReturns, PutFails, SendDelete, StoreDelete, DeleteReturns,
                      DeleteFails, cache
<1> QED
  BY <1>3, <1>4, <1>7, <1>8, SameNames

(* CreateOrOpen. *)
LEMMA CreateKeeps ==
    ASSUME MirrorInv, NEW m \in Names, Create(m), StandInv(child, handle)
    PROVE  StandInv(child, handle)' /\ (OwedInv => OwedInv')
<1>1. HandlesOK(handle) /\ child \in [Names -> ChildRec] /\ StoreTypes
  BY FileFacts DEF StoreTypes
<1>2. handle' = Repositioned(handle, child, child') /\ UNCHANGED <<bucket, quiet, dir>>
  BY DEF Create, Becomes, jobs
<1>3. \A n \in Names \ {m} : child'[n] = child[n]
  BY <1>1 DEF Create, Becomes
<1>4. writes + 2 # 0 /\ last' = [last EXCEPT ![m] = writes + 2] /\ last \in [Names -> Contents]
  BY <1>1, NewContents DEF StoreTypes, Create
<1>5. Quietly
  BY <1>2, <1>4 DEF Quietly, Lasts
<1>6. \A n \in Present(child) : n \in Present(child')
  BY <1>3 DEF Create, Present
<1> QED
  BY <1>1, <1>2, <1>5, <1>6, ChildrenMove

(* What a handle need not return any more. *)
LEMMA ChangedHandle ==
    ASSUME NEW hs, HandlesOK(hs), NEW r \in Readers, NEW m
    PROVE  LET g == Changed(hs, m)[r]
               h == hs[r]
           IN  /\ g.must = h.must \ {m}
               /\ /\ g.pc = h.pc /\ g.idx = h.idx /\ g.name = h.name /\ g.entry = h.entry
                  /\ g.got = h.got /\ g.twice = h.twice /\ g.whole = h.whole
               /\ \A P : PositionInv(P, h) => PositionInv(P, g)
               /\ \A P : MustInv(P, h) => MustInv(P, g)
<1> DEFINE g == Changed(hs, m)[r]
           h == hs[r]
<1>1. PICK s : s = h.must \ {m}
  OBVIOUS
<1>2. h \in HandleRec /\ g = [h EXCEPT !.must = s]
  BY <1>1 DEF Changed, HandlesOK
<1> HIDE DEF g, h
<1>3. /\ g.must = s
      /\ /\ g.pc = h.pc /\ g.idx = h.idx /\ g.name = h.name /\ g.entry = h.entry
         /\ g.got = h.got /\ g.twice = h.twice /\ g.whole = h.whole
  BY <1>2 DEF HandleRec
<1>4. \A P : PositionInv(P, h) => PositionInv(P, g)
  BY <1>3 DEF PositionInv, Reads
<1>5. \A P : MustInv(P, h) => MustInv(P, g)
  BY <1>1, <1>3 DEF MustInv, Reads
<1> QED
  BY <1>1, <1>3, <1>4, <1>5 DEF g, h

(* Forgetting a name and moving the positions commute. *)
LEMMA ChangedCommutes ==
    ASSUME HandlesOK(handle), NEW m, NEW old, NEW new
    PROVE  Changed(Repositioned(handle, old, new), m) = Repositioned(Changed(handle, m), old, new)
<1> DEFINE moved == Present(old) \ Present(new) # {}
                    \/ \E n \in Present(new) \ Present(old), c \in Present(old) : n < c
<1>1. PICK t : t = Present(new) \ Present(old)
  OBVIOUS
<1>2. ASSUME NEW r \in Readers
      PROVE  Changed(Repositioned(handle, old, new), m)[r] = Repositioned(Changed(handle, m), old, new)[r]
  <2>1. PICK h : h = handle[r] /\ h \in HandleRec
    BY DEF HandlesOK
  <2>2. PICK s, i, j : s = h.must \ {m} /\ i = (IF moved THEN -1 ELSE h.idx) /\ j = h.got \ t
    OBVIOUS
  <2>3. PICK g : g = [h EXCEPT !.must = s]
    OBVIOUS
  <2>4. g = Changed(handle, m)[r]
    BY <2>1, <2>2, <2>3 DEF Changed
  <2>5. g.pc = h.pc /\ g.idx = h.idx /\ g.got = h.got
    BY <2>1, <2>3 DEF HandleRec
  <2>6. Repositioned(handle, old, new)[r] =
          IF h.pc \in {"closed", "ended"} THEN h ELSE [h EXCEPT !.idx = i, !.got = j]
    BY <1>1, <2>1, <2>2 DEF Repositioned
  <2>7. Repositioned(Changed(handle, m), old, new)[r] =
          IF g.pc \in {"closed", "ended"} THEN g ELSE [g EXCEPT !.idx = i, !.got = j]
    BY <1>1, <2>2, <2>4, <2>5 DEF Repositioned
  <2>8. [h EXCEPT !.idx = i, !.got = j].must = h.must
    BY <2>1 DEF HandleRec
  <2>9. Changed(Repositioned(handle, old, new), m)[r] =
          IF h.pc \in {"closed", "ended"} THEN [h EXCEPT !.must = s]
          ELSE [[h EXCEPT !.idx = i, !.got = j] EXCEPT !.must = s]
    BY <2>2, <2>6, <2>8 DEF Changed
  <2>10. [[h EXCEPT !.idx = i, !.got = j] EXCEPT !.must = s] = [g EXCEPT !.idx = i, !.got = j]
    BY <2>1, <2>3 DEF HandleRec
  <2> QED
    BY <2>3, <2>5, <2>7, <2>9, <2>10
<1>3. Changed(Repositioned(handle, old, new), m) =
        [r \in Readers |-> Changed(Repositioned(handle, old, new), m)[r]]
  BY DEF Changed
<1>4. Repositioned(Changed(handle, m), old, new) =
        [r \in Readers |-> Repositioned(Changed(handle, m), old, new)[r]]
  BY DEF Repositioned
<1> QED
  BY <1>2, <1>3, <1>4

(* A file is unlinked, or another client changes an object: the readers need not return it. *)
LEMMA NameChanges ==
    ASSUME MirrorInv, NEW m \in Names, Unlink(m) \/ RemoteChange(m), StandInv(child, handle)
    PROVE  StandInv(child, handle)' /\ (OwedInv => OwedInv')
<1>1. HandlesOK(handle) /\ child \in [Names -> ChildRec] /\ StoreTypes
  BY FileFacts DEF StoreTypes
<1>2. PICK hs : hs = Changed(handle, m)
  OBVIOUS
<1>3. HandlesOK(hs)
  BY <1>1, <1>2, ChangedFacts
<1>4. \A o \in Readers : /\ hs[o].must = handle[o].must \ {m} /\ hs[o].pc = handle[o].pc
                         /\ \A P : PositionInv(P, handle[o]) => PositionInv(P, hs[o])
                         /\ \A P : MustInv(P, handle[o]) => MustInv(P, hs[o])
  BY <1>1, <1>2, ChangedHandle
<1>5. handle' = Repositioned(hs, child, child') \/ (handle' = hs /\ child' = child)
  <2>1. CASE Unlink(m)
    BY <1>1, <1>2, <2>1, ChangedCommutes DEF Unlink, Becomes
  <2>2. CASE RemoteChange(m)
    BY <1>2, <2>2 DEF RemoteChange, cache
  <2> QED
    BY <2>1, <2>2
<1>6. \A n \in Names \ {m} : /\ child'[n] = child[n] /\ last'[n] = last[n] /\ bucket'[n] = bucket[n]
                             /\ n \in quiet => n \in quiet'
  BY <1>1 DEF Unlink, RemoteChange, Becomes, StoreTypes, cache
<1>7. dir' = dir
  BY DEF Unlink, RemoteChange, cache
<1>8. \A o \in Readers : handle[o].must \subseteq Names
  BY <1>1 DEF HandlesOK, HandleRec
<1>9. \A o \in Readers : PositionInv(Present(child'), handle'[o])
  <2>1. \A o \in Readers : PositionInv(Present(child), hs[o])
    BY <1>4 DEF StandInv
  <2>2. CASE handle' = Repositioned(hs, child, child')
    BY <1>3, <2>1, <2>2, RepositionedPosition
  <2>3. CASE handle' = hs /\ child' = child
    BY <2>1, <2>3
  <2> QED
    BY <1>5, <2>2, <2>3
<1>10. \A o \in Readers : handle'[o].must = hs[o].must /\ handle'[o].pc = hs[o].pc
  BY <1>3, <1>5, RepositionedFields
<1>11. ASSUME OwedInv
       PROVE  OwedInv'
  <2>1. \A o \in Readers : MustInv(Present(child), hs[o])
    BY <1>4, <1>11 DEF OwedInv, OweInv
  <2>2. \A o \in Readers : \A n \in hs[o].must : n \in Present(child) => n \in Present(child')
    BY <1>4, <1>6, <1>8 DEF Present
  <2>3. \A o \in Readers : MustInv(Present(child'), handle'[o])
    <3>1. CASE handle' = Repositioned(hs, child, child')
      BY <1>3, <2>1, <2>2, <3>1, RepositionedMust
    <3>2. CASE handle' = hs /\ child' = child
      BY <2>1, <3>2
    <3> QED
      BY <1>5, <3>1, <3>2
  <2>4. LastsInv'
    <3>1. ASSUME NEW o \in Readers, Reads(handle'[o]), NEW n \in handle'[o].must
          PROVE  Lasts(n)'
      <4>1. Reads(handle[o]) /\ n \in handle[o].must /\ n # m /\ n \in Names
        BY <1>4, <1>8, <1>10, <3>1 DEF Reads
      <4>2. Lasts(n)
        BY <1>11, <4>1 DEF OwedInv, LastsInv
      <4> QED
        BY <1>6, <4>1, <4>2 DEF Lasts
    <3> QED
      BY <3>1 DEF LastsInv
  <2> QED
    BY <1>7, <1>11, <2>3, <2>4 DEF OwedInv, OweInv, DirLast
<1> QED
  BY <1>9, <1>11 DEF StandInv

(* An eviction while nobody reads, an answer of the store, an expiry. *)
LEMMA IdleKeeps ==
    ASSUME MirrorInv, StandInv(child, handle),
           (\E m \in Names : EvictEntry(m)) \/ (\E p \in Procs : Answer(p)) \/ ExpireDir \/ UNCHANGED vars
    PROVE  StandInv(child, handle)' /\ (OwedInv => OwedInv')
<1>1. HandlesOK(handle) /\ dir \in DirRec
  <2>1. StoreTypes /\ ThreadTypes
    BY DEF MirrorInv, TypeInv
  <2>2. dir \in DirRec
    BY <2>1 DEF StoreTypes
  <2>3. HandlesOK(handle)
    BY <2>1 DEF ThreadTypes, HandlesOK
  <2> QED
    BY <2>2, <2>3
<1>2. CASE \E m \in Names : EvictEntry(m)
  <2>1. handle' = Repositioned(handle, child, child') /\ UNCHANGED <<bucket, last, quiet>>
    BY <1>2 DEF EvictEntry, Becomes, jobs
  <2>2. dir' = [dir EXCEPT !.valid = FALSE, !.forget = TRUE]
    BY <1>2 DEF EvictEntry
  <2>3. dir'.last = dir.last /\ dir'.marker = dir.marker
    BY <1>1, <2>2 DEF DirRec
  <2>4. Quietly
    BY <2>1, <2>3 DEF Quietly, Lasts
  <2>5. \A o \in Readers : ~Reads(handle[o])
    BY <1>2 DEF EvictEntry, Reads
  <2> QED
    BY <1>1, <2>1, <2>4, <2>5, ChildrenMove
<1>3. CASE (\E p \in Procs : Answer(p)) \/ UNCHANGED vars
  <2>1. UNCHANGED <<handle, child, dir, bucket, last, quiet>>
    BY <1>3 DEF Answer, vars
  <2>2. Quietly
    BY <2>1 DEF Quietly, Lasts
  <2> QED
    BY <1>1, <2>1, <2>2, SameNames
<1>4. CASE ExpireDir
  <2>1. UNCHANGED <<handle, child, bucket, last, quiet>> /\ dir' = [dir EXCEPT !.valid = FALSE]
    BY <1>4 DEF ExpireDir, jobs
  <2>2. dir'.last = dir.last /\ dir'.marker = dir.marker
    BY <1>1, <2>1 DEF DirRec
  <2>3. Quietly
    BY <2>1, <2>2 DEF Quietly, Lasts
  <2> QED
    BY <1>1, <2>1, <2>3, SameNames
<1> QED
  BY <1>2, <1>3, <1>4

(* Every step keeps the positions, and what the readers rely on if ListInv holds. *)
LEMMA PositionStep ==
    ASSUME MirrorInv, [Next]_vars, Orderly', StandInv(child, handle)
    PROVE  /\ StandInv(child, handle)'
           /\ ListInv /\ ListInv' /\ OwedInv => OwedInv'
<1>1. CASE \E r \in Readers : ReaderStep(r)
  <2>1. PICK r \in Readers : ReaderStep(r)
    BY <1>1
  <2>2. CASE OpenDir(r) \/ CloseDir(r) \/ Advance(r)
    BY <2>2, HandleMoves
  <2>3. CASE listObjectsFlat(r) \/ ListFails(r) \/ BufferFull(r)
    BY <2>3, WaitingSteps, WaitsKeeps
  <2>4. CASE Slurped(r) \/ Listed(r)
    <3>1. PICK all, ch : Pages(r, all, ch)
      BY <2>4, SlurpedPages, ListedPages
    <3>2. /\ StandInv(child, handle)'
          /\ OwedInv /\ ListInv' => OwedInv'
      BY <3>1, PageStands
    <3> QED
      BY <3>2
  <2>5. CASE Loaded(r)
    BY <2>5, LoadedKeeps
  <2>6. CASE ReadDir(r)
    BY <2>6, ReadDirKeeps
  <2> QED
    BY <2>1, <2>2, <2>3, <2>4, <2>5, <2>6 DEF ReaderStep
<1>2. CASE \E l \in Lookers : LookerStep(l)
  BY <1>2, LookupKeeps
<1>3. CASE \E n \in Names : FileStep(n) \/ RemoteChange(n)
  <2>1. PICK m \in Names : FileStep(m) \/ RemoteChange(m)
    BY <1>3
  <2>2. CASE Create(m)
    BY <2>2, CreateKeeps
  <2>3. CASE Open(m) \/ Release(m) \/ WriteFile(m)
    BY <2>3, FileUseKeeps
  <2>4. CASE Unlink(m) \/ RemoteChange(m)
    BY <2>4, NameChanges
  <2>5. CASE \/ SendPut(m) \/ StorePut(m) \/ PutUnmasks(m) \/ PutReturns(m) \/ PutFails(m)
             \/ SendDelete(m) \/ StoreDelete(m) \/ DeleteReturns(m) \/ DeleteFails(m)
    BY <2>5, JobKeeps
  <2> QED
    BY <2>1, <2>2, <2>3, <2>4, <2>5 DEF FileStep
<1>4. CASE (\E m \in Names : EvictEntry(m)) \/ (\E p \in Procs : Answer(p)) \/ ExpireDir \/ UNCHANGED vars
  BY <1>4, IdleKeeps
<1> QED
  BY <1>1, <1>2, <1>3, <1>4 DEF Next

(* Before anything was opened. *)
LEMMA PositionInit ==
    ASSUME Init
    PROVE  StandInv(child, handle) /\ OwedInv
<1>1. \A o \in Readers : handle[o].pc = "closed" /\ ~handle[o].twice
  BY DEF Init, Closed, NewHandle
<1>2. \A o \in Readers : PositionInv(Present(child), handle[o]) /\ MustInv(Present(child), handle[o])
                         /\ ~Reads(handle[o])
  BY <1>1 DEF PositionInv, MustInv, Reads
<1>3. dir.last = 0 /\ dir.marker = 0
  BY DEF Init
<1> QED
  BY <1>2, <1>3 DEF StandInv, OwedInv, OweInv, LastsInv, DirLast

(* The positions, as long as the files are shown. *)
LEMMA PositionsStand == Spec => [](Orderly => StandInv(child, handle))
<1> DEFINE Inv == Orderly => StandInv(child, handle)
           Mirror == Orderly => MirrorInv
<1>1. Init => Inv
  BY PositionInit
<1>2. ASSUME Mirror, Inv, [Next]_vars
      PROVE  Inv'
  <2> SUFFICES ASSUME Orderly'
               PROVE  StandInv(child, handle)'
    OBVIOUS
  <2>1. Orderly
    BY <1>2, RacesGrow DEF Orderly
  <2>2. MirrorInv /\ StandInv(child, handle)
    BY <1>2, <2>1
  <2>3. /\ StandInv(child, handle)'
        /\ ListInv /\ ListInv' /\ OwedInv => OwedInv'
    BY <1>2, <2>2, PositionStep
  <2> QED
    BY <2>3
<1>3. Spec => []Mirror
  BY FilesAreMirrored
<1> HIDE DEF Inv, Mirror
<1>4. Spec => []Inv
  BY <1>1, <1>2, <1>3, PTL DEF Spec
<1> QED
  BY <1>4 DEF Inv

(* No directory handle returns a name twice, whatever is created, unlinked, listed, looked up
   or evicted between two calls of ReadDir, unless the name left the directory and came back
   (checkDirPosition, Next), for any number of readers and with refreshes that overlap. *)
THEOREM NothingIsReturnedTwice == Spec => [](Orderly => \A r \in Readers : ~handle[r].twice)
<1>1. (Orderly => StandInv(child, handle)) => (Orderly => \A r \in Readers : ~handle[r].twice)
  BY DEF StandInv, PositionInv
<1> QED
  BY <1>1, PositionsStand, PTL

(* A reader that met the complete directory before it passed the end of what was listed
   returns every name that exists from opendir to the end of the directory, and none twice
   (checkDirPosition, Next, lastFromCloud, loadListing, removeExpired), until one of AllRaces
   has happened. *)
THEOREM ReadDirIsComplete == Spec => []ReadDirComplete
<1> DEFINE Inv == races = {} => StandInv(child, handle) /\ OwedInv
           Listing == races = {} => ListInv
<1>1. Init => Inv
  BY PositionInit
<1>2. ASSUME Listing, Listing', Inv, [Next]_vars
      PROVE  Inv'
  <2> SUFFICES ASSUME races' = {}
               PROVE  (StandInv(child, handle) /\ OwedInv)'
    OBVIOUS
  <2>1. races = {}
    BY <1>2, RacesGrow
  <2>2. ListInv /\ ListInv' /\ MirrorInv /\ Orderly' /\ StandInv(child, handle) /\ OwedInv
    BY <1>2, <2>1 DEF ListInv, NameInv, MirrorInv, Orderly
  <2>3. /\ StandInv(child, handle)'
        /\ ListInv /\ ListInv' /\ OwedInv => OwedInv'
    BY <1>2, <2>2, PositionStep
  <2> QED
    BY <2>2, <2>3
<1>3. Inv => ReadDirComplete
  BY DEF StandInv, OwedInv, OweInv, PositionInv, MustInv, ReadDirComplete
<1>4. Spec => []Listing
  BY ListingInvariant
<1> HIDE DEF Inv, Listing
<1> QED
  BY <1>1, <1>2, <1>3, <1>4, PTL DEF Spec
===============================================================================
