------------------------------ MODULE FileFlush ------------------------------
(***************************************************************************)
(* Buffered writes of one regular file (file.go): WriteFile and            *)
(* ResizeUnlocked change buffers in memory, the flusher sends the dirty    *)
(* ones, either all in one PUT or part by part in a multipart upload that  *)
(* is completed with server-side copies of the parts nobody touched.       *)
(*                                                                         *)
(* An action is one critical section of inode.mu, or one request at the    *)
(* object store.  The file is NP parts of PartBlocks blocks; the content   *)
(* of a block is the number of the write it comes from, 0 for zeros, -1    *)
(* for the object found at start, -2 for an object of another client.      *)
(*                                                                         *)
(* Left out: names and renames (module Rename), metadata and hashes, the   *)
(* disk cache, PATCH, and BUF_FL_CLEARED, which nothing reaches without a  *)
(* disk cache (FreeSomeCleanBuffers skips BUF_FLUSHED_FULL).               *)
(***************************************************************************)
EXTENDS Integers, Sequences, FiniteSets

CONSTANTS
    NP,               \* parts of the largest file (PartCount)
    PartBlocks,       \* blocks of a part (PartSize)
    SmallBlocks,      \* files up to this size are sent in one PUT (SinglePartMB)
    MaxParallelParts, \* flags.MaxParallelParts
    InitialBlocks,    \* blocks of the object at start, 0 for a created file
    Pressure,         \* may memory run short (wantFree, eviction)?
    TruncateSizes,    \* the sizes the application truncates to
    MaxWrites, MaxTruncates, MaxReads, MaxFaults, MaxGone, MaxRemote, \* bounds
    NoObject, NoPart, \* no object, a nil entry of mpu.Parts
    NoSize            \* no truncate is waiting

NB == NP * PartBlocks
Blocks == 1..NB
Parts == 1..NP
\* Mutant: parts are counted from two.
MutPartNumHigh(i) == i \div PartBlocks + 2

\* Where a part begins and which part an offset of i blocks is in (partRange, partNum).
partNum(i) == i \div PartBlocks + 1
PartRange(p) == (p - 1) * PartBlocks + 1 .. p * PartBlocks

ASSUME Constants ==
    /\ NP \in Nat \ {0} /\ PartBlocks \in Nat \ {0}
    /\ SmallBlocks \in Nat /\ MaxParallelParts \in Nat \ {0}
    /\ InitialBlocks \in 0..NB /\ TruncateSizes \subseteq 0..NB
    /\ Pressure \in BOOLEAN
    /\ {MaxWrites, MaxTruncates, MaxReads, MaxFaults, MaxGone, MaxRemote} \subseteq Nat
    /\ NoObject \notin Seq(Int) /\ NoPart \notin Seq(Int) /\ NoSize \notin Nat

VARIABLES
    file,       \* what the application wrote; its length is Attributes.Size
    buf,        \* inode.buffers, per block: state, content, and whether the flush
                \* in flight captured its dirtyID
    cacheState, \* ST_CREATED, ST_MODIFIED, ST_CACHED
    mpu, parts, \* is inode.mpu set, and its Parts
    known,      \* knownETag (the content stands for its ETag) and knownSize
    job,        \* the goroutine that counts MaxParallelParts in IsFlushing
    pjob,       \* flushPart of each part
    get,        \* retryRead of each block; history: an answer that came since has made it old
    readError, flushError, forceFlush,
    open,       \* fileHandles > 0
    lastPart,   \* the part of lastWriteEnd
    trunc,      \* the size a truncate that waits in SyncFile wants
    reader,     \* the block a read waits for, 0 when none does
    leaked,     \* blocks locked by a flush that has ended
    store,      \* the object
    gone,       \* the store no longer knows the upload
    lost,       \* local changes were discarded and attributes not read again
    late,       \* history: a body was put in memory after the answer of an upload of newer bytes
    writes, truncates, reads, faults, vanished, remote

local == <<buf, cacheState, mpu, parts, known, leaked, lost, late>>
app == <<file, open, lastPart, trunc, reader, writes, truncates, reads>>
env == <<store, gone, faults, vanished, remote>>
vars == <<file, buf, cacheState, mpu, parts, known, job, pjob, get, readError, flushError,
          forceFlush, open, lastPart, trunc, reader, leaked, store, gone, lost, late,
          writes, truncates, reads, faults, vanished, remote>>

Size == Len(file)
Hole == [s |-> "none", v |-> 0, fly |-> FALSE]
Loading == [s |-> "loading", v |-> 0, fly |-> FALSE]
Dirty(v) == [s |-> "dirty", v |-> v, fly |-> FALSE]
Clean(v) == [s |-> "clean", v |-> v, fly |-> FALSE]
Idle == [pc |-> "none", size |-> 0, body |-> <<>>, todo |-> {}, want |-> <<>>]
NoFlush == [pc |-> "none", size |-> 0, body |-> <<>>]
NoGet == [pc |-> "none", etag |-> NoObject, v |-> 0, old |-> FALSE]
Unclean(b) == buf[b].s \in {"dirty", "flushed"}
----------------------------------------------------------------------------
(* Derived state *)

PartsBusy == {p \in Parts : pjob[p].pc # "none"}
IsFlushing == (IF job.pc = "none" THEN 0 ELSE MaxParallelParts) + Cardinality(PartsBusy)

\* Mutant: only a closed file is flushed at once.
MutFlushWhenClosed == ~open

flushInode == ~open \/ forceFlush

\* The blocks flushSmallObject and flushPart hold with LockRange(..., true).
SmallLocked == IF job.pc \in {"smallLoad", "put", "putDone"} THEN 1..job.size ELSE {}
FlushLocked(b) == b \in leaked \/ b \in SmallLocked \/ \E p \in PartsBusy : b \in PartRange(p)
\* IsRangeLocked of any kind: what a flush, a GET or a read holds is not evicted.
Locked(b) == FlushLocked(b) \/ get[b].pc # "none" \/ reader = b

\* Mutant: a file is dirty only when a buffer is.
MutIgnoresSize(f, k, bs) == \E b \in Blocks : bs[b].s \in {"dirty", "flushed"}

StillDirty(f, k, bs) == Len(f) # k.size \/ \E b \in Blocks : bs[b].s \in {"dirty", "flushed"}
isStillDirty == StillDirty(file, known, buf)

\* mpu.Parts of the first n parts as MultipartBlobCommit puts them together.
Joined(n) ==
    LET upTo[i \in 0..n] == IF i = 0 THEN <<>>
                            ELSE upTo[i - 1] \o (IF parts[i] = NoPart THEN <<>> ELSE parts[i])
    IN  upTo[n]
\* How many parts a file of n blocks has.
NumParts(n) == (n + PartBlocks - 1) \div PartBlocks

\* Mutant: the dirtyID is not compared.
MutAnyDirtyID(bs, S, state) ==
    [b \in Blocks |-> IF b \in S /\ bs[b].s = "dirty"
                      THEN [bs[b] EXCEPT !.s = state, !.fly = FALSE] ELSE bs[b]]

\* SetState for the buffers whose dirtyID was captured; the others are forgotten.
SetState(bs, S, state) ==
    [b \in Blocks |-> IF b \in S /\ bs[b].fly
                      THEN [bs[b] EXCEPT !.s = state, !.fly = FALSE] ELSE bs[b]]
Forget(bs, S) == [b \in Blocks |-> IF b \in S THEN [bs[b] EXCEPT !.fly = FALSE] ELSE bs[b]]
\* getMultiReader: the dirty buffers of S are captured.
Capture(bs, S) ==
    [b \in Blocks |-> IF b \in S THEN [bs[b] EXCEPT !.fly = bs[b].s = "dirty"] ELSE bs[b]]
Body(from, n) == [i \in 1..n |-> buf[from + i - 1].v]
Missing(S) == \E b \in S : buf[b].s = "none"
IsLoading(S) == \E b \in S : buf[b].s = "loading"

\* LoadRange: placeholders and GETs for the holes of S.
LoadRange(S) ==
    LET holes == {b \in S : buf[b].s = "none"}
    IN  /\ \A b \in holes : get[b].pc = "none"
        /\ buf' = [b \in Blocks |-> IF b \in holes THEN Loading ELSE buf[b]]
        /\ get' = [b \in Blocks |-> IF b \in holes
                                    THEN [pc |-> "sent", etag |-> known.etag, v |-> 0, old |-> FALSE]
                                    ELSE get[b]]

\* History: what is outstanding for the blocks of S is older than what memory has now.
Overtake(S) ==
    get' = [b \in Blocks |-> IF b \in S /\ get[b].pc # "none" THEN [get[b] EXCEPT !.old = TRUE]
                             ELSE get[b]]
\* The blocks whose change an answer has turned into a clean buffer.
Cleaned == {b \in Blocks : Unclean(b) /\ buf'[b].s = "clean" /\ get[b].pc = "body"}

\* resetCache: local changes are dropped, the multipart upload is aborted.
ResetCache ==
    /\ buf' = [b \in Blocks |-> Hole]
    /\ cacheState' = "cached"
    /\ mpu' = FALSE
    /\ gone' = (gone \/ mpu)
    /\ lost' = TRUE
    /\ UNCHANGED <<parts, known>>
Conflict == readError \in {"busy", "missing"}

\* Mutant: the parts of the upload that vanished are still taken for uploaded.
MutKeepsFlushed(bs) ==
    /\ mpu' = FALSE
    /\ buf' = bs
    /\ cacheState' = IF cacheState = "cached" THEN "modified" ELSE cacheState
    /\ forceFlush' = TRUE
    /\ flushError' = FALSE

\* resetMultipartStateForRetry after NoSuchUpload.
ResetMultipart(bs) ==
    /\ mpu' = FALSE
    /\ buf' = [b \in Blocks |-> IF bs[b].s = "flushed" THEN Dirty(bs[b].v) ELSE bs[b]]
    /\ cacheState' = IF cacheState = "cached" THEN "modified" ELSE cacheState
    /\ forceFlush' = TRUE
    /\ flushError' = FALSE
----------------------------------------------------------------------------
(* The application *)

Init ==
    /\ file = [i \in 1..InitialBlocks |-> -1]
    /\ store = IF InitialBlocks = 0 THEN NoObject ELSE file
    /\ known = [etag |-> store, size |-> InitialBlocks]
    /\ cacheState = IF InitialBlocks = 0 THEN "created" ELSE "cached"
    /\ buf = [b \in Blocks |-> Hole]
    /\ mpu = FALSE /\ parts = [p \in Parts |-> NoPart] /\ gone = FALSE
    /\ job = Idle /\ pjob = [p \in Parts |-> NoFlush] /\ get = [b \in Blocks |-> NoGet]
    /\ readError = "none" /\ flushError = FALSE /\ forceFlush = FALSE
    /\ open = TRUE /\ lastPart = 1 /\ trunc = NoSize /\ reader = 0
    /\ leaked = {} /\ lost = FALSE /\ late = FALSE
    /\ writes = 0 /\ truncates = 0 /\ reads = 0 /\ faults = 0 /\ vanished = 0 /\ remote = 0

Modified == IF cacheState = "cached" THEN "modified" ELSE cacheState
Longer(n) == [i \in 1..(IF n > Size THEN n ELSE Size) |-> IF i <= Size THEN file[i] ELSE 0]

\* WriteFile of block b; a gap before it is filled with zeros.  Splitting and
\* appending give other buffers of the flush in flight (S) a new dirtyID.
WriteFile(b) ==
    /\ open /\ writes < MaxWrites
    /\ trunc = NoSize
    /\ \E S \in SUBSET {i \in Blocks : buf[i].fly} :
         buf' = [i \in Blocks |-> IF i = b THEN Dirty(writes + 1)
                                  ELSE IF i > Size /\ i < b THEN Dirty(0)
                                  ELSE IF i \in S THEN Dirty(buf[i].v)
                                  ELSE buf[i]]
    /\ file' = [Longer(b) EXCEPT ![b] = writes + 1]
    /\ cacheState' = Modified
    /\ lastPart' = partNum(b)
    /\ writes' = writes + 1
    /\ UNCHANGED <<mpu, parts, known, leaked, lost, late, job, pjob, get, readError, flushError,
                   forceFlush, open, trunc, reader, truncates, reads, env>>

\* What stops a truncate: a flush of the blocks, or parts already uploaded.
TruncateBlocked(n) == \E b \in n+1..Size : FlushLocked(b) \/ buf[b].s = "flushed"

\* ResizeUnlocked once nothing blocks it.
Resize(n) ==
    /\ buf' = [b \in Blocks |-> IF b > n /\ b <= Size THEN Hole
                                ELSE IF b > Size /\ b <= n THEN Dirty(0) ELSE buf[b]]
    /\ file' = IF n < Size THEN SubSeq(file, 1, n) ELSE Longer(n)
    /\ cacheState' = Modified

\* SetAttributes with another size; a blocked one waits and pauses the writers.
Truncate(n) ==
    /\ truncates < MaxTruncates /\ trunc = NoSize /\ n # Size
    /\ truncates' = truncates + 1
    /\ IF TruncateBlocked(n)
       THEN trunc' = n /\ UNCHANGED <<buf, file, cacheState>>
       ELSE Resize(n) /\ UNCHANGED trunc
    /\ UNCHANGED <<mpu, parts, known, leaked, lost, late, job, pjob, get, readError, flushError,
                   forceFlush, open, lastPart, reader, writes, reads, env>>

\* SyncFile, called by fsync or by a waiting truncate, forces the flush and returns
\* when there was an error or nothing is left to flush.
SyncDone == cacheState = "cached" \/ (IsFlushing = 0 /\ ~isStillDirty)
Synced == SyncDone \/ flushError
SyncFile ==
    /\ open \/ trunc # NoSize
    /\ ~Synced /\ ~forceFlush
    /\ forceFlush' = TRUE
    /\ UNCHANGED <<local, app, env, job, pjob, get, readError, flushError>>

TruncateEnds ==
    /\ trunc # NoSize /\ Synced /\ ~TruncateBlocked(trunc)
    /\ IF trunc < Size THEN Resize(trunc)
       ELSE file' = Longer(trunc) /\ cacheState' = Modified /\ UNCHANGED buf
    /\ trunc' = NoSize
    /\ UNCHANGED <<mpu, parts, known, leaked, lost, late, job, pjob, get, readError, flushError,
                   forceFlush, open, lastPart, reader, writes, truncates, reads, env>>

\* ReadFile of a block that is not in memory, and what it does when the GET is over.
ReadFile(b) ==
    /\ open /\ reads < MaxReads /\ reader = 0 /\ b <= Size
    /\ buf[b].s \in {"none", "loading"}
    /\ LoadRange({b})
    /\ reader' = b
    /\ reads' = reads + 1
    /\ UNCHANGED <<cacheState, mpu, parts, known, leaked, lost, late, file, open, lastPart, trunc,
                   writes, truncates, env, job, pjob, readError, flushError, forceFlush>>

canInvalidateReadConflict == cacheState = "cached" /\ ~\E b \in Blocks : Unclean(b)
ReadReturns ==
    /\ reader # 0 /\ buf[reader].s # "loading"
    /\ reader' = 0
    /\ IF buf[reader].s = "none" /\
          (readError = "missing" \/ (readError = "busy" /\ canInvalidateReadConflict))
       THEN /\ ResetCache
            /\ readError' = IF readError = "busy" THEN "none" ELSE readError
       ELSE UNCHANGED <<buf, cacheState, mpu, gone, lost, parts, known, readError>>
    /\ UNCHANGED <<leaked, late, file, open, lastPart, trunc, writes, truncates, reads, store,
                   faults, vanished, remote, job, pjob, get, flushError, forceFlush>>

Release ==
    /\ open /\ reader = 0
    /\ open' = FALSE
    /\ UNCHANGED <<local, env, file, lastPart, trunc, reader, writes, truncates, reads,
                   job, pjob, get, readError, flushError, forceFlush>>
----------------------------------------------------------------------------
(* Requests for data: retryRead *)

GetBlob(b) ==
    /\ get[b].pc = "sent"
    /\ store # NoObject /\ get[b].etag \in {NoObject, store} /\ b <= Len(store)
    /\ get' = [get EXCEPT ![b] = [@ EXCEPT !.pc = "body", !.v = store[b]]]
    /\ UNCHANGED <<local, app, env, job, pjob, readError, flushError, forceFlush>>

\* Mutant: the body covers what was written while it was read.
MutBodyCovers(b) ==
    /\ get[b].pc = "body"
    /\ buf' = [buf EXCEPT ![b] = Clean(get[b].v)]
    /\ get' = [get EXCEPT ![b] = NoGet]
    /\ readError' = IF readError = "busy" THEN "busy" ELSE "none"
    /\ UNCHANGED <<cacheState, mpu, parts, known, leaked, lost, late, app, env, job, pjob,
                   flushError, forceFlush>>

\* sendRead adds the body as a clean buffer where nothing is dirty.
BodyArrives(b) ==
    /\ get[b].pc = "body"
    /\ buf' = IF Unclean(b) THEN buf ELSE [buf EXCEPT ![b] = Clean(get[b].v)]
    /\ late' = (late \/ (get[b].old /\ ~Unclean(b)))
    /\ get' = [get EXCEPT ![b] = NoGet]
    /\ readError' = IF readError = "busy" THEN "busy" ELSE "none"
    /\ UNCHANGED <<cacheState, mpu, parts, known, leaked, lost, app, env, job, pjob,
                   flushError, forceFlush>>

GetError(b) ==
    IF store = NoObject THEN "missing"
    ELSE IF get[b].etag \notin {NoObject, store} THEN "busy"
    ELSE IF b > Len(store) THEN "missing" ELSE "other"

\* A refused GET removes its placeholder; so does one that fails for another reason.
GetFails(b) ==
    /\ get[b].pc = "sent"
    /\ GetError(b) = "other" => faults < MaxFaults
    /\ faults' = IF GetError(b) = "other" THEN faults + 1 ELSE faults
    /\ buf' = IF buf[b].s = "loading" THEN [buf EXCEPT ![b] = Hole] ELSE buf
    /\ get' = [get EXCEPT ![b] = NoGet]
    /\ readError' = IF readError = "busy" THEN "busy" ELSE GetError(b)
    /\ UNCHANGED <<cacheState, mpu, parts, known, leaked, lost, late, app, job, pjob,
                   flushError, forceFlush, store, gone, vanished, remote>>

\* A waiter that has waited too long removes the placeholder; the GET goes on.
LoadingStalls(b) ==
    /\ buf[b].s = "loading" /\ faults < MaxFaults
    /\ faults' = faults + 1
    /\ buf' = [buf EXCEPT ![b] = Hole]
    /\ readError' = "other"
    /\ UNCHANGED <<cacheState, mpu, parts, known, leaked, lost, late, app, job, pjob, get,
                   flushError, forceFlush, store, gone, vanished, remote>>

\* FreeSomeCleanBuffers.
Evict(b) ==
    /\ Pressure
    /\ buf[b].s = "clean" /\ ~Locked(b)
    /\ buf' = [buf EXCEPT ![b] = Hole]
    /\ UNCHANGED <<cacheState, mpu, parts, known, leaked, lost, late, app, env, job, pjob, get,
                   readError, flushError, forceFlush>>
----------------------------------------------------------------------------
(* The flusher: TryFlush and sendUpload *)

WantFree == {FALSE} \cup {Pressure}
Flushable == cacheState \in {"created", "modified"} /\ IsFlushing < MaxParallelParts
smallFile == Size <= SmallBlocks

\* Parts that sendUploadParts starts: dirty, not being flushed, not the one still
\* written to, and not with gaps, unless the file is closed or memory is short.
PartDirty(p) == \E b \in PartRange(p) : buf[b].s = "dirty"
PartZero(p) == \E b \in PartRange(p) : buf[b].s # "none" /\ buf[b].v = 0
PartShort(p) == buf[p * PartBlocks].s = "none"
PartNonZero(p) == \E b \in PartRange(p) : buf[b].v # 0
Eligible(p, wantFree) ==
    /\ PartDirty(p)
    /\ ~\E b \in PartRange(p) : FlushLocked(b)
    /\ p = lastPart => flushInode \/ wantFree
    /\ (PartZero(p) \/ PartShort(p)) => flushInode \/ (wantFree /\ PartNonZero(p))

StartSmall ==
    /\ Flushable /\ smallFile /\ ~mpu /\ IsFlushing = 0
    /\ flushInode \/ Pressure
    /\ job' = [Idle EXCEPT !.pc = "small"]
    /\ UNCHANGED <<local, app, env, pjob, get, readError, flushError, forceFlush>>

StartMultipart ==
    /\ Flushable /\ ~smallFile /\ ~mpu /\ IsFlushing = 0
    /\ job' = [Idle EXCEPT !.pc = "begin"]
    /\ UNCHANGED <<local, app, env, pjob, get, readError, flushError, forceFlush>>

StartPart(p) ==
    /\ Flushable /\ mpu
    /\ \E wantFree \in WantFree : Eligible(p, wantFree)
    /\ pjob' = [pjob EXCEPT ![p] = [NoFlush EXCEPT !.pc = "start"]]
    /\ UNCHANGED <<local, app, env, job, get, readError, flushError, forceFlush>>

\* Mutant: an upload is completed while parts are being flushed.
MutCompleteEarly ==
    /\ Flushable /\ mpu
    /\ flushInode \/ Pressure
    /\ job' = [Idle EXCEPT !.pc = "complete", !.want = file]
    /\ UNCHANGED <<local, app, env, pjob, get, readError, flushError, forceFlush>>

StartComplete ==
    /\ Flushable /\ mpu
    /\ ~\E p \in Parts : PartDirty(p)
    /\ ~\E b \in 1..Size : FlushLocked(b)
    /\ flushInode \/ Pressure
    /\ job' = [Idle EXCEPT !.pc = "complete", !.want = file]
    /\ UNCHANGED <<local, app, env, pjob, get, readError, flushError, forceFlush>>
----------------------------------------------------------------------------
(* flushSmallObject *)

SmallCapture(n) ==
    /\ job' = [job EXCEPT !.pc = "put", !.size = n, !.body = Body(1, n)]
    /\ buf' = Capture(buf, 1..n)

\* The whole file is locked and, if it is on the server, loaded.
SmallBegins ==
    /\ job.pc = "small"
    /\ IF cacheState = "modified" /\ (Missing(1..Size) \/ IsLoading(1..Size))
       THEN /\ LoadRange(1..Size)
            /\ job' = [job EXCEPT !.pc = "smallLoad", !.size = Size]
       ELSE /\ IF cacheState = "cached" \/ Missing(1..Size) \/ IsLoading(1..Size)
               THEN job' = Idle /\ UNCHANGED buf
               ELSE SmallCapture(Size)
            /\ UNCHANGED get
    /\ UNCHANGED <<cacheState, mpu, parts, known, leaked, lost, late, app, env, pjob, readError,
                   flushError, forceFlush>>

\* A conflict drops the changes and returns without UnlockRange.
SmallLoaded ==
    /\ job.pc = "smallLoad" /\ ~IsLoading(1..job.size)
    /\ IF Missing(1..job.size)
       THEN /\ job' = Idle
            /\ IF Conflict
               THEN ResetCache /\ leaked' = leaked \cup 1..job.size
               ELSE UNCHANGED <<buf, cacheState, mpu, gone, lost, parts, known, leaked>>
       ELSE /\ SmallCapture(job.size)
            /\ UNCHANGED <<cacheState, mpu, gone, lost, parts, known, leaked>>
    /\ UNCHANGED <<late, app, store, faults, vanished, remote, pjob, get, readError, flushError,
                   forceFlush>>

PutBlob ==
    /\ job.pc = "put"
    /\ store' = job.body
    /\ job' = [job EXCEPT !.pc = "putDone"]
    /\ UNCHANGED <<local, app, gone, faults, vanished, remote, pjob, get, readError,
                   flushError, forceFlush>>

PutReturns ==
    /\ job.pc = "putDone"
    /\ buf' = SetState(buf, 1..job.size, "clean")
    /\ Overtake(Cleaned)
    /\ known' = [etag |-> job.body, size |-> job.size]
    /\ cacheState' = IF cacheState = "cached" THEN "cached"
                     ELSE IF StillDirty(file, known', buf') THEN "modified" ELSE "cached"
    /\ job' = Idle
    /\ flushError' = FALSE
    /\ UNCHANGED <<mpu, parts, leaked, lost, late, app, env, pjob, readError, forceFlush>>

\* The PUT fails, or its answer is lost.
PutFails ==
    /\ job.pc \in {"put", "putDone"} /\ faults < MaxFaults
    /\ faults' = faults + 1
    /\ buf' = Forget(buf, 1..job.size)
    /\ job' = Idle
    /\ flushError' = TRUE
    /\ UNCHANGED <<cacheState, mpu, parts, known, leaked, lost, late, app, store, gone, vanished,
                   remote, pjob, get, readError, forceFlush>>
----------------------------------------------------------------------------
(* beginMultipartUpload and flushPart *)

MultipartBegins ==
    /\ job.pc = "begin"
    /\ job' = Idle
    /\ \/ /\ mpu' = TRUE /\ gone' = FALSE
          /\ parts' = [p \in Parts |-> NoPart]
          /\ flushError' = FALSE
          /\ UNCHANGED faults
       \/ /\ faults < MaxFaults /\ faults' = faults + 1
          /\ flushError' = TRUE
          /\ UNCHANGED <<mpu, gone, parts>>
    /\ UNCHANGED <<buf, cacheState, known, leaked, lost, late, app, store, vanished, remote, pjob,
                   get, readError, forceFlush>>

\* The first n blocks of part p.
Front(p, n) == (p - 1) * PartBlocks + 1 .. (p - 1) * PartBlocks + n
PartSize(p) == IF Size < p * PartBlocks THEN Size - (p - 1) * PartBlocks ELSE PartBlocks

PartCapture(p, n) ==
    IF mpu /\ ~Missing(Front(p, n)) /\ ~IsLoading(Front(p, n))
    THEN /\ pjob' = [pjob EXCEPT ![p] = [pc |-> "add", size |-> n,
                                         body |-> Body((p - 1) * PartBlocks + 1, n)]]
         /\ buf' = Capture(buf, Front(p, n))
    ELSE pjob' = [pjob EXCEPT ![p] = NoFlush] /\ UNCHANGED buf

\* Read-modify-write: what is missing of a part of a known object is loaded first.
PartBegins(p) ==
    /\ pjob[p].pc = "start"
    /\ IF cacheState = "modified" /\ known.etag # NoObject /\
          (Missing(Front(p, PartSize(p))) \/ IsLoading(Front(p, PartSize(p))))
       THEN /\ LoadRange(Front(p, PartSize(p)))
            /\ pjob' = [pjob EXCEPT ![p] = [@ EXCEPT !.pc = "load", !.size = PartSize(p)]]
       ELSE PartCapture(p, PartSize(p)) /\ UNCHANGED get
    /\ UNCHANGED <<cacheState, mpu, parts, known, leaked, lost, late, app, env, job, readError,
                   flushError, forceFlush>>

PartLoaded(p) ==
    /\ pjob[p].pc = "load" /\ ~IsLoading(Front(p, pjob[p].size))
    /\ IF Missing(Front(p, pjob[p].size))
       THEN /\ pjob' = [pjob EXCEPT ![p] = NoFlush]
            /\ IF Conflict THEN ResetCache
               ELSE UNCHANGED <<buf, cacheState, mpu, gone, lost, parts, known>>
       ELSE /\ IF cacheState # "modified"
               THEN pjob' = [pjob EXCEPT ![p] = NoFlush] /\ UNCHANGED buf
               ELSE PartCapture(p, pjob[p].size)
            /\ UNCHANGED <<cacheState, mpu, gone, lost, parts, known>>
    /\ UNCHANGED <<leaked, late, app, store, faults, vanished, remote, job, get, readError,
                   flushError, forceFlush>>

MultipartBlobAdd(p) ==
    /\ pjob[p].pc = "add" /\ ~gone
    /\ pjob' = [pjob EXCEPT ![p].pc = "added"]
    /\ UNCHANGED <<local, app, env, job, get, readError, flushError, forceFlush>>

PartReturns(p) ==
    /\ pjob[p].pc = "added"
    /\ parts' = IF mpu THEN [parts EXCEPT ![p] = pjob[p].body] ELSE parts
    /\ buf' = SetState(buf, Front(p, pjob[p].size), "flushed")
    /\ pjob' = [pjob EXCEPT ![p] = NoFlush]
    /\ flushError' = FALSE
    /\ UNCHANGED <<cacheState, mpu, known, leaked, lost, late, app, env, job, get, readError,
                   forceFlush>>

PartFails(p) ==
    /\ pjob[p].pc \in {"add", "added"} /\ faults < MaxFaults
    /\ faults' = faults + 1
    /\ buf' = Forget(buf, PartRange(p))
    /\ pjob' = [pjob EXCEPT ![p] = NoFlush]
    /\ flushError' = TRUE
    /\ UNCHANGED <<cacheState, mpu, parts, known, leaked, lost, late, app, store, gone, vanished,
                   remote, job, get, readError, forceFlush>>

\* NoSuchUpload.
PartRefused(p) ==
    /\ pjob[p].pc = "add" /\ gone
    /\ ResetMultipart(Forget(buf, PartRange(p)))
    /\ pjob' = [pjob EXCEPT ![p] = NoFlush]
    /\ UNCHANGED <<parts, known, leaked, lost, late, app, env, job, get, readError>>
----------------------------------------------------------------------------
(* completeMultipart *)

\* The parts nobody uploaded are copied from the object.
CompleteBegins ==
    /\ job.pc = "complete"
    /\ LET todo == {p \in 1..NumParts(Size) : parts[p] = NoPart}
       IN  job' = IF ~mpu THEN Idle
                  ELSE [job EXCEPT !.pc = IF todo = {} THEN "commit" ELSE "copy",
                                   !.size = Size, !.todo = todo]
    /\ UNCHANGED <<local, app, env, pjob, get, readError, flushError, forceFlush>>

\* The end of part p in a file of the size the completion started with.
CopyEnd(p) == IF job.size < p * PartBlocks THEN job.size ELSE p * PartBlocks
Copyable(p) == store # NoObject /\ CopyEnd(p) <= Len(store)

MultipartBlobCopy(p) ==
    /\ job.pc = "copy" /\ mpu /\ p \in job.todo /\ ~gone
    /\ Copyable(p)
    /\ parts' = [parts EXCEPT ![p] = SubSeq(store, (p - 1) * PartBlocks + 1, CopyEnd(p))]
    /\ job' = [job EXCEPT !.todo = @ \ {p}, !.pc = IF job.todo = {p} THEN "commit" ELSE "copy"]
    /\ UNCHANGED <<buf, cacheState, mpu, known, leaked, lost, late, app, env, pjob, get,
                   readError, flushError, forceFlush>>

\* The object is missing or shorter: taken for a change by another client.
CopyConflict(p) ==
    /\ job.pc = "copy" /\ mpu /\ p \in job.todo /\ ~gone
    /\ ~Copyable(p)
    /\ job' = Idle
    /\ ResetCache
    /\ UNCHANGED <<leaked, late, app, store, faults, vanished, remote, pjob, get, readError,
                   flushError, forceFlush>>

CopyFails ==
    /\ job.pc = "copy" /\ faults < MaxFaults
    /\ faults' = faults + 1
    /\ job' = Idle
    /\ flushError' = TRUE
    /\ UNCHANGED <<local, app, store, gone, vanished, remote, pjob, get, readError, forceFlush>>

MultipartBlobCommit ==
    /\ job.pc = "commit" /\ ~gone
    /\ \E p \in 1..NumParts(job.size) : parts[p] # NoPart
    /\ store' = Joined(NumParts(job.size))
    /\ gone' = TRUE
    /\ job' = [job EXCEPT !.pc = "committed", !.body = store']
    /\ UNCHANGED <<local, app, faults, vanished, remote, pjob, get, readError, flushError,
                   forceFlush>>

CommitReturns ==
    /\ job.pc = "committed"
    /\ mpu /\ cacheState # "cached"
    /\ known' = [etag |-> job.body, size |-> job.size]
    /\ mpu' = FALSE
    /\ buf' = [b \in Blocks |-> IF buf[b].s = "flushed" THEN Clean(buf[b].v) ELSE buf[b]]
    /\ Overtake(Cleaned)
    /\ cacheState' = IF StillDirty(file, known', buf') THEN "modified" ELSE "cached"
    /\ job' = Idle
    /\ flushError' = FALSE
    /\ UNCHANGED <<parts, leaked, lost, late, app, env, pjob, readError, forceFlush>>

\* The commit fails, its answer is lost, or there is no part to commit.
CommitFails ==
    /\ \/ job.pc \in {"commit", "committed"} /\ faults < MaxFaults /\ faults' = faults + 1
       \/ job.pc = "commit" /\ NumParts(job.size) = 0 /\ UNCHANGED faults
    /\ job' = Idle
    /\ flushError' = TRUE
    /\ UNCHANGED <<local, app, store, gone, vanished, remote, pjob, get, readError, forceFlush>>

\* A conflict found meanwhile has aborted the upload.
CompleteAborts ==
    /\ job.pc \in {"copy", "commit", "committed"} /\ (~mpu \/ cacheState = "cached")
    /\ job' = Idle
    /\ UNCHANGED <<local, app, env, pjob, get, readError, flushError, forceFlush>>

\* NoSuchUpload, from a copy or from the commit.
CompleteRefused ==
    /\ job.pc \in {"copy", "commit"} /\ gone
    /\ mpu /\ cacheState # "cached"
    /\ ResetMultipart(buf)
    /\ job' = Idle
    /\ UNCHANGED <<parts, known, leaked, lost, late, app, env, pjob, get, readError>>
----------------------------------------------------------------------------
(* The world outside *)

\* The bucket's lifecycle rules or another client abort the upload.
UploadVanishes ==
    /\ mpu /\ ~gone /\ vanished < MaxGone
    /\ gone' = TRUE
    /\ vanished' = vanished + 1
    /\ UNCHANGED <<local, app, store, faults, remote, job, pjob, get, readError, flushError,
                   forceFlush>>

\* Another client replaces or deletes the object.
RemoteWrite(n) ==
    /\ store # NoObject /\ remote < MaxRemote
    /\ store' = IF n = 0 THEN NoObject ELSE [i \in 1..n |-> -2]
    /\ remote' = remote + 1
    /\ UNCHANGED <<local, app, gone, faults, vanished, job, pjob, get, readError,
                   flushError, forceFlush>>

\* The attributes are read again after local changes were discarded.
Refresh ==
    /\ lost /\ cacheState = "cached" /\ IsFlushing = 0 /\ store # NoObject
    /\ file' = store
    /\ known' = [etag |-> store, size |-> Len(store)]
    /\ buf' = [b \in Blocks |-> Hole]
    /\ lost' = FALSE
    /\ Overtake(Blocks)
    /\ UNCHANGED <<cacheState, mpu, parts, leaked, late, open, lastPart, trunc, reader, writes,
                   truncates, reads, env, job, pjob, readError, flushError, forceFlush>>
----------------------------------------------------------------------------
Flush ==
    \/ StartSmall \/ SmallBegins \/ SmallLoaded \/ PutBlob \/ PutReturns
    \/ StartMultipart \/ MultipartBegins
    \/ \E p \in Parts : StartPart(p) \/ PartBegins(p) \/ PartLoaded(p)
                        \/ MultipartBlobAdd(p) \/ PartReturns(p) \/ PartRefused(p)
    \/ StartComplete \/ CompleteBegins \/ MultipartBlobCommit \/ CommitReturns
    \/ CompleteRefused \/ CompleteAborts
    \/ \E p \in Parts : MultipartBlobCopy(p) \/ CopyConflict(p)
Failure ==
    \/ PutFails \/ CopyFails \/ CommitFails
    \/ \E p \in Parts : PartFails(p)
    \/ \E b \in Blocks : LoadingStalls(b)
Data == \E b \in Blocks : GetBlob(b) \/ BodyArrives(b) \/ GetFails(b)
App ==
    \/ \E b \in Blocks : WriteFile(b) \/ ReadFile(b)
    \/ \E n \in TruncateSizes : Truncate(n)
    \/ SyncFile \/ TruncateEnds \/ ReadReturns \/ Release
World == UploadVanishes \/ Refresh \/ \E n \in 0..NB : RemoteWrite(n)
Next == Flush \/ Failure \/ Data \/ App \/ World \/ \E b \in Blocks : Evict(b)

Spec == Init /\ [][Next]_vars
----------------------------------------------------------------------------
(* Properties *)

Stamps == -2..MaxWrites
Contents == Seq(Stamps)
Buffers == [s : {"none", "loading", "clean", "dirty", "flushed"}, v : Stamps, fly : BOOLEAN]
Jobs == [pc : {"none", "small", "smallLoad", "put", "putDone", "begin", "complete", "copy",
               "commit", "committed"},
         size : 0..NB, body : Contents, todo : SUBSET Parts, want : Contents]
PartJobs == [pc : {"none", "start", "load", "add", "added"},
             size : 0..PartBlocks, body : Contents]
Gets == [pc : {"none", "sent", "body"}, etag : Contents \cup {NoObject}, v : Stamps, old : BOOLEAN]

FileTypeOK ==
    /\ file \in Contents /\ Len(file) <= NB
    /\ open \in BOOLEAN /\ lastPart \in 1..NP+1
    /\ trunc \in 0..NB \cup {NoSize} /\ reader \in 0..NB
BuffersTypeOK ==
    /\ buf \in [Blocks -> Buffers] /\ get \in [Blocks -> Gets]
    /\ cacheState \in {"created", "modified", "cached"}
    /\ readError \in {"none", "busy", "missing", "other"}
    /\ leaked \subseteq Blocks /\ lost \in BOOLEAN
UploadTypeOK ==
    /\ mpu \in BOOLEAN /\ gone \in BOOLEAN /\ parts \in [Parts -> Contents \cup {NoPart}]
    /\ known \in [etag : Contents \cup {NoObject}, size : 0..NB]
    /\ job \in Jobs /\ pjob \in [Parts -> PartJobs]
    /\ flushError \in BOOLEAN /\ forceFlush \in BOOLEAN
    /\ store \in Contents \cup {NoObject}
CountersTypeOK ==
    /\ writes \in 0..MaxWrites /\ truncates \in 0..MaxTruncates /\ reads \in 0..MaxReads
    /\ faults \in 0..MaxFaults /\ vanished \in 0..MaxGone /\ remote \in 0..MaxRemote

StateTypeOK == FileTypeOK /\ BuffersTypeOK /\ UploadTypeOK /\ CountersTypeOK

(* The state of buffers, flushes and requests is well formed: no part, size or   *)
(* offset leaves the file (partNum, partRange, finalSize).                       *)
TypeOK == StateTypeOK /\ late \in BOOLEAN

Stored(b) == store # NoObject /\ b <= Len(store) /\ store[b] = file[b]

(* A read of any block returns its newest write, whatever is in flight: what is  *)
(* dirty or flushed is newer than any loaded data (Add), and what is clean or    *)
(* not in memory equals the object, unless changes were discarded in a conflict  *)
(* or a body came after the answer of an upload of newer bytes (late).           *)
ReadsSeeWrites ==
    \A b \in 1..Size :
        IF Unclean(b) THEN buf[b].v = file[b]
        ELSE \/ lost \/ late \/ remote > 0
             \/ Stored(b) /\ (buf[b].s = "clean" => buf[b].v = file[b])

(* An unmodified buffer is equal to the current object (the comment on dirtyID): *)
(* no GET brings back bytes that an upload has replaced since.                   *)
CleanIsCurrent ==
    \A b \in 1..Size : buf[b].s = "clean" /\ ~lost /\ remote = 0 =>
        store # NoObject /\ b <= Len(store) /\ buf[b].v = store[b]

(* A block marked as flushed is in a part of the upload that will be completed.  *)
FlushedIsUploaded ==
    \A b \in Blocks : buf[b].s = "flushed" =>
        LET p == partNum(b - 1) IN
        mpu /\ parts[p] # NoPart /\ parts[p][b - (p - 1) * PartBlocks] = buf[b].v

(* A commit publishes the file as it was when the completion was decided, cut    *)
(* by what a truncate removed before it began; never a mixture of moments.       *)
CommitIsInstant ==
    [][job.pc = "commit" /\ ~lost /\ ~late /\ store' # store /\ remote' = remote =>
         store' = SubSeq(job.want, 1, IF job.size < Len(job.want) THEN job.size ELSE Len(job.want))]_vars

(* When the inode is clean and nothing is in flight the object is the file:      *)
(* what SyncFile tests before it reports success.                                *)
SyncedIsStored ==
    SyncDone /\ ~lost /\ ~late /\ remote = 0 =>
        store = file \/ (cacheState = "created" /\ file = <<>>)

Fairness ==
    /\ WF_vars(Flush)
    /\ WF_vars(Data)
    /\ WF_vars(trunc = NoSize /\ Release)
    /\ WF_vars(TruncateEnds)
    /\ WF_vars(ReadReturns)
    /\ WF_vars(trunc # NoSize /\ SyncFile)
FairSpec == Spec /\ Fairness

(* What nothing may lead out of: a range stays locked after a conflict found by  *)
(* flushSmallObject; an upload of no parts can be neither completed nor left;    *)
(* SyncFile returns the error of an earlier flush before it forces another.      *)
Stuck == leaked # {} \/ (mpu /\ file = <<>>) \/ (flushError /\ open /\ ~forceFlush)

(* Once the file is closed, or synced, everything is stored whatever failed once,*)
(* unless another client's change was met.                                       *)
EventuallyStored ==
    <>[](lost \/ late \/ remote > 0 \/ Stuck \/ (cacheState = "cached" /\ store = file))

(* A truncate that waits for an upload to finish does finish.                    *)
TruncateReturns == trunc # NoSize ~> (trunc = NoSize \/ Stuck)
=============================================================================
