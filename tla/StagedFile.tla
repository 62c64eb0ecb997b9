------------------------------ MODULE StagedFile ------------------------------
(***************************************************************************)
(* The staged-write path of one file: writes go to a local staging file    *)
(* (StagedFile, handles.go), whose bytes are uploaded by                   *)
(* flushStagedFileDirect (goofys.go) while the application keeps writing,  *)
(* truncating, renaming and unlinking.  Every action below is one critical *)
(* section of inode.mu and/or stagedFile.mu, or one request to the object  *)
(* store; between two of them any other thread may run.                    *)
(*                                                                         *)
(* A file is a sequence of blocks.  The value of a block is the stamp of   *)
(* the write that produced it (0 = never written, reads as zeroes), so two *)
(* contents are equal exactly when the same writes produced them.          *)
(*                                                                         *)
(* Not in this module: the buffered write path (a partial update of a      *)
(* released file bypasses staging), debounce timers (a flush may start at  *)
(* any time), reads, pauseWriters, and a second rename of the same file.   *)
(***************************************************************************)
EXTENDS Integers, FiniteSets

CONSTANTS
    NB,             \* blocks in the largest file
    SnapshotLimit,  \* a larger file is uploaded live, see liveUpload
    HashMin,        \* MinFileSizeForHashKB in blocks
    MaxStaged,      \* bound: StagedFile objects created for the inode
    MaxClock,       \* bound: writes and truncates
    MaxMeta,        \* bound: extended attribute updates
    MaxSync,        \* bound: fsync calls
    MaxFaults,      \* bound: failed or lost backend requests
    MaxRemote,      \* bound: objects removed by other clients
    Key, NewKey,    \* the file's key and the one it may be renamed to
    NoKey, NoObject,
    NoHash          \* no hash, no ETag

ASSUME BoundsAssumption ==
    /\ NB \in Nat \ {0}
    /\ SnapshotLimit \in Nat /\ HashMin \in Nat
    /\ MaxStaged \in Nat \ {0}
    /\ MaxClock \in Nat /\ MaxMeta \in Nat /\ MaxSync \in Nat
    /\ MaxFaults \in Nat /\ MaxRemote \in Nat
ASSUME KeysAssumption ==
    /\ Key # NewKey /\ NoKey \notin {Key, NewKey}
    /\ NoHash \notin UNION {[1..n -> 0..MaxClock] : n \in 0..NB}

VARIABLES
    \* Inode fields (all under inode.mu)
    cur,            \* inode.StagedFile: id of the attached StagedFile, 0 = nil
    registered,     \* inode.Id is in fs.stagedFiles
    cacheState, size, knownSize, knownETag, isFlushing, flushError,
    meta,           \* version of userMetadata without the hash attribute
    metaHash,       \* userMetadata[HashAttr]
    metaDirty,      \* userMetadataDirty # 0
    key, oldKey,    \* Parent/Name and oldParent/oldName
    renamingTo, linked,
    \* StagedFile objects (under stagedFile.mu) and how many exist
    sf, used,
    \* goroutines
    up,             \* flushStagedFileDirect, per StagedFile
    ren,            \* sendRename
    upd,            \* sendUpdateMeta
    writer,         \* a WriteFile request between its critical sections
    sync,           \* syncStagedFile
    \* environment and bookkeeping
    store,          \* the object store
    clock, syncs, faults, remote,
    file,           \* what the application wrote: the logical content
    sparse          \* a fresh StagedFile was taken for the file, see EnsureStaged
                    \* and TruncateStaged

inodeVars == <<cur, registered, cacheState, size, knownSize, knownETag, isFlushing, flushError,
               meta, metaHash, metaDirty, key, oldKey, renamingTo, linked>>
vars == <<inodeVars, sf, used, up, ren, upd, writer, sync, store, clock, syncs, faults,
          remote, file, sparse>>

Blocks == 1..NB
Ids    == 1..MaxStaged
Stamps == 0..MaxClock
Keys   == {Key, NewKey}
NoPart == -1                       \* a part that was not read yet

\* The first n blocks of d, as the bytes a request carries.
Content(d, n) == [b \in 1..n |-> d[b]]
Contents == UNION {[1..n -> Stamps] : n \in 0..NB}
Zeroes   == [b \in Blocks |-> 0]
Unread   == [b \in Blocks |-> NoPart]

Objects == [data: Contents,        \* the bytes
            hash: Contents \cup {NoHash},
            meta: 0..MaxMeta,
            snap: Contents,        \* the staged bytes when the flush began
            upTo: Stamps]          \* writes up to this stamp are included
ASSUME ObjectsAssumption == NoObject \notin Objects

StagedFiles == [fd: BOOLEAN, data: [Blocks -> Stamps], len: 0..NB, generation: 0..MaxClock,
                flushing: BOOLEAN, cleanupPending: BOOLEAN, awaitingRemoteRename: BOOLEAN]
Unused == [fd |-> FALSE, data |-> Zeroes, len |-> 0, generation |-> 0, flushing |-> FALSE,
           cleanupPending |-> FALSE, awaitingRemoteRename |-> FALSE]
Fresh  == [Unused EXCEPT !.fd = TRUE]

UploadPcs == {"idle", "hash", "meta", "begin", "parts", "commit", "committed", "failed",
              "retry", "finishFlush", "done"}
Uploads == [pc: UploadPcs, size: 0..NB, generation: 0..MaxClock, key: Keys, snap: [Blocks -> Stamps],
            upTo: Stamps, hashed: [Blocks -> Stamps \cup {NoPart}],
            parts: [Blocks -> Stamps \cup {NoPart}],
            hash: Contents \cup {NoHash}, meta: 0..MaxMeta, release: BOOLEAN, err: BOOLEAN]
NoUpload == [pc |-> "idle", size |-> 0, generation |-> 0, key |-> Key, snap |-> Zeroes, upTo |-> 0,
             hashed |-> Unread, parts |-> Unread, hash |-> NoHash, meta |-> 0,
             release |-> FALSE, err |-> FALSE]
Renames == [pc: {"idle", "copy", "copied", "missing", "error", "delete", "end"},
            from: Keys, to: Keys]
Updates == [pc: {"idle", "copy", "copied", "conflict", "error"}, meta: 0..MaxMeta,
            hash: Contents \cup {NoHash}, etag: Contents \cup {NoHash}, key: Keys,
            discarded: BOOLEAN]
Writes  == [pc: {"idle", "prepared", "ensured"}, lo: Blocks, hi: Blocks]
Syncs   == [pc: {"idle", "flush", "own", "check", "checkStaged", "synced", "failed"},
            id: Ids \cup {0}, stamp: Stamps, renamePending: BOOLEAN]
NoRename == [pc |-> "idle", from |-> Key, to |-> NewKey]
NoUpdate == [pc |-> "idle", meta |-> 0, hash |-> NoHash, etag |-> NoHash, key |-> Key,
             discarded |-> FALSE]
NoWrite  == [pc |-> "idle", lo |-> 1, hi |-> 1]
NoSync   == [pc |-> "idle", id |-> 0, stamp |-> 0, renamePending |-> FALSE]

-------------------------------------------------------------------------------
(* Predicates of the code *)

Dead == cacheState \in {"DELETED", "DEAD"}
Writable == ~Dead /\ cur # 0 /\ sf[cur].fd /\ ~sf[cur].cleanupPending
liveUpload(n) == n > SnapshotLimit
wantHash(n)   == n >= HashMin
hasUnpersistedStagedFile == cur # 0 /\ ~(sf[cur].fd /\ sf[cur].awaitingRemoteRename)
isStillDirty == metaDirty \/ oldKey # NoKey \/ size # knownSize
retryFromLocal == cur # 0 /\ ~hasUnpersistedStagedFile /\ ~sf[cur].cleanupPending
generationStillCurrent(i) == sf[i].generation = up[i].generation

(* Mutant: the upload goes to the new name although the rename is still due. *)
MutSourceKeyIsNew == key

(* Where the object of this inode is expected, SendDelete and the flushers alike. *)
SourceKey == IF oldKey # NoKey THEN oldKey ELSE key

(* Mutant: the staging file is removed under a running flush. *)
MutCleanupAtOnce(s) == Unused

(* StagedFile.Cleanup: close and remove the staging file, or leave that to the
   flush that is reading it. *)
Cleanup(s) ==
    IF s.fd /\ s.flushing
    THEN [s EXCEPT !.cleanupPending = TRUE]
    ELSE Unused

(* Mutant: the flushing mark is never taken back. *)
MutFlushingStays(s) == IF s.cleanupPending THEN Unused ELSE s

(* StagedFile.FinishFlush *)
FinishFlushed(s) ==
    LET t == [s EXCEPT !.flushing = FALSE]
    IN  IF t.cleanupPending THEN Cleanup(t) ELSE t

(* getOrCreateStagedFileLocked *)
CreateStaged ==
    /\ used < MaxStaged
    /\ used' = used + 1
    /\ cur' = used + 1
    /\ sf' = [sf EXCEPT ![used + 1] = Fresh]
    /\ registered' = TRUE

(* resetCache: drops the staged data; the state becomes st. *)
ResetCache(st) ==
    /\ sf' = IF cur = 0 THEN sf ELSE [sf EXCEPT ![cur] = Cleanup(@)]
    /\ registered' = (registered /\ cur = 0)
    /\ cur' = 0
    /\ metaDirty' = FALSE
    /\ cacheState' = st

-------------------------------------------------------------------------------
(* Either a new file (CreateFile attaches an empty StagedFile) or a file that
   exists in the object store and was looked up. *)
Init ==
    /\ used = 1
    /\ \/ /\ cacheState = "CREATED" /\ size = 0 /\ cur = 1 /\ registered = TRUE
          /\ sf = [i \in Ids |-> IF i = 1 THEN Fresh ELSE Unused]
          /\ store = [k \in Keys |-> NoObject]
       \/ /\ cacheState = "CACHED" /\ size = NB /\ cur = 0 /\ registered = FALSE
          /\ sf = [i \in Ids |-> Unused]
          /\ store = [k \in Keys |-> IF k = Key
                        THEN [data |-> Content(Zeroes, NB), hash |-> NoHash, meta |-> 0,
                              snap |-> Content(Zeroes, NB), upTo |-> 0]
                        ELSE NoObject]
    /\ knownSize = size
    /\ knownETag = IF cacheState = "CREATED" THEN NoHash ELSE Content(Zeroes, NB)
    /\ isFlushing = 0 /\ flushError = FALSE
    /\ meta = 0 /\ metaHash = NoHash /\ metaDirty = FALSE
    /\ key = Key /\ oldKey = NoKey /\ renamingTo = FALSE /\ linked = TRUE
    /\ up = [i \in Ids |-> NoUpload]
    /\ ren = NoRename
    /\ upd = NoUpdate
    /\ writer = NoWrite
    /\ sync = NoSync /\ syncs = 0
    /\ clock = 0 /\ faults = 0 /\ remote = 0
    /\ file = Zeroes
    /\ sparse = FALSE

-------------------------------------------------------------------------------
(* Application requests *)

(* prepareStagedWrite: a write of blocks lo..hi.  Without a StagedFile only a
   new file or a full replacement is staged; other writes are buffered. *)
PrepareStagedWrite(lo, hi) ==
    /\ writer.pc = "idle" /\ clock < MaxClock
    /\ ~Dead
    /\ writer' = [pc |-> "prepared", lo |-> lo, hi |-> hi]
    /\ \/ cur # 0 /\ UNCHANGED <<cur, registered, sf, used>>
       \/ /\ cur = 0
          /\ cacheState = "CREATED" \/ size = 0 \/ (lo = 1 /\ hi >= size)
          /\ CreateStaged
    /\ UNCHANGED <<cacheState, size, knownSize, knownETag, isFlushing, flushError, meta, metaHash,
                   metaDirty, key, oldKey, renamingTo, linked, up, ren, upd, sync,
                   store, clock, syncs, faults, remote, file, sparse>>

(* WriteFileStaged, first critical section: getOrCreateStagedFile again, with no
   condition on the range or on the state of the inode. *)
EnsureStaged ==
    /\ writer.pc = "prepared"
    /\ writer' = [writer EXCEPT !.pc = "ensured"]
    /\ \/ cur # 0 /\ UNCHANGED <<cur, registered, sf, used, sparse>>
       \/ cur = 0 /\ CreateStaged /\ sparse' = TRUE
    /\ UNCHANGED <<cacheState, size, knownSize, knownETag, isFlushing, flushError, meta, metaHash,
                   metaDirty, key, oldKey, renamingTo, linked, up, ren, upd, sync,
                   store, clock, syncs, faults, remote, file>>

(* WriteFileStaged, second critical section, when it returns an error. *)
WriteRefused ==
    /\ writer.pc = "ensured"
    /\ ~Writable
    /\ writer' = NoWrite
    /\ UNCHANGED <<inodeVars, sf, used, up, ren, upd, sync, store, clock, syncs, faults, remote,
                   file, sparse>>

(* The blocks lo..hi of d written with stamp t. *)
Written(d, lo, hi, t) == [b \in Blocks |-> IF b \in lo..hi THEN t ELSE d[b]]

(* Mutants: a change that keeps its generation, or counts twice. *)
MutSameGeneration(s, d, n) == [s EXCEPT !.data = d, !.len = n, !.awaitingRemoteRename = FALSE]
MutGenerationTwice(s, d, n) == [MutSameGeneration(s, d, n) EXCEPT !.generation = @ + 2]

(* A local change of the attached StagedFile: new bytes, next generation. *)
NextGeneration(s, d, n) ==
    [s EXCEPT !.data = d, !.len = n, !.generation = @ + 1, !.awaitingRemoteRename = FALSE]

WriteFileStaged ==
    /\ writer.pc = "ensured"
    /\ Writable
    /\ clock < MaxClock
    /\ clock' = clock + 1
    /\ LET w == writer
           s == sf[cur]
       IN  /\ sf' = [sf EXCEPT ![cur] =
                       NextGeneration(s, Written(s.data, w.lo, w.hi, clock + 1),
                                      IF s.len < w.hi THEN w.hi ELSE s.len)]
           /\ size' = IF size < w.hi THEN w.hi ELSE size
           /\ file' = Written(file, w.lo, w.hi, clock + 1)
    /\ cacheState' = IF cacheState = "CACHED" THEN "MODIFIED" ELSE cacheState
    /\ writer' = NoWrite
    /\ UNCHANGED <<cur, registered, knownSize, knownETag, isFlushing, flushError, meta, metaHash,
                   metaDirty, key, oldKey, renamingTo, linked, used, up, ren, upd, sync,
                   store, syncs, faults, remote, sparse>>

Cut(d, n) == [b \in Blocks |-> IF b <= n THEN d[b] ELSE 0]

(* SetAttributes(size) of a staged file, with ResizeStagedUnlocked.  Between the two
   halves of a write that replaces the file its StagedFile is still empty, and the
   truncate fills it with zeroes. *)
TruncateStaged(n) ==
    /\ Writable /\ n # size
    /\ clock < MaxClock - (IF writer.pc = "idle" THEN 0 ELSE 1)
    /\ clock' = clock + 1
    /\ sf' = [sf EXCEPT ![cur] = NextGeneration(@, Cut(@.data, n), n)]
    /\ size' = n
    /\ file' = Cut(file, n)
    /\ cacheState' = IF cacheState = "CACHED" THEN "MODIFIED" ELSE cacheState
    /\ sparse' = (sparse \/ (size > 0 /\ sf[cur].generation = 0))
    /\ UNCHANGED <<cur, registered, knownSize, knownETag, isFlushing, flushError, meta, metaHash,
                   metaDirty, key, oldKey, renamingTo, linked, used, up, ren, upd, writer,
                   sync, store, syncs, faults, remote>>

(* SetXattr *)
SetXattr ==
    /\ ~Dead
    /\ meta < MaxMeta
    /\ meta' = meta + 1
    /\ metaDirty' = TRUE
    /\ cacheState' = IF cacheState = "CACHED" THEN "MODIFIED" ELSE cacheState
    /\ UNCHANGED <<cur, registered, size, knownSize, knownETag, isFlushing, flushError, metaHash, key,
                   oldKey, renamingTo, linked, sf, used, up, ren, upd, writer, sync, store,
                   clock, syncs, faults, remote, file, sparse>>

(* renameInCache of a file that was not renamed before. *)
RenameInCache ==
    /\ linked /\ ~Dead /\ key = Key /\ oldKey = NoKey
    /\ key' = NewKey
    /\ oldKey' = IF cacheState = "CREATED" /\ isFlushing = 0 THEN NoKey ELSE Key
    /\ cacheState' = IF cacheState = "CACHED" THEN "MODIFIED" ELSE cacheState
    /\ UNCHANGED <<cur, registered, size, knownSize, knownETag, isFlushing, flushError, meta, metaHash,
                   metaDirty, renamingTo, linked, sf, used, up, ren, upd, writer, sync,
                   store, clock, syncs, faults, remote, file, sparse>>

(* doUnlink; the DELETE itself is SendDelete's, in another module. *)
Unlink ==
    /\ linked /\ ~Dead
    /\ linked' = FALSE
    /\ size' = 0
    /\ ResetCache(IF cacheState = "CREATED" /\ isFlushing = 0 /\ (oldKey = NoKey \/ renamingTo)
                  THEN "DEAD" ELSE "DELETED")
    /\ UNCHANGED <<knownSize, knownETag, isFlushing, flushError, meta, metaHash, key, oldKey, renamingTo,
                   used, up, ren, upd, writer, sync, store, clock, syncs, faults, remote, file, sparse>>

-------------------------------------------------------------------------------
(* flushStagedFileDirect(i) *)

(* Steps of an upload leave everything else alone. *)
UploadOnly == UNCHANGED <<inodeVars, sf, used, ren, upd, writer, sync, store, clock, syncs,
                          remote, file, sparse>>
UploadGoesTo(i, pc) == up' = [up EXCEPT ![i].pc = pc]

(* The early returns of flushStagedFileDirect. *)
Flushable(i) ==
    /\ cur = i /\ ~renamingTo
    /\ ~sf[i].flushing /\ ~sf[i].awaitingRemoteRename /\ sf[i].fd
(* snapshotStagedUpload fails on a staging file shorter than the inode. *)
SnapshotFails(i) == ~liveUpload(size) /\ sf[i].len < size

(* First critical section: capture size, generation and key; take the snapshot
   unless the upload is live.  The next flush of the same StagedFile begins after
   the previous one has returned (the code allows it already while the previous
   call has only its IsFlushing decrement left to do). *)
BeginFlush(i) ==
    /\ Flushable(i) /\ ~SnapshotFails(i)
    /\ up[i].pc = "idle"
    /\ up' = [up EXCEPT ![i] =
                [NoUpload EXCEPT !.pc = IF liveUpload(size) /\ wantHash(size)
                                        THEN "hash" ELSE "meta",
                                 !.size = size, !.generation = sf[i].generation,
                                 !.key = SourceKey,
                                 !.snap = sf[i].data, !.upTo = clock]]
    /\ sf' = [sf EXCEPT ![i].flushing = TRUE]
    /\ isFlushing' = isFlushing + 1
    /\ UNCHANGED <<cur, registered, cacheState, size, knownSize, knownETag, flushError, meta, metaHash,
                   metaDirty, key, oldKey, renamingTo, linked, used, ren, upd, writer,
                   store, clock, syncs, faults, remote, file, sparse>>

(* The periodic flusher or unmount starts the flush. *)
FlusherBegins(i) == BeginFlush(i) /\ UNCHANGED sync

(* hashLocalFile reads the live staging file block by block. *)
HashBlock(i, b) ==
    /\ up[i].pc = "hash"
    /\ b <= up[i].size /\ up[i].hashed[b] = NoPart
    /\ \A c \in 1..(b - 1) : up[i].hashed[c] # NoPart
    /\ up' = [up EXCEPT ![i].hashed[b] = sf[i].data[b]]
    /\ UploadOnly /\ UNCHANGED faults

HashDone(i) ==
    /\ up[i].pc = "hash"
    /\ \A b \in 1..up[i].size : up[i].hashed[b] # NoPart
    /\ UploadGoesTo(i, IF generationStillCurrent(i) THEN "meta" ELSE "retry")
    /\ UploadOnly /\ UNCHANGED faults

(* Mutant: a hash that is already there is kept. *)
MutKeepHash(i) ==
    /\ up[i].pc = "meta"
    /\ metaHash' = IF metaHash = NoHash THEN Content(up[i].snap, up[i].size) ELSE metaHash
    /\ up' = [up EXCEPT ![i].pc = "begin", ![i].hash = metaHash', ![i].meta = meta]
    /\ UNCHANGED <<cur, registered, cacheState, size, knownSize, knownETag, isFlushing, flushError, meta,
                   metaDirty, key, oldKey, renamingTo, linked, sf, used, ren, upd, writer, sync,
                   store, clock, syncs, faults, remote, file, sparse>>

(* userMetadata[HashAttr] is replaced only if this upload wants a hash. *)
CaptureMetadata(i) ==
    /\ up[i].pc = "meta"
    /\ metaHash' = IF wantHash(up[i].size)
                   THEN Content(IF liveUpload(up[i].size) THEN up[i].hashed ELSE up[i].snap,
                                up[i].size)
                   ELSE metaHash
    /\ up' = [up EXCEPT ![i].pc = "begin", ![i].hash = metaHash', ![i].meta = meta,
                          ![i].hashed = Unread]
    /\ UNCHANGED <<cur, registered, cacheState, size, knownSize, knownETag, isFlushing, flushError, meta,
                   metaDirty, key, oldKey, renamingTo, linked, sf, used, ren, upd, writer, sync,
                   store, clock, syncs, faults, remote, file, sparse>>

(* uploadStagedFileDirect: one attempt.  A snapshot cannot change any more, so
   its PutObject (or its parts) is one step. *)
BeginAttempt(i) ==
    /\ up[i].pc = "begin"
    /\ up' = IF liveUpload(up[i].size)
             THEN [up EXCEPT ![i].pc = IF generationStillCurrent(i) THEN "parts" ELSE "retry",
                             ![i].parts = Unread]
             ELSE [up EXCEPT ![i].pc = "commit", ![i].parts = up[i].snap]
    /\ UploadOnly /\ UNCHANGED faults

(* A worker reads a part of the live staging file and sends it; a file shorter
   than the announced size makes the request fail. *)
UploadPart(i, b) ==
    /\ up[i].pc = "parts"
    /\ b <= up[i].size /\ up[i].parts[b] = NoPart
    /\ up' = IF b <= sf[i].len
             THEN [up EXCEPT ![i].parts[b] = sf[i].data[b]]
             ELSE [up EXCEPT ![i].pc = "failed"]
    /\ UploadOnly /\ UNCHANGED faults

(* Mutant: the parts are committed without comparing generations. *)
MutCommitUnchecked(i) ==
    /\ up[i].pc = "parts"
    /\ \A b \in 1..up[i].size : up[i].parts[b] # NoPart
    /\ UploadGoesTo(i, "commit")
    /\ UploadOnly /\ UNCHANGED faults

(* beforeCommit of a live multipart upload. *)
BeforeCommit(i) ==
    /\ up[i].pc = "parts"
    /\ \A b \in 1..up[i].size : up[i].parts[b] # NoPart
    /\ UploadGoesTo(i, IF generationStillCurrent(i) THEN "commit" ELSE "retry")
    /\ UploadOnly /\ UNCHANGED faults

Uploaded(u) == [data |-> Content(u.parts, u.size), hash |-> u.hash, meta |-> u.meta,
                snap |-> Content(u.snap, u.size), upTo |-> u.upTo]

CommitUpload(i) ==
    /\ up[i].pc = "commit"
    /\ store' = [store EXCEPT ![up[i].key] = Uploaded(up[i])]
    /\ UploadGoesTo(i, "committed")
    /\ UNCHANGED <<inodeVars, sf, used, ren, upd, writer, sync, clock, syncs, faults, remote, file,
                   sparse>>

(* The upload id is lost: start over.  Or a request fails for good, and the
   commit may have been applied although its answer was lost. *)
UploadLost(i) ==
    /\ up[i].pc \in {"parts", "commit"} /\ liveUpload(up[i].size)
    /\ faults < MaxFaults /\ faults' = faults + 1
    /\ UploadGoesTo(i, "begin")
    /\ UploadOnly

UploadFails(i) ==
    /\ up[i].pc \in {"parts", "commit"}
    /\ faults < MaxFaults /\ faults' = faults + 1
    /\ UploadGoesTo(i, "failed")
    /\ \/ UNCHANGED store
       \/ up[i].pc = "commit" /\ store' = [store EXCEPT ![up[i].key] = Uploaded(up[i])]
    /\ UNCHANGED <<inodeVars, sf, used, ren, upd, writer, sync, clock, syncs, remote, file, sparse>>

(* The error return, unless a newer generation explains the failure. *)
FlushFailed(i) ==
    /\ up[i].pc = "failed"
    /\ IF liveUpload(up[i].size) /\ ~generationStillCurrent(i)
       THEN UploadGoesTo(i, "retry") /\ UNCHANGED flushError
       ELSE up' = [up EXCEPT ![i].pc = "retry", ![i].err = TRUE] /\ flushError' = TRUE
    /\ UNCHANGED <<cur, registered, cacheState, size, knownSize, knownETag, isFlushing, meta, metaHash,
                   metaDirty, key, oldKey, renamingTo, linked, sf, used, ren, upd, writer, sync,
                   store, clock, syncs, faults, remote, file, sparse>>

(* The deferred FinishFlush(true) of every early return. *)
RetryLater(i) ==
    /\ up[i].pc = "retry"
    /\ UploadGoesTo(i, "done")
    /\ sf' = [sf EXCEPT ![i] = FinishFlushed(@)]
    /\ UNCHANGED <<inodeVars, used, ren, upd, writer, sync, store, clock, syncs, faults, remote, file,
                   sparse>>

(* After the commit, under inode.mu: keep the StagedFile if it changed, hold it
   back if a remote rename is due, release it otherwise. *)
FlushComplete(i) ==
    /\ up[i].pc = "committed"
    /\ IF cur # i
       THEN /\ UploadGoesTo(i, "finishFlush")
            /\ UNCHANGED <<inodeVars, sf>>
       ELSE LET changed == ~generationStillCurrent(i)
                pending == ~changed /\ oldKey # NoKey
                clean   == oldKey = NoKey /\ size = up[i].size
            IN  /\ flushError' = FALSE
                /\ knownSize' = up[i].size /\ knownETag' = Content(up[i].parts, up[i].size)
                /\ metaDirty' = FALSE
                /\ cacheState' =
                     IF Dead THEN cacheState
                     ELSE IF clean /\ ~changed THEN "CACHED"
                     ELSE IF cacheState = "CACHED" /\ ~changed THEN "CACHED" ELSE "MODIFIED"
                /\ sf' = [sf EXCEPT ![i].awaitingRemoteRename = pending]
                /\ cur' = IF changed \/ pending THEN cur ELSE 0
                /\ registered' = (registered /\ (changed \/ pending))
                /\ up' = [up EXCEPT ![i].pc = "finishFlush", ![i].release = ~changed /\ ~pending]
                /\ UNCHANGED <<size, isFlushing, meta, metaHash, key, oldKey, renamingTo, linked>>
    /\ UNCHANGED <<used, ren, upd, writer, sync, store, clock, syncs, faults, remote, file, sparse>>

(* FinishFlush, and finalizeStagedFile if the inode let go of the StagedFile. *)
FinishFlush(i) ==
    /\ up[i].pc = "finishFlush"
    /\ sf' = [sf EXCEPT ![i] = IF up[i].release THEN Cleanup(FinishFlushed(@))
                               ELSE FinishFlushed(@)]
    /\ UploadGoesTo(i, "done")
    /\ UNCHANGED <<inodeVars, used, ren, upd, writer, sync, store, clock, syncs, faults, remote,
                   file, sparse>>

(* The deferred IsFlushing -= flushWeight; a syncStagedFile that made this call
   goes on with its result. *)
FlushReturns(i) ==
    /\ up[i].pc = "done"
    /\ up' = [up EXCEPT ![i] = NoUpload]
    /\ isFlushing' = isFlushing - 1
    /\ sync' = IF sync.pc = "own" /\ sync.id = i
               THEN [sync EXCEPT !.pc = IF up[i].err THEN "failed" ELSE "check"]
               ELSE sync
    /\ UNCHANGED <<cur, registered, cacheState, size, knownSize, knownETag, flushError, meta,
                   metaHash, metaDirty, key, oldKey, renamingTo, linked, sf, used, ren, upd,
                   writer, store, clock, syncs, faults, remote, file, sparse>>

-------------------------------------------------------------------------------
(* sendRename, started by TryFlush once the staged generation is uploaded *)

StartRename ==
    /\ ~hasUnpersistedStagedFile
    /\ cacheState \in {"CREATED", "MODIFIED"}
    /\ oldKey # NoKey /\ isFlushing = 0
    /\ ren' = [pc |-> "copy", from |-> oldKey, to |-> key]
    /\ renamingTo' = TRUE
    /\ isFlushing' = isFlushing + 1
    /\ UNCHANGED <<cur, registered, cacheState, size, knownSize, knownETag, flushError, meta, metaHash,
                   metaDirty, key, oldKey, linked, sf, used, up, upd, writer, sync, store,
                   clock, syncs, faults, remote, file, sparse>>

CopyBlob ==
    /\ ren.pc = "copy"
    /\ \/ /\ store[ren.from] # NoObject
          /\ store' = [store EXCEPT ![ren.to] = store[ren.from]]
          /\ ren' = [ren EXCEPT !.pc = "copied"] /\ UNCHANGED faults
       \/ /\ store[ren.from] = NoObject
          /\ ren' = [ren EXCEPT !.pc = "missing"] /\ UNCHANGED <<faults, store>>
       \/ /\ faults < MaxFaults /\ faults' = faults + 1
          /\ ren' = [ren EXCEPT !.pc = "error"] /\ UNCHANGED store
    /\ UNCHANGED <<inodeVars, sf, used, up, upd, writer, sync, clock, syncs, remote, file, sparse>>

(* The copy succeeded: drop the old name and release an uploaded StagedFile
   (detachUploadedStagedFileLocked, then finalizeStagedFile). *)
RenameCopied ==
    /\ ren.pc = "copied"
    /\ oldKey' = NoKey /\ renamingTo' = FALSE
    /\ cacheState' = IF cacheState \in {"CREATED", "MODIFIED"} /\ ~metaDirty
                        /\ size = knownSize /\ ~hasUnpersistedStagedFile
                     THEN "CACHED" ELSE cacheState
    /\ LET detach == cur # 0 /\ ~hasUnpersistedStagedFile
       IN  /\ cur' = IF detach THEN 0 ELSE cur
           /\ registered' = (registered /\ ~detach)
           /\ sf' = IF detach THEN [sf EXCEPT ![cur] = Cleanup(@)] ELSE sf
    /\ ren' = [ren EXCEPT !.pc = "delete"]
    /\ UNCHANGED <<size, knownSize, knownETag, isFlushing, flushError, meta, metaHash, metaDirty, key, linked,
                   used, up, upd, writer, sync, store, clock, syncs, faults, remote, file, sparse>>

(* A failed DELETE of the old key leaves a tombstone inode that retries it. *)
DeleteOldKey ==
    /\ ren.pc = "delete"
    /\ \/ store' = [store EXCEPT ![ren.from] = NoObject] /\ UNCHANGED faults
       \/ faults < MaxFaults /\ faults' = faults + 1 /\ UNCHANGED store
    /\ ren' = [ren EXCEPT !.pc = "end"]
    /\ UNCHANGED <<inodeVars, sf, used, up, upd, writer, sync, clock, syncs, remote, file, sparse>>

(* The source object is gone: upload a retained generation under the new key,
   or give the local file up. *)
RenameSourceMissing ==
    /\ ren.pc = "missing"
    /\ ren' = [ren EXCEPT !.pc = "end"]
    /\ oldKey' = NoKey /\ renamingTo' = FALSE
    /\ \/ /\ retryFromLocal
          /\ sf' = [sf EXCEPT ![cur].awaitingRemoteRename = FALSE]
          /\ flushError' = FALSE
          /\ cacheState' = IF cacheState = "CACHED" THEN "MODIFIED" ELSE cacheState
          /\ UNCHANGED <<cur, registered, metaDirty, linked>>
       \/ /\ ~retryFromLocal
          /\ ResetCache("CACHED")
          /\ linked' = FALSE
          /\ UNCHANGED flushError
    /\ UNCHANGED <<size, knownSize, knownETag, isFlushing, meta, metaHash, key, used, up, upd, writer, sync,
                   store, clock, syncs, faults, remote, file, sparse>>

RenameError ==
    /\ ren.pc = "error"
    /\ ren' = [ren EXCEPT !.pc = "end"]
    /\ renamingTo' = FALSE /\ flushError' = TRUE
    /\ UNCHANGED <<cur, registered, cacheState, size, knownSize, knownETag, isFlushing, meta, metaHash,
                   metaDirty, key, oldKey, linked, sf, used, up, upd, writer, sync, store, clock, syncs,
                   faults, remote, file, sparse>>

RenameReturns ==
    /\ ren.pc = "end"
    /\ ren' = NoRename
    /\ isFlushing' = isFlushing - 1
    /\ UNCHANGED <<cur, registered, cacheState, size, knownSize, knownETag, flushError, meta, metaHash,
                   metaDirty, key, oldKey, renamingTo, linked, sf, used, up, upd, writer, sync,
                   store, clock, syncs, faults, remote, file, sparse>>

-------------------------------------------------------------------------------
(* sendUpdateMeta: publish userMetadata by copying the object onto itself, on
   condition that it is still the object this mount knows.  A conflict discards
   a staged file that was attached meanwhile, or turns an unlinked inode back
   into a cached one: upd.discarded remembers that, because knownETag and
   userMetadata stay as an upload in flight leaves them. *)

StartUpdateMeta ==
    /\ ~hasUnpersistedStagedFile
    /\ cacheState = "MODIFIED" /\ metaDirty
    /\ oldKey = NoKey /\ isFlushing = 0
    /\ metaDirty' = FALSE
    /\ upd' = [pc |-> "copy", meta |-> meta, hash |-> metaHash, etag |-> knownETag, key |-> key,
             discarded |-> upd.discarded]
    /\ isFlushing' = isFlushing + 1
    /\ UNCHANGED <<cur, registered, cacheState, size, knownSize, knownETag, flushError, meta,
                   metaHash, key, oldKey, renamingTo, linked, sf, used, up, ren, writer, sync,
                   store, clock, syncs, faults, remote, file, sparse>>

(* Mutant: the copy is not conditional on the known ETag. *)
MutCopyAnyObject ==
    /\ upd.pc = "copy" /\ store[upd.key] # NoObject
    /\ store' = [store EXCEPT ![upd.key].meta = upd.meta, ![upd.key].hash = upd.hash]
    /\ upd' = [upd EXCEPT !.pc = "copied"]
    /\ UNCHANGED <<inodeVars, sf, used, up, ren, writer, sync, clock, syncs, faults, remote, file,
                   sparse>>

SelfCopy ==
    /\ upd.pc = "copy"
    /\ LET match == store[upd.key] # NoObject /\ store[upd.key].data = upd.etag
       IN  \/ /\ match
              /\ store' = [store EXCEPT ![upd.key].meta = upd.meta, ![upd.key].hash = upd.hash]
              /\ upd' = [upd EXCEPT !.pc = "copied"] /\ UNCHANGED faults
           \/ /\ ~match
              /\ upd' = [upd EXCEPT !.pc = "conflict"] /\ UNCHANGED <<faults, store>>
           \/ /\ faults < MaxFaults /\ faults' = faults + 1
              /\ upd' = [upd EXCEPT !.pc = "error"] /\ UNCHANGED store
    /\ UNCHANGED <<inodeVars, sf, used, up, ren, writer, sync, clock, syncs, remote, file, sparse>>

Discards == upd.pc = "conflict" /\ (cur # 0 \/ ~linked)

UpdateMetaReturns ==
    /\ upd.pc \in {"copied", "conflict", "error"}
    /\ upd' = [NoUpdate EXCEPT !.discarded = upd.discarded \/ Discards]
    /\ isFlushing' = isFlushing - 1
    /\ flushError' = (upd.pc # "copied")
    /\ CASE upd.pc = "copied" ->
               /\ cacheState' = IF cacheState = "MODIFIED" /\ ~isStillDirty
                                THEN "CACHED" ELSE cacheState
               /\ UNCHANGED <<sf, cur, registered, metaDirty>>
         [] upd.pc = "conflict" -> ResetCache("CACHED")
         [] upd.pc = "error" ->
               metaDirty' = TRUE /\ UNCHANGED <<sf, cur, registered, cacheState>>
    /\ UNCHANGED <<size, knownSize, knownETag, meta, metaHash, key, oldKey, renamingTo, linked,
                   used, up, ren, writer, sync, store, clock, syncs, faults, remote, file, sparse>>

-------------------------------------------------------------------------------
(* syncStagedFile, called by fsync and fsync-on-close for a staged file *)

SyncBegin ==
    /\ sync.pc = "idle" /\ cur # 0
    /\ syncs < MaxSync /\ syncs' = syncs + 1
    /\ sync' = [sync EXCEPT !.pc = "flush", !.stamp = clock]
    /\ UNCHANGED <<inodeVars, sf, used, up, ren, upd, writer, store, clock, faults, remote, file,
                   sparse>>

(* Its call of flushStagedFileDirect: it uploads, fails to take the snapshot, or
   returns at once. *)
SyncUploads ==
    /\ sync.pc = "flush" /\ cur # 0
    /\ BeginFlush(cur)
    /\ sync' = [sync EXCEPT !.pc = "own", !.id = cur]

SyncSkips ==
    /\ sync.pc = "flush"
    /\ \/ cur = 0 /\ registered' = FALSE /\ sync' = [sync EXCEPT !.pc = "check"]
       \/ /\ cur # 0 /\ ~Flushable(cur)
          /\ sync' = [sync EXCEPT !.pc = "check"] /\ UNCHANGED registered
       \/ /\ cur # 0 /\ Flushable(cur) /\ SnapshotFails(cur)
          /\ sync' = [sync EXCEPT !.pc = "failed"] /\ UNCHANGED registered
    /\ UNCHANGED <<cur, cacheState, size, knownSize, knownETag, isFlushing, flushError, meta,
                   metaHash, metaDirty, key, oldKey, renamingTo, linked, sf, used, up, ren, upd,
                   writer, store, clock, syncs, faults, remote, file, sparse>>

(* The inode is inspected under inode.mu, the StagedFile later under its own lock. *)
SyncChecksInode ==
    /\ sync.pc = "check"
    /\ sync' = IF flushError THEN [sync EXCEPT !.pc = "failed"]
               ELSE IF cur = 0 THEN [sync EXCEPT !.pc = "synced"]
               ELSE [sync EXCEPT !.pc = "checkStaged", !.id = cur,
                                 !.renamePending = oldKey # NoKey \/ renamingTo]
    /\ UNCHANGED <<inodeVars, sf, used, up, ren, upd, writer, store, clock, syncs, faults, remote, file,
                   sparse>>

(* Mutant: fsync does not wait for an upload another goroutine runs. *)
MutSyncDoesNotWait ==
    /\ sync.pc = "checkStaged"
    /\ sync' = [sync EXCEPT !.pc = IF sync.renamePending THEN "flush" ELSE "synced"]
    /\ UNCHANGED <<inodeVars, sf, used, up, ren, upd, writer, store, clock, syncs, faults, remote, file,
                   sparse>>

SyncChecksStaged ==
    /\ sync.pc = "checkStaged"
    /\ LET uploaded == ~sf[sync.id].fd \/ sf[sync.id].awaitingRemoteRename
       IN  sync' = [sync EXCEPT !.pc = IF uploaded /\ ~sync.renamePending
                                       THEN "synced" ELSE "flush"]
    /\ UNCHANGED <<inodeVars, sf, used, up, ren, upd, writer, store, clock, syncs, faults, remote, file,
                   sparse>>

SyncReturns ==
    /\ sync.pc \in {"synced", "failed"}
    /\ sync' = NoSync
    /\ UNCHANGED <<inodeVars, sf, used, up, ren, upd, writer, store, clock, syncs, faults, remote, file,
                   sparse>>

(* Another client removes an object. *)
RemoteDelete(k) ==
    /\ store[k] # NoObject
    /\ remote < MaxRemote /\ remote' = remote + 1
    /\ store' = [store EXCEPT ![k] = NoObject]
    /\ UNCHANGED <<inodeVars, sf, used, up, ren, upd, writer, sync, clock, syncs, faults, file, sparse>>

-------------------------------------------------------------------------------
Application ==
    \/ \E lo \in Blocks : \E hi \in lo..NB : PrepareStagedWrite(lo, hi)
    \/ \E n \in 0..NB : TruncateStaged(n)
    \/ SetXattr \/ RenameInCache \/ Unlink \/ SyncBegin
WriterStep == EnsureStaged \/ WriteRefused \/ WriteFileStaged
UploadStep(i) ==
    \/ FlusherBegins(i)
    \/ \E b \in Blocks : HashBlock(i, b) \/ UploadPart(i, b)
    \/ HashDone(i) \/ CaptureMetadata(i) \/ BeginAttempt(i) \/ BeforeCommit(i)
    \/ CommitUpload(i) \/ UploadLost(i) \/ UploadFails(i) \/ FlushFailed(i) \/ RetryLater(i)
    \/ FlushComplete(i) \/ FinishFlush(i) \/ FlushReturns(i)
RenameStep ==
    \/ StartRename \/ CopyBlob \/ RenameCopied \/ DeleteOldKey \/ RenameSourceMissing
    \/ RenameError \/ RenameReturns
UpdateMetaStep == StartUpdateMeta \/ SelfCopy \/ UpdateMetaReturns
SyncStep ==
    \/ SyncUploads \/ SyncSkips \/ SyncChecksInode \/ SyncChecksStaged \/ SyncReturns
Remote == \E k \in Keys : RemoteDelete(k)

Next ==
    \/ Application \/ WriterStep \/ (\E i \in Ids : UploadStep(i))
    \/ RenameStep \/ UpdateMetaStep \/ SyncStep \/ Remote

Spec == Init /\ [][Next]_vars

(* Goroutines that were started run on, and the periodic flushers keep trying. *)
Fairness ==
    /\ WF_vars(WriterStep) /\ \A i \in Ids : WF_vars(UploadStep(i))
    /\ WF_vars(RenameStep) /\ WF_vars(UpdateMetaStep) /\ WF_vars(SyncStep)
FairSpec == Spec /\ Fairness

-------------------------------------------------------------------------------
(* Properties *)

(* Type correctness of the state of the inode, its flags, its StagedFiles and their
   uploads, of the other calls in progress, and of the counters. *)
InodeTypeOK ==
    /\ cur \in Ids \cup {0}
    /\ cacheState \in {"CREATED", "MODIFIED", "CACHED", "DELETED", "DEAD"}
    /\ size \in 0..NB /\ knownSize \in 0..NB /\ knownETag \in Contents \cup {NoHash}
    /\ isFlushing \in Int
    /\ meta \in 0..MaxMeta /\ metaHash \in Contents \cup {NoHash}
    /\ key \in Keys /\ oldKey \in Keys \cup {NoKey}
FlagsTypeOK ==
    /\ registered \in BOOLEAN /\ flushError \in BOOLEAN /\ metaDirty \in BOOLEAN
    /\ renamingTo \in BOOLEAN /\ linked \in BOOLEAN /\ sparse \in BOOLEAN
StagedTypeOK ==
    /\ sf \in [Ids -> StagedFiles] /\ used \in Ids
    /\ up \in [Ids -> Uploads]
    /\ store \in [Keys -> Objects \cup {NoObject}]
CallsTypeOK ==
    ren \in Renames /\ upd \in Updates /\ writer \in Writes /\ sync \in Syncs
CountersTypeOK ==
    /\ clock \in Stamps /\ syncs \in 0..MaxSync /\ faults \in 0..MaxFaults
    /\ remote \in 0..MaxRemote
    /\ file \in [Blocks -> Stamps]
TypeOK == InodeTypeOK /\ FlagsTypeOK /\ StagedTypeOK /\ CallsTypeOK /\ CountersTypeOK

(* goofys.go, flushStagedFileDirect: "Every direct upload must describe exactly
   one staged generation."  An object that became visible holds the bytes the
   staging file held at one instant, whatever was written during its upload. *)
OneGeneration ==
    \A k \in Keys : store[k] # NoObject => store[k].data = store[k].snap

(* The hash published with an object is the hash of its bytes, although it is
   computed in a separate pass over a file that is being written, and published
   again by every metadata update.  It holds when every size is hashed
   (HashMin = 0), and until a metadata conflict discards a staged file: an upload
   that is then on its way leaves its hash in userMetadata and not its ETag in
   knownETag, and the next metadata update puts the one on the object of the
   other (file.go:1775). *)
HashDescribesObject ==
    ~upd.discarded =>
        \A k \in Keys : store[k] # NoObject /\ store[k].hash # NoHash
                         => store[k].hash = store[k].data

(* An upload never reads a staging file that Cleanup has closed and removed, and
   the file attached to the inode is open, not condemned, and known to the
   periodic flusher and to unmount. *)
NoUseAfterCleanup ==
    /\ \A i \in Ids : up[i].pc \in {"hash", "meta", "begin", "parts", "commit", "committed"}
                       => sf[i].fd
    /\ cur # 0 => sf[cur].fd /\ ~sf[cur].cleanupPending /\ registered

(* Staged bytes are released only when the object store has them: while no
   StagedFile is attached, the object of the file is what was written last. *)
ReleasedIsStored ==
    (cur = 0 /\ linked /\ ~sparse /\ remote = 0)
        => /\ store[SourceKey] # NoObject
           /\ store[SourceKey].data = Content(file, size)

(* syncStagedFile "returns only once the staged bytes are in the object store
   (or the upload failed)": what was written before fsync is in the object. *)
SyncDurable ==
    (sync.pc = "synced" /\ linked /\ ~sparse /\ remote = 0)
        => \E k \in {key, oldKey} \cap Keys :
              store[k] # NoObject /\ store[k].upTo >= sync.stamp

(* No upload that was overtaken puts older bytes over newer ones. *)
NoStaleOverwrite ==
    [][\A k \in Keys : store[k] # NoObject /\ store'[k] # NoObject /\ ~sparse
                        => store'[k].upTo >= store[k].upTo]_vars

(* Once the application stops, every staged generation reaches the object store
   under the file's final name. *)
EventuallyPersisted ==
    <>[](\/ ~linked \/ sparse \/ remote > 0
         \/ /\ cur = 0 /\ oldKey = NoKey /\ store[key] # NoObject
            /\ store[key].data = Content(file, size))
===============================================================================
