------------------------- MODULE StagedReleaseProofs -------------------------
(***************************************************************************)
(* Two more results about the staged-write path, for every value of the    *)
(* constants.  The local copy is given up only when the object store has   *)
(* the file (ReleasedIsStored): flushStagedFileDirect compares the         *)
(* generation it uploaded with the one it finds, a remote rename that is   *)
(* due holds the StagedFile back, and IsFlushing keeps uploads and renames *)
(* of one file apart.  And the hash published with an object is the hash   *)
(* of its bytes (HashDescribesObject).                                     *)
(*                                                                         *)
(* And two about time.  No upload puts older bytes over newer ones         *)
(* (NoStaleOverwrite), and fsync reports success only for what is stored   *)
(* (SyncDurable): syncStagedFile looks at the inode and later at the       *)
(* StagedFile it found there, while uploads, renames and other writes go   *)
(* on.                                                                     *)
(***************************************************************************)
EXTENDS StagedFileProofs, FiniteSetTheorems

(* The uploads that have not settled what becomes of the StagedFile. *)
Uploading == Reading \cup {"committed"}

(* The files the property is about: linked, with no StagedFile that stands for bytes
   it never had, no object removed by another client, and no extended attribute
   changed (a metadata update that meets this mount's own upload discards it). *)
Quiet == linked /\ ~sparse /\ remote = 0 /\ meta = 0

(* The object has the file. *)
StoredNow == store[SourceKey] # NoObject /\ store[SourceKey].data = Content(file, size)

(* The calls of flushStagedFileDirect that count in IsFlushing. *)
Active == {i \in Ids : up[i].pc # "idle"}

NoUpdates == upd.pc = "idle" /\ ~metaDirty
CreatedIsStaged ==
    /\ ~Dead
    /\ cacheState = "CREATED" => cur # 0 /\ ~sf[cur].awaitingRemoteRename
(* IsFlushing counts uploads and the rename, so that each sees the other. *)
FlushCount == isFlushing = Cardinality(Active) + (IF ren.pc = "idle" THEN 0 ELSE 1)
RenameShape ==
    /\ oldKey # NoKey => oldKey = Key /\ key = NewKey
    /\ renamingTo => /\ oldKey # NoKey /\ ren.from = Key /\ ren.to = NewKey
                     /\ ren.pc \in {"copy", "copied", "error"}
                     /\ Active = {} /\ store[Key] # NoObject
    /\ ~renamingTo => ren.pc \in {"idle", "delete", "end"}
    /\ ren.pc = "delete" => oldKey = NoKey /\ key = NewKey /\ ren.from = Key
    /\ ren.pc = "copied" => store[NewKey] # NoObject /\ store[NewKey].data = store[Key].data
(* An upload is of the attached StagedFile, under the key its object is expected at,
   and while the generation is the captured one so is the size. *)
UploadAttached ==
    \A i \in Ids : up[i].pc \in Uploading =>
        /\ cur = i /\ up[i].key = SourceKey /\ ~sf[i].awaitingRemoteRename
        /\ generationStillCurrent(i) => up[i].size = size
(* What was read of a generation is within its staging file. *)
UploadReads ==
    \A i \in Ids : up[i].pc \in Uploading /\ generationStillCurrent(i) =>
        /\ liveUpload(up[i].size) \/ up[i].size <= sf[i].len
        /\ up[i].pc = "parts" => \A b \in Blocks : up[i].parts[b] # NoPart => b <= sf[i].len
        /\ up[i].pc \in {"commit", "committed"} => up[i].size <= sf[i].len
ZeroTail == \A b \in Blocks : b > size => file[b] = 0
(* Between the two halves of a write that replaces the file. *)
Replacing ==
    /\ sf[cur].generation = 0 /\ sf[cur].len = 0 /\ sf[cur].data = Zeroes
    /\ ~sf[cur].awaitingRemoteRename /\ size > 0
    /\ writer.pc # "idle" /\ writer.lo = 1 /\ writer.hi >= size
StagedIsFile == cur # 0 => sf[cur].data = file \/ Replacing
CommittedIsStored ==
    \A i \in Ids : up[i].pc = "committed" /\ generationStillCurrent(i) => StoredNow
AwaitingIsStored == (cur # 0 /\ sf[cur].awaitingRemoteRename) => StoredNow
DetachedIsStored == cur = 0 => StoredNow

Stored ==
    /\ NoUpdates /\ CreatedIsStaged /\ FlushCount /\ RenameShape /\ UploadAttached
    /\ UploadReads /\ ZeroTail /\ StagedIsFile
    /\ CommittedIsStored /\ AwaitingIsStored /\ DetachedIsStored
StoredInv == Quiet => Stored

-------------------------------------------------------------------------------
(* Facts *)

(* A new file is staged, a file that was looked up is in the object store. *)
LEMMA StoredInit == Init => StoredInv
<1> SUFFICES ASSUME Init PROVE Stored
  BY DEF StoredInv
<1>1. \A i \in Ids : up[i].pc = "idle"
  BY DEF Init, NoUpload
<1>2. Active = {}
  BY <1>1 DEF Active
<1>3. NoUpdates /\ CreatedIsStaged
  <2>1. upd.pc = "idle" /\ ~metaDirty
    BY DEF Init, NoUpdate
  <2>2. ~Dead
    BY DEF Init, Dead
  <2>3. cacheState = "CREATED" => cur = 1 /\ sf[1] = Fresh
    BY BoundsAssumption DEF Init, Ids
  <2>4. ~Fresh.awaitingRemoteRename
    BY DEF Fresh, Unused
  <2> QED
    BY <2>1, <2>2, <2>3, <2>4 DEF NoUpdates, CreatedIsStaged
<1>4. FlushCount
  <2>1. ren.pc = "idle" /\ isFlushing = 0
    BY DEF Init, NoRename
  <2> QED
    BY <1>2, <2>1, FS_EmptySet DEF FlushCount
<1>5. RenameShape
  <2>1. oldKey = NoKey /\ renamingTo = FALSE /\ ren.pc = "idle"
    BY DEF Init, NoRename
  <2> QED
    BY <2>1 DEF RenameShape
<1>6. UploadAttached /\ UploadReads /\ CommittedIsStored
  BY <1>1 DEF UploadAttached, UploadReads, CommittedIsStored, Uploading, Reading
<1>7. ZeroTail
  BY DEF Init, ZeroTail, Zeroes
<1>8. Fresh.data = Zeroes /\ ~Fresh.awaitingRemoteRename
  BY DEF Fresh, Unused
<1>9. cur # 0 => cur = 1 /\ sf[1] = Fresh
  BY BoundsAssumption DEF Init, Ids
<1>10. StagedIsFile /\ AwaitingIsStored
  <2>1. file = Zeroes
    BY DEF Init
  <2> QED
    BY <1>8, <1>9, <2>1 DEF StagedIsFile, AwaitingIsStored
<1>11. DetachedIsStored
  <2>1. SUFFICES ASSUME cur = 0 PROVE StoredNow
    BY DEF DetachedIsStored
  <2>2. /\ size = NB /\ key = Key /\ oldKey = NoKey /\ file = Zeroes
        /\ store[Key] = [data |-> Content(Zeroes, NB), hash |-> NoHash, meta |-> 0,
                         snap |-> Content(Zeroes, NB), upTo |-> 0]
    BY <2>1 DEF Init, Keys
  <2>3. store[Key] # NoObject
    <3>1. Content(Zeroes, NB) \in Contents
      BY ContentType, InitialTypes, BoundsAssumption DEF Blocks
    <3>2. store[Key] \in Objects
      BY <2>2, <3>1, BoundsAssumption DEF Objects, Stamps
    <3> QED
      BY <3>2, ObjectsAssumption
  <2> QED
    BY <2>2, <2>3 DEF StoredNow, SourceKey
<1> QED
  BY <1>3, <1>4, <1>5, <1>6, <1>7, <1>10, <1>11 DEF Stored

(* linked, sparse, remote and meta only move one way. *)
LEMMA OneWay ==
    ASSUME TypeOK, [Next]_vars
    PROVE  /\ (linked' => linked) /\ (~sparse' => ~sparse)
           /\ (remote' = 0 => remote = 0) /\ (meta' = 0 => meta = 0)
<1>1. remote \in Nat /\ meta \in Nat /\ sparse \in BOOLEAN /\ linked \in BOOLEAN
  BY BoundsAssumption DEF TypeOK, InodeTypeOK, FlagsTypeOK, CountersTypeOK
<1>2. (linked' => linked) /\ (~sparse' => ~sparse)
      /\ (remote' = 0 => remote = 0) /\ (meta' = 0 => meta = 0)
  <2>1. CASE Application
    BY <1>1, <2>1 DEF Application, PrepareStagedWrite, TruncateStaged, SetXattr, RenameInCache,
                      Unlink, SyncBegin, inodeVars
  <2>2. CASE WriterStep
    BY <1>1, <2>2 DEF WriterStep, EnsureStaged, WriteRefused, WriteFileStaged, inodeVars
  <2>3. ASSUME NEW i \in Ids, UploadStep(i)
        PROVE  UNCHANGED <<linked, sparse, remote, meta>>
    <3>1. CASE FlusherBegins(i)
      BY <3>1 DEF FlusherBegins, BeginFlush
    <3>2. CASE FlushComplete(i)
      BY <3>2 DEF FlushComplete, inodeVars
    <3> QED
      BY <2>3, <3>1, <3>2
         DEF UploadStep, HashBlock, UploadPart, HashDone, CaptureMetadata, BeginAttempt,
             BeforeCommit, CommitUpload, UploadLost, UploadFails, FlushFailed, RetryLater,
             FinishFlush, FlushReturns, UploadOnly, inodeVars
  <2>4. CASE RenameStep
    <3>1. CASE RenameSourceMissing
      <4>1. UNCHANGED <<sparse, remote, meta>>
        BY <3>1 DEF RenameSourceMissing
      <4>2. linked' => linked
        BY <3>1 DEF RenameSourceMissing
      <4> QED
        BY <4>1, <4>2
    <3>2. CASE RenameCopied
      BY <3>2 DEF RenameCopied
    <3> QED
      BY <2>4, <3>1, <3>2 DEF RenameStep, StartRename, CopyBlob, DeleteOldKey, RenameError,
                              RenameReturns, inodeVars
  <2>5. CASE UpdateMetaStep
    <3>1. CASE UpdateMetaReturns
      BY <3>1 DEF UpdateMetaReturns
    <3> QED
      BY <2>5, <3>1 DEF UpdateMetaStep, StartUpdateMeta, SelfCopy, inodeVars
  <2>6. CASE SyncStep
    <3>1. CASE SyncUploads
      BY <3>1 DEF SyncUploads, BeginFlush
    <3> QED
      BY <2>6, <3>1 DEF SyncStep, SyncSkips, SyncChecksInode, SyncChecksStaged, SyncReturns,
                        inodeVars
  <2>7. CASE Remote
    BY <1>1, <2>7 DEF Remote, RemoteDelete, inodeVars
  <2>8. CASE UNCHANGED vars
    BY <2>8 DEF vars, inodeVars
  <2> QED
    BY <2>1, <2>2, <2>3, <2>4, <2>5, <2>6, <2>7, <2>8 DEF Next
<1> QED
  BY <1>2

(* What ends a quiet file does not come back. *)
LEMMA QuietBefore == TypeOK /\ [Next]_vars /\ Quiet' => Quiet
  BY OneWay DEF Quiet

(* The uploads in progress are finitely many. *)
LEMMA ActiveFinite ==
    ASSUME NEW S \in SUBSET Ids
    PROVE  IsFiniteSet(S) /\ Cardinality(S) \in Nat
<1>1. IsFiniteSet(Ids)
  BY BoundsAssumption, FS_Interval DEF Ids
<1>2. IsFiniteSet(S)
  BY <1>1, FS_Subset
<1> QED
  BY <1>2, FS_CardinalityType

(* IsFlushing = 0, which sendRename and renameInCache test, means that no upload runs. *)
LEMMA NothingFlushes ==
    ASSUME FlushCount, isFlushing = 0
    PROVE  Active = {} /\ ren.pc = "idle"
<1>1. Active \in SUBSET Ids
  BY DEF Active
<1>2. IsFiniteSet(Active) /\ Cardinality(Active) \in Nat
  BY <1>1, ActiveFinite
<1>3. Cardinality(Active) = 0 /\ ren.pc = "idle"
  BY <1>2 DEF FlushCount
<1> QED
  BY <1>2, <1>3, FS_EmptySet

(* Steps that change neither the file nor its uploads, its renames and its object. *)
LEMMA StoredKept ==
    ASSUME Stored,
           UNCHANGED <<cur, cacheState, size, isFlushing, metaDirty, key, oldKey, renamingTo, sf, up,
                       ren, upd, writer, store, file>>
    PROVE  Stored'
<1>1. StoredNow' = StoredNow /\ Active' = Active
  BY DEF StoredNow, SourceKey, Active
<1>2. NoUpdates' /\ CreatedIsStaged' /\ FlushCount' /\ RenameShape'
  BY <1>1 DEF Stored, NoUpdates, CreatedIsStaged, Dead, FlushCount, RenameShape
<1>3. UploadAttached' /\ UploadReads'
  BY DEF Stored, UploadAttached, UploadReads, SourceKey, generationStillCurrent
<1>4. ZeroTail' /\ StagedIsFile'
  BY DEF Stored, ZeroTail, StagedIsFile, Replacing
<1>5. CommittedIsStored' /\ AwaitingIsStored' /\ DetachedIsStored'
  BY <1>1 DEF Stored, CommittedIsStored, AwaitingIsStored, DetachedIsStored, generationStillCurrent
<1> QED
  BY <1>2, <1>3, <1>4, <1>5 DEF Stored

(* An upload that goes on: it captured what it captured, and reads within its file. *)
LEMMA StoredUploadGoesOn ==
    ASSUME Stored, NEW i \in Ids, \A j \in Ids \ {i} : up'[j] = up[j],
           up[i].pc # "idle", up'[i].pc # "idle", up'[i].pc # "committed",
           up'[i].pc \in Uploading =>
              /\ up[i].pc \in Uploading /\ up'[i].key = up[i].key /\ up'[i].size = up[i].size
              /\ up'[i].generation = up[i].generation,
           up'[i].pc = "parts" /\ generationStillCurrent(i)
              => \A b \in Blocks : up'[i].parts[b] # NoPart => b <= sf[i].len,
           up'[i].pc = "commit" /\ generationStillCurrent(i) => up[i].size <= sf[i].len,
           UNCHANGED <<cur, cacheState, size, isFlushing, metaDirty, key, oldKey, renamingTo, sf,
                       ren, upd, writer, store, file>>
    PROVE  Stored'
<1>1. StoredNow' = StoredNow
  BY DEF StoredNow, SourceKey
<1>2. Active' = Active
  BY DEF Active
<1>3. NoUpdates' /\ CreatedIsStaged' /\ FlushCount' /\ RenameShape'
  BY <1>2 DEF Stored, NoUpdates, CreatedIsStaged, Dead, FlushCount, RenameShape
<1>4. UploadAttached'
  BY DEF Stored, UploadAttached, SourceKey, generationStillCurrent
<1>5. UploadReads'
  <2>1. SUFFICES ASSUME NEW j \in Ids, up'[j].pc \in Uploading, sf'[j].generation = up'[j].generation
                 PROVE  /\ liveUpload(up'[j].size) \/ up'[j].size <= sf'[j].len
                        /\ up'[j].pc = "parts"
                             => \A b \in Blocks : up'[j].parts[b] # NoPart => b <= sf'[j].len
                        /\ up'[j].pc \in {"commit", "committed"} => up'[j].size <= sf'[j].len
    BY DEF UploadReads, generationStillCurrent, liveUpload
  <2>2. CASE j = i
    BY <2>1, <2>2 DEF Stored, UploadReads, generationStillCurrent
  <2>3. CASE j # i
    BY <2>1, <2>3 DEF Stored, UploadReads, generationStillCurrent
  <2> QED
    BY <2>2, <2>3
<1>6. ZeroTail' /\ StagedIsFile'
  BY DEF Stored, ZeroTail, StagedIsFile, Replacing
<1>7. CommittedIsStored' /\ AwaitingIsStored' /\ DetachedIsStored'
  BY <1>1 DEF Stored, CommittedIsStored, AwaitingIsStored, DetachedIsStored, generationStillCurrent
<1> QED
  BY <1>3, <1>4, <1>5, <1>6, <1>7 DEF Stored

-------------------------------------------------------------------------------
(* The uploads *)

(* The steps of an upload before its commit. *)
LEMMA StoredReads ==
    ASSUME TypeOK, Stored, NEW i \in Ids,
           \/ \E b \in Blocks : HashBlock(i, b)
           \/ HashDone(i) \/ CaptureMetadata(i) \/ BeginAttempt(i) \/ UploadLost(i)
           \/ FlushFailed(i)
    PROVE  Stored'
<1>1. up \in [Ids -> Uploads] /\ up[i] \in Uploads
  BY DEF TypeOK, StagedTypeOK
<1>2. UNCHANGED <<cur, cacheState, size, isFlushing, metaDirty, key, oldKey, renamingTo, sf,
                  ren, upd, writer, store, file>>
  BY DEF HashBlock, HashDone, CaptureMetadata, BeginAttempt, UploadLost, FlushFailed, UploadOnly,
         inodeVars
<1>3. /\ \A j \in Ids \ {i} : up'[j] = up[j]
      /\ up'[i].generation = up[i].generation /\ up'[i].key = up[i].key
      /\ up'[i].size = up[i].size
  BY <1>1 DEF HashBlock, HashDone, CaptureMetadata, BeginAttempt, UploadLost, FlushFailed,
              UploadGoesTo, Uploads
<1>4. /\ up[i].pc # "idle" /\ up'[i].pc # "idle" /\ up'[i].pc # "committed"
      /\ up'[i].pc \in Uploading => up[i].pc \in Uploading
  BY <1>1 DEF HashBlock, HashDone, CaptureMetadata, BeginAttempt, UploadLost, FlushFailed,
              UploadGoesTo, Uploads, Uploading, Reading
<1>5. up'[i].pc = "parts" => up'[i].parts = Unread
  BY <1>1 DEF HashBlock, HashDone, CaptureMetadata, BeginAttempt, UploadLost, FlushFailed,
              UploadGoesTo, Uploads
<1>6. \A b \in Blocks : Unread[b] = NoPart
  BY DEF Unread
<1>7. up'[i].pc = "commit" => up[i].pc = "begin" /\ ~liveUpload(up[i].size)
  BY <1>1 DEF HashBlock, HashDone, CaptureMetadata, BeginAttempt, UploadLost, FlushFailed,
              UploadGoesTo, Uploads
<1>8. up'[i].pc = "commit" /\ generationStillCurrent(i) => up[i].size <= sf[i].len
  BY <1>7 DEF Stored, UploadReads, Uploading, Reading
<1> QED
  BY <1>2, <1>3, <1>4, <1>5, <1>6, <1>8, StoredUploadGoesOn

(* A part that was read lies within the staging file. *)
LEMMA StoredUploadPart ==
    ASSUME TypeOK, Stored, NEW i \in Ids, NEW b \in Blocks, UploadPart(i, b)
    PROVE  Stored'
<1>1. /\ up \in [Ids -> Uploads] /\ up[i] \in Uploads
      /\ up[i].parts \in [Blocks -> Stamps \cup {NoPart}]
  BY UploadFields DEF TypeOK, StagedTypeOK
<1>2. UNCHANGED <<cur, cacheState, size, isFlushing, metaDirty, key, oldKey, renamingTo, sf,
                  ren, upd, writer, store, file>>
  BY DEF UploadPart, UploadOnly, inodeVars
<1>3. /\ \A j \in Ids \ {i} : up'[j] = up[j]
      /\ up'[i].generation = up[i].generation /\ up'[i].key = up[i].key
      /\ up'[i].size = up[i].size
      /\ up[i].pc = "parts" /\ up'[i].pc \in {"parts", "failed"}
  BY <1>1 DEF UploadPart, Uploads
<1>4. up'[i].pc = "parts" => b <= sf[i].len /\ \A c \in Blocks :
        up'[i].parts[c] = IF c = b THEN sf[i].data[b] ELSE up[i].parts[c]
  BY <1>1 DEF UploadPart, Uploads
<1>5. generationStillCurrent(i) => \A c \in Blocks : up[i].parts[c] # NoPart => c <= sf[i].len
  BY <1>3 DEF Stored, UploadReads, Uploading, Reading
<1>6. up'[i].pc = "parts" /\ generationStillCurrent(i)
        => \A c \in Blocks : up'[i].parts[c] # NoPart => c <= sf[i].len
  BY <1>4, <1>5
<1> QED
  BY <1>2, <1>3, <1>6, StoredUploadGoesOn DEF Uploading, Reading

(* beforeCommit: all parts were read, so the file is as long as the upload. *)
LEMMA StoredBeforeCommit ==
    ASSUME TypeOK, Stored, NEW i \in Ids, BeforeCommit(i)
    PROVE  Stored'
<1>1. /\ up \in [Ids -> Uploads] /\ up[i] \in Uploads /\ up[i].size \in 0..NB
      /\ sf[i] \in StagedFiles
  BY UploadFields DEF TypeOK, StagedTypeOK
<1>2. UNCHANGED <<cur, cacheState, size, isFlushing, metaDirty, key, oldKey, renamingTo, sf,
                  ren, upd, writer, store, file>>
  BY DEF BeforeCommit, UploadOnly, inodeVars
<1>3. /\ \A j \in Ids \ {i} : up'[j] = up[j]
      /\ up'[i].generation = up[i].generation /\ up'[i].key = up[i].key
      /\ up'[i].size = up[i].size
      /\ up[i].pc = "parts" /\ up'[i].pc \in {"commit", "retry"}
  BY <1>1 DEF BeforeCommit, UploadGoesTo, Uploads
<1>4. \A b \in 1..up[i].size : up[i].parts[b] # NoPart
  BY DEF BeforeCommit
<1>5. generationStillCurrent(i) => \A c \in Blocks : up[i].parts[c] # NoPart => c <= sf[i].len
  BY <1>3 DEF Stored, UploadReads, Uploading, Reading
<1>6. sf[i].len \in Nat /\ up[i].size \in Nat /\ (up[i].size # 0 => up[i].size \in Blocks)
  BY <1>1, BoundsAssumption DEF StagedFiles, Blocks
<1>7. generationStillCurrent(i) => up[i].size <= sf[i].len
  <2>1. CASE up[i].size = 0
    BY <1>6, <2>1
  <2>2. CASE up[i].size # 0
    BY <1>4, <1>5, <1>6, <2>2 DEF Blocks
  <2> QED
    BY <2>1, <2>2
<1> QED
  BY <1>2, <1>3, <1>7, StoredUploadGoesOn DEF Uploading, Reading

(* What the invariant looks at in a StagedFile. *)
SameStaged(i) ==
    /\ sf'[i].data = sf[i].data /\ sf'[i].len = sf[i].len
    /\ sf'[i].generation = sf[i].generation
    /\ sf'[i].awaitingRemoteRename = sf[i].awaitingRemoteRename

(* An upload that has ended leaves an attached StagedFile as it is. *)
LEMMA StoredUploadEnds ==
    ASSUME Stored, NEW i \in Ids, \A j \in Ids \ {i} : up'[j] = up[j] /\ sf'[j] = sf[j],
           up[i].pc # "idle", up'[i].pc # "idle", up'[i].pc \notin Uploading,
           cur = i => SameStaged(i), cur \in Ids \cup {0},
           UNCHANGED <<cur, cacheState, size, isFlushing, metaDirty, key, oldKey, renamingTo,
                       ren, upd, writer, store, file>>
    PROVE  Stored'
<1>1. StoredNow' = StoredNow
  BY DEF StoredNow, SourceKey
<1>2. Active' = Active
  BY DEF Active
<1>3. cur # 0 => SameStaged(cur)
  BY DEF SameStaged
<1>4. NoUpdates' /\ CreatedIsStaged' /\ FlushCount' /\ RenameShape'
  BY <1>2, <1>3 DEF Stored, NoUpdates, CreatedIsStaged, Dead, FlushCount, RenameShape, SameStaged
<1>5. UploadAttached'
  BY DEF Stored, UploadAttached, SourceKey, generationStillCurrent
<1>6. UploadReads'
  BY DEF Stored, UploadReads, generationStillCurrent, liveUpload
<1>7. ZeroTail' /\ StagedIsFile'
  BY <1>3 DEF Stored, ZeroTail, StagedIsFile, Replacing, SameStaged
<1>8. CommittedIsStored'
  BY <1>1 DEF Stored, CommittedIsStored, generationStillCurrent, Uploading
<1>9. AwaitingIsStored' /\ DetachedIsStored'
  BY <1>1, <1>3 DEF Stored, AwaitingIsStored, DetachedIsStored, SameStaged
<1> QED
  BY <1>4, <1>5, <1>6, <1>7, <1>8, <1>9 DEF Stored

(* FinishFlush, after the commit and on the early returns: what is closed is detached. *)
LEMMA StoredFinishFlush ==
    ASSUME TypeOK, LifeInv, Stored, NEW i \in Ids, RetryLater(i) \/ FinishFlush(i)
    PROVE  Stored'
<1>1. /\ up \in [Ids -> Uploads] /\ up[i] \in Uploads /\ cur \in Ids \cup {0}
      /\ sf \in [Ids -> StagedFiles] /\ sf[i] \in StagedFiles
  BY DEF TypeOK, InodeTypeOK, StagedTypeOK
<1>2. /\ \A j \in Ids \ {i} : up'[j] = up[j] /\ sf'[j] = sf[j]
      /\ up[i].pc \in {"retry", "finishFlush"} /\ up'[i].pc = "done"
  BY <1>1 DEF RetryLater, FinishFlush, UploadGoesTo, Uploads
<1>3. ASSUME cur = i PROVE SameStaged(i)
  <2>1. ~sf[i].cleanupPending
    BY <1>1, <1>3 DEF LifeInv, AttachedIsOpen, Ids
  <2>2. FinishFlush(i) => ~up[i].release
    BY <1>3 DEF FinishFlush, LifeInv, ReleasedIsDetached
  <2>3. FinishFlushed(sf[i]) = [sf[i] EXCEPT !.flushing = FALSE]
    BY <1>1, <2>1 DEF FinishFlushed, StagedFiles
  <2>4. sf'[i] = [sf[i] EXCEPT !.flushing = FALSE]
    BY <1>1, <2>2, <2>3 DEF RetryLater, FinishFlush
  <2> QED
    BY <1>1, <2>4 DEF SameStaged, StagedFiles
<1>4. UNCHANGED <<cur, cacheState, size, isFlushing, metaDirty, key, oldKey, renamingTo,
                  ren, upd, writer, store, file>>
  BY DEF RetryLater, FinishFlush, inodeVars
<1> QED
  BY <1>1, <1>2, <1>3, <1>4, StoredUploadEnds DEF Uploading, Reading

(* The first critical section of a flush captures what the inode has. *)
LEMMA StoredBeginFlush ==
    ASSUME TypeOK, Stored, NEW i \in Ids, BeginFlush(i)
    PROVE  Stored'
<1>1. /\ up \in [Ids -> Uploads] /\ sf \in [Ids -> StagedFiles]
      /\ sf[i] \in StagedFiles /\ i # 0
      /\ size \in Nat /\ sf[i].len \in Nat
  BY BoundsAssumption DEF TypeOK, InodeTypeOK, StagedTypeOK, StagedFiles, Ids
<1>2. /\ cur = i /\ ~renamingTo /\ ~sf[i].awaitingRemoteRename /\ up[i].pc = "idle"
      /\ liveUpload(size) \/ size <= sf[i].len
  BY <1>1 DEF BeginFlush, Flushable, SnapshotFails
<1>3. UNCHANGED <<cur, cacheState, size, metaDirty, key, oldKey, renamingTo, ren, upd, writer,
                  store, file>>
  BY DEF BeginFlush
<1>4. /\ up'[i].pc \in {"hash", "meta"} /\ up'[i].generation = sf[i].generation
      /\ up'[i].size = size /\ up'[i].key = SourceKey
      /\ \A j \in Ids \ {i} : up'[j] = up[j]
  BY <1>1 DEF BeginFlush, NoUpload
<1>5. \A j \in Ids : SameStaged(j)
  BY <1>1 DEF BeginFlush, StagedFiles, SameStaged
<1>6. StoredNow' = StoredNow
  BY <1>3 DEF StoredNow, SourceKey
<1>7. FlushCount'
  <2>1. Active' = Active \cup {i} /\ i \notin Active /\ Active \in SUBSET Ids
    BY <1>2, <1>4 DEF Active
  <2>2. IsFiniteSet(Active) /\ Cardinality(Active) \in Nat
    BY <2>1, ActiveFinite
  <2>3. Cardinality(Active') = Cardinality(Active) + 1
    BY <2>1, <2>2, FS_AddElement
  <2>4. isFlushing' = isFlushing + 1
    BY DEF BeginFlush
  <2> QED
    BY <1>3, <2>2, <2>3, <2>4 DEF Stored, FlushCount
<1>8. NoUpdates' /\ CreatedIsStaged' /\ RenameShape'
  BY <1>2, <1>3, <1>5 DEF Stored, NoUpdates, CreatedIsStaged, Dead, RenameShape, SameStaged
<1>9. UploadAttached'
  BY <1>2, <1>3, <1>4, <1>5
     DEF Stored, UploadAttached, SourceKey, generationStillCurrent, SameStaged
<1>10. UploadReads'
  BY <1>2, <1>4, <1>5 DEF Stored, UploadReads, generationStillCurrent, SameStaged, liveUpload
<1>11. ZeroTail' /\ StagedIsFile'
  BY <1>1, <1>2, <1>3, <1>5 DEF Stored, ZeroTail, StagedIsFile, Replacing, SameStaged
<1>12. CommittedIsStored' /\ AwaitingIsStored' /\ DetachedIsStored'
  BY <1>2, <1>3, <1>4, <1>5, <1>6
     DEF Stored, CommittedIsStored, AwaitingIsStored, DetachedIsStored, generationStillCurrent,
         SameStaged
<1> QED
  BY <1>7, <1>8, <1>9, <1>10, <1>11, <1>12 DEF Stored

(* The deferred decrement of IsFlushing. *)
LEMMA StoredFlushReturns ==
    ASSUME TypeOK, Stored, NEW i \in Ids, FlushReturns(i)
    PROVE  Stored'
<1>1. up \in [Ids -> Uploads]
  BY DEF TypeOK, StagedTypeOK
<1>2. UNCHANGED <<cur, cacheState, size, metaDirty, key, oldKey, renamingTo, sf, ren, upd, writer,
                  store, file>>
  BY DEF FlushReturns
<1>3. /\ up[i].pc = "done" /\ up'[i].pc = "idle"
      /\ \A j \in Ids \ {i} : up'[j] = up[j]
  BY <1>1 DEF FlushReturns, NoUpload
<1>4. StoredNow' = StoredNow
  BY <1>2 DEF StoredNow, SourceKey
<1>5. Active' = Active \ {i} /\ i \in Active /\ Active \in SUBSET Ids
  BY <1>3 DEF Active
<1>6. FlushCount'
  <2>1. IsFiniteSet(Active) /\ Cardinality(Active) \in Nat
    BY <1>5, ActiveFinite
  <2>2. Cardinality(Active') = Cardinality(Active) - 1
    BY <1>5, <2>1, FS_RemoveElement
  <2>3. isFlushing' = isFlushing - 1
    BY DEF FlushReturns
  <2> QED
    BY <1>2, <2>1, <2>2, <2>3 DEF Stored, FlushCount
<1>7. NoUpdates' /\ CreatedIsStaged' /\ RenameShape'
  BY <1>2, <1>5 DEF Stored, NoUpdates, CreatedIsStaged, Dead, RenameShape
<1>8. UploadAttached' /\ UploadReads'
  BY <1>2, <1>3 DEF Stored, UploadAttached, UploadReads, SourceKey, generationStillCurrent,
                    Uploading, Reading
<1>9. ZeroTail' /\ StagedIsFile'
  BY <1>2 DEF Stored, ZeroTail, StagedIsFile, Replacing
<1>10. CommittedIsStored' /\ AwaitingIsStored' /\ DetachedIsStored'
  BY <1>2, <1>3, <1>4 DEF Stored, CommittedIsStored, AwaitingIsStored, DetachedIsStored,
                          generationStillCurrent
<1> QED
  BY <1>6, <1>7, <1>8, <1>9, <1>10 DEF Stored

(* A request of an upload that reached the object store: the object is the file, unless the
   file went on.  An empty StagedFile that waits for its replacement cannot get there. *)
LEMMA StoredCommit ==
    ASSUME TypeInv, GenerationInv, Stored, NEW i \in Ids, CommitUpload(i) \/ UploadFails(i)
    PROVE  Stored'
<1>1. /\ up \in [Ids -> Uploads] /\ up[i] \in Uploads /\ up[i].key \in Keys
      /\ store \in [Keys -> Objects \cup {NoObject}]
      /\ up[i].size \in Nat /\ sf[i].len \in Nat /\ size \in Nat /\ i # 0
  BY UploadFields, BoundsAssumption
     DEF TypeInv, TypeOK, InodeTypeOK, StagedTypeOK, StagedFiles, Ids
<1>2. UNCHANGED <<cur, cacheState, size, isFlushing, metaDirty, key, oldKey, renamingTo, sf,
                  ren, upd, writer, file>>
  BY DEF CommitUpload, UploadFails, inodeVars
<1>3. /\ \A j \in Ids \ {i} : up'[j] = up[j]
      /\ up[i].pc \in {"parts", "commit"} /\ up'[i].pc \in {"committed", "failed"}
      /\ up'[i].generation = up[i].generation /\ up'[i].key = up[i].key
      /\ up'[i].size = up[i].size
      /\ up'[i].pc = "committed" => up[i].pc = "commit"
  BY <1>1 DEF CommitUpload, UploadFails, UploadGoesTo, Uploads
<1>4. /\ cur = i /\ up[i].key = SourceKey /\ ~sf[i].awaitingRemoteRename
      /\ generationStillCurrent(i) => up[i].size = size
  BY <1>3 DEF Stored, UploadAttached, Uploading, Reading
<1>5. i \in Active /\ Active' = Active /\ ~renamingTo
  BY <1>3 DEF Active, Stored, RenameShape
<1>6. NoUpdates' /\ CreatedIsStaged' /\ FlushCount'
  BY <1>2, <1>5 DEF Stored, NoUpdates, CreatedIsStaged, Dead, FlushCount
<1>7. RenameShape'
  BY <1>2, <1>5 DEF Stored, RenameShape
<1>8. UploadAttached'
  BY <1>2, <1>3, <1>4 DEF Stored, UploadAttached, SourceKey, generationStillCurrent
<1>9. UploadReads'
  <2>1. up[i].pc \in Uploading /\ ("committed" # "parts")
    BY <1>3 DEF Uploading, Reading
  <2>2. up'[i].pc \in Uploading => up'[i].pc = "committed"
    BY <1>3 DEF Uploading, Reading
  <2> QED
    BY <1>2, <1>3, <2>1, <2>2 DEF Stored, UploadReads, generationStillCurrent, liveUpload
<1>10. ZeroTail' /\ StagedIsFile'
  BY <1>2 DEF Stored, ZeroTail, StagedIsFile, Replacing
<1>11. ASSUME up'[i].pc = "committed", generationStillCurrent(i) PROVE StoredNow'
  <2>1. up[i].pc = "commit" /\ up[i].size <= sf[i].len /\ up[i].size = size
    BY <1>3, <1>4, <1>11 DEF Stored, UploadReads, Uploading, Reading
  <2>2. sf[i].data = file
    <3>1. sf[cur].data = file \/ Replacing
      BY <1>1, <1>4 DEF Stored, StagedIsFile
    <3>2. ~Replacing
      BY <1>1, <1>4, <2>1 DEF Replacing
    <3> QED
      BY <1>4, <3>1, <3>2
  <2>3. sf[i].data = up[i].snap /\ \A b \in 1..up[i].size : up[i].parts[b] = up[i].snap[b]
    BY <1>11, <2>1 DEF GenerationInv, FileIsSnapshot, CommitsSnapshot, Reading
  <2>4. Content(up[i].parts, up[i].size) = Content(file, size)
    BY <2>1, <2>2, <2>3 DEF Content
  <2>5. Uploaded(up[i]).data = Content(file, size)
    BY <2>4 DEF Uploaded
  <2>6. Uploaded(up[i]) # NoObject
    <3>1. \A b \in 1..up[i].size : up[i].parts[b] \in Stamps
      BY <2>1 DEF TypeInv, PartsRead
    <3> QED
      BY <1>1, <3>1, UploadedType, ObjectsAssumption
  <2>7. store'[SourceKey] = Uploaded(up[i])
    BY <1>1, <1>3, <1>4, <1>11 DEF CommitUpload, UploadFails, UploadGoesTo, Uploads
  <2>8. SourceKey' = SourceKey
    BY <1>2 DEF SourceKey
  <2> QED
    BY <1>2, <2>5, <2>6, <2>7, <2>8 DEF StoredNow
<1>12. CommittedIsStored'
  <2>1. SUFFICES ASSUME NEW j \in Ids, up'[j].pc = "committed", sf'[j].generation = up'[j].generation
                 PROVE  StoredNow'
    BY DEF CommittedIsStored, generationStillCurrent
  <2>2. j = i
    BY <1>3, <1>4, <2>1 DEF Stored, UploadAttached, Uploading
  <2> QED
    BY <1>2, <1>3, <1>11, <2>1, <2>2 DEF generationStillCurrent
<1>13. AwaitingIsStored' /\ DetachedIsStored'
  BY <1>1, <1>2, <1>4 DEF AwaitingIsStored, DetachedIsStored
<1> QED
  BY <1>6, <1>7, <1>8, <1>9, <1>10, <1>12, <1>13 DEF Stored

(* The section after the commit releases the StagedFile, holds it back for the rename, or
   keeps it because it changed. *)
LEMMA StoredFlushComplete ==
    ASSUME TypeOK, Stored, NEW i \in Ids, FlushComplete(i)
    PROVE  Stored'
<1>1. /\ up \in [Ids -> Uploads] /\ up[i] \in Uploads
      /\ sf \in [Ids -> StagedFiles] /\ sf[i] \in StagedFiles
      /\ up[i].size \in Nat /\ sf[i].len \in Nat /\ size \in Nat /\ i # 0
  BY UploadFields, BoundsAssumption DEF TypeOK, InodeTypeOK, StagedTypeOK, StagedFiles, Ids
<1>2. up[i].pc = "committed" /\ cur = i
  BY DEF FlushComplete, Stored, UploadAttached, Uploading
<1>3. UNCHANGED <<size, isFlushing, key, oldKey, renamingTo, ren, upd, writer, store, file>>
  BY <1>2 DEF FlushComplete
<1>4. /\ \A j \in Ids \ {i} : up'[j] = up[j] /\ sf'[j] = sf[j]
      /\ up'[i].pc = "finishFlush"
  BY <1>1, <1>2 DEF FlushComplete, Uploads
<1>5. /\ sf'[i].data = sf[i].data /\ sf'[i].len = sf[i].len
      /\ sf'[i].generation = sf[i].generation
      /\ sf'[i].awaitingRemoteRename = (generationStillCurrent(i) /\ oldKey # NoKey)
  <2>1. sf' = [sf EXCEPT ![i].awaitingRemoteRename
                             = ~ ~generationStillCurrent(i) /\ oldKey # NoKey]
    BY <1>2 DEF FlushComplete
  <2> QED
    BY <1>1, <2>1 DEF StagedFiles
<1>6. /\ ~metaDirty' /\ cur' \in {0, i}
      /\ cur' = 0 => generationStillCurrent(i)
  BY <1>1, <1>2 DEF FlushComplete
<1>7. generationStillCurrent(i) => StoredNow
  BY <1>2 DEF Stored, CommittedIsStored
<1>8. StoredNow' = StoredNow
  BY <1>3 DEF StoredNow, SourceKey
<1>9. Active' = Active
  BY <1>2, <1>4 DEF Active
<1>10. \A j \in Ids : up'[j].pc \notin Uploading
  BY <1>2, <1>4 DEF Stored, UploadAttached, Uploading, Reading
<1>11. cacheState' \in {"CACHED", "MODIFIED"}
  <2>1. ~Dead
    BY DEF Stored, CreatedIsStaged
  <2> QED
    BY <1>2, <2>1 DEF FlushComplete
<1>12. NoUpdates' /\ CreatedIsStaged' /\ FlushCount' /\ RenameShape'
  BY <1>3, <1>6, <1>9, <1>11 DEF Stored, NoUpdates, CreatedIsStaged, Dead, FlushCount, RenameShape
<1>13. UploadAttached' /\ UploadReads' /\ CommittedIsStored'
  BY <1>10 DEF UploadAttached, UploadReads, CommittedIsStored, Uploading
<1>14. ZeroTail'
  BY <1>3 DEF Stored, ZeroTail
<1>15. StagedIsFile'
  <2>1. SUFFICES ASSUME cur' = i PROVE sf'[i].data = file' \/ Replacing'
    BY <1>6 DEF StagedIsFile
  <2>2. CASE sf[i].data = file
    BY <1>3, <1>5, <2>2
  <2>3. CASE Replacing
    <3>1. size > 0 /\ sf[i].len = 0
      BY <1>2, <2>3 DEF Replacing
    <3>2. generationStillCurrent(i) => up[i].size = size /\ up[i].size <= sf[i].len
      BY <1>2 DEF Stored, UploadAttached, UploadReads, Uploading
    <3>3. ~generationStillCurrent(i)
      BY <1>1, <3>1, <3>2
    <3> QED
      BY <1>2, <1>3, <1>5, <2>1, <2>3, <3>3 DEF Replacing
  <2> QED
    BY <1>1, <1>2, <2>2, <2>3 DEF Stored, StagedIsFile
<1>16. AwaitingIsStored' /\ DetachedIsStored'
  BY <1>5, <1>6, <1>7, <1>8 DEF AwaitingIsStored, DetachedIsStored
<1> QED
  BY <1>12, <1>13, <1>14, <1>15, <1>16 DEF Stored

-------------------------------------------------------------------------------
(* The application *)

(* A local change of the attached StagedFile starts a generation that no upload has, and
   leaves the StagedFile and the file equal. *)
LEMMA StoredNewGeneration ==
    ASSUME TypeOK, GenerationInv, Stored, cur \in Ids,
           \A j \in Ids \ {cur} : sf'[j] = sf[j],
           sf'[cur].generation = sf[cur].generation + 1, ~sf'[cur].awaitingRemoteRename,
           sf'[cur].data = file', \A b \in Blocks : b > size' => file'[b] = 0,
           cacheState' \in {cacheState, "MODIFIED"},
           UNCHANGED <<cur, isFlushing, metaDirty, key, oldKey, renamingTo, up, ren, upd, store>>
    PROVE  Stored'
<1>1. \A i \in Ids : sf[i].generation \in Int /\ up[i].generation \in Int
  BY BoundsAssumption DEF TypeOK, StagedTypeOK, StagedFiles, Uploads
<1>2. cur # 0
  BY DEF Ids
<1>3. Active' = Active /\ SourceKey' = SourceKey
  BY DEF Active, SourceKey
<1>4. NoUpdates' /\ CreatedIsStaged' /\ FlushCount' /\ RenameShape'
  BY <1>2, <1>3 DEF Stored, NoUpdates, CreatedIsStaged, Dead, FlushCount, RenameShape
<1>5. \A i \in Ids : up[i].pc \in Uploading => i = cur /\ sf'[i].generation # up'[i].generation
  <2>1. SUFFICES ASSUME NEW i \in Ids, up[i].pc \in Uploading
                 PROVE  i = cur /\ sf'[i].generation # up'[i].generation
    OBVIOUS
  <2>2. i = cur
    BY <2>1 DEF Stored, UploadAttached
  <2>3. up[i].generation <= sf[i].generation
    BY <2>1 DEF GenerationInv, GenerationsGrow, Running, Uploading, Reading
  <2> QED
    BY <1>1, <2>2, <2>3
<1>6. UploadAttached' /\ UploadReads' /\ CommittedIsStored'
  BY <1>3, <1>5 DEF Stored, UploadAttached, UploadReads, CommittedIsStored, generationStillCurrent,
                    Uploading
<1>7. ZeroTail' /\ StagedIsFile' /\ AwaitingIsStored' /\ DetachedIsStored'
  BY <1>2 DEF ZeroTail, StagedIsFile, AwaitingIsStored, DetachedIsStored
<1> QED
  BY <1>4, <1>6, <1>7 DEF Stored

(* A write: a StagedFile that waits for its replacement gets all of it. *)
LEMMA StoredWrite ==
    ASSUME TypeOK, GenerationInv, Stored, WriteFileStaged
    PROVE  Stored'
<1>1. /\ cur \in Ids /\ cur # 0 /\ sf \in [Ids -> StagedFiles] /\ sf[cur] \in StagedFiles
      /\ file \in [Blocks -> Stamps] /\ size \in Nat /\ writer.lo \in Blocks /\ writer.hi \in Blocks
      /\ sf[cur].data \in [Blocks -> Stamps]
  BY BoundsAssumption
     DEF TypeOK, InodeTypeOK, StagedTypeOK, CountersTypeOK, CallsTypeOK, StagedFiles, Writes,
         WriteFileStaged, Writable, Ids
<1>2. PICK n : sf' = [sf EXCEPT ![cur] = NextGeneration(sf[cur],
                        Written(sf[cur].data, writer.lo, writer.hi, clock + 1), n)]
  BY DEF WriteFileStaged
<1>3. /\ \A j \in Ids \ {cur} : sf'[j] = sf[j]
      /\ sf'[cur].generation = sf[cur].generation + 1 /\ ~sf'[cur].awaitingRemoteRename
      /\ sf'[cur].data = Written(sf[cur].data, writer.lo, writer.hi, clock + 1)
  BY <1>1, <1>2 DEF NextGeneration, StagedFiles
<1>4. file' = Written(file, writer.lo, writer.hi, clock + 1)
  BY DEF WriteFileStaged
<1>5. size' = IF size < writer.hi THEN writer.hi ELSE size
  BY DEF WriteFileStaged
<1>6. \A b \in Blocks : b > size' => file'[b] = 0
  BY <1>1, <1>4, <1>5 DEF Stored, ZeroTail, Written, Blocks
<1>7. sf'[cur].data = file'
  <2>1. CASE sf[cur].data = file
    BY <1>3, <1>4, <2>1
  <2>2. CASE Replacing
    <3>1. sf[cur].data = Zeroes /\ writer.lo = 1 /\ writer.hi >= size
      BY <2>2 DEF Replacing
    <3>2. \A b \in Blocks : b \notin writer.lo .. writer.hi => file[b] = 0
      BY <1>1, <3>1 DEF Stored, ZeroTail, Blocks
    <3> QED
      BY <1>3, <1>4, <3>1, <3>2 DEF Written, Zeroes
  <2> QED
    BY <1>1, <2>1, <2>2 DEF Stored, StagedIsFile
<1>8. /\ cacheState' \in {cacheState, "MODIFIED"}
      /\ UNCHANGED <<cur, isFlushing, metaDirty, key, oldKey, renamingTo, up, ren, upd, store>>
  BY DEF WriteFileStaged
<1> QED
  BY <1>1, <1>3, <1>6, <1>7, <1>8, StoredNewGeneration

(* A truncate of a StagedFile that holds the file. *)
LEMMA StoredTruncate ==
    ASSUME TypeOK, GenerationInv, Stored, Quiet', NEW n \in 0..NB, TruncateStaged(n)
    PROVE  Stored'
<1>1. /\ cur \in Ids /\ cur # 0 /\ sf \in [Ids -> StagedFiles] /\ sf[cur] \in StagedFiles
      /\ file \in [Blocks -> Stamps] /\ n \in Nat
  BY BoundsAssumption
     DEF TypeOK, InodeTypeOK, StagedTypeOK, CountersTypeOK, TruncateStaged, Writable, Ids
<1>2. /\ sf' = [sf EXCEPT ![cur] = NextGeneration(sf[cur], Cut(sf[cur].data, n), n)]
      /\ file' = Cut(file, n) /\ size' = n
  BY DEF TruncateStaged
<1>3. /\ \A j \in Ids \ {cur} : sf'[j] = sf[j]
      /\ sf'[cur].generation = sf[cur].generation + 1 /\ ~sf'[cur].awaitingRemoteRename
      /\ sf'[cur].data = Cut(sf[cur].data, n)
  BY <1>1, <1>2 DEF NextGeneration, StagedFiles
<1>4. \A b \in Blocks : b > size' => file'[b] = 0
  BY <1>1, <1>2 DEF Cut, Blocks
<1>5. sf[cur].data = file
  <2>1. ~(size > 0 /\ sf[cur].generation = 0)
    BY DEF TruncateStaged, Quiet
  <2> QED
    BY <1>1, <2>1 DEF Stored, StagedIsFile, Replacing
<1>6. /\ cacheState' \in {cacheState, "MODIFIED"}
      /\ UNCHANGED <<cur, isFlushing, metaDirty, key, oldKey, renamingTo, up, ren, upd, store>>
  BY DEF TruncateStaged
<1> QED
  BY <1>1, <1>2, <1>3, <1>4, <1>5, <1>6, StoredNewGeneration

(* The first half of a write attaches an empty StagedFile to an empty file, or to one that
   the write replaces. *)
LEMMA StoredPrepare ==
    ASSUME TypeOK, LifeInv, Stored, NEW lo \in Blocks, NEW hi \in lo..NB, PrepareStagedWrite(lo, hi)
    PROVE  Stored'
<1>1. UNCHANGED <<cacheState, size, isFlushing, metaDirty, key, oldKey, renamingTo, up, ren, upd,
                  store, file>>
  BY DEF PrepareStagedWrite
<1>2. StoredNow' = StoredNow /\ Active' = Active /\ SourceKey' = SourceKey
  BY <1>1 DEF StoredNow, SourceKey, Active
<1>3. CASE cur # 0
  <2>1. UNCHANGED <<cur, sf>> /\ writer.pc = "idle"
    BY <1>3 DEF PrepareStagedWrite
  <2>2. StagedIsFile'
    BY <1>1, <1>3, <2>1 DEF Stored, StagedIsFile, Replacing
  <2>3. NoUpdates' /\ CreatedIsStaged' /\ FlushCount' /\ RenameShape'
    BY <1>1, <1>2, <2>1 DEF Stored, NoUpdates, CreatedIsStaged, Dead, FlushCount, RenameShape
  <2>4. UploadAttached' /\ UploadReads'
    BY <1>1, <1>2, <2>1 DEF Stored, UploadAttached, UploadReads, generationStillCurrent
  <2>5. ZeroTail' /\ CommittedIsStored' /\ AwaitingIsStored' /\ DetachedIsStored'
    BY <1>1, <1>2, <2>1 DEF Stored, ZeroTail, CommittedIsStored, AwaitingIsStored, DetachedIsStored,
                            generationStillCurrent
  <2> QED
    BY <2>2, <2>3, <2>4, <2>5 DEF Stored
<1>4. CASE cur = 0
  <2>1. /\ CreateStaged /\ writer' = [pc |-> "prepared", lo |-> lo, hi |-> hi]
        /\ cacheState = "CREATED" \/ size = 0 \/ (lo = 1 /\ hi >= size)
    BY <1>4 DEF PrepareStagedWrite
  <2>2. /\ sf \in [Ids -> StagedFiles] /\ used + 1 \in Ids /\ cur' = used + 1 /\ cur' # 0
        /\ size \in Nat /\ file \in [Blocks -> Stamps]
    BY <2>1, BoundsAssumption
       DEF TypeOK, InodeTypeOK, StagedTypeOK, CountersTypeOK, CreateStaged, Ids
  <2>3. sf'[used + 1] = Fresh
    BY <2>1, <2>2 DEF CreateStaged
  <2>4. /\ Fresh.data = Zeroes /\ Fresh.len = 0 /\ Fresh.generation = 0
        /\ ~Fresh.awaitingRemoteRename
    BY DEF Fresh, Unused
  <2>5. \A i \in Ids : up[i].pc \notin Uploading
    BY <1>4 DEF Stored, UploadAttached, Ids
  <2>6. cacheState # "CREATED"
    BY <1>4 DEF Stored, CreatedIsStaged
  <2>7. NoUpdates' /\ CreatedIsStaged' /\ FlushCount' /\ RenameShape'
    BY <1>1, <1>2, <2>6 DEF Stored, NoUpdates, CreatedIsStaged, Dead, FlushCount, RenameShape
  <2>8. UploadAttached' /\ UploadReads' /\ CommittedIsStored'
    BY <1>1, <2>5 DEF UploadAttached, UploadReads, CommittedIsStored, Uploading
  <2>9. ZeroTail'
    BY <1>1 DEF Stored, ZeroTail
  <2>10. StagedIsFile'
    <3>1. CASE size = 0
      <4>1. file = Zeroes
        BY <2>2, <3>1 DEF Stored, ZeroTail, Zeroes, Blocks
      <4> QED
        BY <1>1, <2>2, <2>3, <2>4, <4>1 DEF StagedIsFile
    <3>2. CASE size # 0
      <4>1. /\ writer'.pc # "idle" /\ writer'.lo = 1 /\ writer'.hi >= size /\ size > 0
        BY <2>1, <2>2, <2>6, <3>2
      <4> QED
        BY <1>1, <2>2, <2>3, <2>4, <4>1 DEF StagedIsFile, Replacing
    <3> QED
      BY <3>1, <3>2
  <2>11. AwaitingIsStored' /\ DetachedIsStored'
    BY <2>2, <2>3, <2>4 DEF AwaitingIsStored, DetachedIsStored
  <2> QED
    BY <2>7, <2>8, <2>9, <2>10, <2>11 DEF Stored
<1> QED
  BY <1>3, <1>4

(* The other sections of a write. *)
LEMMA StoredWriterMoves ==
    ASSUME TypeOK, LifeInv, Quiet', Stored, EnsureStaged \/ WriteRefused
    PROVE  Stored'
<1>1. UNCHANGED <<cur, cacheState, size, isFlushing, metaDirty, key, oldKey, renamingTo, sf, up,
                  ren, upd, store, file>>
  BY DEF EnsureStaged, WriteRefused, inodeVars, Quiet
<1>2. StoredNow' = StoredNow /\ Active' = Active /\ SourceKey' = SourceKey
  BY <1>1 DEF StoredNow, SourceKey, Active
<1>3. WriteRefused => cur = 0
  <2>1. ~Dead
    BY DEF Stored, CreatedIsStaged
  <2>2. cur # 0 => sf[cur].fd /\ ~sf[cur].cleanupPending
    BY DEF LifeInv, AttachedIsOpen
  <2> QED
    BY <2>1, <2>2 DEF WriteRefused, Writable
<1>4. EnsureStaged => writer'.pc # "idle" /\ writer'.lo = writer.lo /\ writer'.hi = writer.hi
  BY DEF EnsureStaged, TypeOK, CallsTypeOK, Writes
<1>5. StagedIsFile'
  BY <1>1, <1>3, <1>4 DEF Stored, StagedIsFile, Replacing
<1>6. NoUpdates' /\ CreatedIsStaged' /\ FlushCount' /\ RenameShape'
  BY <1>1, <1>2 DEF Stored, NoUpdates, CreatedIsStaged, Dead, FlushCount, RenameShape
<1>7. UploadAttached' /\ UploadReads'
  BY <1>1, <1>2 DEF Stored, UploadAttached, UploadReads, generationStillCurrent
<1>8. ZeroTail' /\ CommittedIsStored' /\ AwaitingIsStored' /\ DetachedIsStored'
  BY <1>1, <1>2 DEF Stored, ZeroTail, CommittedIsStored, AwaitingIsStored, DetachedIsStored,
                    generationStillCurrent
<1> QED
  BY <1>5, <1>6, <1>7, <1>8 DEF Stored

(* renameInCache: the object stays where it is expected, or there is none on its way. *)
LEMMA StoredRenameInCache ==
    ASSUME TypeOK, Stored, RenameInCache
    PROVE  Stored'
<1>1. UNCHANGED <<cur, size, isFlushing, metaDirty, renamingTo, sf, up, ren, upd, writer, store, file>>
  BY DEF RenameInCache
<1>2. /\ key = Key /\ oldKey = NoKey /\ key' = NewKey /\ oldKey' \in {NoKey, Key}
      /\ cacheState' \in {cacheState, "MODIFIED"}
      /\ oldKey' = NoKey => cacheState = "CREATED" /\ isFlushing = 0
  BY KeysAssumption DEF RenameInCache
<1>3. ~renamingTo /\ ren.pc \notin {"delete", "copied"} /\ Active' = Active
  BY <1>1, <1>2, KeysAssumption DEF Stored, RenameShape, Active
<1>4. NoUpdates' /\ CreatedIsStaged' /\ FlushCount'
  BY <1>1, <1>2, <1>3 DEF Stored, NoUpdates, CreatedIsStaged, Dead, FlushCount
<1>5. RenameShape'
  BY <1>1, <1>2, <1>3 DEF Stored, RenameShape
<1>6. UploadReads' /\ ZeroTail' /\ StagedIsFile'
  BY <1>1 DEF Stored, UploadReads, ZeroTail, StagedIsFile, Replacing, generationStillCurrent
<1>7. UploadAttached' /\ CommittedIsStored' /\ AwaitingIsStored' /\ DetachedIsStored'
  <2>1. CASE oldKey' = Key
    <3>1. SourceKey' = SourceKey
      BY <1>2, <2>1, KeysAssumption DEF SourceKey
    <3>2. StoredNow' = StoredNow
      BY <1>1, <3>1 DEF StoredNow
    <3> QED
      BY <1>1, <3>1, <3>2 DEF Stored, UploadAttached, CommittedIsStored, AwaitingIsStored,
                              DetachedIsStored, generationStillCurrent
  <2>2. CASE oldKey' = NoKey
    <3>1. Active = {}
      BY <1>2, <2>2, NothingFlushes DEF Stored
    <3>2. \A i \in Ids : up[i].pc = "idle"
      BY <3>1 DEF Active
    <3>3. cur # 0 /\ ~sf[cur].awaitingRemoteRename
      BY <1>2, <2>2 DEF Stored, CreatedIsStaged
    <3> QED
      BY <1>1, <3>2, <3>3 DEF UploadAttached, CommittedIsStored, AwaitingIsStored,
                              DetachedIsStored, Uploading, Reading
  <2> QED
    BY <1>2, <2>1, <2>2
<1> QED
  BY <1>4, <1>5, <1>6, <1>7 DEF Stored

-------------------------------------------------------------------------------
(* sendRename *)

(* Steps of sendRename between its two ends, with the object where it was. *)
LEMMA StoredRenameMoves ==
    ASSUME Stored, RenameShape', FlushCount', StoredNow' = StoredNow, SourceKey' = SourceKey,
           UNCHANGED <<cur, cacheState, size, metaDirty, sf, up, upd, writer, file>>
    PROVE  Stored'
<1>1. NoUpdates' /\ CreatedIsStaged'
  BY DEF Stored, NoUpdates, CreatedIsStaged, Dead
<1>2. UploadAttached' /\ UploadReads'
  BY DEF Stored, UploadAttached, UploadReads, generationStillCurrent
<1>3. ZeroTail' /\ StagedIsFile'
  BY DEF Stored, ZeroTail, StagedIsFile, Replacing
<1>4. CommittedIsStored' /\ AwaitingIsStored' /\ DetachedIsStored'
  BY DEF Stored, CommittedIsStored, AwaitingIsStored, DetachedIsStored, generationStillCurrent
<1> QED
  BY <1>1, <1>2, <1>3, <1>4 DEF Stored

(* The rename starts when the staged generation is uploaded and nothing is in flight. *)
LEMMA StoredStartRename ==
    ASSUME TypeOK, Stored, StartRename
    PROVE  Stored'
<1>1. UNCHANGED <<cur, cacheState, size, metaDirty, key, oldKey, sf, up, upd, writer, store, file>>
  BY DEF StartRename
<1>2. Active = {} /\ ren.pc = "idle" /\ Active' = Active
  BY <1>1, NothingFlushes DEF StartRename, Stored, Active
<1>3. oldKey = Key /\ key = NewKey /\ oldKey # NoKey
  BY DEF StartRename, Stored, RenameShape
<1>4. StoredNow
  BY DEF StartRename, hasUnpersistedStagedFile, Stored, AwaitingIsStored, DetachedIsStored
<1>5. store[Key] # NoObject
  BY <1>3, <1>4 DEF StoredNow, SourceKey
<1>6. ren'.pc = "copy" /\ ren'.from = Key /\ ren'.to = NewKey /\ renamingTo'
  BY <1>3 DEF StartRename
<1>7. RenameShape'
  BY <1>1, <1>2, <1>3, <1>5, <1>6 DEF RenameShape
<1>8. FlushCount'
  <2>1. isFlushing' = 1
    BY DEF StartRename
  <2> QED
    BY <1>2, <1>6, <2>1, FS_EmptySet DEF FlushCount
<1>9. StoredNow' = StoredNow /\ SourceKey' = SourceKey
  BY <1>1 DEF StoredNow, SourceKey
<1> QED
  BY <1>1, <1>7, <1>8, <1>9, StoredRenameMoves

(* The requests of the rename, its error return and its deferred decrement. *)
LEMMA StoredRenameRequests ==
    ASSUME TypeOK, Stored, CopyBlob \/ DeleteOldKey \/ RenameError \/ RenameReturns
    PROVE  Stored'
<1>1. UNCHANGED <<cur, cacheState, size, metaDirty, key, oldKey, sf, up, upd, writer, file>>
  BY DEF CopyBlob, DeleteOldKey, RenameError, RenameReturns, inodeVars
<1>2. /\ store \in [Keys -> Objects \cup {NoObject}] /\ ren \in Renames
      /\ Key \in Keys /\ NewKey \in Keys /\ Key # NewKey
  BY KeysAssumption DEF TypeOK, StagedTypeOK, CallsTypeOK, Keys
<1>3. SourceKey' = SourceKey /\ Active' = Active
  BY <1>1 DEF SourceKey, Active
<1>4. CASE CopyBlob
  <2>1. /\ renamingTo /\ ren.from = Key /\ ren.to = NewKey /\ store[Key] # NoObject
        /\ SourceKey = Key
    BY <1>4, KeysAssumption DEF CopyBlob, Stored, RenameShape, SourceKey
  <2>2. /\ UNCHANGED <<renamingTo, isFlushing>> /\ ren'.from = Key /\ ren'.to = NewKey
        /\ \/ ren'.pc = "copied" /\ store'[NewKey] = store[Key]
           \/ ren'.pc = "error"
        /\ store'[Key] = store[Key]
    <3>1. store[ren.from] # NoObject
      BY <2>1
    <3> QED
      BY <1>2, <1>4, <2>1, <3>1 DEF CopyBlob, inodeVars, Renames
  <2>3. RenameShape'
    BY <1>1, <1>2, <1>3, <2>1, <2>2 DEF Stored, RenameShape
  <2>4. FlushCount'
    BY <1>3, <1>4, <2>2 DEF Stored, FlushCount, CopyBlob
  <2>5. StoredNow' = StoredNow
    BY <1>1, <1>3, <2>1, <2>2 DEF StoredNow
  <2> QED
    BY <1>1, <1>3, <2>3, <2>4, <2>5, StoredRenameMoves
<1>5. CASE DeleteOldKey
  <2>1. /\ oldKey = NoKey /\ key = NewKey /\ ren.from = Key /\ SourceKey = NewKey /\ ~renamingTo
    BY <1>5, <1>2, KeysAssumption DEF DeleteOldKey, Stored, RenameShape, SourceKey
  <2>2. /\ UNCHANGED <<renamingTo, isFlushing>> /\ ren.pc = "delete" /\ ren'.pc = "end"
        /\ store'[NewKey] = store[NewKey]
    BY <1>2, <1>5, <2>1 DEF DeleteOldKey, inodeVars, Renames
  <2>3. RenameShape'
    BY <1>1, <2>1, <2>2 DEF Stored, RenameShape
  <2>4. FlushCount'
    BY <1>3, <2>2 DEF Stored, FlushCount
  <2>5. StoredNow' = StoredNow
    BY <1>1, <1>3, <2>1, <2>2 DEF StoredNow
  <2> QED
    BY <1>1, <1>3, <2>3, <2>4, <2>5, StoredRenameMoves
<1>6. CASE RenameError
  <2>1. /\ UNCHANGED <<isFlushing, store>> /\ ren.pc = "error" /\ ren'.pc = "end" /\ ~renamingTo'
    BY <1>2, <1>6 DEF RenameError, Renames
  <2>2. RenameShape'
    BY <1>1, <2>1 DEF Stored, RenameShape
  <2>3. FlushCount'
    BY <1>3, <2>1 DEF Stored, FlushCount
  <2>4. StoredNow' = StoredNow
    BY <1>1, <1>3, <2>1 DEF StoredNow
  <2> QED
    BY <1>1, <1>3, <2>2, <2>3, <2>4, StoredRenameMoves
<1>7. CASE RenameReturns
  <2>1. /\ UNCHANGED <<renamingTo, store>> /\ ren.pc = "end" /\ ren'.pc = "idle"
        /\ isFlushing' = isFlushing - 1
    BY <1>7 DEF RenameReturns, NoRename
  <2>2. RenameShape'
    BY <1>1, <2>1 DEF Stored, RenameShape
  <2>3. FlushCount'
    <3>1. Cardinality(Active) \in Nat
      BY ActiveFinite DEF Active
    <3> QED
      BY <1>3, <2>1, <3>1 DEF Stored, FlushCount
  <2>4. StoredNow' = StoredNow
    BY <1>1, <1>3, <2>1 DEF StoredNow
  <2> QED
    BY <1>1, <1>3, <2>2, <2>3, <2>4, StoredRenameMoves
<1> QED
  BY <1>4, <1>5, <1>6, <1>7

(* The copy succeeded: the new key has what the old one has, and an uploaded StagedFile
   goes. *)
LEMMA StoredRenameCopied ==
    ASSUME TypeOK, LifeInv, Stored, RenameCopied
    PROVE  Stored'
<1>1. UNCHANGED <<size, isFlushing, metaDirty, key, up, upd, writer, store, file>>
  BY DEF RenameCopied
<1>2. /\ renamingTo /\ oldKey = Key /\ key = NewKey /\ ren.from = Key /\ Active = {}
      /\ oldKey # NoKey /\ store[NewKey] # NoObject /\ store[NewKey].data = store[Key].data
  BY DEF RenameCopied, Stored, RenameShape
<1>3. /\ oldKey' = NoKey /\ ~renamingTo' /\ ren'.pc = "delete" /\ ren'.from = Key
      /\ ren.pc = "copied"
  BY <1>2 DEF RenameCopied, TypeOK, CallsTypeOK, Renames
<1>4. StoredNow => StoredNow'
  BY <1>1, <1>2, <1>3 DEF StoredNow, SourceKey
<1>5. Active' = Active /\ \A i \in Ids : up'[i].pc = "idle"
  BY <1>1, <1>2 DEF Active
<1>6. /\ cur # 0 /\ sf[cur].awaitingRemoteRename => cur' = 0
      /\ cur # 0 /\ ~sf[cur].awaitingRemoteRename => cur' = cur /\ sf' = sf
      /\ cur = 0 => cur' = 0 /\ sf' = sf
  <2>1. cur # 0 => sf[cur].fd
    BY DEF LifeInv, AttachedIsOpen
  <2> QED
    BY <2>1 DEF RenameCopied, hasUnpersistedStagedFile
<1>7. cacheState' \in {cacheState, "CACHED"}
  BY DEF RenameCopied
<1>8. NoUpdates' /\ FlushCount' /\ RenameShape'
  BY <1>1, <1>2, <1>3, <1>5 DEF Stored, NoUpdates, FlushCount, RenameShape
<1>9. CreatedIsStaged'
  BY <1>6, <1>7 DEF Stored, CreatedIsStaged, Dead
<1>10. UploadAttached' /\ UploadReads' /\ CommittedIsStored'
  BY <1>5 DEF UploadAttached, UploadReads, CommittedIsStored, Uploading, Reading
<1>11. ZeroTail' /\ StagedIsFile'
  BY <1>1, <1>6 DEF Stored, ZeroTail, StagedIsFile, Replacing
<1>12. AwaitingIsStored' /\ DetachedIsStored'
  BY <1>4, <1>6 DEF Stored, AwaitingIsStored, DetachedIsStored
<1> QED
  BY <1>8, <1>9, <1>10, <1>11, <1>12 DEF Stored

-------------------------------------------------------------------------------
(* The invariant is inductive on the files it is about. *)
LEMMA StoredStep ==
    ASSUME TypeInv, LifeInv, GenerationInv, Quiet, Quiet', Stored, Next
    PROVE  Stored'
<1> USE DEF TypeInv
<1>1. CASE Application
  <2>1. ASSUME NEW lo \in Blocks, NEW hi \in lo..NB, PrepareStagedWrite(lo, hi) PROVE Stored'
    BY <2>1, StoredPrepare
  <2>2. ASSUME NEW n \in 0..NB, TruncateStaged(n) PROVE Stored'
    BY <2>2, StoredTruncate
  <2>3. ~SetXattr
    <3>1. meta \in Nat
      BY BoundsAssumption DEF TypeOK, InodeTypeOK
    <3> QED
      BY <3>1 DEF SetXattr, Quiet
  <2>4. ~Unlink
    BY DEF Unlink, Quiet
  <2>5. CASE SyncBegin
    BY <2>5, StoredKept DEF SyncBegin, inodeVars
  <2> QED
    BY <1>1, <2>1, <2>2, <2>3, <2>4, <2>5, StoredRenameInCache DEF Application
<1>2. CASE WriterStep
  BY <1>2, StoredWriterMoves, StoredWrite DEF WriterStep
<1>3. ASSUME NEW i \in Ids, UploadStep(i) PROVE Stored'
  <2>1. CASE FlusherBegins(i)
    BY <2>1, StoredBeginFlush DEF FlusherBegins
  <2> QED
    BY <1>3, <2>1, StoredReads, StoredUploadPart, StoredBeforeCommit, StoredCommit,
       StoredFinishFlush, StoredFlushComplete, StoredFlushReturns DEF UploadStep
<1>4. CASE RenameStep
  <2>1. ~RenameSourceMissing
    BY DEF RenameSourceMissing, Stored, RenameShape
  <2> QED
    BY <1>4, <2>1, StoredStartRename, StoredRenameRequests, StoredRenameCopied DEF RenameStep
<1>5. ~UpdateMetaStep
  BY DEF UpdateMetaStep, StartUpdateMeta, SelfCopy, UpdateMetaReturns, Stored, NoUpdates
<1>6. CASE SyncStep
  <2>1. CASE SyncUploads
    <3>1. cur \in Ids /\ BeginFlush(cur)
      BY <2>1 DEF SyncUploads, TypeOK, InodeTypeOK
    <3> QED
      BY <3>1, StoredBeginFlush
  <2>2. CASE SyncSkips \/ SyncChecksInode \/ SyncChecksStaged \/ SyncReturns
    BY <2>2, StoredKept DEF SyncSkips, SyncChecksInode, SyncChecksStaged, SyncReturns, inodeVars
  <2> QED
    BY <1>6, <2>1, <2>2 DEF SyncStep
<1>7. ~Remote
  <2>1. remote \in Nat
    BY BoundsAssumption DEF TypeOK, CountersTypeOK
  <2> QED
    BY <2>1 DEF Remote, RemoteDelete, Quiet
<1> QED
  BY <1>1, <1>2, <1>3, <1>4, <1>5, <1>6, <1>7 DEF Next

(* Every step keeps the invariant. *)
LEMMA StoredInvStep ==
    ASSUME TypeInv, LifeInv, GenerationInv, StoredInv, [Next]_vars,
           TypeInv', LifeInv', GenerationInv'
    PROVE  StoredInv'
<1>1. ASSUME Quiet' PROVE Stored'
  <2>1. Quiet /\ Stored
    BY <1>1, QuietBefore DEF TypeInv, StoredInv
  <2>2. CASE Next
    BY <1>1, <2>1, <2>2, StoredStep
  <2>3. CASE UNCHANGED vars
    BY <2>1, <2>3, StoredKept DEF vars, inodeVars
  <2> QED
    BY <2>2, <2>3
<1> QED
  BY <1>1 DEF StoredInv

(* The staged bytes of a file are given up only when the object store has the file under the
   key where this mount looks for it, whatever is written, truncated, renamed, uploaded,
   retried or lost meanwhile (flushStagedFileDirect, detachUploadedStagedFileLocked).  As long
   as no extended attribute was changed: sendUpdateMeta may discard a StagedFile. *)
THEOREM ReleasedFilesAreStored == Spec => [](meta = 0 => ReleasedIsStored)
<1>1. Init => TypeInv /\ LifeInv /\ GenerationInv /\ StoredInv
  BY TypeInit, LifeInit, GenerationInit, StoredInit
<1>2. TypeInv /\ LifeInv /\ GenerationInv /\ StoredInv /\ [Next]_vars
        => TypeInv' /\ LifeInv' /\ GenerationInv' /\ StoredInv'
  <2>1. SUFFICES ASSUME TypeInv, LifeInv, GenerationInv, StoredInv, [Next]_vars
                 PROVE  TypeInv' /\ LifeInv' /\ GenerationInv' /\ StoredInv'
    OBVIOUS
  <2>2. TypeInv' /\ LifeInv' /\ GenerationInv'
    BY <2>1, TypeStep, LifeStep, GenerationStep DEF TypeInv
  <2>3. StoredInv'
    BY <2>1, <2>2, StoredInvStep
  <2> QED
    BY <2>2, <2>3
<1>3. StoredInv => (meta = 0 => ReleasedIsStored)
  BY DEF StoredInv, Quiet, Stored, DetachedIsStored, StoredNow, ReleasedIsStored
<1> QED
  BY <1>1, <1>2, <1>3, PTL DEF Spec

-------------------------------------------------------------------------------
(* The hash of an object *)

(* While the generation is the captured one, the pass of hashLocalFile reads the captured
   content; a pass that ended has read all of it; and what is published is its hash, if the
   size is one that is hashed.  A smaller object may carry the hash of an earlier one. *)
HashReadsSnapshot ==
    \A i \in Ids : up[i].pc = "hash" /\ generationStillCurrent(i)
                    => \A b \in Blocks : up[i].hashed[b] \in {NoPart, up[i].snap[b]}
HashIsOfSnapshot ==
    \A i \in Ids : up[i].pc = "meta" /\ liveUpload(up[i].size) /\ wantHash(up[i].size)
                    => \A b \in 1..up[i].size : up[i].hashed[b] = up[i].snap[b]
HashCaptured ==
    \A i \in Ids : up[i].pc \in {"begin", "parts", "commit"} /\ wantHash(up[i].size)
                    => up[i].hash = Content(up[i].snap, up[i].size)
HashedObjects ==
    \A k \in Keys : \A n \in HashMin..NB :
        store[k] # NoObject /\ store[k].hash # NoHash /\ DOMAIN store[k].data = 1..n
            => store[k].hash = store[k].data
NoUpdateYet == meta = 0 => upd.pc = "idle" /\ ~metaDirty
HashInv ==
    /\ HashReadsSnapshot /\ HashIsOfSnapshot /\ HashCaptured
    /\ NoUpdateYet /\ (meta = 0 => HashedObjects)

(* Nothing is hashed at first, and a file that is looked up has no hash. *)
LEMMA HashInit == Init => HashInv
<1> SUFFICES ASSUME Init PROVE HashInv
  OBVIOUS
<1>1. \A i \in Ids : up[i].pc = "idle"
  BY DEF Init, NoUpload
<1>2. HashedObjects
  BY DEF Init, HashedObjects
<1>3. NoUpdateYet
  BY DEF Init, NoUpdateYet, NoUpdate
<1> QED
  BY <1>1, <1>2, <1>3 DEF HashInv, HashReadsSnapshot, HashIsOfSnapshot, HashCaptured

(* Steps that leave the uploads alone; a generation that changes under one only grows. *)
LEMMA HashUploadsKept ==
    ASSUME TypeOK, TypeOK', GenerationInv, HashInv, UNCHANGED up,
           \A i \in Ids : up[i].pc \in Running => sf'[i].generation >= sf[i].generation,
           NoUpdateYet', meta' = 0 => HashedObjects'
    PROVE  HashInv'
<1>1. \A i \in Ids : /\ sf[i].generation \in Int /\ sf'[i].generation \in Int
                     /\ up[i].generation \in Int
  BY BoundsAssumption DEF TypeOK, StagedTypeOK, StagedFiles, Uploads
<1>2. \A i \in Ids : up[i].pc \in Running /\ sf'[i].generation = up[i].generation
                      => sf[i].generation = up[i].generation
  BY <1>1 DEF GenerationInv, GenerationsGrow
<1>3. HashReadsSnapshot'
  BY <1>2 DEF HashInv, HashReadsSnapshot, generationStillCurrent, Running
<1>4. HashIsOfSnapshot' /\ HashCaptured'
  BY DEF HashInv, HashIsOfSnapshot, HashCaptured, liveUpload, wantHash
<1> QED
  BY <1>3, <1>4 DEF HashInv

(* One upload moves while the generations of the others stay. *)
LEMMA HashUploadChange ==
    ASSUME HashInv, NEW i \in Ids,
           \A j \in Ids \ {i} : up'[j] = up[j] /\ sf'[j].generation = sf[j].generation,
           up'[i].pc = "hash" /\ sf'[i].generation = up'[i].generation
              => \A b \in Blocks : up'[i].hashed[b] \in {NoPart, up'[i].snap[b]},
           up'[i].pc = "meta" /\ liveUpload(up'[i].size) /\ wantHash(up'[i].size)
              => \A b \in 1..up'[i].size : up'[i].hashed[b] = up'[i].snap[b],
           up'[i].pc \in {"begin", "parts", "commit"} /\ wantHash(up'[i].size)
              => up'[i].hash = Content(up'[i].snap, up'[i].size),
           NoUpdateYet', meta' = 0 => HashedObjects'
    PROVE  HashInv'
<1>1. HashReadsSnapshot'
  BY DEF HashInv, HashReadsSnapshot, generationStillCurrent
<1>2. HashIsOfSnapshot'
  BY DEF HashInv, HashIsOfSnapshot, liveUpload, wantHash
<1>3. HashCaptured'
  BY DEF HashInv, HashCaptured, wantHash
<1> QED
  BY <1>1, <1>2, <1>3 DEF HashInv

(* A flush begins with nothing hashed, or from a snapshot. *)
LEMMA HashBeginFlush ==
    ASSUME TypeOK, HashInv, NEW i \in Ids, BeginFlush(i)
    PROVE  HashInv'
<1>1. /\ up \in [Ids -> Uploads] /\ sf \in [Ids -> StagedFiles] /\ size \in Nat
  BY BoundsAssumption DEF TypeOK, InodeTypeOK, StagedTypeOK
<1>2. UNCHANGED <<meta, metaDirty, upd, store>>
  BY DEF BeginFlush
<1>3. NoUpdateYet' /\ (meta' = 0 => HashedObjects')
  BY <1>2 DEF HashInv, NoUpdateYet, HashedObjects
<1>4. /\ up'[i].pc = IF liveUpload(size) /\ wantHash(size) THEN "hash" ELSE "meta"
      /\ up'[i].size = size /\ up'[i].hashed = Unread
      /\ \A j \in Ids \ {i} : up'[j] = up[j]
  BY <1>1 DEF BeginFlush, NoUpload
<1>5. \A j \in Ids : sf'[j].generation = sf[j].generation
  BY <1>1 DEF BeginFlush, StagedFiles
<1>6. \A b \in Blocks : Unread[b] = NoPart
  BY DEF Unread
<1> QED
  BY <1>3, <1>4, <1>5, <1>6, HashUploadChange DEF liveUpload, wantHash

(* hashLocalFile reads a block of the staging file. *)
LEMMA HashHashBlock ==
    ASSUME TypeOK, GenerationInv, HashInv, NEW i \in Ids, NEW b \in Blocks, HashBlock(i, b)
    PROVE  HashInv'
<1>1. /\ up \in [Ids -> Uploads] /\ up[i] \in Uploads
      /\ up[i].hashed \in [Blocks -> Stamps \cup {NoPart}]
  BY DEF TypeOK, StagedTypeOK, Uploads
<1>2. UNCHANGED <<meta, metaDirty, upd, store, sf>> /\ up[i].pc = "hash"
  BY DEF HashBlock, UploadOnly, inodeVars
<1>3. NoUpdateYet' /\ (meta' = 0 => HashedObjects')
  BY <1>2 DEF HashInv, NoUpdateYet, HashedObjects
<1>4. /\ \A j \in Ids \ {i} : up'[j] = up[j]
      /\ up'[i].pc = "hash" /\ up'[i].snap = up[i].snap /\ up'[i].generation = up[i].generation
      /\ \A c \in Blocks : up'[i].hashed[c] = IF c = b THEN sf[i].data[b] ELSE up[i].hashed[c]
  BY <1>1 DEF HashBlock, Uploads
<1>5. generationStillCurrent(i) =>
        /\ sf[i].data = up[i].snap
        /\ \A c \in Blocks : up[i].hashed[c] \in {NoPart, up[i].snap[c]}
  BY <1>2 DEF HashInv, HashReadsSnapshot, GenerationInv, FileIsSnapshot, Reading
<1>6. sf'[i].generation = up'[i].generation
        => \A c \in Blocks : up'[i].hashed[c] \in {NoPart, up'[i].snap[c]}
  BY <1>2, <1>4, <1>5 DEF generationStillCurrent
<1> QED
  BY <1>2, <1>3, <1>4, <1>6, HashUploadChange

(* The pass ended with the generation it began with: it is the hash of the snapshot. *)
LEMMA HashHashDone ==
    ASSUME TypeOK, HashInv, NEW i \in Ids, HashDone(i)
    PROVE  HashInv'
<1>1. up \in [Ids -> Uploads] /\ up[i] \in Uploads /\ up[i].size \in 0..NB
  BY UploadFields DEF TypeOK, StagedTypeOK
<1>2. UNCHANGED <<meta, metaDirty, upd, store, sf>> /\ up[i].pc = "hash"
  BY DEF HashDone, UploadOnly, inodeVars
<1>3. NoUpdateYet' /\ (meta' = 0 => HashedObjects')
  BY <1>2 DEF HashInv, NoUpdateYet, HashedObjects
<1>4. /\ \A j \in Ids \ {i} : up'[j] = up[j]
      /\ up'[i].pc = IF generationStillCurrent(i) THEN "meta" ELSE "retry"
      /\ up'[i].snap = up[i].snap /\ up'[i].size = up[i].size /\ up'[i].hashed = up[i].hashed
  BY <1>1 DEF HashDone, UploadGoesTo, Uploads
<1>5. \A b \in 1..up[i].size : up[i].hashed[b] # NoPart /\ b \in Blocks
  BY <1>1, BoundsAssumption DEF HashDone, Blocks
<1>6. generationStillCurrent(i) => \A b \in 1..up[i].size : up[i].hashed[b] = up[i].snap[b]
  BY <1>2, <1>5 DEF HashInv, HashReadsSnapshot
<1> QED
  BY <1>2, <1>3, <1>4, <1>6, HashUploadChange

(* The hash that is published with the upload. *)
LEMMA HashCaptureMetadata ==
    ASSUME TypeOK, HashInv, NEW i \in Ids, CaptureMetadata(i)
    PROVE  HashInv'
<1>1. up \in [Ids -> Uploads] /\ up[i] \in Uploads /\ up[i].size \in Nat
  BY UploadFields, BoundsAssumption DEF TypeOK, StagedTypeOK
<1>2. UNCHANGED <<meta, metaDirty, upd, store, sf>> /\ up[i].pc = "meta"
  BY DEF CaptureMetadata
<1>3. NoUpdateYet' /\ (meta' = 0 => HashedObjects')
  BY <1>2 DEF HashInv, NoUpdateYet, HashedObjects
<1>4. wantHash(up[i].size) =>
        metaHash' = Content(IF liveUpload(up[i].size) THEN up[i].hashed ELSE up[i].snap, up[i].size)
  BY <1>1 DEF CaptureMetadata
<1>5. wantHash(up[i].size) =>
        Content(IF liveUpload(up[i].size) THEN up[i].hashed ELSE up[i].snap, up[i].size)
          = Content(up[i].snap, up[i].size)
  BY <1>2 DEF HashInv, HashIsOfSnapshot, Content
<1>6. /\ \A j \in Ids \ {i} : up'[j] = up[j]
      /\ up'[i].pc = "begin" /\ up'[i].hash = metaHash'
      /\ up'[i].snap = up[i].snap /\ up'[i].size = up[i].size
  BY <1>1 DEF CaptureMetadata, Uploads
<1> QED
  BY <1>2, <1>3, <1>4, <1>5, <1>6, HashUploadChange DEF wantHash

(* The rest of an upload keeps the hash it captured; the commit publishes it with the bytes. *)
LEMMA HashUploadGoesOn ==
    ASSUME TypeOK, GenerationInv, HashInv, NEW i \in Ids,
           \/ \E b \in Blocks : UploadPart(i, b)
           \/ BeginAttempt(i) \/ BeforeCommit(i) \/ CommitUpload(i) \/ UploadLost(i)
           \/ UploadFails(i) \/ FlushFailed(i)
    PROVE  HashInv'
<1>1. /\ up \in [Ids -> Uploads] /\ up[i] \in Uploads /\ up[i].key \in Keys
      /\ store \in [Keys -> Objects \cup {NoObject}]
  BY UploadFields DEF TypeOK, StagedTypeOK
<1>2. UNCHANGED <<meta, metaDirty, upd, sf>>
  BY DEF UploadPart, BeginAttempt, BeforeCommit, CommitUpload, UploadLost, UploadFails, FlushFailed,
         UploadOnly, inodeVars
<1>3. /\ \A j \in Ids \ {i} : up'[j] = up[j]
      /\ up'[i].snap = up[i].snap /\ up'[i].size = up[i].size /\ up'[i].hash = up[i].hash
  BY <1>1 DEF UploadPart, BeginAttempt, BeforeCommit, CommitUpload, UploadLost, UploadFails,
              FlushFailed, UploadGoesTo, Uploads
<1>4. /\ up'[i].pc \notin {"hash", "meta"}
      /\ up'[i].pc \in {"begin", "parts", "commit"} => up[i].pc \in {"begin", "parts", "commit"}
  BY <1>1 DEF UploadPart, BeginAttempt, BeforeCommit, CommitUpload, UploadLost, UploadFails,
              FlushFailed, UploadGoesTo, Uploads
<1>5. \A k \in Keys : \/ store'[k] = store[k]
                      \/ up[i].pc = "commit" /\ store'[k] = Uploaded(up[i])
  BY <1>1 DEF UploadPart, BeginAttempt, BeforeCommit, CommitUpload, UploadLost, UploadFails,
              FlushFailed, UploadOnly
<1>6. ASSUME up[i].pc = "commit", NEW n \in HashMin..NB, DOMAIN Uploaded(up[i]).data = 1..n
      PROVE  Uploaded(up[i]).hash = Uploaded(up[i]).data
  <2>1. up[i].size \in Nat /\ n \in Nat /\ 1..up[i].size = 1..n
    BY <1>1, <1>6, BoundsAssumption, UploadFields DEF Uploaded, Content
  <2>2. up[i].size = n
    BY <2>1
  <2>3. wantHash(up[i].size)
    BY <2>2, BoundsAssumption DEF wantHash
  <2>4. up[i].hash = Content(up[i].snap, up[i].size)
    BY <1>6, <2>3 DEF HashInv, HashCaptured
  <2>5. Content(up[i].parts, up[i].size) = Content(up[i].snap, up[i].size)
    BY <1>6 DEF GenerationInv, CommitsSnapshot, Content
  <2> QED
    BY <2>4, <2>5 DEF Uploaded
<1>7. NoUpdateYet'
  BY <1>2 DEF HashInv, NoUpdateYet
<1>8. meta' = 0 => HashedObjects'
  BY <1>2, <1>5, <1>6 DEF HashInv, HashedObjects
<1>9. up'[i].pc \in {"begin", "parts", "commit"} /\ wantHash(up'[i].size)
        => up'[i].hash = Content(up'[i].snap, up'[i].size)
  BY <1>3, <1>4 DEF HashInv, HashCaptured, wantHash
<1> QED
  BY <1>2, <1>3, <1>4, <1>7, <1>8, <1>9, HashUploadChange

(* The ends of an upload. *)
LEMMA HashFlushEnds ==
    ASSUME TypeOK, HashInv, NEW i \in Ids,
           RetryLater(i) \/ FinishFlush(i) \/ FlushReturns(i) \/ FlushComplete(i)
    PROVE  HashInv'
<1>1. /\ up \in [Ids -> Uploads] /\ up[i] \in Uploads
      /\ sf \in [Ids -> StagedFiles] /\ sf[i] \in StagedFiles
  BY DEF TypeOK, StagedTypeOK
<1>2. /\ up'[i].pc \in {"done", "idle", "finishFlush"}
      /\ \A j \in Ids \ {i} : up'[j] = up[j]
  BY <1>1 DEF RetryLater, FinishFlush, FlushReturns, FlushComplete, UploadGoesTo, Uploads, NoUpload
<1>3. \A j \in Ids \ {i} : sf'[j] = sf[j]
  BY <1>1 DEF RetryLater, FinishFlush, FlushReturns, FlushComplete
<1>4. UNCHANGED <<meta, upd, store>> /\ (~metaDirty => ~metaDirty')
  BY DEF RetryLater, FinishFlush, FlushReturns, FlushComplete, inodeVars
<1>5. NoUpdateYet' /\ (meta' = 0 => HashedObjects')
  BY <1>4 DEF HashInv, NoUpdateYet, HashedObjects
<1> QED
  BY <1>2, <1>3, <1>5, HashUploadChange

(* Steps that leave the uploads, the objects and the metadata alone, and move no generation
   of a running upload backwards. *)
LEMMA HashStagedChange ==
    ASSUME TypeOK, TypeOK', GenerationInv, HashInv, UNCHANGED <<up, store, upd, meta>>,
           ~metaDirty => ~metaDirty',
           \A i \in Ids : up[i].pc \in Running => sf'[i].generation >= sf[i].generation
    PROVE  HashInv'
<1>1. NoUpdateYet' /\ (meta' = 0 => HashedObjects')
  BY DEF HashInv, NoUpdateYet, HashedObjects
<1> QED
  BY <1>1, HashUploadsKept

(* As HashStagedChange, with the StagedFiles untouched. *)
LEMMA HashKept ==
    ASSUME TypeOK, TypeOK', GenerationInv, HashInv, UNCHANGED <<sf, up, store, upd, meta>>,
           ~metaDirty => ~metaDirty'
    PROVE  HashInv'
<1>1. \A i \in Ids : sf'[i].generation >= sf[i].generation
  BY BoundsAssumption DEF TypeOK, StagedTypeOK, StagedFiles
<1> QED
  BY <1>1, HashStagedChange

(* A new StagedFile has no upload yet. *)
LEMMA HashCreateStaged ==
    ASSUME TypeOK, TypeOK', LifeInv, GenerationInv, HashInv, CreateStaged,
           UNCHANGED <<up, store, upd, meta, metaDirty>>
    PROVE  HashInv'
<1>1. used + 1 \in Ids /\ up[used + 1].pc = "idle"
  BY BoundsAssumption DEF TypeOK, StagedTypeOK, CreateStaged, Ids, LifeInv, CreatedInOrder
<1>2. \A i \in Ids : up[i].pc \in Running => sf'[i] = sf[i]
  BY <1>1 DEF CreateStaged, TypeOK, StagedTypeOK, Running
<1>3. \A i \in Ids : sf[i].generation \in Int
  BY BoundsAssumption DEF TypeOK, StagedTypeOK, StagedFiles
<1> QED
  BY <1>2, <1>3, HashStagedChange

(* A write or truncate starts the next generation. *)
LEMMA HashWrite ==
    ASSUME TypeOK, TypeOK', GenerationInv, HashInv,
           WriteFileStaged \/ \E n \in 0..NB : TruncateStaged(n)
    PROVE  HashInv'
<1>1. /\ cur \in Ids /\ sf \in [Ids -> StagedFiles] /\ sf[cur] \in StagedFiles
      /\ \A i \in Ids : sf[i].generation \in Int
  BY BoundsAssumption
     DEF TypeOK, InodeTypeOK, StagedTypeOK, StagedFiles, WriteFileStaged, TruncateStaged, Writable
<1>2. PICK d, n : sf' = [sf EXCEPT ![cur] = NextGeneration(sf[cur], d, n)]
  BY DEF WriteFileStaged, TruncateStaged
<1>3. NextGeneration(sf[cur], d, n).generation = sf[cur].generation + 1
  BY <1>1 DEF NextGeneration, StagedFiles
<1>4. \A i \in Ids : sf'[i].generation >= sf[i].generation
  BY <1>1, <1>2, <1>3
<1>5. UNCHANGED <<up, store, upd, meta, metaDirty>>
  BY DEF WriteFileStaged, TruncateStaged
<1> QED
  BY <1>4, <1>5, HashStagedChange

(* Cleanup leaves its generation to the upload that reads the file. *)
LEMMA HashDropStaged ==
    ASSUME TypeOK, TypeOK', LifeInv, GenerationInv, HashInv, cur \in Ids,
           sf' = [sf EXCEPT ![cur] = Cleanup(sf[cur])], UNCHANGED <<up, store, upd, meta>>,
           ~metaDirty => ~metaDirty'
    PROVE  HashInv'
<1>1. /\ sf \in [Ids -> StagedFiles] /\ sf[cur] \in StagedFiles
      /\ \A i \in Ids : sf[i].generation \in Int
  BY BoundsAssumption DEF TypeOK, StagedTypeOK, StagedFiles
<1>2. ASSUME up[cur].pc \in Running PROVE sf'[cur].generation = sf[cur].generation
  <2>1. sf[cur].flushing /\ sf[cur].fd
    BY <1>2 DEF LifeInv, UploadOwnsFile
  <2>2. sf'[cur] = [sf[cur] EXCEPT !.cleanupPending = TRUE]
    BY <1>1, <2>1 DEF Cleanup
  <2> QED
    BY <1>1, <2>2 DEF StagedFiles
<1>3. \A i \in Ids : up[i].pc \in Running => sf'[i].generation >= sf[i].generation
  BY <1>1, <1>2
<1> QED
  BY <1>3, HashStagedChange

(* resetCache, on its own or at the end of a call. *)
LEMMA HashResetCache ==
    ASSUME TypeOK, TypeOK', LifeInv, GenerationInv, HashInv, NEW st, ResetCache(st),
           UNCHANGED <<up, store, upd, meta>>
    PROVE  HashInv'
<1>1. CASE cur = 0
  BY <1>1, HashKept DEF ResetCache
<1>2. CASE cur # 0
  <2>1. cur \in Ids /\ sf' = [sf EXCEPT ![cur] = Cleanup(sf[cur])] /\ ~metaDirty'
    BY <1>2 DEF ResetCache, TypeOK, InodeTypeOK
  <2> QED
    BY <2>1, HashDropStaged
<1> QED
  BY <1>1, <1>2

(* A rename copies an object with its hash, and deletes. *)
LEMMA HashRequests ==
    ASSUME TypeOK, TypeOK', GenerationInv, HashInv,
           CopyBlob \/ DeleteOldKey \/ \E k \in Keys : RemoteDelete(k)
    PROVE  HashInv'
<1>1. /\ store \in [Keys -> Objects \cup {NoObject}] /\ ren.from \in Keys /\ ren.to \in Keys
      /\ \A i \in Ids : sf[i].generation \in Int
  BY BoundsAssumption DEF TypeOK, StagedTypeOK, CallsTypeOK, Renames, StagedFiles
<1>2. UNCHANGED <<sf, up, upd, meta, metaDirty>>
  BY DEF CopyBlob, DeleteOldKey, RemoteDelete, inodeVars
<1>3. \A k \in Keys : store'[k] = NoObject \/ \E l \in Keys : store'[k] = store[l]
  BY <1>1 DEF CopyBlob, DeleteOldKey, RemoteDelete
<1>4. NoUpdateYet' /\ (meta' = 0 => HashedObjects')
  BY <1>2, <1>3 DEF HashInv, NoUpdateYet, HashedObjects
<1> QED
  BY <1>1, <1>2, <1>4, HashUploadsKept

(* sendRename *)
LEMMA HashRename ==
    ASSUME TypeOK, TypeOK', LifeInv, GenerationInv, HashInv, RenameStep
    PROVE  HashInv'
<1>1. CASE StartRename \/ RenameError \/ RenameReturns
  BY <1>1, HashKept DEF StartRename, RenameError, RenameReturns
<1>2. CASE CopyBlob \/ DeleteOldKey
  BY <1>2, HashRequests
<1>3. CASE RenameCopied
  <2>1. CASE cur # 0 /\ ~hasUnpersistedStagedFile
    <3>1. cur \in Ids /\ sf' = [sf EXCEPT ![cur] = Cleanup(sf[cur])]
      BY <1>3, <2>1 DEF RenameCopied, TypeOK, InodeTypeOK
    <3> QED
      BY <1>3, <3>1, HashDropStaged DEF RenameCopied
  <2>2. CASE ~(cur # 0 /\ ~hasUnpersistedStagedFile)
    BY <1>3, <2>2, HashKept DEF RenameCopied
  <2> QED
    BY <2>1, <2>2
<1>4. CASE RenameSourceMissing
  <2>1. CASE retryFromLocal
    <3>1. /\ sf \in [Ids -> StagedFiles] /\ \A i \in Ids : sf[i].generation \in Int
          /\ sf' = [sf EXCEPT ![cur].awaitingRemoteRename = FALSE]
          /\ UNCHANGED <<up, store, upd, meta, metaDirty>>
      BY <1>4, <2>1, BoundsAssumption
         DEF RenameSourceMissing, TypeOK, StagedTypeOK, StagedFiles
    <3>2. \A i \in Ids : sf'[i].generation = sf[i].generation
      BY <3>1 DEF StagedFiles
    <3> QED
      BY <3>1, <3>2, HashStagedChange
  <2>2. CASE ~retryFromLocal
    BY <1>4, <2>2, HashResetCache DEF RenameSourceMissing
  <2> QED
    BY <2>1, <2>2
<1> QED
  BY <1>1, <1>2, <1>3, <1>4 DEF RenameStep

(* sendUpdateMeta runs only after an attribute was set. *)
LEMMA HashUpdateMeta ==
    ASSUME TypeOK, TypeOK', LifeInv, GenerationInv, HashInv, SetXattr \/ UpdateMetaStep
    PROVE  HashInv'
<1>1. meta' # 0
  <2>1. CASE SetXattr
    BY <2>1 DEF SetXattr, TypeOK, InodeTypeOK
  <2>2. CASE UpdateMetaStep
    <3>1. metaDirty \/ upd.pc # "idle"
      BY <2>2 DEF UpdateMetaStep, StartUpdateMeta, SelfCopy, UpdateMetaReturns
    <3>2. meta # 0
      BY <3>1 DEF HashInv, NoUpdateYet
    <3>3. meta' = meta
      BY <2>2 DEF UpdateMetaStep, StartUpdateMeta, SelfCopy, UpdateMetaReturns, inodeVars
    <3> QED
      BY <3>2, <3>3
  <2> QED
    BY <2>1, <2>2
<1>2. up' = up
  BY DEF SetXattr, UpdateMetaStep, StartUpdateMeta, SelfCopy, UpdateMetaReturns
<1>3. \A i \in Ids : /\ sf[i].generation \in Int
                     /\ up[i].pc \in Running => sf'[i].generation = sf[i].generation
  <2>1. \A i \in Ids : sf[i].generation \in Int
    BY BoundsAssumption DEF TypeOK, StagedTypeOK, StagedFiles
  <2>2. CASE sf' = sf
    BY <2>1, <2>2
  <2>3. CASE sf' # sf
    <3>1. ResetCache("CACHED")
      BY <2>3 DEF SetXattr, UpdateMetaStep, StartUpdateMeta, SelfCopy, UpdateMetaReturns
    <3>2. /\ cur \in Ids /\ sf' = [sf EXCEPT ![cur] = Cleanup(sf[cur])]
          /\ sf \in [Ids -> StagedFiles] /\ sf[cur] \in StagedFiles
      BY <2>3, <3>1 DEF ResetCache, TypeOK, InodeTypeOK, StagedTypeOK
    <3>3. ASSUME up[cur].pc \in Running PROVE sf'[cur].generation = sf[cur].generation
      <4>1. sf[cur].flushing /\ sf[cur].fd
        BY <3>2, <3>3 DEF LifeInv, UploadOwnsFile
      <4>2. sf'[cur] = [sf[cur] EXCEPT !.cleanupPending = TRUE]
        BY <3>2, <4>1 DEF Cleanup
      <4> QED
        BY <3>2, <4>2 DEF StagedFiles
    <3> QED
      BY <2>1, <3>2, <3>3
  <2> QED
    BY <2>2, <2>3
<1>4. \A i \in Ids : up[i].pc \in Running => sf'[i].generation >= sf[i].generation
  BY <1>3
<1>5. NoUpdateYet' /\ (meta' = 0 => HashedObjects')
  BY <1>1 DEF NoUpdateYet
<1> QED
  BY <1>2, <1>4, <1>5, HashUploadsKept

(* The invariant of the hashes is inductive. *)
LEMMA HashStep ==
    ASSUME TypeOK, TypeOK', LifeInv, GenerationInv, HashInv, [Next]_vars
    PROVE  HashInv'
<1>1. CASE Application
  <2>1. ASSUME NEW lo \in Blocks, NEW hi \in lo..NB, PrepareStagedWrite(lo, hi)
        PROVE  HashInv'
    BY <2>1, HashCreateStaged, HashKept DEF PrepareStagedWrite
  <2>2. CASE RenameInCache \/ SyncBegin
    BY <2>2, HashKept DEF RenameInCache, SyncBegin, inodeVars
  <2>3. CASE Unlink
    BY <2>3, HashResetCache DEF Unlink
  <2> QED
    BY <1>1, <2>1, <2>2, <2>3, HashWrite, HashUpdateMeta DEF Application
<1>2. CASE WriterStep
  <2>1. CASE EnsureStaged
    BY <2>1, HashCreateStaged, HashKept DEF EnsureStaged
  <2>2. CASE WriteRefused
    BY <2>2, HashKept DEF WriteRefused, inodeVars
  <2> QED
    BY <1>2, <2>1, <2>2, HashWrite DEF WriterStep
<1>3. ASSUME NEW i \in Ids, UploadStep(i) PROVE HashInv'
  <2>1. CASE FlusherBegins(i)
    BY <2>1, HashBeginFlush DEF FlusherBegins
  <2> QED
    BY <1>3, <2>1, HashHashBlock, HashHashDone, HashCaptureMetadata, HashUploadGoesOn,
       HashFlushEnds DEF UploadStep
<1>4. CASE RenameStep
  BY <1>4, HashRename
<1>5. CASE UpdateMetaStep
  BY <1>5, HashUpdateMeta
<1>6. CASE SyncStep
  <2>1. CASE SyncUploads
    <3>1. cur \in Ids /\ BeginFlush(cur)
      BY <2>1 DEF SyncUploads, TypeOK, InodeTypeOK
    <3> QED
      BY <3>1, HashBeginFlush
  <2>2. CASE SyncSkips \/ SyncChecksInode \/ SyncChecksStaged \/ SyncReturns
    BY <2>2, HashKept DEF SyncSkips, SyncChecksInode, SyncChecksStaged, SyncReturns, inodeVars
  <2> QED
    BY <1>6, <2>1, <2>2 DEF SyncStep
<1>7. CASE Remote
  BY <1>7, HashRequests DEF Remote
<1>8. CASE UNCHANGED vars
  BY <1>8, HashKept DEF vars, inodeVars
<1> QED
  BY <1>1, <1>2, <1>3, <1>4, <1>5, <1>6, <1>7, <1>8 DEF Next

(* An object of a size that is hashed carries the hash of its bytes or none, although
   hashLocalFile reads a file that is being written in a pass of its own, retries re-read it
   and a rename copies it: the comparison of generations after the pass is enough.  As long
   as no extended attribute was changed: sendUpdateMeta publishes a hash by itself. *)
THEOREM LargeObjectsAreHashed == Spec => [](TypeOK /\ (meta = 0 => HashedObjects))
<1>1. Init => TypeInv /\ LifeInv /\ GenerationInv /\ HashInv
  BY TypeInit, LifeInit, GenerationInit, HashInit
<1>2. TypeInv /\ LifeInv /\ GenerationInv /\ HashInv /\ [Next]_vars
        => TypeInv' /\ LifeInv' /\ GenerationInv' /\ HashInv'
  BY TypeStep, LifeStep, GenerationStep, HashStep DEF TypeInv
<1>3. TypeInv /\ HashInv => TypeOK /\ (meta = 0 => HashedObjects)
  BY DEF HashInv, TypeInv
<1> QED
  BY <1>1, <1>2, <1>3, PTL DEF Spec

(* The same for every object, when MinFileSizeForHashKB is 0 and every size is hashed. *)
THEOREM HashesDescribeObjects ==
    ASSUME HashMin = 0
    PROVE  Spec => [](meta = 0 => HashDescribesObject)
<1>1. TypeOK /\ HashedObjects => HashDescribesObject
  <2> SUFFICES ASSUME TypeOK, HashedObjects, NEW k \in Keys,
                      store[k] # NoObject, store[k].hash # NoHash
               PROVE  store[k].hash = store[k].data
    BY DEF HashDescribesObject
  <2>1. store[k].data \in Contents
    BY DEF TypeOK, StagedTypeOK, Objects
  <2>2. PICK n \in 0..NB : store[k].data \in [1..n -> Stamps]
    BY <2>1 DEF Contents
  <2> QED
    BY <2>2 DEF HashedObjects
<1> QED
  BY <1>1, LargeObjectsAreHashed, PTL

-------------------------------------------------------------------------------
(* Uploads in time *)

(* The histories the order of uploads is about: nobody else removes objects, no StagedFile
   stands for bytes the file never had, no extended attribute is changed. *)
Calm == ~sparse /\ remote = 0 /\ meta = 0

(* An unlinked file is not staged again. *)
UnlinkedIsDead == ~linked => Dead /\ cur = 0 /\ RenameShape
(* One upload at a time may still commit, and it goes where the object is expected. *)
OneUpload ==
    \A i \in Ids : up[i].pc \in Reading =>
        /\ up[i].key = SourceKey
        /\ \A j \in Ids : up[j].pc \in Reading => i = j
(* No object is newer than the upload that is going to replace it. *)
UploadsInOrder ==
    \A i \in Ids : up[i].pc \in Reading =>
        /\ up[i].upTo <= clock
        /\ store[up[i].key] = NoObject \/ store[up[i].key].upTo <= up[i].upTo
ObjectsOfThePast == \A k \in Keys : store[k] # NoObject => store[k].upTo <= clock
(* The new name has no object before the rename has copied it. *)
NewKeyFree ==
    (key = Key \/ oldKey # NoKey) /\ ren.pc # "copied" => store[NewKey] = NoObject
Ordered == UnlinkedIsDead /\ OneUpload /\ UploadsInOrder /\ ObjectsOfThePast /\ NewKeyFree
OrderInv == Calm => Ordered

(* What is stored includes every write so far. *)
StoredUpTo == store[SourceKey].upTo = clock
UploadUpTo ==
    \A i \in Ids : up[i].pc \in Uploading /\ generationStillCurrent(i) => up[i].upTo = clock
CommittedUpTo ==
    \A i \in Ids : up[i].pc = "committed" /\ generationStillCurrent(i) => StoredUpTo
AwaitingUpTo == (cur # 0 /\ sf[cur].awaitingRemoteRename) => StoredUpTo
DetachedUpTo == cur = 0 => StoredUpTo
CopiedUpTo == ren.pc = "copied" => store[NewKey].upTo = store[Key].upTo
(* The writes up to t are in an object this mount knows of. *)
Durable(t) ==
    /\ cacheState # "CREATED"
    /\ \E k \in {key, oldKey} \cap Keys : store[k] # NoObject /\ store[k].upTo >= t
(* An fsync looks at a StagedFile after the inode: if it was detached meanwhile, it was
   stored. *)
SyncKnows ==
    /\ sync.stamp <= clock
    /\ sync.pc = "synced" => Durable(sync.stamp)
    /\ sync.pc = "checkStaged" => sync.id # 0 /\ (sync.id # cur => Durable(sync.stamp))
Synced ==
    /\ UploadUpTo /\ CommittedUpTo /\ AwaitingUpTo /\ DetachedUpTo /\ CopiedUpTo /\ SyncKnows
SyncInv == Quiet => Synced

(* What is known of a state of a calm history. *)
Known ==
    /\ TypeInv /\ LifeInv /\ GenerationInv /\ NoUpdateYet
    /\ Calm /\ Ordered /\ (linked => Stored /\ Synced)
(* What a step has to establish. *)
Kept == Ordered' /\ (linked' => Synced')

-------------------------------------------------------------------------------
(* Facts *)

(* A new file has no object; one that was looked up has an object as old as the mount. *)
LEMMA OrderInit == Init => OrderInv /\ SyncInv
<1> SUFFICES ASSUME Init PROVE Ordered /\ Synced
  BY DEF OrderInv, SyncInv
<1>1. /\ \A i \in Ids : up[i].pc = "idle"
      /\ key = Key /\ oldKey = NoKey /\ ren.pc = "idle" /\ linked /\ clock = 0
      /\ sync.pc = "idle" /\ sync.stamp = 0
  BY DEF Init, NoUpload, NoRename, NoSync
<1>2. SourceKey = Key
  BY <1>1 DEF SourceKey
<1>3. /\ store[NewKey] = NoObject
      /\ \A k \in Keys : store[k] # NoObject => store[k].upTo = 0
      /\ cur = 0 => store[Key].upTo = 0
      /\ cur # 0 => cur = 1 /\ sf[1] = Fresh
  BY BoundsAssumption, KeysAssumption DEF Init, Keys, Ids
<1>4. ~Fresh.awaitingRemoteRename
  BY DEF Fresh, Unused
<1>5. Ordered
  BY <1>1, <1>3 DEF Ordered, UnlinkedIsDead, OneUpload, UploadsInOrder, ObjectsOfThePast,
                    NewKeyFree, Reading
<1>6. Synced
  BY <1>1, <1>2, <1>3, <1>4 DEF Synced, UploadUpTo, CommittedUpTo, AwaitingUpTo, DetachedUpTo,
     CopiedUpTo, SyncKnows, StoredUpTo, Uploading, Reading
<1> QED
  BY <1>5, <1>6

(* The types of what the arguments below compare. *)
LEMMA SyncTypes ==
    ASSUME TypeOK
    PROVE  /\ clock \in Nat /\ sync.stamp \in Nat /\ sync \in Syncs
           /\ \A i \in Ids : up[i].upTo \in Nat /\ up[i].generation \in Nat /\ up[i].key \in Keys
           /\ \A i \in Ids : sf[i].generation \in Nat
           /\ \A k \in Keys : store[k] # NoObject => store[k].upTo \in Nat
           /\ SourceKey \in Keys /\ key \in Keys
  BY BoundsAssumption DEF TypeOK, InodeTypeOK, StagedTypeOK, CallsTypeOK, CountersTypeOK, Syncs,
     Stamps, Uploads, StagedFiles, Objects, SourceKey, Keys

(* Renames have the same shape whether the file is still linked or not. *)
LEMMA ShapeKnown ==
    ASSUME Known
    PROVE  /\ RenameShape
           /\ cur # 0 => linked
           /\ ~linked => Dead
           /\ SourceKey \in {key, oldKey} \cap Keys
<1>1. SourceKey \in Keys
  BY SyncTypes DEF Known, TypeInv
<1> QED
  BY <1>1 DEF Known, Ordered, UnlinkedIsDead, Stored, SourceKey

(* A calm state was calm before. *)
LEMMA CalmBefore == TypeOK /\ [Next]_vars /\ Calm' => Calm
  BY OneWay DEF Calm

-------------------------------------------------------------------------------
(* Steps that leave the clock and the objects alone *)

(* No upload begins, and names stay. *)
LEMMA OrderKept ==
    ASSUME Known, UNCHANGED <<key, oldKey, store, clock>>, UnlinkedIsDead',
           ren.pc = "copied" => ren'.pc = "copied",
           \A i \in Ids : up'[i].pc \in Reading =>
              up[i].pc \in Reading /\ up'[i].key = up[i].key /\ up'[i].upTo = up[i].upTo
    PROVE  Ordered'
<1>1. SourceKey' = SourceKey
  BY DEF SourceKey
<1>2. OneUpload'
  BY <1>1 DEF Known, Ordered, OneUpload
<1>3. UploadsInOrder' /\ ObjectsOfThePast' /\ NewKeyFree'
  BY DEF Known, Ordered, UploadsInOrder, ObjectsOfThePast, NewKeyFree
<1> QED
  BY <1>2, <1>3 DEF Ordered

(* No upload begins or commits, nothing is attached or detached. *)
LEMMA SyncedKept ==
    ASSUME Known, linked, UNCHANGED <<cur, key, oldKey, store, clock>>, SyncKnows',
           ren'.pc = "copied" => ren.pc = "copied",
           \A i \in Ids : up'[i].pc \in Uploading /\ sf'[i].generation = up'[i].generation =>
              /\ up[i].pc \in Uploading /\ sf[i].generation = up[i].generation
              /\ up'[i].upTo = up[i].upTo
              /\ up'[i].pc = "committed" => up[i].pc = "committed",
           cur # 0 /\ sf'[cur].awaitingRemoteRename => sf[cur].awaitingRemoteRename
    PROVE  Synced'
<1>1. SourceKey' = SourceKey /\ StoredUpTo' = StoredUpTo
  BY DEF SourceKey, StoredUpTo
<1>2. Synced
  BY DEF Known
<1>3. UploadUpTo'
  BY <1>2 DEF Synced, UploadUpTo, generationStillCurrent
<1>4. CommittedUpTo'
  <2> SUFFICES ASSUME NEW i \in Ids, up'[i].pc = "committed", sf'[i].generation = up'[i].generation
               PROVE  StoredUpTo
    BY <1>1 DEF CommittedUpTo, generationStillCurrent
  <2>1. up[i].pc = "committed" /\ sf[i].generation = up[i].generation
    BY DEF Uploading
  <2> QED
    BY <1>2, <2>1 DEF Synced, CommittedUpTo, generationStillCurrent
<1>5. AwaitingUpTo' /\ DetachedUpTo'
  BY <1>1, <1>2 DEF Synced, AwaitingUpTo, DetachedUpTo
<1>6. CopiedUpTo'
  BY <1>2 DEF Synced, CopiedUpTo
<1> QED
  BY <1>3, <1>4, <1>5, <1>6 DEF Synced

(* The fsync does not move. *)
LEMMA SyncWaits ==
    ASSUME Known, linked, UNCHANGED <<cur, key, oldKey, store, clock, sync>>,
           cacheState' = "CREATED" => cacheState = "CREATED"
    PROVE  SyncKnows'
<1>1. \A t : Durable(t) => Durable(t)'
  BY DEF Durable
<1> QED
  BY <1>1 DEF Known, Synced, SyncKnows

(* The shape of a rename depends on uploads only in that none runs. *)
LEMMA ShapeKept ==
    ASSUME RenameShape, UNCHANGED <<key, oldKey, renamingTo, ren, store>>,
           \A i \in Ids : up'[i].pc # "idle" => up[i].pc # "idle"
    PROVE  RenameShape'
<1>1. Active = {} => Active' = {}
  BY DEF Active
<1> QED
  BY <1>1 DEF RenameShape

(* Reads, hashes, retries and the ends of an upload, and whatever touches none. *)
LEMMA KeptFrame ==
    ASSUME Known,
           UNCHANGED <<cur, cacheState, linked, key, oldKey, renamingTo, ren, store, clock>>,
           linked => SyncKnows' \/ UNCHANGED sync,
           \A i \in Ids : up'[i].pc # "idle" => up[i].pc # "idle",
           \A i \in Ids : up'[i].pc \in Uploading =>
              /\ up[i].pc \in Uploading /\ up'[i].upTo = up[i].upTo /\ up'[i].key = up[i].key
              /\ up'[i].pc \in Reading => up[i].pc \in Reading
              /\ up'[i].pc = "committed" => up[i].pc = "committed"
              /\ sf'[i].generation = sf[i].generation /\ up'[i].generation = up[i].generation,
           cur # 0 /\ sf'[cur].awaitingRemoteRename => sf[cur].awaitingRemoteRename
    PROVE  Kept
<1>1. RenameShape'
  BY ShapeKnown, ShapeKept
<1>2. UnlinkedIsDead'
  BY <1>1 DEF Known, Ordered, UnlinkedIsDead, Dead
<1>3. \A i \in Ids : up'[i].pc \in Reading =>
         up[i].pc \in Reading /\ up'[i].key = up[i].key /\ up'[i].upTo = up[i].upTo
  BY DEF Uploading
<1>4. Ordered'
  BY <1>2, <1>3, OrderKept
<1>5. ASSUME linked' PROVE Synced'
  <2>1. linked
    BY <1>5
  <2>2. SyncKnows'
    BY <2>1, SyncWaits
  <2> QED
    BY <2>1, <2>2, SyncedKept
<1> QED
  BY <1>4, <1>5 DEF Kept

-------------------------------------------------------------------------------
(* flushStagedFileDirect *)

(* An upload that reads, hashes or is given up, without a change of the object. *)
LEMMA SyncUploadGoesOn ==
    ASSUME Known, NEW i \in Ids, UNCHANGED store,
           \/ \E b \in Blocks : HashBlock(i, b) \/ UploadPart(i, b)
           \/ HashDone(i) \/ CaptureMetadata(i) \/ BeginAttempt(i) \/ BeforeCommit(i)
           \/ UploadLost(i) \/ UploadFails(i) \/ FlushFailed(i)
    PROVE  Kept
<1>1. /\ up \in [Ids -> Uploads] /\ up[i] \in Uploads /\ cur \in Ids \cup {0}
  BY DEF Known, TypeInv, TypeOK, InodeTypeOK, StagedTypeOK
<1>2. UNCHANGED <<cur, cacheState, linked, key, oldKey, renamingTo, ren, clock, sync, sf>>
  BY DEF HashBlock, UploadPart, HashDone, CaptureMetadata, BeginAttempt, BeforeCommit, UploadLost,
         UploadFails, FlushFailed, UploadOnly, inodeVars
<1>3. /\ \A j \in Ids \ {i} : up'[j] = up[j]
      /\ up'[i].upTo = up[i].upTo /\ up'[i].key = up[i].key
      /\ up'[i].generation = up[i].generation
  BY <1>1 DEF HashBlock, UploadPart, HashDone, CaptureMetadata, BeginAttempt, BeforeCommit,
              UploadLost, UploadFails, FlushFailed, UploadGoesTo, Uploads
<1>4. up[i].pc \in Reading \/ (up[i].pc = "failed" /\ up'[i].pc = "retry")
  BY <1>1 DEF HashBlock, UploadPart, HashDone, CaptureMetadata, BeginAttempt, BeforeCommit,
              UploadLost, UploadFails, FlushFailed, UploadGoesTo, Uploads, Reading
<1>5. up'[i].pc \in Reading \cup {"failed", "retry"}
  BY <1>1 DEF HashBlock, UploadPart, HashDone, CaptureMetadata, BeginAttempt, BeforeCommit,
              UploadLost, UploadFails, FlushFailed, UploadGoesTo, Uploads, Reading
<1>6. \A j \in Ids : up'[j].pc # "idle" => up[j].pc # "idle"
  BY <1>3, <1>4 DEF Reading
<1>7. \A j \in Ids : up'[j].pc \in Uploading =>
         /\ up[j].pc \in Uploading /\ up'[j].upTo = up[j].upTo /\ up'[j].key = up[j].key
         /\ up'[j].pc \in Reading => up[j].pc \in Reading
         /\ up'[j].pc = "committed" => up[j].pc = "committed"
         /\ sf'[j].generation = sf[j].generation /\ up'[j].generation = up[j].generation
  BY <1>2, <1>3, <1>4, <1>5 DEF Uploading, Reading
<1> QED
  BY <1>2, <1>6, <1>7, KeptFrame

(* The ends of an upload. *)
LEMMA SyncUploadEnds ==
    ASSUME Known, NEW i \in Ids, RetryLater(i) \/ FinishFlush(i) \/ FlushReturns(i)
    PROVE  Kept
<1>1. /\ up \in [Ids -> Uploads] /\ up[i] \in Uploads /\ cur \in Ids \cup {0}
      /\ sf \in [Ids -> StagedFiles] /\ sf[i] \in StagedFiles
  BY DEF Known, TypeInv, TypeOK, InodeTypeOK, StagedTypeOK
<1>2. UNCHANGED <<cur, cacheState, linked, key, oldKey, renamingTo, ren, store, clock>>
  BY DEF RetryLater, FinishFlush, FlushReturns, inodeVars
<1>3. /\ \A j \in Ids \ {i} : up'[j] = up[j] /\ sf'[j] = sf[j]
      /\ up'[i].pc \in {"done", "idle"} /\ up[i].pc \in {"retry", "finishFlush", "done"}
  BY <1>1 DEF RetryLater, FinishFlush, FlushReturns, UploadGoesTo, NoUpload, Uploads
<1>4. sf'[i].awaitingRemoteRename => sf[i].awaitingRemoteRename
  <2>1. sf'[i] \in {sf[i], FinishFlushed(sf[i]), Cleanup(FinishFlushed(sf[i]))}
    BY <1>1 DEF RetryLater, FinishFlush, FlushReturns
  <2>2. \A s \in StagedFiles :
           /\ Cleanup(s) \in StagedFiles
           /\ Cleanup(s).awaitingRemoteRename => s.awaitingRemoteRename
    BY CleanupType DEF Cleanup, Unused, StagedFiles
  <2>3. FinishFlushed(sf[i]) \in StagedFiles
        /\ (FinishFlushed(sf[i]).awaitingRemoteRename => sf[i].awaitingRemoteRename)
    <3>1. [sf[i] EXCEPT !.flushing = FALSE] \in StagedFiles
          /\ [sf[i] EXCEPT !.flushing = FALSE].awaitingRemoteRename = sf[i].awaitingRemoteRename
      BY <1>1 DEF StagedFiles
    <3> QED
      BY <2>2, <3>1 DEF FinishFlushed
  <2> QED
    BY <2>1, <2>2, <2>3
<1>5. linked => SyncKnows' \/ UNCHANGED sync
  <2>1. CASE RetryLater(i) \/ FinishFlush(i)
    BY <2>1 DEF RetryLater, FinishFlush
  <2>2. CASE FlushReturns(i) /\ sync.pc = "own" /\ sync.id = i
    <3>1. sync \in Syncs
      BY SyncTypes DEF Known, TypeInv
    <3>2. sync'.stamp = sync.stamp /\ sync'.pc \in {"failed", "check"}
      BY <2>2, <3>1 DEF FlushReturns, Syncs
    <3> QED
      BY <1>2, <3>2 DEF Known, SyncKnows, Synced
  <2> QED
    BY <2>1, <2>2 DEF FlushReturns
<1>6. \A j \in Ids : up'[j].pc # "idle" => up[j].pc # "idle"
  BY <1>3
<1>7. \A j \in Ids : up'[j].pc \in Uploading => j \in Ids \ {i}
  BY <1>3 DEF Uploading, Reading
<1>8. cur # 0 /\ sf'[cur].awaitingRemoteRename => sf[cur].awaitingRemoteRename
  BY <1>1, <1>3, <1>4
<1> QED
  BY <1>2, <1>3, <1>5, <1>6, <1>7, <1>8, KeptFrame

(* A flush begins with everything written so far. *)
LEMMA SyncBeginFlush ==
    ASSUME Known, NEW i \in Ids, BeginFlush(i), sync'.stamp = sync.stamp,
           UNCHANGED sync \/ sync'.pc = "own"
    PROVE  Kept
<1>1. /\ up \in [Ids -> Uploads] /\ sf \in [Ids -> StagedFiles] /\ sf[i] \in StagedFiles
  BY DEF Known, TypeInv, TypeOK, StagedTypeOK
<1>2. /\ UNCHANGED <<cur, cacheState, linked, key, oldKey, renamingTo, ren, store, clock>>
      /\ cur = i /\ up[i].pc = "idle"
  BY DEF BeginFlush, Flushable
<1>3. linked
  BY <1>2, ShapeKnown DEF Ids
<1>4. /\ \A j \in Ids \ {i} : up'[j] = up[j] /\ sf'[j] = sf[j]
      /\ up'[i].pc \in {"hash", "meta"} /\ up'[i].upTo = clock /\ up'[i].key = SourceKey
      /\ sf'[i].awaitingRemoteRename = sf[i].awaitingRemoteRename
  BY <1>1 DEF BeginFlush, NoUpload, StagedFiles
<1>5. \A j \in Ids : up[j].pc \notin Uploading
  BY <1>2, <1>3 DEF Known, Stored, UploadAttached, Uploading, Reading
<1>6. SourceKey' = SourceKey /\ StoredUpTo' = StoredUpTo
  BY <1>2 DEF SourceKey, StoredUpTo
<1>7. Ordered'
  <2>1. UnlinkedIsDead'
    BY <1>2, <1>3 DEF UnlinkedIsDead
  <2>2. \A j \in Ids : up'[j].pc \in Reading => j = i
    BY <1>4, <1>5 DEF Uploading
  <2>3. OneUpload'
    BY <1>4, <1>6, <2>2 DEF OneUpload
  <2>4. UploadsInOrder'
    <3>1. clock \in Nat /\ SourceKey \in Keys
      BY SyncTypes DEF Known, TypeInv
    <3> QED
      BY <1>2, <1>4, <2>2, <3>1 DEF UploadsInOrder, Known, Ordered, ObjectsOfThePast
  <2>5. ObjectsOfThePast' /\ NewKeyFree'
    BY <1>2 DEF Known, Ordered, ObjectsOfThePast, NewKeyFree
  <2> QED
    BY <2>1, <2>3, <2>4, <2>5 DEF Ordered
<1>8. Synced'
  <2>1. \A j \in Ids : up'[j].pc \in Uploading => j = i
    BY <1>4, <1>5
  <2>2. UploadUpTo' /\ CommittedUpTo'
    BY <1>2, <1>4, <2>1 DEF UploadUpTo, CommittedUpTo, Uploading
  <2>3. AwaitingUpTo' /\ DetachedUpTo' /\ CopiedUpTo'
    BY <1>2, <1>3, <1>4, <1>6 DEF Known, Synced, AwaitingUpTo, DetachedUpTo, CopiedUpTo
  <2>4. \A t : Durable(t) => Durable(t)'
    BY <1>2 DEF Durable
  <2>5. SyncKnows'
    BY <1>2, <1>3, <2>4 DEF Known, Synced, SyncKnows
  <2> QED
    BY <2>2, <2>3, <2>5 DEF Synced
<1> QED
  BY <1>7, <1>8 DEF Kept

(* The commit, answered or not, replaces an object that is not newer. *)
LEMMA SyncCommit ==
    ASSUME Known, NEW i \in Ids, up[i].pc = "commit",
           store' = [store EXCEPT ![up[i].key] = Uploaded(up[i])],
           UNCHANGED <<cur, cacheState, linked, key, oldKey, renamingTo, ren, clock, sync, sf>>,
           NEW pc \in {"committed", "failed"}, up' = [up EXCEPT ![i].pc = pc]
    PROVE  /\ Kept
           /\ \A k \in Keys : store[k] # NoObject /\ store'[k] # NoObject
                               => store'[k].upTo >= store[k].upTo
<1>1. /\ up \in [Ids -> Uploads] /\ up[i] \in Uploads
      /\ store \in [Keys -> Objects \cup {NoObject}] /\ SourceKey \in Keys
      /\ up[i].upTo \in Nat /\ clock \in Nat /\ sync.stamp \in Nat
      /\ \A k \in Keys : store[k] # NoObject => store[k].upTo \in Nat
  BY SyncTypes DEF Known, TypeInv, TypeOK, StagedTypeOK
<1>2. up[i].pc \in Reading /\ up[i].pc \in Uploading
  BY DEF Reading, Uploading
<1>3. /\ up[i].key = SourceKey
      /\ up[i].upTo <= clock
      /\ store[SourceKey] = NoObject \/ store[SourceKey].upTo <= up[i].upTo
      /\ \A j \in Ids \ {i} : up[j].pc \notin Reading
  BY <1>2 DEF Known, Ordered, OneUpload, UploadsInOrder
<1>4. /\ store'[SourceKey].upTo = up[i].upTo /\ store'[SourceKey] # NoObject
      /\ \A k \in Keys \ {SourceKey} : store'[k] = store[k]
  <2>1. Uploaded(up[i]) # NoObject
    <3>1. \A b \in 1..up[i].size : up[i].parts[b] \in Stamps
      BY DEF Known, TypeInv, PartsRead
    <3> QED
      BY <1>1, <3>1, UploadedType, ObjectsAssumption
  <2> QED
    BY <1>1, <1>3, <2>1 DEF Uploaded
<1>5. \A k \in Keys : store[k] # NoObject =>
         store'[k] # NoObject /\ store'[k].upTo >= store[k].upTo
  BY <1>1, <1>3, <1>4
<1>6. /\ \A j \in Ids \ {i} : up'[j] = up[j]
      /\ up'[i].pc = pc /\ up'[i].upTo = up[i].upTo /\ up'[i].generation = up[i].generation
      /\ \A j \in Ids : up'[j].pc \notin Reading
  BY <1>1, <1>3 DEF Uploads, Reading
<1>7. SourceKey' = SourceKey
  BY DEF SourceKey
<1>8. ~renamingTo /\ ren.pc # "copied" /\ RenameShape
  <2>1. i \in Active
    BY DEF Active
  <2> QED
    BY <2>1, ShapeKnown DEF RenameShape
<1>9. RenameShape'
  BY <1>8 DEF RenameShape
<1>10. Ordered'
  <2>1. UnlinkedIsDead'
    BY <1>9 DEF Known, Ordered, UnlinkedIsDead, Dead
  <2>2. OneUpload' /\ UploadsInOrder'
    BY <1>6 DEF OneUpload, UploadsInOrder
  <2>3. ObjectsOfThePast'
    BY <1>3, <1>4 DEF Known, Ordered, ObjectsOfThePast
  <2>4. key = Key \/ oldKey # NoKey => SourceKey = Key
    BY <1>8 DEF SourceKey, RenameShape
  <2>5. NewKeyFree'
    BY <1>4, <1>8, <2>4, KeysAssumption DEF Known, Ordered, NewKeyFree, Keys
  <2> QED
    BY <2>1, <2>2, <2>3, <2>5 DEF Ordered
<1>11. ASSUME linked PROVE Synced'
  <2>1. /\ Synced /\ cur = i /\ ~sf[i].awaitingRemoteRename
        /\ \A j \in Ids : up[j].pc \in Uploading => cur = j
    BY <1>2, <1>11 DEF Known, Stored, UploadAttached
  <2>2. \A j \in Ids : up'[j].pc \in Uploading => j = i
    BY <1>6, <2>1
  <2>3. UploadUpTo'
    BY <1>2, <1>6, <2>1, <2>2 DEF Synced, UploadUpTo, generationStillCurrent
  <2>4. CommittedUpTo'
    <3> SUFFICES ASSUME NEW j \in Ids, up'[j].pc = "committed", sf'[j].generation = up'[j].generation
                 PROVE  StoredUpTo'
      BY DEF CommittedUpTo, generationStillCurrent
    <3>1. j = i
      BY <2>2 DEF Uploading
    <3>2. up[i].upTo = clock
      BY <1>2, <1>6, <2>1, <3>1 DEF Synced, UploadUpTo, generationStillCurrent
    <3> QED
      BY <1>4, <1>7, <3>2 DEF StoredUpTo
  <2>5. AwaitingUpTo' /\ DetachedUpTo' /\ CopiedUpTo'
    BY <1>8, <2>1 DEF AwaitingUpTo, DetachedUpTo, CopiedUpTo, Ids
  <2>6. Durable(sync.stamp) => Durable(sync.stamp)'
    <3>1. \A k \in Keys : store'[k] # NoObject => store'[k].upTo \in Nat
      BY <1>1, <1>4
    <3> QED
      BY <1>1, <1>5, <3>1 DEF Durable
  <2>7. SyncKnows'
    BY <2>1, <2>6 DEF Synced, SyncKnows
  <2> QED
    BY <2>3, <2>4, <2>5, <2>7 DEF Synced
<1> QED
  BY <1>5, <1>10, <1>11 DEF Kept

(* The answer of the commit: what is detached or held back for a rename is stored. *)
LEMMA SyncFlushComplete ==
    ASSUME Known, NEW i \in Ids, FlushComplete(i)
    PROVE  Kept
<1>1. /\ up \in [Ids -> Uploads] /\ up[i] \in Uploads
      /\ sf \in [Ids -> StagedFiles] /\ sf[i] \in StagedFiles
      /\ clock \in Nat /\ sync.stamp \in Nat
  BY SyncTypes DEF Known, TypeInv, TypeOK, StagedTypeOK
<1>2. /\ up[i].pc = "committed"
      /\ UNCHANGED <<linked, key, oldKey, renamingTo, ren, store, clock, sync>>
  BY DEF FlushComplete, inodeVars
<1>3. /\ \A j \in Ids \ {i} : up'[j] = up[j] /\ sf'[j] = sf[j]
      /\ up'[i].pc = "finishFlush"
  BY <1>1 DEF FlushComplete, UploadGoesTo, Uploads
<1>4. \A j \in Ids : up'[j].pc \in Uploading => j \in Ids \ {i}
  BY <1>3 DEF Uploading, Reading
<1>5. CASE cur # i
  <2>1. UNCHANGED <<cur, cacheState, sf>>
    BY <1>5 DEF FlushComplete, inodeVars
  <2>2. \A j \in Ids : up'[j].pc # "idle" => up[j].pc # "idle"
    BY <1>2, <1>3
  <2> QED
    BY <1>2, <1>3, <1>4, <2>1, <2>2, KeptFrame
<1>6. CASE cur = i
  <2>1. linked /\ Stored /\ Synced
    BY <1>6, ShapeKnown DEF Ids, Known
  <2>2. ~Dead /\ cacheState' # "CREATED"
    BY <1>6, <2>1 DEF FlushComplete, Stored, CreatedIsStaged
  <2>3. /\ cur' \in {0, i} /\ (cur' = 0 => generationStillCurrent(i))
        /\ sf'[i].awaitingRemoteRename => generationStillCurrent(i)
    <3>1. cur' \in {0, i} /\ (cur' = 0 => generationStillCurrent(i))
      BY <1>1, <1>6 DEF FlushComplete, Ids
    <3>2. sf' = [sf EXCEPT ![i].awaitingRemoteRename
                               = ~ ~generationStillCurrent(i) /\ oldKey # NoKey]
      BY <1>6 DEF FlushComplete
    <3>3. sf'[i].awaitingRemoteRename = (generationStillCurrent(i) /\ oldKey # NoKey)
      BY <1>1, <3>2 DEF StagedFiles
    <3> QED
      BY <3>1, <3>3
  <2>4. generationStillCurrent(i) => StoredUpTo /\ StoredNow
    BY <1>2, <2>1 DEF Synced, CommittedUpTo, Stored, CommittedIsStored
  <2>5. SourceKey' = SourceKey /\ StoredUpTo' = StoredUpTo
    BY <1>2 DEF SourceKey, StoredUpTo
  <2>6. Ordered'
    <3>1. UnlinkedIsDead'
      BY <1>2, <2>1 DEF UnlinkedIsDead
    <3>2. \A j \in Ids : up'[j].pc \in Reading =>
             up[j].pc \in Reading /\ up'[j].key = up[j].key /\ up'[j].upTo = up[j].upTo
      BY <1>3, <1>4 DEF Uploading
    <3> QED
      BY <1>2, <3>1, <3>2, OrderKept
  <2>7. \A j \in Ids : up'[j].pc \notin Uploading
    BY <1>3, <1>4, <1>6, <2>1 DEF Stored, UploadAttached
  <2>8. UploadUpTo' /\ CommittedUpTo'
    BY <2>7 DEF UploadUpTo, CommittedUpTo, Uploading
  <2>9. AwaitingUpTo' /\ DetachedUpTo'
    BY <2>3, <2>4, <2>5 DEF AwaitingUpTo, DetachedUpTo, Ids
  <2>10. CopiedUpTo'
    BY <1>2, <2>1 DEF Synced, CopiedUpTo
  <2>11. \A t : Durable(t) => Durable(t)'
    BY <1>2, <2>2 DEF Durable
  <2>12. cur' # i => Durable(sync.stamp)'
    <3>1. generationStillCurrent(i) => store[SourceKey] # NoObject /\ store[SourceKey].upTo >= sync.stamp
      BY <1>1, <2>1, <2>4 DEF StoredUpTo, StoredNow, Synced, SyncKnows
    <3>2. SourceKey \in {key, oldKey} \cap Keys
      BY ShapeKnown
    <3> QED
      BY <1>2, <2>2, <2>3, <3>1, <3>2 DEF Durable
  <2>13. SyncKnows'
    BY <1>2, <1>6, <2>1, <2>11, <2>12 DEF Synced, SyncKnows
  <2> QED
    BY <2>6, <2>8, <2>9, <2>10, <2>13 DEF Synced, Kept
<1> QED
  BY <1>5, <1>6

-------------------------------------------------------------------------------
(* The application *)

(* A write or truncate makes every upload in progress stale. *)
LEMMA SyncWrite ==
    ASSUME Known, WriteFileStaged \/ \E n \in 0..NB : TruncateStaged(n)
    PROVE  Kept
<1>1. /\ cur \in Ids /\ sf \in [Ids -> StagedFiles] /\ sf[cur] \in StagedFiles
      /\ \A i \in Ids : sf[i].generation \in Nat /\ up[i].generation \in Nat /\ up[i].upTo \in Nat
      /\ clock \in Nat /\ sync.stamp \in Nat
      /\ \A k \in Keys : store[k] # NoObject => store[k].upTo \in Nat
  BY SyncTypes DEF Known, TypeInv, TypeOK, InodeTypeOK, StagedTypeOK, WriteFileStaged, TruncateStaged,
                   Writable
<1>2. linked /\ Stored /\ Synced /\ cur # 0
  BY <1>1, ShapeKnown DEF Ids, Known
<1>3. /\ UNCHANGED <<cur, linked, key, oldKey, renamingTo, ren, store, sync, up>>
      /\ clock' = clock + 1
      /\ cacheState' = IF cacheState = "CACHED" THEN "MODIFIED" ELSE cacheState
  BY DEF WriteFileStaged, TruncateStaged
<1>4. PICK d, n : sf' = [sf EXCEPT ![cur] = NextGeneration(sf[cur], d, n)]
  BY DEF WriteFileStaged, TruncateStaged
<1>5. /\ NextGeneration(sf[cur], d, n).generation = sf[cur].generation + 1
      /\ ~NextGeneration(sf[cur], d, n).awaitingRemoteRename
  BY <1>1 DEF NextGeneration, StagedFiles
<1>6. sf'[cur].generation = sf[cur].generation + 1 /\ ~sf'[cur].awaitingRemoteRename
  BY <1>1, <1>4, <1>5
<1>7. \A i \in Ids : up[i].pc \in Uploading => sf'[i].generation # up[i].generation
  <2> SUFFICES ASSUME NEW i \in Ids, up[i].pc \in Uploading
               PROVE  sf'[i].generation # up[i].generation
    OBVIOUS
  <2>1. cur = i /\ up[i].generation <= sf[i].generation
    BY <1>2 DEF Stored, UploadAttached, Known, GenerationInv, GenerationsGrow, Uploading, Reading,
                Running
  <2> QED
    BY <1>1, <1>6, <2>1
<1>8. SourceKey' = SourceKey
  BY <1>3 DEF SourceKey
<1>9. Ordered'
  <2>1. UnlinkedIsDead'
    BY <1>2, <1>3 DEF UnlinkedIsDead
  <2>2. OneUpload' /\ NewKeyFree'
    BY <1>3, <1>8 DEF Known, Ordered, OneUpload, NewKeyFree
  <2>3. UploadsInOrder'
    BY <1>1, <1>3 DEF Known, Ordered, UploadsInOrder
  <2>4. ObjectsOfThePast'
    BY <1>1, <1>3 DEF Known, Ordered, ObjectsOfThePast
  <2> QED
    BY <2>1, <2>2, <2>3, <2>4 DEF Ordered
<1>10. Synced'
  <2>1. UploadUpTo' /\ CommittedUpTo'
    BY <1>3, <1>7 DEF UploadUpTo, CommittedUpTo, generationStillCurrent, Uploading
  <2>2. AwaitingUpTo' /\ DetachedUpTo' /\ CopiedUpTo'
    BY <1>2, <1>3, <1>6 DEF Synced, AwaitingUpTo, DetachedUpTo, CopiedUpTo
  <2>3. \A t : Durable(t) => Durable(t)'
    BY <1>3 DEF Durable
  <2>4. SyncKnows'
    BY <1>1, <1>2, <1>3, <2>3 DEF Synced, SyncKnows
  <2> QED
    BY <2>1, <2>2, <2>4 DEF Synced
<1> QED
  BY <1>9, <1>10 DEF Kept

(* The first half of a write may attach a StagedFile. *)
LEMMA SyncPrepare ==
    ASSUME Known, NEW lo \in Blocks, NEW hi \in lo..NB, PrepareStagedWrite(lo, hi)
    PROVE  Kept
<1>1. /\ UNCHANGED <<cacheState, linked, key, oldKey, renamingTo, ren, store, clock, sync, up>>
      /\ ~Dead
  BY DEF PrepareStagedWrite
<1>2. linked /\ Stored /\ Synced
  BY <1>1, ShapeKnown DEF Known
<1>3. CASE UNCHANGED <<cur, sf>>
  BY <1>1, <1>3, KeptFrame
<1>4. CASE cur = 0 /\ CreateStaged
  <2>1. /\ used + 1 \in Ids /\ sf \in [Ids -> StagedFiles] /\ cur' = used + 1
        /\ sf' = [sf EXCEPT ![used + 1] = Fresh]
    BY <1>4, BoundsAssumption DEF Known, TypeInv, TypeOK, StagedTypeOK, CreateStaged, Ids
  <2>2. cur' # 0 /\ ~sf'[cur'].awaitingRemoteRename
    BY <2>1 DEF Ids, Fresh, Unused
  <2>3. \A i \in Ids : up[i].pc \notin Uploading
    BY <1>2, <1>4 DEF Stored, UploadAttached, Ids
  <2>4. UnlinkedIsDead'
    BY <1>1, <1>2 DEF UnlinkedIsDead
  <2>5. Ordered'
    BY <1>1, <2>4, OrderKept
  <2>6. UploadUpTo' /\ CommittedUpTo' /\ AwaitingUpTo' /\ DetachedUpTo'
    BY <1>1, <2>2, <2>3 DEF UploadUpTo, CommittedUpTo, AwaitingUpTo, DetachedUpTo, Uploading
  <2>7. CopiedUpTo'
    BY <1>1, <1>2 DEF Synced, CopiedUpTo
  <2>8. \A t : Durable(t) => Durable(t)'
    BY <1>1 DEF Durable
  <2>9. SyncKnows'
    BY <1>1, <1>2, <1>4, <2>8 DEF Synced, SyncKnows
  <2> QED
    BY <2>5, <2>6, <2>7, <2>9 DEF Synced, Kept
<1> QED
  BY <1>3, <1>4 DEF PrepareStagedWrite

(* The file gets another name: its object stays where it is, and a new file has none. *)
LEMMA SyncRenameInCache ==
    ASSUME Known, RenameInCache
    PROVE  Kept
<1>1. /\ UNCHANGED <<cur, linked, renamingTo, ren, store, clock, sync, up, sf>>
      /\ linked /\ key = Key /\ oldKey = NoKey /\ key' = NewKey
      /\ cacheState' = IF cacheState = "CACHED" THEN "MODIFIED" ELSE cacheState
  BY DEF RenameInCache
<1>2. Stored /\ Synced
  BY <1>1 DEF Known
<1>3. UnlinkedIsDead'
  BY <1>1 DEF UnlinkedIsDead
<1>4. UploadsInOrder' /\ ObjectsOfThePast'
  BY <1>1 DEF Known, Ordered, UploadsInOrder, ObjectsOfThePast
<1>5. CASE oldKey' = Key
  <2>1. SourceKey = Key /\ SourceKey' = Key
    BY <1>1, <1>5, KeysAssumption DEF SourceKey
  <2>2. OneUpload'
    BY <1>1, <2>1 DEF Known, Ordered, OneUpload
  <2>3. NewKeyFree'
    BY <1>1 DEF Known, Ordered, NewKeyFree
  <2>4. StoredUpTo' = StoredUpTo
    BY <1>1, <2>1 DEF StoredUpTo
  <2>5. UploadUpTo' /\ CommittedUpTo' /\ AwaitingUpTo' /\ DetachedUpTo' /\ CopiedUpTo'
    BY <1>1, <1>2, <2>4 DEF Synced, UploadUpTo, CommittedUpTo, AwaitingUpTo, DetachedUpTo, CopiedUpTo,
                            generationStillCurrent
  <2>6. \A t : Durable(t) => Durable(t)'
    BY <1>1, <1>5, KeysAssumption DEF Durable, Keys
  <2>7. SyncKnows'
    BY <1>1, <1>2, <2>6 DEF Synced, SyncKnows
  <2> QED
    BY <1>3, <1>4, <2>2, <2>3, <2>5, <2>7 DEF Ordered, Synced, Kept
<1>6. CASE oldKey' # Key
  <2>1. cacheState = "CREATED" /\ isFlushing = 0 /\ oldKey' = NoKey
    BY <1>6 DEF RenameInCache
  <2>2. Active = {} /\ ren.pc = "idle"
    BY <1>2, <2>1, NothingFlushes DEF Stored
  <2>3. \A i \in Ids : up[i].pc = "idle"
    BY <2>2 DEF Active
  <2>4. cur # 0 /\ ~sf[cur].awaitingRemoteRename
    BY <1>2, <2>1 DEF Stored, CreatedIsStaged
  <2>5. OneUpload' /\ NewKeyFree'
    BY <1>1, <2>1, <2>3, KeysAssumption DEF OneUpload, NewKeyFree, Reading
  <2>6. UploadUpTo' /\ CommittedUpTo' /\ AwaitingUpTo' /\ DetachedUpTo' /\ CopiedUpTo'
    BY <1>1, <2>2, <2>3, <2>4 DEF UploadUpTo, CommittedUpTo, AwaitingUpTo, DetachedUpTo, CopiedUpTo,
                                  Uploading, Reading
  <2>7. \A t : ~Durable(t)
    BY <2>1 DEF Durable
  <2>8. SyncKnows'
    BY <1>1, <1>2, <2>7 DEF Synced, SyncKnows
  <2> QED
    BY <1>3, <1>4, <2>5, <2>6, <2>8 DEF Ordered, Synced, Kept
<1> QED
  BY <1>5, <1>6

(* An unlinked file has no StagedFile any more; its upload may still end. *)
LEMMA SyncUnlink ==
    ASSUME Known, Unlink
    PROVE  Kept
<1>1. /\ UNCHANGED <<key, oldKey, renamingTo, ren, store, clock, up>> /\ ~linked'
      /\ cur' = 0 /\ Dead'
  BY DEF Unlink, ResetCache, Dead
<1>2. RenameShape'
  BY <1>1, ShapeKnown, ShapeKept
<1>3. UnlinkedIsDead'
  BY <1>1, <1>2 DEF UnlinkedIsDead
<1>4. Ordered'
  BY <1>1, <1>3, OrderKept
<1> QED
  BY <1>1, <1>4 DEF Kept

(* An fsync that begins, asks for an upload, and looks at the inode and the StagedFile. *)
LEMMA SyncSyncs ==
    ASSUME Known, SyncBegin \/ SyncSkips \/ SyncChecksInode \/ SyncChecksStaged \/ SyncReturns
    PROVE  Kept
<1>1. UNCHANGED <<cur, cacheState, linked, key, oldKey, renamingTo, ren, store, clock, up, sf>>
  BY DEF SyncBegin, SyncSkips, SyncChecksInode, SyncChecksStaged, SyncReturns, inodeVars
<1>2. /\ sync \in Syncs /\ clock \in Nat /\ sync.stamp \in Nat
  BY SyncTypes DEF Known, TypeInv
<1>3. \A t : Durable(t)' = Durable(t)
  BY <1>1 DEF Durable
<1>4. ASSUME linked PROVE SyncKnows'
  <2>1. /\ Stored /\ Synced /\ sync.stamp <= clock
        /\ sync.pc = "synced" => Durable(sync.stamp)
        /\ sync.pc = "checkStaged" => sync.id # 0 /\ (sync.id # cur => Durable(sync.stamp))
    BY <1>4 DEF Known, Synced, SyncKnows
  <2>2. (cur = 0 \/ sf[cur].awaitingRemoteRename) => Durable(sync.stamp)
    <3> SUFFICES ASSUME cur = 0 \/ sf[cur].awaitingRemoteRename PROVE Durable(sync.stamp)
      OBVIOUS
    <3>1. StoredNow /\ StoredUpTo /\ cacheState # "CREATED"
      BY <2>1 DEF Stored, Synced, DetachedIsStored, AwaitingIsStored, DetachedUpTo, AwaitingUpTo,
                  CreatedIsStaged
    <3>2. SourceKey \in {key, oldKey} \cap Keys
      BY ShapeKnown
    <3> QED
      BY <1>2, <2>1, <3>1, <3>2 DEF Durable, StoredNow, StoredUpTo
  <2>3. CASE SyncBegin
    BY <1>1, <1>2, <2>3 DEF SyncBegin, SyncKnows, Syncs
  <2>4. CASE SyncSkips
    <3>1. sync'.pc \in {"check", "failed"} /\ sync'.stamp = sync.stamp
      BY <1>2, <2>4 DEF SyncSkips, Syncs
    <3> QED
      BY <1>1, <2>1, <3>1 DEF SyncKnows
  <2>5. CASE SyncChecksInode
    <3>1. /\ sync'.stamp = sync.stamp
          /\ sync'.pc \in {"failed", "synced", "checkStaged"}
          /\ sync'.pc = "synced" => cur = 0
          /\ sync'.pc = "checkStaged" => cur # 0 /\ sync'.id = cur
      BY <1>2, <2>5 DEF SyncChecksInode, Syncs
    <3> QED
      BY <1>1, <1>3, <2>1, <2>2, <3>1 DEF SyncKnows
  <2>6. CASE SyncChecksStaged
    <3>1. /\ sync'.stamp = sync.stamp /\ sync.pc = "checkStaged"
          /\ sync'.pc \in {"synced", "flush"}
          /\ sync'.pc = "synced" => ~sf[sync.id].fd \/ sf[sync.id].awaitingRemoteRename
      BY <1>2, <2>6 DEF SyncChecksStaged, Syncs
    <3>2. cur # 0 => sf[cur].fd
      BY DEF Known, LifeInv, NoUseAfterCleanup, AttachedIsOpen
    <3>3. sync'.pc = "synced" => Durable(sync.stamp)
      BY <2>1, <2>2, <3>1, <3>2
    <3> QED
      BY <1>1, <1>3, <2>1, <3>1, <3>3 DEF SyncKnows
  <2>7. CASE SyncReturns
    BY <1>1, <1>2, <2>7 DEF SyncReturns, SyncKnows, NoSync
  <2> QED
    BY <2>3, <2>4, <2>5, <2>6, <2>7
<1>5. linked => SyncKnows'
  BY <1>4
<1> QED
  BY <1>1, <1>5, KeptFrame

-------------------------------------------------------------------------------
(* sendRename *)

(* The steps of a rename that change neither names nor objects. *)
LEMMA SyncRenameMoves ==
    ASSUME Known, StartRename \/ RenameError \/ RenameReturns
    PROVE  Kept
<1>1. UNCHANGED <<cur, cacheState, linked, key, oldKey, store, clock, sync, up, sf>>
  BY DEF StartRename, RenameError, RenameReturns
<1>2. ren.pc # "copied" /\ ren'.pc # "copied" /\ (linked \/ (~renamingTo' /\ ren'.pc \in {"idle", "end"}))
  <2>1. CASE StartRename
    <3>1. linked
      BY <2>1, ShapeKnown DEF StartRename, Dead
    <3>2. ren.pc = "idle"
      BY <2>1, <3>1, NothingFlushes DEF StartRename, Known, Stored
    <3> QED
      BY <2>1, <3>1, <3>2 DEF StartRename
  <2>2. CASE RenameError
    BY <2>2 DEF RenameError, Known, TypeInv, TypeOK, CallsTypeOK, Renames
  <2>3. CASE RenameReturns
    <3>1. ~renamingTo
      BY <2>3, ShapeKnown DEF RenameReturns, RenameShape
    <3> QED
      BY <2>3, <3>1 DEF RenameReturns, NoRename
  <2> QED
    BY <2>1, <2>2, <2>3
<1>3. UnlinkedIsDead'
  <2>1. CASE linked
    BY <1>1, <2>1 DEF UnlinkedIsDead
  <2>2. CASE ~linked
    <3>1. RenameShape'
      BY <1>1, <1>2, <2>2, ShapeKnown DEF RenameShape
    <3> QED
      BY <1>1, <2>2, <3>1 DEF Known, Ordered, UnlinkedIsDead, Dead
  <2> QED
    BY <2>1, <2>2
<1>4. Ordered'
  BY <1>1, <1>2, <1>3, OrderKept
<1>5. ASSUME linked' PROVE Synced'
  <2>1. linked
    BY <1>1, <1>5
  <2>2. SyncKnows'
    BY <1>1, <2>1, SyncWaits
  <2> QED
    BY <1>1, <1>2, <2>1, <2>2, SyncedKept
<1> QED
  BY <1>4, <1>5 DEF Kept

(* The copy goes to a name that has no object. *)
LEMMA SyncCopyBlob ==
    ASSUME Known, CopyBlob
    PROVE  /\ Kept
           /\ \A k \in Keys : store[k] # NoObject => store'[k] = store[k]
<1>1. /\ UNCHANGED <<cur, cacheState, linked, key, oldKey, renamingTo, clock, sync, up, sf>>
      /\ ren.pc = "copy"
  BY DEF CopyBlob, inodeVars
<1>2. /\ RenameShape /\ renamingTo /\ oldKey = Key /\ key = NewKey
      /\ ren.from = Key /\ ren.to = NewKey /\ Active = {} /\ store[Key] # NoObject
  BY <1>1, ShapeKnown DEF RenameShape
<1>3. \A i \in Ids : up[i].pc = "idle"
  BY <1>2 DEF Active
<1>4. /\ store[NewKey] = NoObject
      /\ store \in [Keys -> Objects \cup {NoObject}] /\ ren \in Renames
  BY <1>1, <1>2, KeysAssumption
     DEF Known, Ordered, NewKeyFree, TypeInv, TypeOK, StagedTypeOK, CallsTypeOK
<1>5. \/ store'[NewKey] = store[Key] /\ store'[Key] = store[Key] /\ ren'.pc = "copied"
      \/ store' = store /\ ren'.pc = "error"
  BY <1>2, <1>4, KeysAssumption DEF CopyBlob, Renames, Keys
<1>6. store'[Key] = store[Key] /\ ren'.from = Key /\ ren'.to = NewKey
  BY <1>2, <1>4, KeysAssumption DEF CopyBlob, Renames, Keys
<1>7. \A k \in Keys : store[k] # NoObject => store'[k] = store[k]
  BY <1>4, <1>6 DEF Keys
<1>8. SourceKey = Key /\ SourceKey' = Key
  BY <1>1, <1>2, KeysAssumption DEF SourceKey
<1>9. Ordered'
  <2>1. Active' = {}
    BY <1>1, <1>2 DEF Active
  <2>2. RenameShape'
    BY <1>1, <1>2, <1>5, <1>6, <2>1 DEF RenameShape
  <2>3. UnlinkedIsDead'
    BY <1>1, <2>2 DEF Known, Ordered, UnlinkedIsDead, Dead
  <2>4. OneUpload' /\ UploadsInOrder'
    BY <1>1, <1>3 DEF OneUpload, UploadsInOrder, Reading
  <2>5. ObjectsOfThePast'
    BY <1>1, <1>4, <1>5 DEF Known, Ordered, ObjectsOfThePast, Keys
  <2>6. NewKeyFree'
    BY <1>4, <1>5 DEF NewKeyFree
  <2> QED
    BY <2>3, <2>4, <2>5, <2>6 DEF Ordered
<1>10. ASSUME linked PROVE Synced'
  <2>1. Synced
    BY <1>10 DEF Known
  <2>2. UploadUpTo' /\ CommittedUpTo'
    BY <1>1, <1>3 DEF UploadUpTo, CommittedUpTo, Uploading, Reading
  <2>3. StoredUpTo' = StoredUpTo
    BY <1>1, <1>6, <1>8 DEF StoredUpTo
  <2>4. AwaitingUpTo' /\ DetachedUpTo'
    BY <1>1, <2>1, <2>3 DEF Synced, AwaitingUpTo, DetachedUpTo
  <2>5. CopiedUpTo'
    BY <1>5 DEF CopiedUpTo
  <2>6. \A t : Durable(t) => Durable(t)'
    BY <1>1, <1>7 DEF Durable
  <2>7. SyncKnows'
    BY <1>1, <2>1, <2>6 DEF Synced, SyncKnows
  <2> QED
    BY <2>2, <2>4, <2>5, <2>7 DEF Synced
<1> QED
  BY <1>1, <1>7, <1>9, <1>10 DEF Kept

(* The rename is done here: the object is now the copy, and a StagedFile that waited for it
   is let go. *)
LEMMA SyncRenameCopied ==
    ASSUME Known, RenameCopied
    PROVE  Kept
<1>1. /\ UNCHANGED <<linked, key, store, clock, sync, up>>
      /\ ren.pc = "copied" /\ oldKey' = NoKey /\ ~renamingTo'
      /\ cacheState' \in {cacheState, "CACHED"} /\ (Dead => cacheState' = cacheState)
      /\ cur' = IF cur # 0 /\ ~hasUnpersistedStagedFile THEN 0 ELSE cur
  BY DEF RenameCopied, Dead
<1>2. /\ RenameShape /\ renamingTo /\ oldKey = Key /\ key = NewKey
      /\ ren.from = Key /\ ren.to = NewKey /\ Active = {}
      /\ store[Key] # NoObject /\ store[NewKey] # NoObject
  BY <1>1, ShapeKnown DEF RenameShape
<1>3. \A i \in Ids : up[i].pc = "idle"
  BY <1>2 DEF Active
<1>4. /\ clock \in Nat /\ sync.stamp \in Nat /\ ren \in Renames /\ cur \in Ids \cup {0}
      /\ sf \in [Ids -> StagedFiles]
  BY SyncTypes DEF Known, TypeInv, TypeOK, InodeTypeOK, StagedTypeOK, CallsTypeOK
<1>5. ren'.pc = "delete" /\ ren'.from = Key
  BY <1>2, <1>4 DEF RenameCopied, Renames
<1>6. SourceKey = Key /\ SourceKey' = NewKey
  BY <1>1, <1>2, KeysAssumption DEF SourceKey
<1>7. Ordered'
  <2>1. RenameShape'
    BY <1>1, <1>2, <1>5 DEF RenameShape
  <2>2. UnlinkedIsDead'
    BY <1>1, <2>1 DEF Known, Ordered, UnlinkedIsDead, Dead
  <2>3. OneUpload' /\ UploadsInOrder'
    BY <1>1, <1>3 DEF OneUpload, UploadsInOrder, Reading
  <2>4. ObjectsOfThePast'
    BY <1>1 DEF Known, Ordered, ObjectsOfThePast
  <2>5. NewKeyFree'
    BY <1>1, <1>2, KeysAssumption DEF NewKeyFree
  <2> QED
    BY <2>2, <2>3, <2>4, <2>5 DEF Ordered
<1>8. ASSUME linked PROVE Synced'
  <2>1. Synced /\ Stored /\ store[NewKey].upTo = store[Key].upTo
    BY <1>1, <1>8 DEF Known, Synced, CopiedUpTo
  <2>2. UploadUpTo' /\ CommittedUpTo'
    BY <1>1, <1>3 DEF UploadUpTo, CommittedUpTo, Uploading, Reading
  <2>3. StoredUpTo' = StoredUpTo
    BY <1>1, <1>6, <2>1 DEF StoredUpTo
  <2>4. cur # 0 => sf[cur].fd
    BY DEF Known, LifeInv, AttachedIsOpen
  <2>5. AwaitingUpTo'
    <3>1. ASSUME cur' # 0 PROVE ~sf'[cur'].awaitingRemoteRename
      <4>1. cur' = cur /\ sf' = sf /\ hasUnpersistedStagedFile
        BY <1>1, <3>1 DEF RenameCopied
      <4> QED
        BY <2>4, <3>1, <4>1 DEF hasUnpersistedStagedFile
    <3> QED
      BY <3>1 DEF AwaitingUpTo
  <2>6. cur' # cur => cur # 0 /\ sf[cur].awaitingRemoteRename
    BY <1>1, <2>4 DEF hasUnpersistedStagedFile
  <2>7. cur' = 0 => StoredUpTo /\ cacheState # "CREATED"
    BY <2>1, <2>6 DEF Synced, AwaitingUpTo, DetachedUpTo, Stored, CreatedIsStaged
  <2>8. DetachedUpTo' /\ CopiedUpTo'
    BY <1>5, <2>3, <2>7 DEF DetachedUpTo, CopiedUpTo
  <2>9. \A t : Durable(t) => Durable(t)'
    BY <1>1, <1>2, <2>1, KeysAssumption DEF Durable, Keys
  <2>10. cur' = 0 => Durable(sync.stamp)'
    BY <1>1, <1>2, <1>4, <1>6, <2>1, <2>3, <2>7, KeysAssumption
       DEF Durable, Keys, StoredUpTo, Synced, SyncKnows
  <2>11. SyncKnows'
    BY <1>1, <2>1, <2>9, <2>10 DEF Synced, SyncKnows
  <2> QED
    BY <2>2, <2>5, <2>8, <2>11 DEF Synced
<1> QED
  BY <1>1, <1>7, <1>8 DEF Kept

(* The old name is no longer one of the file's. *)
LEMMA SyncDeleteOldKey ==
    ASSUME Known, DeleteOldKey
    PROVE  /\ Kept
           /\ \A k \in Keys : store'[k] # NoObject => store'[k] = store[k]
<1>1. /\ UNCHANGED <<cur, cacheState, linked, key, oldKey, renamingTo, clock, sync, up, sf>>
      /\ ren.pc = "delete"
  BY DEF DeleteOldKey, inodeVars
<1>2. /\ RenameShape /\ ~renamingTo /\ oldKey = NoKey /\ key = NewKey /\ ren.from = Key
  BY <1>1, ShapeKnown DEF RenameShape
<1>3. store \in [Keys -> Objects \cup {NoObject}] /\ ren \in Renames
  BY DEF Known, TypeInv, TypeOK, StagedTypeOK, CallsTypeOK
<1>4. /\ store'[NewKey] = store[NewKey] /\ store'[Key] \in {store[Key], NoObject}
      /\ ren'.pc = "end"
  BY <1>2, <1>3, KeysAssumption DEF DeleteOldKey, Renames, Keys
<1>5. SourceKey = NewKey /\ SourceKey' = NewKey
  BY <1>1, <1>2 DEF SourceKey
<1>6. Ordered'
  <2>1. RenameShape'
    BY <1>1, <1>2, <1>4 DEF RenameShape
  <2>2. UnlinkedIsDead'
    BY <1>1, <2>1 DEF Known, Ordered, UnlinkedIsDead, Dead
  <2>3. OneUpload'
    BY <1>1, <1>5 DEF Known, Ordered, OneUpload
  <2>4. UploadsInOrder'
    BY <1>1, <1>4, <1>5 DEF Known, Ordered, OneUpload, UploadsInOrder
  <2>5. ObjectsOfThePast' /\ NewKeyFree'
    BY <1>1, <1>2, <1>4, KeysAssumption DEF Known, Ordered, ObjectsOfThePast, NewKeyFree, Keys
  <2> QED
    BY <2>2, <2>3, <2>4, <2>5 DEF Ordered
<1>7. ASSUME linked PROVE Synced'
  <2>1. Synced
    BY <1>7 DEF Known
  <2>2. StoredUpTo' = StoredUpTo
    BY <1>1, <1>4, <1>5 DEF StoredUpTo
  <2>3. UploadUpTo' /\ CommittedUpTo' /\ AwaitingUpTo' /\ DetachedUpTo' /\ CopiedUpTo'
    BY <1>1, <1>4, <2>1, <2>2 DEF Synced, UploadUpTo, CommittedUpTo, AwaitingUpTo, DetachedUpTo,
                                  CopiedUpTo, generationStillCurrent
  <2>4. \A t : Durable(t) => Durable(t)'
    BY <1>1, <1>2, <1>4, KeysAssumption DEF Durable, Keys
  <2>5. SyncKnows'
    BY <1>1, <2>1, <2>4 DEF Synced, SyncKnows
  <2> QED
    BY <2>3, <2>5 DEF Synced
<1> QED
  BY <1>1, <1>4, <1>6, <1>7 DEF Kept, Keys

-------------------------------------------------------------------------------
(* All steps *)

(* What is known of a calm history stays true. *)
LEMMA SyncStepKept ==
    ASSUME Known, [Next]_vars, Calm'
    PROVE  Kept
<1>1. CASE Application
  <2>1. CASE SetXattr
    BY <2>1 DEF SetXattr, Calm, Known, TypeInv, TypeOK, InodeTypeOK
  <2>2. CASE SyncBegin
    BY <2>2, SyncSyncs
  <2> QED
    BY <1>1, <2>1, <2>2, SyncPrepare, SyncWrite, SyncRenameInCache, SyncUnlink DEF Application
<1>2. CASE WriterStep
  <2>1. CASE EnsureStaged
    <3>1. UNCHANGED <<cur, cacheState, linked, key, oldKey, renamingTo, ren, store, clock, sync, up, sf>>
      BY <2>1 DEF EnsureStaged, Calm
    <3> QED
      BY <3>1, KeptFrame
  <2>2. CASE WriteRefused
    <3>1. UNCHANGED <<cur, cacheState, linked, key, oldKey, renamingTo, ren, store, clock, sync, up, sf>>
      BY <2>2 DEF WriteRefused, inodeVars
    <3> QED
      BY <3>1, KeptFrame
  <2> QED
    BY <1>2, <2>1, <2>2, SyncWrite DEF WriterStep
<1>3. ASSUME NEW i \in Ids, UploadStep(i) PROVE Kept
  <2>1. CASE FlusherBegins(i)
    BY <2>1, SyncBeginFlush DEF FlusherBegins
  <2>2. CASE CommitUpload(i)
    <3>1. UNCHANGED <<cur, cacheState, linked, key, oldKey, renamingTo, ren, clock, sync, sf>>
      BY <2>2 DEF CommitUpload, inodeVars
    <3> QED
      BY <2>2, <3>1, SyncCommit DEF CommitUpload, UploadGoesTo
  <2>3. CASE UploadFails(i)
    <3>1. UNCHANGED <<cur, cacheState, linked, key, oldKey, renamingTo, ren, clock, sync, sf>>
      BY <2>3 DEF UploadFails, inodeVars
    <3> QED
      BY <2>3, <3>1, SyncCommit, SyncUploadGoesOn DEF UploadFails, UploadGoesTo
  <2>4. CASE \/ \E b \in Blocks : HashBlock(i, b) \/ UploadPart(i, b)
             \/ HashDone(i) \/ CaptureMetadata(i) \/ BeginAttempt(i) \/ BeforeCommit(i)
             \/ UploadLost(i) \/ FlushFailed(i)
    <3>1. UNCHANGED store
      BY <2>4 DEF HashBlock, UploadPart, HashDone, CaptureMetadata, BeginAttempt, BeforeCommit,
                  UploadLost, FlushFailed, UploadOnly
    <3> QED
      BY <2>4, <3>1, SyncUploadGoesOn
  <2> QED
    BY <1>3, <2>1, <2>2, <2>3, <2>4, SyncUploadEnds, SyncFlushComplete DEF UploadStep
<1>4. CASE RenameStep
  <2>1. CASE RenameSourceMissing
    BY <2>1, ShapeKnown DEF RenameSourceMissing, RenameShape
  <2> QED
    BY <1>4, <2>1, SyncRenameMoves, SyncCopyBlob, SyncRenameCopied, SyncDeleteOldKey DEF RenameStep
<1>5. CASE UpdateMetaStep
  BY <1>5 DEF UpdateMetaStep, StartUpdateMeta, SelfCopy, UpdateMetaReturns, Known, NoUpdateYet, Calm
<1>6. CASE SyncStep
  <2>1. CASE SyncUploads
    <3>1. cur \in Ids /\ BeginFlush(cur) /\ sync'.stamp = sync.stamp /\ sync'.pc = "own"
      BY <2>1, SyncTypes DEF SyncUploads, Known, TypeInv, TypeOK, InodeTypeOK, Syncs
    <3> QED
      BY <3>1, SyncBeginFlush
  <2> QED
    BY <1>6, <2>1, SyncSyncs DEF SyncStep
<1>7. CASE Remote
  BY <1>7 DEF Remote, RemoteDelete, Calm, Known, TypeInv, TypeOK, CountersTypeOK
<1>8. CASE UNCHANGED vars
  <2>1. UNCHANGED <<cur, cacheState, linked, key, oldKey, renamingTo, ren, store, clock, sync, up, sf>>
    BY <1>8 DEF vars, inodeVars
  <2> QED
    BY <2>1, KeptFrame
<1> QED
  BY <1>1, <1>2, <1>3, <1>4, <1>5, <1>6, <1>7, <1>8 DEF Next

(* What an object includes does not shrink. *)
ObjectsGrow ==
    \A k \in Keys : store[k] # NoObject /\ store'[k] # NoObject => store'[k].upTo >= store[k].upTo

(* No step puts older bytes over newer ones. *)
LEMMA SyncStepGrows ==
    ASSUME Known, [Next]_vars
    PROVE  ObjectsGrow
<1>1. \A k \in Keys : store[k] # NoObject => store[k].upTo \in Nat
  BY SyncTypes DEF Known, TypeInv
<1>2. (\A k \in Keys : store'[k] = NoObject \/ store'[k] = store[k]) => ObjectsGrow
  BY <1>1 DEF ObjectsGrow
<1>3. CASE store' = store
  BY <1>2, <1>3
<1>4. ASSUME NEW i \in Ids, CommitUpload(i) \/ UploadFails(i) PROVE ObjectsGrow
  <2>1. UNCHANGED <<cur, cacheState, linked, key, oldKey, renamingTo, ren, clock, sync, sf>>
    BY <1>4 DEF CommitUpload, UploadFails, inodeVars
  <2>2. \/ store' = store
        \/ /\ up[i].pc = "commit"
           /\ store' = [store EXCEPT ![up[i].key] = Uploaded(up[i])]
           /\ \E pc \in {"committed", "failed"} : up' = [up EXCEPT ![i].pc = pc]
    BY <1>4 DEF CommitUpload, UploadFails, UploadGoesTo
  <2> QED
    BY <1>3, <2>1, <2>2, SyncCommit DEF ObjectsGrow
<1>5. CASE CopyBlob
  BY <1>1, <1>5, SyncCopyBlob DEF ObjectsGrow
<1>6. CASE DeleteOldKey
  BY <1>1, <1>6, SyncDeleteOldKey DEF ObjectsGrow
<1>7. CASE Remote
  BY <1>2, <1>7 DEF Remote, RemoteDelete, Known, TypeInv, TypeOK, StagedTypeOK
<1>8. CASE UpdateMetaStep
  BY <1>8 DEF UpdateMetaStep, StartUpdateMeta, SelfCopy, UpdateMetaReturns, Known, NoUpdateYet, Calm
<1>9. CASE Application \/ WriterStep
  <2>1. store' = store
    BY <1>9 DEF Application, PrepareStagedWrite, TruncateStaged, SetXattr, RenameInCache, Unlink,
                SyncBegin, WriterStep, EnsureStaged, WriteRefused, WriteFileStaged
  <2> QED
    BY <1>3, <2>1
<1>10. ASSUME NEW i \in Ids, UploadStep(i) PROVE ObjectsGrow
  <2>1. CASE FlusherBegins(i) \/ FlushComplete(i)
    <3>1. store' = store
      BY <2>1 DEF FlusherBegins, BeginFlush, FlushComplete
    <3> QED
      BY <1>3, <3>1
  <2>2. CASE ~(CommitUpload(i) \/ UploadFails(i) \/ FlusherBegins(i) \/ FlushComplete(i))
    <3>1. store' = store
      BY <1>10, <2>2
         DEF UploadStep, HashBlock, UploadPart, HashDone, CaptureMetadata, BeginAttempt, BeforeCommit,
             UploadLost, FlushFailed, RetryLater, FinishFlush, FlushReturns, UploadOnly
    <3> QED
      BY <1>3, <3>1
  <2> QED
    BY <1>4, <2>1, <2>2
<1>11. CASE RenameStep
  <2>1. CASE StartRename \/ RenameCopied \/ RenameError \/ RenameReturns \/ RenameSourceMissing
    <3>1. store' = store
      BY <2>1 DEF StartRename, RenameCopied, RenameError, RenameReturns, RenameSourceMissing
    <3> QED
      BY <1>3, <3>1
  <2> QED
    BY <1>5, <1>6, <1>11, <2>1 DEF RenameStep
<1>12. CASE SyncStep
  <2>1. store' = store
    BY <1>12 DEF SyncStep, SyncUploads, BeginFlush, SyncSkips, SyncChecksInode, SyncChecksStaged,
                 SyncReturns
  <2> QED
    BY <1>3, <2>1
<1>13. CASE UNCHANGED vars
  BY <1>3, <1>13 DEF vars
<1> QED
  BY <1>7, <1>8, <1>9, <1>10, <1>11, <1>12, <1>13 DEF Next

(* All the invariants of the staged-write path. *)
StagedInv == TypeInv /\ LifeInv /\ GenerationInv /\ HashInv /\ StoredInv /\ OrderInv /\ SyncInv

(* They hold in every reachable state. *)
THEOREM StagedInvariant == Spec => []StagedInv
<1>1. Init => StagedInv
  BY TypeInit, LifeInit, GenerationInit, HashInit, StoredInit, OrderInit DEF StagedInv
<1>2. StagedInv /\ [Next]_vars => StagedInv'
  <2> SUFFICES ASSUME StagedInv, [Next]_vars PROVE StagedInv'
    OBVIOUS
  <2>1. TypeInv' /\ LifeInv' /\ GenerationInv' /\ HashInv'
    BY TypeStep, LifeStep, GenerationStep, HashStep DEF StagedInv, TypeInv
  <2>2. StoredInv'
    BY <2>1, StoredInvStep DEF StagedInv
  <2>3. Calm' => Calm
    BY CalmBefore DEF StagedInv, TypeInv
  <2>4. ASSUME Calm' PROVE Known
    BY <2>3, <2>4 DEF Known, StagedInv, HashInv, StoredInv, OrderInv, SyncInv, Quiet, Calm
  <2>5. OrderInv' /\ SyncInv'
    <3>1. CASE ~Calm'
      BY <3>1 DEF OrderInv, SyncInv, Quiet, Calm
    <3>2. CASE Calm'
      <4>1. Kept
        BY <2>4, <3>2, SyncStepKept
      <4> QED
        BY <4>1 DEF Kept, OrderInv, SyncInv, Quiet
    <3> QED
      BY <3>1, <3>2
  <2> QED
    BY <2>1, <2>2, <2>5 DEF StagedInv
<1> QED
  BY <1>1, <1>2, PTL DEF Spec

(* fsync reports success only when what was written before it is stored, although
   syncStagedFile inspects the inode and the StagedFile in different critical sections, and
   writes, uploads, renames and failures happen between them: a StagedFile it finds detached
   or waiting for a rename was stored with everything up to then.  As long as no extended
   attribute was changed. *)
THEOREM SyncedFilesAreStored == Spec => [](meta = 0 => SyncDurable)
<1>1. StagedInv => (meta = 0 => SyncDurable)
  BY DEF StagedInv, SyncInv, Quiet, Synced, SyncKnows, Durable, SyncDurable
<1> QED
  BY <1>1, StagedInvariant, PTL

(* No upload that was overtaken puts older bytes over newer ones, also not one whose file was
   renamed or unlinked meanwhile or whose answer was lost. *)
THEOREM ObjectsOnlyGrow == Spec => [][Calm => ObjectsGrow]_vars
<1>1. StagedInv /\ [Next]_vars => (Calm => ObjectsGrow)
  <2> SUFFICES ASSUME StagedInv, [Next]_vars, Calm PROVE ObjectsGrow
    OBVIOUS
  <2>1. Known
    BY DEF Known, StagedInv, HashInv, StoredInv, OrderInv, SyncInv, Quiet, Calm
  <2> QED
    BY <2>1, SyncStepGrows
<1> QED
  BY <1>1, StagedInvariant, PTL DEF Spec

(* The same as the runs state it, where extended attributes and other clients are left out. *)
THEOREM NoUploadIsOvertaken ==
    ASSUME MaxMeta = 0, MaxRemote = 0
    PROVE  Spec => NoStaleOverwrite
<1>1. StagedInv => meta = 0 /\ remote = 0
  BY DEF StagedInv, TypeInv, TypeOK, InodeTypeOK, CountersTypeOK
<1>2. StagedInv /\ [Calm => ObjectsGrow]_vars
        => [\A k \in Keys : store[k] # NoObject /\ store'[k] # NoObject /\ ~sparse
                             => store'[k].upTo >= store[k].upTo]_vars
  BY <1>1 DEF Calm, ObjectsGrow
<1> QED
  BY <1>2, StagedInvariant, ObjectsOnlyGrow, PTL DEF NoStaleOverwrite
===============================================================================
