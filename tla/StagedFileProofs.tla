--------------------------- MODULE StagedFileProofs ---------------------------
(***************************************************************************)
(* The staged-write path is type correct, and the two safety arguments it  *)
(* rests on, for every value of the constants: an upload owns the staging  *)
(* file it reads until it ends (NoUseAfterCleanup), and comparing the      *)
(* generation before the commit is enough for the object to be one         *)
(* generation of the file (OneGeneration).                                 *)
(***************************************************************************)
EXTENDS StagedFile, TLAPS

-------------------------------------------------------------------------------
(* Lemmas about the operators of the model *)

(* What Content returns is bytes an object can hold. *)
LEMMA ContentType ==
    ASSUME NEW n \in 0..NB, NEW d, \A b \in 1..n : d[b] \in Stamps
    PROVE  Content(d, n) \in Contents
<1>1. Content(d, n) \in [1..n -> Stamps]
  BY DEF Content
<1> QED
  BY <1>1 DEF Contents

(* Values the records start from have the types of the records. *)
LEMMA InitialTypes ==
    /\ Zeroes \in [Blocks -> Stamps] /\ Zeroes \in [Blocks -> Stamps \cup {NoPart}]
    /\ Unread \in [Blocks -> Stamps \cup {NoPart}]
    /\ Unused \in StagedFiles /\ Fresh \in StagedFiles
    /\ NoUpload \in Uploads
<1>1. /\ 0 \in Stamps /\ 0 \in 0..NB /\ 0 \in 0..MaxClock /\ 0 \in 0..MaxMeta
  BY BoundsAssumption DEF Stamps
<1>2. Zeroes \in [Blocks -> Stamps] /\ Zeroes \in [Blocks -> Stamps \cup {NoPart}]
  BY <1>1 DEF Zeroes
<1>3. Unread \in [Blocks -> Stamps \cup {NoPart}]
  BY DEF Unread
<1>4. Unused \in StagedFiles
  BY <1>1, <1>2 DEF Unused, StagedFiles
<1>5. Fresh \in StagedFiles
  BY <1>4 DEF Fresh, StagedFiles
<1>6. NoUpload \in Uploads
  BY <1>1, <1>2, <1>3 DEF NoUpload, Uploads, UploadPcs, Keys
<1> QED
  BY <1>2, <1>3, <1>4, <1>5, <1>6

(* Cleanup and FinishFlush keep the type of a StagedFile. *)
LEMMA CleanupType ==
    ASSUME NEW s \in StagedFiles
    PROVE  Cleanup(s) \in StagedFiles /\ FinishFlushed(s) \in StagedFiles
<1>1. \A t \in StagedFiles : Cleanup(t) \in StagedFiles
  BY InitialTypes DEF Cleanup, StagedFiles
<1>2. [s EXCEPT !.flushing = FALSE] \in StagedFiles
  BY DEF StagedFiles
<1> QED
  BY <1>1, <1>2 DEF FinishFlushed

(* The fields of an upload have their types, *)
LEMMA UploadFields ==
    ASSUME NEW u \in Uploads
    PROVE  /\ u.pc \in UploadPcs /\ u.size \in 0..NB /\ u.key \in Keys
           /\ u.generation \in 0..MaxClock /\ u.snap \in [Blocks -> Stamps]
           /\ u.upTo \in Stamps /\ u.meta \in 0..MaxMeta /\ u.hash \in Contents \cup {NoHash}
           /\ u.parts \in [Blocks -> Stamps \cup {NoPart}]
           /\ u.hashed \in [Blocks -> Stamps \cup {NoPart}]
  BY DEF Uploads

(* and setting them keeps the type. *)
LEMMA UploadSetPc ==
    ASSUME NEW u \in Uploads, NEW pc \in UploadPcs
    PROVE  [u EXCEPT !.pc = pc] \in Uploads
  BY DEF Uploads

(* The parts of an upload may be replaced by others of their type. *)
LEMMA UploadSetParts ==
    ASSUME NEW u \in Uploads, NEW pc \in UploadPcs, NEW p \in [Blocks -> Stamps \cup {NoPart}]
    PROVE  [u EXCEPT !.pc = pc, !.parts = p] \in Uploads
  BY DEF Uploads

(* Reading one block keeps an upload record well typed. *)
LEMMA UploadReadBlock ==
    ASSUME NEW u \in Uploads, NEW b \in Blocks, NEW v \in Stamps
    PROVE  [u EXCEPT !.parts[b] = v] \in Uploads /\ [u EXCEPT !.hashed[b] = v] \in Uploads
  BY DEF Uploads

-------------------------------------------------------------------------------
(* Type correctness *)

(* What the type of generations, hashes and parts rests on: generations count
   writes, and a pass over the staging file that ended has read every block. *)
GenerationsCount == \A i \in Ids : sf[i].generation <= clock
HashedBlocks ==
    \A i \in Ids : up[i].pc = "meta" /\ liveUpload(up[i].size) /\ wantHash(up[i].size)
                    => \A b \in 1..up[i].size : up[i].hashed[b] \in Stamps
PartsRead ==
    \A i \in Ids : up[i].pc \in {"commit", "committed"}
                    => \A b \in 1..up[i].size : up[i].parts[b] \in Stamps
TypeInv == TypeOK /\ GenerationsCount /\ HashedBlocks /\ PartsRead

(* The mount starts well typed, with one generation and nothing hashed or read. *)
LEMMA TypeInit == Init => TypeInv
<1> SUFFICES ASSUME Init PROVE TypeInv
  OBVIOUS
<1> USE BoundsAssumption
<1>1. Content(Zeroes, NB) \in Contents
  BY ContentType, InitialTypes DEF Blocks
<1>2. store \in [Keys -> Objects \cup {NoObject}]
  BY <1>1 DEF Init, Objects, Stamps
<1>3. StagedTypeOK
  BY <1>2, InitialTypes DEF Init, Ids, StagedTypeOK
<1>4. InodeTypeOK
  BY <1>1 DEF Init, InodeTypeOK, Ids, Keys
<1>5. CallsTypeOK
  BY DEF Init, CallsTypeOK, Renames, Updates, Writes, Syncs, NoRename, NoUpdate, NoWrite, NoSync,
         Keys, Blocks, Stamps
<1>6. CountersTypeOK
  BY InitialTypes DEF Init, CountersTypeOK, Stamps
<1>7. FlagsTypeOK
  BY DEF Init, FlagsTypeOK
<1>8. GenerationsCount
  BY DEF Init, GenerationsCount, Fresh, Unused
<1>9. HashedBlocks /\ PartsRead
  BY DEF Init, HashedBlocks, PartsRead, NoUpload
<1> QED
  BY <1>3, <1>4, <1>5, <1>6, <1>7, <1>8, <1>9 DEF TypeInv, TypeOK

(* The first critical section of a flush. *)
LEMMA TypeBeginFlush ==
    ASSUME TypeInv, NEW i \in Ids, BeginFlush(i),
           sync' \in Syncs
    PROVE  TypeInv'
<1> USE BoundsAssumption
<1>1. FlagsTypeOK'
  BY DEF TypeInv, TypeOK, FlagsTypeOK, BeginFlush
<1>2. InodeTypeOK' /\ CallsTypeOK' /\ CountersTypeOK'
  BY DEF TypeInv, TypeOK, InodeTypeOK, CallsTypeOK, CountersTypeOK, BeginFlush
<1>3. SourceKey \in Keys
  BY DEF TypeInv, TypeOK, InodeTypeOK, SourceKey
<1>4. /\ sf[i].generation \in 0..MaxClock /\ sf[i].data \in [Blocks -> Stamps]
      /\ size \in 0..NB /\ clock \in Stamps
  BY DEF TypeInv, TypeOK, InodeTypeOK, CountersTypeOK, StagedTypeOK, StagedFiles
<1>5. \A pc \in UploadPcs : [NoUpload EXCEPT !.pc = pc, !.size = size,
                               !.generation = sf[i].generation, !.key = SourceKey,
                               !.snap = sf[i].data, !.upTo = clock] \in Uploads
  BY <1>3, <1>4, InitialTypes DEF Uploads
<1>6. StagedTypeOK'
  BY <1>5 DEF TypeInv, TypeOK, StagedTypeOK, BeginFlush, StagedFiles, UploadPcs
<1>7. GenerationsCount'
  BY DEF TypeInv, GenerationsCount, TypeOK, StagedTypeOK, BeginFlush, StagedFiles
<1>8. HashedBlocks' /\ PartsRead'
  BY DEF TypeInv, HashedBlocks, PartsRead, TypeOK, StagedTypeOK, InodeTypeOK, BeginFlush,
         liveUpload, wantHash, NoUpload
<1> QED
  BY <1>1, <1>2, <1>6, <1>7, <1>8 DEF TypeInv, TypeOK

(* A step that only replaces the record of one upload. *)
LEMMA TypeOnlyUpload ==
    ASSUME TypeInv, NEW i \in Ids, NEW u \in Uploads, up' = [up EXCEPT ![i] = u],
           UploadOnly, faults' \in 0..MaxFaults,
           u.pc = "meta" /\ liveUpload(u.size) /\ wantHash(u.size)
                => \A b \in 1..u.size : u.hashed[b] \in Stamps,
           u.pc \in {"commit", "committed"} => \A b \in 1..u.size : u.parts[b] \in Stamps
    PROVE  TypeInv'
<1> USE DEF TypeInv, TypeOK
<1>1. FlagsTypeOK' /\ InodeTypeOK' /\ CallsTypeOK' /\ CountersTypeOK'
  BY DEF FlagsTypeOK, InodeTypeOK, CallsTypeOK, CountersTypeOK, UploadOnly, inodeVars
<1>2. StagedTypeOK'
  BY DEF StagedTypeOK, UploadOnly
<1>3. GenerationsCount' /\ HashedBlocks' /\ PartsRead'
  BY DEF GenerationsCount, HashedBlocks, PartsRead, StagedTypeOK, UploadOnly
<1> QED
  BY <1>1, <1>2, <1>3

(* The steps of an upload up to its commit. *)
LEMMA TypeReadAndUpload ==
    ASSUME TypeInv, NEW i \in Ids,
           \/ \E b \in Blocks : HashBlock(i, b) \/ UploadPart(i, b)
           \/ HashDone(i) \/ BeginAttempt(i) \/ BeforeCommit(i) \/ UploadLost(i)
    PROVE  TypeInv'
<1> USE BoundsAssumption
<1>1. up[i] \in Uploads /\ sf[i].data \in [Blocks -> Stamps] /\ faults \in 0..MaxFaults
  BY DEF TypeInv, TypeOK, StagedTypeOK, StagedFiles, CountersTypeOK
<1>2. /\ up[i].size \in 0..NB /\ up[i].snap \in [Blocks -> Stamps]
      /\ up[i].parts \in [Blocks -> Stamps \cup {NoPart}]
      /\ up[i].hashed \in [Blocks -> Stamps \cup {NoPart}]
  BY <1>1, UploadFields
<1>3. ASSUME NEW b \in Blocks, HashBlock(i, b) PROVE TypeInv'
  <2> DEFINE u == [up[i] EXCEPT !.hashed[b] = sf[i].data[b]]
  <2>1. u \in Uploads
    BY <1>1, UploadReadBlock
  <2>2. up' = [up EXCEPT ![i] = u] /\ UploadOnly /\ faults' \in 0..MaxFaults /\ u.pc = "hash"
    BY <1>1, <1>3 DEF HashBlock, Uploads
  <2> QED
    BY <2>1, <2>2, TypeOnlyUpload
<1>4. ASSUME NEW b \in Blocks, UploadPart(i, b) PROVE TypeInv'
  <2>1. CASE b <= sf[i].len
    <3> DEFINE u == [up[i] EXCEPT !.parts[b] = sf[i].data[b]]
    <3>1. u \in Uploads
      BY <1>1, UploadReadBlock
    <3>2. up' = [up EXCEPT ![i] = u] /\ UploadOnly /\ faults' \in 0..MaxFaults /\ u.pc = "parts"
      BY <1>1, <1>4, <2>1 DEF UploadPart, Uploads
    <3> QED
      BY <3>1, <3>2, TypeOnlyUpload
  <2>2. CASE ~(b <= sf[i].len)
    <3> DEFINE u == [up[i] EXCEPT !.pc = "failed"]
    <3>1. u \in Uploads
      BY <1>1, UploadSetPc DEF UploadPcs
    <3>2. up' = [up EXCEPT ![i] = u] /\ UploadOnly /\ faults' \in 0..MaxFaults /\ u.pc = "failed"
      BY <1>1, <1>4, <2>2 DEF UploadPart, Uploads
    <3> QED
      BY <3>1, <3>2, TypeOnlyUpload
  <2> QED
    BY <2>1, <2>2
<1>5. ASSUME HashDone(i) PROVE TypeInv'
  <2> DEFINE u == [up[i] EXCEPT !.pc = IF generationStillCurrent(i) THEN "meta" ELSE "retry"]
  <2>1. u \in Uploads
    BY <1>1, UploadSetPc DEF UploadPcs
  <2>2. up' = [up EXCEPT ![i] = u] /\ UploadOnly /\ faults' \in 0..MaxFaults
    BY <1>1, <1>5 DEF HashDone, UploadGoesTo
  <2>3. /\ u.pc \in {"meta", "retry"}
        /\ \A b \in 1..u.size : u.hashed[b] \in Stamps
    BY <1>1, <1>2, <1>5 DEF HashDone, Uploads, Blocks
  <2> QED
    BY <2>1, <2>2, <2>3, TypeOnlyUpload
<1>6. ASSUME BeginAttempt(i) PROVE TypeInv'
  <2>1. CASE liveUpload(up[i].size)
    <3> DEFINE u == [up[i] EXCEPT !.pc = IF generationStillCurrent(i) THEN "parts" ELSE "retry",
                                  !.parts = Unread]
    <3>1. u \in Uploads
      BY <1>1, UploadSetParts, InitialTypes DEF UploadPcs
    <3>2. /\ up' = [up EXCEPT ![i] = u] /\ UploadOnly /\ faults' \in 0..MaxFaults
          /\ u.pc \in {"parts", "retry"}
      BY <1>1, <1>6, <2>1 DEF BeginAttempt, Uploads
    <3> QED
      BY <3>1, <3>2, TypeOnlyUpload
  <2>2. CASE ~liveUpload(up[i].size)
    <3> DEFINE u == [up[i] EXCEPT !.pc = "commit", !.parts = up[i].snap]
    <3>1. u \in Uploads
      BY <1>1, <1>2, UploadSetParts DEF UploadPcs
    <3>2. up' = [up EXCEPT ![i] = u] /\ UploadOnly /\ faults' \in 0..MaxFaults
      BY <1>1, <1>6, <2>2 DEF BeginAttempt
    <3>3. u.pc = "commit" /\ \A b \in 1..u.size : u.parts[b] \in Stamps
      BY <1>1, <1>2 DEF Uploads, Blocks
    <3> QED
      BY <3>1, <3>2, <3>3, TypeOnlyUpload
  <2> QED
    BY <2>1, <2>2
<1>7. ASSUME BeforeCommit(i) PROVE TypeInv'
  <2> DEFINE u == [up[i] EXCEPT !.pc = IF generationStillCurrent(i) THEN "commit" ELSE "retry"]
  <2>1. u \in Uploads
    BY <1>1, UploadSetPc DEF UploadPcs
  <2>2. up' = [up EXCEPT ![i] = u] /\ UploadOnly /\ faults' \in 0..MaxFaults
    BY <1>1, <1>7 DEF BeforeCommit, UploadGoesTo
  <2>3. /\ u.pc \in {"commit", "retry"}
        /\ \A b \in 1..u.size : u.parts[b] \in Stamps
    BY <1>1, <1>2, <1>7 DEF BeforeCommit, Uploads, Blocks
  <2> QED
    BY <2>1, <2>2, <2>3, TypeOnlyUpload
<1>8. ASSUME UploadLost(i) PROVE TypeInv'
  <2> DEFINE u == [up[i] EXCEPT !.pc = "begin"]
  <2>1. u \in Uploads
    BY <1>1, UploadSetPc DEF UploadPcs
  <2>2. /\ up' = [up EXCEPT ![i] = u] /\ UploadOnly /\ faults' \in 0..MaxFaults
        /\ u.pc = "begin"
    BY <1>1, <1>8 DEF UploadLost, UploadGoesTo, Uploads
  <2> QED
    BY <2>1, <2>2, TypeOnlyUpload
<1> QED
  BY <1>3, <1>4, <1>5, <1>6, <1>7, <1>8

(* The object an upload makes visible. *)
LEMMA UploadedType ==
    ASSUME NEW u \in Uploads, \A b \in 1..u.size : u.parts[b] \in Stamps
    PROVE  Uploaded(u) \in Objects /\ Content(u.parts, u.size) \in Contents
<1>1. /\ u.size \in 0..NB /\ u.snap \in [Blocks -> Stamps] /\ u.upTo \in Stamps
      /\ u.meta \in 0..MaxMeta /\ u.hash \in Contents \cup {NoHash}
  BY UploadFields
<1>2. \A b \in 1..u.size : u.snap[b] \in Stamps
  BY <1>1, BoundsAssumption DEF Blocks
<1>3. Content(u.snap, u.size) \in Contents /\ Content(u.parts, u.size) \in Contents
  BY <1>1, <1>2, ContentType
<1> QED
  BY <1>1, <1>3 DEF Uploaded, Objects

(* The section that captures hash and metadata (flushStagedFileDirect) keeps the types. *)
LEMMA TypeCaptureMetadata ==
    ASSUME TypeInv, NEW i \in Ids, CaptureMetadata(i)
    PROVE  TypeInv'
<1> USE BoundsAssumption DEF TypeInv, TypeOK
<1>1. up[i] \in Uploads
  BY DEF StagedTypeOK
<1>2. up[i].size \in 0..NB /\ up[i].snap \in [Blocks -> Stamps]
  BY <1>1, UploadFields
<1>3. wantHash(up[i].size)
        => Content(IF liveUpload(up[i].size) THEN up[i].hashed ELSE up[i].snap, up[i].size)
             \in Contents
  <2>1. CASE wantHash(up[i].size) /\ liveUpload(up[i].size)
    <3>1. \A b \in 1..up[i].size : up[i].hashed[b] \in Stamps
      BY <2>1 DEF HashedBlocks, CaptureMetadata
    <3> QED
      BY <1>2, <2>1, <3>1, ContentType
  <2>2. CASE ~liveUpload(up[i].size)
    <3>1. \A b \in 1..up[i].size : up[i].snap[b] \in Stamps
      BY <1>2 DEF Blocks
    <3> QED
      BY <1>2, <2>2, <3>1, ContentType
  <2> QED
    BY <2>1, <2>2
<1>4. metaHash' \in Contents \cup {NoHash}
  BY <1>3 DEF CaptureMetadata, InodeTypeOK
<1>5. FlagsTypeOK' /\ CallsTypeOK' /\ CountersTypeOK'
  BY DEF FlagsTypeOK, CallsTypeOK, CountersTypeOK, CaptureMetadata
<1>6. InodeTypeOK'
  BY <1>4 DEF InodeTypeOK, CaptureMetadata
<1>7. [up[i] EXCEPT !.pc = "begin", !.hash = metaHash', !.meta = meta, !.hashed = Unread]
        \in Uploads
  BY <1>1, <1>4, InitialTypes DEF InodeTypeOK, Uploads, UploadPcs
<1>8. StagedTypeOK'
  BY <1>7 DEF StagedTypeOK, CaptureMetadata
<1>9. GenerationsCount' /\ HashedBlocks' /\ PartsRead'
  BY <1>1 DEF GenerationsCount, HashedBlocks, PartsRead, StagedTypeOK, CaptureMetadata, Uploads
<1> QED
  BY <1>5, <1>6, <1>8, <1>9

(* HashedBlocks and PartsRead when only the record of one upload changes. *)
LEMMA PassesKept ==
    ASSUME TypeInv, NEW i \in Ids, NEW u, up' = [up EXCEPT ![i] = u], u.pc # "meta",
           u.pc \in {"commit", "committed"} => \A b \in 1..u.size : u.parts[b] \in Stamps
    PROVE  HashedBlocks' /\ PartsRead'
  BY DEF TypeInv, TypeOK, StagedTypeOK, HashedBlocks, PartsRead

(* The commit, applied or lost. *)
LEMMA TypeCommit ==
    ASSUME TypeInv, NEW i \in Ids, CommitUpload(i) \/ UploadFails(i)
    PROVE  TypeInv'
<1> USE BoundsAssumption DEF TypeInv, TypeOK
<1>1. up[i] \in Uploads
  BY DEF StagedTypeOK
<1>2. up[i].key \in Keys
  BY <1>1, UploadFields
<1>3. up[i].pc = "commit" => Uploaded(up[i]) \in Objects
  BY <1>1, UploadedType DEF PartsRead
<1>4. /\ [up[i] EXCEPT !.pc = "committed"] \in Uploads
      /\ [up[i] EXCEPT !.pc = "failed"] \in Uploads
  BY <1>1, UploadSetPc DEF UploadPcs
<1>5. FlagsTypeOK' /\ InodeTypeOK' /\ CallsTypeOK' /\ CountersTypeOK'
  BY DEF FlagsTypeOK, InodeTypeOK, CallsTypeOK, CountersTypeOK, CommitUpload, UploadFails,
         inodeVars
<1>6. StagedTypeOK'
  BY <1>2, <1>3, <1>4 DEF StagedTypeOK, CommitUpload, UploadFails, UploadGoesTo
<1>7. GenerationsCount'
  BY DEF GenerationsCount, CommitUpload, UploadFails
<1>8. HashedBlocks' /\ PartsRead'
  <2>1. CASE CommitUpload(i)
    <3> DEFINE u == [up[i] EXCEPT !.pc = "committed"]
    <3>1. up' = [up EXCEPT ![i] = u] /\ u.pc = "committed"
      BY <1>1, <2>1 DEF CommitUpload, UploadGoesTo, Uploads
    <3>2. \A b \in 1..u.size : u.parts[b] \in Stamps
      BY <1>1, <2>1 DEF CommitUpload, PartsRead, Uploads
    <3> QED
      BY <3>1, <3>2, PassesKept
  <2>2. CASE UploadFails(i)
    <3> DEFINE u == [up[i] EXCEPT !.pc = "failed"]
    <3>1. up' = [up EXCEPT ![i] = u] /\ u.pc = "failed"
      BY <1>1, <2>2 DEF UploadFails, UploadGoesTo, Uploads
    <3> QED
      BY <3>1, PassesKept
  <2> QED
    BY <2>1, <2>2
<1> QED
  BY <1>5, <1>6, <1>7, <1>8

(* The returns of flushStagedFileDirect that keep the inode. *)
LEMMA TypeFlushEnds ==
    ASSUME TypeInv, NEW i \in Ids,
           FlushFailed(i) \/ RetryLater(i) \/ FinishFlush(i) \/ FlushReturns(i)
    PROVE  TypeInv'
<1> USE BoundsAssumption DEF TypeInv, TypeOK
<1>1. up[i] \in Uploads /\ sf[i] \in StagedFiles
  BY DEF StagedTypeOK
<1>2. /\ [up[i] EXCEPT !.pc = "retry"] \in Uploads
      /\ [up[i] EXCEPT !.pc = "done"] \in Uploads
      /\ [up[i] EXCEPT !.pc = "retry", !.err = TRUE] \in Uploads
  BY <1>1 DEF Uploads, UploadPcs
<1>3. FinishFlushed(sf[i]) \in StagedFiles /\ Cleanup(FinishFlushed(sf[i])) \in StagedFiles
  BY <1>1, CleanupType
<1>4. /\ FinishFlushed(sf[i]).generation <= clock
      /\ Cleanup(FinishFlushed(sf[i])).generation <= clock
  BY <1>1 DEF FinishFlushed, Cleanup, Unused, StagedFiles, GenerationsCount, CountersTypeOK, Stamps
<1>5. FlagsTypeOK'
  BY DEF FlagsTypeOK, FlushFailed, RetryLater, FinishFlush, FlushReturns, inodeVars
<1>6. CallsTypeOK' /\ InodeTypeOK' /\ CountersTypeOK'
  BY DEF CallsTypeOK, Syncs, InodeTypeOK, CountersTypeOK, FlushFailed, RetryLater, FinishFlush,
         FlushReturns, inodeVars
<1>7. StagedTypeOK'
  BY <1>2, <1>3, InitialTypes
     DEF StagedTypeOK, FlushFailed, RetryLater, FinishFlush, FlushReturns, UploadGoesTo
<1>8. GenerationsCount'
  BY <1>4 DEF GenerationsCount, StagedTypeOK, FlushFailed, RetryLater, FinishFlush, FlushReturns
<1>9. HashedBlocks' /\ PartsRead'
  <2>1. up' = [up EXCEPT ![i] = up'[i]]
    BY DEF StagedTypeOK, FlushFailed, RetryLater, FinishFlush, FlushReturns, UploadGoesTo
  <2>2. up'[i].pc \in {"retry", "done", "idle"}
    BY <1>1 DEF StagedTypeOK, FlushFailed, RetryLater, FinishFlush, FlushReturns, UploadGoesTo,
                Uploads, NoUpload
  <2> QED
    BY <2>1, <2>2, PassesKept
<1> QED
  BY <1>5, <1>6, <1>7, <1>8, <1>9

(* So does the section after a successful upload, whatever happened to the file meanwhile. *)
LEMMA TypeFlushComplete ==
    ASSUME TypeInv, NEW i \in Ids, FlushComplete(i)
    PROVE  TypeInv'
<1> USE BoundsAssumption DEF TypeInv, TypeOK
<1>1. up[i] \in Uploads /\ sf[i] \in StagedFiles
  BY DEF StagedTypeOK
<1>2. up[i].size \in 0..NB /\ Content(up[i].parts, up[i].size) \in Contents
  BY <1>1, UploadFields, UploadedType DEF FlushComplete, PartsRead
<1>3. \A r \in BOOLEAN :
        /\ [up[i] EXCEPT !.pc = "finishFlush"] \in Uploads
        /\ [up[i] EXCEPT !.pc = "finishFlush", !.release = r] \in Uploads
        /\ [sf[i] EXCEPT !.awaitingRemoteRename = r] \in StagedFiles
  BY <1>1 DEF Uploads, UploadPcs, StagedFiles
<1>4. FlagsTypeOK'
  BY DEF FlagsTypeOK, FlushComplete, inodeVars
<1>5. CallsTypeOK' /\ CountersTypeOK'
  BY DEF CallsTypeOK, CountersTypeOK, FlushComplete
<1>6. InodeTypeOK'
  BY <1>2 DEF InodeTypeOK, FlushComplete, inodeVars, Dead
<1>7. StagedTypeOK'
  BY <1>3 DEF StagedTypeOK, FlushComplete, UploadGoesTo, generationStillCurrent
<1>8. GenerationsCount'
  <2>1. \A j \in Ids : sf'[j].generation = sf[j].generation
    BY DEF StagedTypeOK, FlushComplete, StagedFiles
  <2> QED
    BY <2>1 DEF GenerationsCount, FlushComplete
<1>9. HashedBlocks' /\ PartsRead'
  <2>1. up' = [up EXCEPT ![i] = up'[i]]
    BY DEF StagedTypeOK, FlushComplete, UploadGoesTo
  <2>2. up'[i].pc = "finishFlush"
    BY <1>1 DEF StagedTypeOK, FlushComplete, UploadGoesTo, Uploads
  <2> QED
    BY <2>1, <2>2, PassesKept
<1> QED
  BY <1>4, <1>5, <1>6, <1>7, <1>8, <1>9

(* Steps that leave the StagedFiles, the uploads and the store alone. *)
LEMMA TypeStagedKept ==
    ASSUME TypeInv, UNCHANGED <<sf, used, up, store, clock>>
    PROVE  StagedTypeOK' /\ GenerationsCount' /\ HashedBlocks' /\ PartsRead'
  BY DEF TypeInv, TypeOK, StagedTypeOK, GenerationsCount, HashedBlocks, PartsRead

(* Steps that only move a program counter of a write, flush or sync call keep the types. *)
LEMMA TypeCalls ==
    ASSUME TypeInv,
           \/ WriteRefused \/ SetXattr \/ RenameInCache \/ StartRename \/ RenameError
           \/ RenameReturns \/ StartUpdateMeta \/ SyncBegin \/ SyncSkips \/ SyncChecksInode
           \/ SyncChecksStaged \/ SyncReturns
    PROVE  TypeInv'
<1> USE BoundsAssumption DEF TypeInv, TypeOK
<1>1. UNCHANGED <<sf, used, up, store, clock>>
  BY DEF WriteRefused, SetXattr, RenameInCache, StartRename, RenameError, RenameReturns,
         StartUpdateMeta, SyncBegin, SyncSkips, SyncChecksInode, SyncChecksStaged, SyncReturns
<1>2. FlagsTypeOK'
  BY DEF FlagsTypeOK, WriteRefused, SetXattr, RenameInCache, StartRename, RenameError,
         RenameReturns, StartUpdateMeta, SyncBegin, SyncSkips, SyncChecksInode,
         SyncChecksStaged, SyncReturns, inodeVars
<1>3. InodeTypeOK' /\ CountersTypeOK'
  BY DEF InodeTypeOK, CountersTypeOK, Keys, WriteRefused, SetXattr, RenameInCache, StartRename,
         RenameError, RenameReturns, StartUpdateMeta, SyncBegin, SyncSkips, SyncChecksInode,
         SyncChecksStaged, SyncReturns, inodeVars
<1>4. CASE WriteRefused \/ SetXattr \/ RenameInCache \/ StartRename \/ RenameError
           \/ RenameReturns \/ StartUpdateMeta
  <2>1. CallsTypeOK'
    BY <1>4 DEF CallsTypeOK, InodeTypeOK, Keys, Blocks, WriteRefused, SetXattr, RenameInCache,
                StartRename, RenameError, RenameReturns, StartUpdateMeta, NoWrite, NoRename,
                Renames, Updates, Writes
  <2> QED
    BY <1>1, <1>2, <1>3, <2>1, TypeStagedKept
<1>5. CASE SyncBegin \/ SyncSkips \/ SyncChecksInode \/ SyncChecksStaged \/ SyncReturns
  <2>1. sync \in Syncs /\ cur \in Ids \cup {0} /\ clock \in Stamps
    BY DEF CallsTypeOK, InodeTypeOK, CountersTypeOK
  <2>2. ASSUME SyncBegin \/ SyncSkips \/ SyncChecksStaged \/ SyncReturns PROVE CallsTypeOK'
    <3>1. \A pc \in {"flush", "check", "synced", "failed"} : [sync EXCEPT !.pc = pc] \in Syncs
      BY <2>1 DEF Syncs
    <3>2. [sync EXCEPT !.pc = "flush", !.stamp = clock] \in Syncs
      BY <2>1 DEF Syncs
    <3>3. NoSync \in Syncs
      BY DEF NoSync, Syncs, Stamps
    <3>4. sync' \in Syncs
      BY <2>2, <3>1, <3>2, <3>3 DEF SyncBegin, SyncSkips, SyncChecksStaged, SyncReturns
    <3> QED
      BY <2>2, <3>4 DEF CallsTypeOK, SyncBegin, SyncSkips, SyncChecksStaged, SyncReturns
  <2>3. ASSUME SyncChecksInode PROVE CallsTypeOK'
    <3>1. \A r \in BOOLEAN :
            [sync EXCEPT !.pc = "checkStaged", !.id = cur, !.renamePending = r] \in Syncs
      BY <2>1 DEF Syncs
    <3>2. (oldKey # NoKey \/ renamingTo) \in BOOLEAN
      OBVIOUS
    <3>3. [sync EXCEPT !.pc = "failed"] \in Syncs /\ [sync EXCEPT !.pc = "synced"] \in Syncs
      BY <2>1 DEF Syncs
    <3>4. sync' \in Syncs
      BY <2>3, <3>1, <3>2, <3>3 DEF SyncChecksInode
    <3> QED
      BY <2>3, <3>4 DEF CallsTypeOK, SyncChecksInode
  <2>4. CallsTypeOK'
    BY <1>5, <2>2, <2>3
  <2> QED
    BY <1>1, <1>2, <1>3, <2>4, TypeStagedKept
<1> QED
  BY <1>4, <1>5

(* getOrCreateStagedFileLocked attaches an empty StagedFile. *)
LEMMA TypeCreateStaged ==
    ASSUME TypeInv, CreateStaged, UNCHANGED <<up, store, clock>>
    PROVE  /\ StagedTypeOK' /\ GenerationsCount' /\ HashedBlocks' /\ PartsRead'
           /\ cur' \in Ids \cup {0} /\ registered' \in BOOLEAN
<1> USE BoundsAssumption DEF TypeInv, TypeOK
<1>1. used + 1 \in Ids /\ used' \in Ids /\ cur' \in Ids \cup {0}
  BY DEF CreateStaged, StagedTypeOK, Ids
<1>2. registered' \in BOOLEAN
  BY DEF CreateStaged
<1>3. StagedTypeOK'
  BY <1>1, InitialTypes DEF CreateStaged, StagedTypeOK
<1>4. GenerationsCount'
  BY <1>1 DEF CreateStaged, StagedTypeOK, GenerationsCount, CountersTypeOK, Fresh, Unused, Stamps
<1>5. HashedBlocks' /\ PartsRead'
  BY DEF HashedBlocks, PartsRead
<1> QED
  BY <1>1, <1>2, <1>3, <1>4, <1>5

(* The first half of a staged write keeps the types. *)
LEMMA TypePrepareStagedWrite ==
    ASSUME TypeInv, NEW lo \in Blocks, NEW hi \in lo..NB, PrepareStagedWrite(lo, hi)
    PROVE  TypeInv'
<1> USE BoundsAssumption DEF TypeInv, TypeOK
<1>1. /\ StagedTypeOK' /\ GenerationsCount' /\ HashedBlocks' /\ PartsRead'
      /\ cur' \in Ids \cup {0} /\ registered' \in BOOLEAN
  <2>1. CASE CreateStaged
    BY <2>1, TypeCreateStaged DEF PrepareStagedWrite
  <2>2. CASE UNCHANGED <<cur, registered, sf, used>>
    BY <2>2, TypeStagedKept DEF PrepareStagedWrite, InodeTypeOK, FlagsTypeOK
  <2> QED
    BY <2>1, <2>2 DEF PrepareStagedWrite
<1>2. FlagsTypeOK'
  BY <1>1 DEF FlagsTypeOK, PrepareStagedWrite
<1>3. InodeTypeOK' /\ CountersTypeOK'
  BY <1>1 DEF InodeTypeOK, CountersTypeOK, PrepareStagedWrite
<1>4. CallsTypeOK'
  BY DEF CallsTypeOK, PrepareStagedWrite, Writes, Blocks
<1> QED
  BY <1>1, <1>2, <1>3, <1>4

(* So does getOrCreateStagedFile, which may create the next StagedFile. *)
LEMMA TypeEnsureStaged ==
    ASSUME TypeInv, EnsureStaged
    PROVE  TypeInv'
<1> USE BoundsAssumption DEF TypeInv, TypeOK
<1>1. /\ StagedTypeOK' /\ GenerationsCount' /\ HashedBlocks' /\ PartsRead'
      /\ cur' \in Ids \cup {0} /\ registered' \in BOOLEAN
  <2>1. CASE CreateStaged
    BY <2>1, TypeCreateStaged DEF EnsureStaged
  <2>2. CASE UNCHANGED <<cur, registered, sf, used>>
    BY <2>2, TypeStagedKept DEF EnsureStaged, InodeTypeOK, FlagsTypeOK
  <2> QED
    BY <2>1, <2>2 DEF EnsureStaged
<1>2. FlagsTypeOK'
  BY <1>1 DEF FlagsTypeOK, EnsureStaged
<1>3. InodeTypeOK' /\ CountersTypeOK'
  BY <1>1 DEF InodeTypeOK, CountersTypeOK, EnsureStaged
<1>4. CallsTypeOK'
  BY DEF CallsTypeOK, EnsureStaged, Writes
<1> QED
  BY <1>1, <1>2, <1>3, <1>4

(* A write or a truncate of the attached StagedFile. *)
LEMMA TypeNextGeneration ==
    ASSUME TypeInv, cur \in Ids, clock < MaxClock, clock' = clock + 1,
           NEW d \in [Blocks -> Stamps], NEW n \in 0..NB,
           sf' = [sf EXCEPT ![cur] = NextGeneration(sf[cur], d, n)],
           UNCHANGED <<used, up, store>>
    PROVE  StagedTypeOK' /\ GenerationsCount' /\ HashedBlocks' /\ PartsRead'
<1> USE BoundsAssumption DEF TypeInv, TypeOK
<1>1. /\ sf[cur] \in StagedFiles /\ sf[cur].generation \in 0..clock
      /\ clock \in 0..MaxClock
  BY DEF StagedTypeOK, GenerationsCount, StagedFiles, CountersTypeOK, Stamps
<1>2. sf[cur].generation + 1 \in 0..MaxClock /\ sf[cur].generation + 1 <= clock + 1
  BY <1>1
<1>3. NextGeneration(sf[cur], d, n) \in StagedFiles
  BY <1>1, <1>2 DEF NextGeneration, StagedFiles
<1>4. NextGeneration(sf[cur], d, n).generation <= clock + 1
  BY <1>1, <1>2 DEF NextGeneration, StagedFiles
<1>5. StagedTypeOK'
  BY <1>3 DEF StagedTypeOK
<1>6. GenerationsCount'
  BY <1>1, <1>4 DEF GenerationsCount, StagedTypeOK, StagedFiles
<1>7. HashedBlocks' /\ PartsRead'
  BY DEF HashedBlocks, PartsRead
<1> QED
  BY <1>5, <1>6, <1>7

(* So does the write itself, which starts a new generation. *)
LEMMA TypeWriteFileStaged ==
    ASSUME TypeInv, WriteFileStaged
    PROVE  TypeInv'
<1> USE BoundsAssumption DEF TypeInv, TypeOK
<1>1. cur \in Ids /\ writer.lo \in Blocks /\ writer.hi \in 1..NB /\ clock + 1 \in Stamps
  BY DEF WriteFileStaged, Writable, InodeTypeOK, CallsTypeOK, Writes, CountersTypeOK, Stamps, Blocks
<1>2. /\ Written(sf[cur].data, writer.lo, writer.hi, clock + 1) \in [Blocks -> Stamps]
      /\ Written(file, writer.lo, writer.hi, clock + 1) \in [Blocks -> Stamps]
      /\ sf[cur].len \in 0..NB
  BY <1>1 DEF Written, StagedTypeOK, StagedFiles, CountersTypeOK
<1>3. StagedTypeOK' /\ GenerationsCount' /\ HashedBlocks' /\ PartsRead'
  <2> DEFINE d == Written(sf[cur].data, writer.lo, writer.hi, clock + 1)
             n == IF sf[cur].len < writer.hi THEN writer.hi ELSE sf[cur].len
  <2>1. /\ clock < MaxClock /\ clock' = clock + 1
        /\ sf' = [sf EXCEPT ![cur] = NextGeneration(sf[cur], d, n)]
        /\ UNCHANGED <<used, up, store>>
    BY DEF WriteFileStaged
  <2>2. d \in [Blocks -> Stamps] /\ n \in 0..NB
    BY <1>1, <1>2
  <2> HIDE DEF d, n
  <2> QED
    BY <1>1, <2>1, <2>2, TypeNextGeneration
<1>4. FlagsTypeOK' /\ CallsTypeOK'
  BY DEF FlagsTypeOK, CallsTypeOK, Writes, NoWrite, Blocks, WriteFileStaged
<1>5. InodeTypeOK' /\ CountersTypeOK'
  BY <1>1, <1>2 DEF InodeTypeOK, CountersTypeOK, WriteFileStaged
<1> QED
  BY <1>3, <1>4, <1>5

(* So does a truncate (SetAttributes), which starts one too. *)
LEMMA TypeTruncateStaged ==
    ASSUME TypeInv, NEW n \in 0..NB, TruncateStaged(n)
    PROVE  TypeInv'
<1> USE BoundsAssumption DEF TypeInv, TypeOK
<1>1. cur \in Ids /\ clock < MaxClock /\ clock + 1 \in Stamps
  BY DEF TruncateStaged, Writable, InodeTypeOK, CountersTypeOK, Stamps
<1>2. Cut(sf[cur].data, n) \in [Blocks -> Stamps] /\ Cut(file, n) \in [Blocks -> Stamps]
  BY <1>1 DEF Cut, StagedTypeOK, StagedFiles, CountersTypeOK, Stamps
<1>3. StagedTypeOK' /\ GenerationsCount' /\ HashedBlocks' /\ PartsRead'
  BY <1>1, <1>2, TypeNextGeneration DEF TruncateStaged
<1>4. FlagsTypeOK' /\ CallsTypeOK'
  BY DEF FlagsTypeOK, CallsTypeOK, TruncateStaged
<1>5. InodeTypeOK' /\ CountersTypeOK'
  BY <1>1, <1>2 DEF InodeTypeOK, CountersTypeOK, TruncateStaged
<1> QED
  BY <1>3, <1>4, <1>5

(* Dropping the attached StagedFile, as resetCache and the end of a rename do. *)
LEMMA TypeCleanup ==
    ASSUME TypeInv, cur \in Ids, sf' = [sf EXCEPT ![cur] = Cleanup(sf[cur])],
           UNCHANGED <<used, up, store, clock>>
    PROVE  StagedTypeOK' /\ GenerationsCount' /\ HashedBlocks' /\ PartsRead'
<1> USE BoundsAssumption DEF TypeInv, TypeOK
<1>1. sf[cur] \in StagedFiles /\ Cleanup(sf[cur]) \in StagedFiles
  BY CleanupType DEF StagedTypeOK
<1>2. Cleanup(sf[cur]).generation <= clock
  BY <1>1 DEF Cleanup, Unused, StagedFiles, GenerationsCount, CountersTypeOK, Stamps
<1>3. StagedTypeOK'
  BY <1>1 DEF StagedTypeOK
<1>4. GenerationsCount'
  BY <1>2 DEF GenerationsCount, StagedTypeOK
<1>5. HashedBlocks' /\ PartsRead'
  BY DEF HashedBlocks, PartsRead
<1> QED
  BY <1>3, <1>4, <1>5

(* resetCache, which unlink, conflicts and lost renames end in, keeps the types. *)
LEMMA TypeResetCache ==
    ASSUME TypeInv, NEW st \in {"CREATED", "MODIFIED", "CACHED", "DELETED", "DEAD"},
           ResetCache(st), UNCHANGED <<used, up, store, clock>>
    PROVE  /\ StagedTypeOK' /\ GenerationsCount' /\ HashedBlocks' /\ PartsRead'
           /\ cur' = 0 /\ cacheState' = st
           /\ registered' \in BOOLEAN /\ metaDirty' \in BOOLEAN
<1>1. cur' = 0 /\ cacheState' = st /\ registered' \in BOOLEAN /\ metaDirty' \in BOOLEAN
  BY DEF ResetCache
<1>2. CASE cur = 0
  BY <1>1, <1>2, TypeStagedKept DEF ResetCache
<1>3. CASE cur # 0
  <2>1. cur \in Ids /\ sf' = [sf EXCEPT ![cur] = Cleanup(sf[cur])]
    BY <1>3 DEF ResetCache, TypeInv, TypeOK, InodeTypeOK
  <2> QED
    BY <1>1, <2>1, TypeCleanup
<1> QED
  BY <1>2, <1>3

(* doUnlink keeps the types. *)
LEMMA TypeUnlink ==
    ASSUME TypeInv, Unlink
    PROVE  TypeInv'
<1> USE BoundsAssumption DEF TypeInv, TypeOK
<1>1. PICK st \in {"DEAD", "DELETED"} : ResetCache(st)
  BY DEF Unlink
<1>2. /\ StagedTypeOK' /\ GenerationsCount' /\ HashedBlocks' /\ PartsRead'
      /\ cur' = 0 /\ cacheState' = st /\ registered' \in BOOLEAN /\ metaDirty' \in BOOLEAN
  BY <1>1, TypeResetCache DEF Unlink
<1>3. FlagsTypeOK'
  BY <1>2 DEF FlagsTypeOK, Unlink
<1>4. InodeTypeOK' /\ CallsTypeOK' /\ CountersTypeOK'
  BY <1>2 DEF InodeTypeOK, CallsTypeOK, CountersTypeOK, Unlink
<1> QED
  BY <1>2, <1>3, <1>4

(* sendRename's section for a source that is gone keeps the types, on both its paths. *)
LEMMA TypeRenameSourceMissing ==
    ASSUME TypeInv, RenameSourceMissing
    PROVE  TypeInv'
<1> USE BoundsAssumption DEF TypeInv, TypeOK
<1>1. CallsTypeOK' /\ CountersTypeOK'
  BY DEF CallsTypeOK, Renames, CountersTypeOK, RenameSourceMissing
<1>2. CASE retryFromLocal
  <2>1. cur \in Ids /\ sf[cur] \in StagedFiles
    BY <1>2 DEF retryFromLocal, InodeTypeOK, StagedTypeOK
  <2>2. sf' = [sf EXCEPT ![cur].awaitingRemoteRename = FALSE]
    BY <1>2 DEF RenameSourceMissing
  <2>3. StagedTypeOK'
    BY <2>1, <2>2 DEF StagedTypeOK, StagedFiles, RenameSourceMissing
  <2>4. \A j \in Ids : sf'[j].generation = sf[j].generation
    BY <2>1, <2>2 DEF StagedTypeOK, StagedFiles
  <2>5. GenerationsCount' /\ HashedBlocks' /\ PartsRead'
    BY <2>4 DEF GenerationsCount, HashedBlocks, PartsRead, RenameSourceMissing
  <2>6. FlagsTypeOK'
    BY <1>2 DEF FlagsTypeOK, RenameSourceMissing
  <2>7. InodeTypeOK'
    BY <1>2 DEF InodeTypeOK, RenameSourceMissing
  <2> QED
    BY <1>1, <2>3, <2>5, <2>6, <2>7
<1>3. CASE ~retryFromLocal
  <2>1. /\ StagedTypeOK' /\ GenerationsCount' /\ HashedBlocks' /\ PartsRead'
        /\ cur' = 0 /\ cacheState' = "CACHED" /\ registered' \in BOOLEAN /\ metaDirty' \in BOOLEAN
    BY <1>3, TypeResetCache DEF RenameSourceMissing
  <2>2. FlagsTypeOK'
    BY <1>3, <2>1 DEF FlagsTypeOK, RenameSourceMissing
  <2>3. InodeTypeOK'
    BY <1>3, <2>1 DEF InodeTypeOK, RenameSourceMissing
  <2> QED
    BY <1>1, <2>1, <2>2, <2>3
<1> QED
  BY <1>2, <1>3

(* sendRename's section after the copy keeps the types. *)
LEMMA TypeRenameCopied ==
    ASSUME TypeInv, RenameCopied
    PROVE  TypeInv'
<1> USE BoundsAssumption DEF TypeInv, TypeOK
<1>1. StagedTypeOK' /\ GenerationsCount' /\ HashedBlocks' /\ PartsRead'
  <2>1. CASE cur # 0 /\ ~hasUnpersistedStagedFile
    <3>1. cur \in Ids /\ sf' = [sf EXCEPT ![cur] = Cleanup(sf[cur])]
      BY <2>1 DEF RenameCopied, InodeTypeOK
    <3> QED
      BY <3>1, TypeCleanup DEF RenameCopied
  <2>2. CASE ~(cur # 0 /\ ~hasUnpersistedStagedFile)
    BY <2>2, TypeStagedKept DEF RenameCopied
  <2> QED
    BY <2>1, <2>2
<1>2. FlagsTypeOK'
  BY DEF FlagsTypeOK, RenameCopied
<1>3. CallsTypeOK' /\ CountersTypeOK'
  BY DEF CallsTypeOK, Renames, CountersTypeOK, RenameCopied
<1>4. InodeTypeOK'
  BY DEF InodeTypeOK, RenameCopied
<1> QED
  BY <1>1, <1>2, <1>3, <1>4

(* Requests that touch the object store and nothing of the inode. *)
LEMMA TypeRequests ==
    ASSUME TypeInv, CopyBlob \/ DeleteOldKey \/ SelfCopy \/ \E k \in Keys : RemoteDelete(k)
    PROVE  TypeInv'
<1> USE BoundsAssumption DEF TypeInv, TypeOK
<1>1. ren.from \in Keys /\ ren.to \in Keys /\ upd.key \in Keys
      /\ upd.meta \in 0..MaxMeta /\ upd.hash \in Contents \cup {NoHash}
  BY DEF CallsTypeOK, Renames, Updates
<1>2. \A k \in Keys : store[k] \in Objects \cup {NoObject}
  BY DEF StagedTypeOK
<1>3. store[upd.key] # NoObject
        => [store[upd.key] EXCEPT !.meta = upd.meta, !.hash = upd.hash] \in Objects
  BY <1>1, <1>2 DEF Objects
<1>4. store' \in [Keys -> Objects \cup {NoObject}]
  BY <1>1, <1>2, <1>3 DEF StagedTypeOK, CopyBlob, DeleteOldKey, SelfCopy, RemoteDelete
<1>5. UNCHANGED <<inodeVars, sf, used, up, writer, sync, clock, syncs, file, sparse>>
  BY DEF CopyBlob, DeleteOldKey, SelfCopy, RemoteDelete
<1>6. StagedTypeOK' /\ GenerationsCount' /\ HashedBlocks' /\ PartsRead'
  BY <1>4, <1>5 DEF StagedTypeOK, GenerationsCount, HashedBlocks, PartsRead
<1>7. FlagsTypeOK' /\ InodeTypeOK'
  BY <1>5 DEF FlagsTypeOK, InodeTypeOK, inodeVars
<1>8. CallsTypeOK'
  BY <1>5 DEF CallsTypeOK, Renames, Updates, CopyBlob, DeleteOldKey, SelfCopy, RemoteDelete
<1>9. CountersTypeOK'
  BY <1>5 DEF CountersTypeOK, CopyBlob, DeleteOldKey, SelfCopy, RemoteDelete
<1> QED
  BY <1>6, <1>7, <1>8, <1>9

(* sendUpdateMeta's last section keeps the types, conflict included. *)
LEMMA TypeUpdateMetaReturns ==
    ASSUME TypeInv, UpdateMetaReturns
    PROVE  TypeInv'
<1> USE BoundsAssumption DEF TypeInv, TypeOK
<1>0. upd' \in Updates
  <2>1. PICK b \in BOOLEAN : upd' = [NoUpdate EXCEPT !.discarded = b]
    <3>1. (upd.discarded \/ Discards) \in BOOLEAN
      BY Zenon DEF Discards
    <3> QED
      BY <3>1 DEF UpdateMetaReturns
  <2> QED
    BY <2>1 DEF Updates, NoUpdate, Keys
<1>1. CallsTypeOK' /\ CountersTypeOK'
  BY <1>0 DEF CallsTypeOK, CountersTypeOK, UpdateMetaReturns
<1>2. CASE upd.pc = "conflict"
  <2>1. /\ StagedTypeOK' /\ GenerationsCount' /\ HashedBlocks' /\ PartsRead'
        /\ cur' = 0 /\ cacheState' = "CACHED" /\ registered' \in BOOLEAN /\ metaDirty' \in BOOLEAN
    BY <1>2, TypeResetCache DEF UpdateMetaReturns
  <2>2. FlagsTypeOK'
    BY <1>2, <2>1 DEF FlagsTypeOK, UpdateMetaReturns
  <2>3. InodeTypeOK'
    BY <1>2, <2>1 DEF InodeTypeOK, UpdateMetaReturns
  <2> QED
    BY <1>1, <2>1, <2>2, <2>3
<1>3. CASE upd.pc \in {"copied", "error"}
  <2>1. UNCHANGED <<sf, used, up, store, clock>>
    BY <1>3 DEF UpdateMetaReturns
  <2>2. StagedTypeOK' /\ GenerationsCount' /\ HashedBlocks' /\ PartsRead'
    BY <2>1, TypeStagedKept
  <2>3. FlagsTypeOK'
    BY <1>3 DEF FlagsTypeOK, UpdateMetaReturns
  <2>4. cur' = cur /\ cacheState' \in {cacheState, "CACHED"}
    <3>1. CASE upd.pc = "copied"
      BY <3>1 DEF UpdateMetaReturns
    <3>2. CASE upd.pc = "error"
      BY <3>2 DEF UpdateMetaReturns
    <3> QED
      BY <1>3, <3>1, <3>2
  <2>5. InodeTypeOK'
    BY <2>4 DEF InodeTypeOK, UpdateMetaReturns
  <2> QED
    BY <1>1, <2>2, <2>3, <2>5
<1> QED
  BY <1>2, <1>3 DEF UpdateMetaReturns

(* A flush that fsync starts keeps the types. *)
LEMMA TypeSyncUploads ==
    ASSUME TypeInv, SyncUploads
    PROVE  TypeInv'
<1>1. cur \in Ids /\ sync \in Syncs
  BY DEF TypeInv, TypeOK, InodeTypeOK, CallsTypeOK, SyncUploads
<1>2. sync' \in Syncs
  BY <1>1 DEF SyncUploads, Syncs
<1> QED
  BY <1>1, <1>2, TypeBeginFlush DEF SyncUploads

(* So does one that StagedFileFlusher starts. *)
LEMMA TypeFlusherBegins ==
    ASSUME TypeInv, NEW i \in Ids, FlusherBegins(i)
    PROVE  TypeInv'
<1>1. sync' \in Syncs
  BY DEF TypeInv, TypeOK, CallsTypeOK, FlusherBegins
<1> QED
  BY <1>1, TypeBeginFlush DEF FlusherBegins

(* The type invariant is inductive. *)
LEMMA TypeStep == TypeInv /\ [Next]_vars => TypeInv'
<1> SUFFICES ASSUME TypeInv, [Next]_vars PROVE TypeInv'
  OBVIOUS
<1>1. CASE Application
  BY <1>1, TypePrepareStagedWrite, TypeTruncateStaged, TypeCalls, TypeUnlink DEF Application
<1>2. CASE WriterStep
  BY <1>2, TypeEnsureStaged, TypeWriteFileStaged, TypeCalls DEF WriterStep
<1>3. ASSUME NEW i \in Ids, UploadStep(i) PROVE TypeInv'
  BY <1>3, TypeFlusherBegins, TypeReadAndUpload, TypeCaptureMetadata, TypeCommit, TypeFlushEnds,
     TypeFlushComplete DEF UploadStep
<1>4. CASE RenameStep
  BY <1>4, TypeCalls, TypeRequests, TypeRenameCopied, TypeRenameSourceMissing DEF RenameStep
<1>5. CASE UpdateMetaStep
  BY <1>5, TypeCalls, TypeRequests, TypeUpdateMetaReturns DEF UpdateMetaStep
<1>6. CASE SyncStep
  BY <1>6, TypeSyncUploads, TypeCalls DEF SyncStep
<1>7. CASE Remote
  BY <1>7, TypeRequests DEF Remote
<1>8. CASE UNCHANGED vars
  BY <1>8 DEF vars, inodeVars, TypeInv, TypeOK, InodeTypeOK, FlagsTypeOK, StagedTypeOK,
              CallsTypeOK, CountersTypeOK, GenerationsCount, HashedBlocks, PartsRead
<1> QED
  BY <1>1, <1>2, <1>3, <1>4, <1>5, <1>6, <1>7, <1>8 DEF Next

(* The inode, its StagedFiles and the calls on them keep their types, whatever
   the number of blocks, StagedFiles, writes and faults; in particular every
   object in the store is one the code can read back. *)
THEOREM TypeCorrect == Spec => []TypeOK
<1>1. Init => TypeInv
  BY TypeInit
<1>2. TypeInv /\ [Next]_vars => TypeInv'
  BY TypeStep
<1>3. TypeInv => TypeOK
  BY DEF TypeInv
<1> QED
  BY <1>1, <1>2, <1>3, PTL DEF Spec

-------------------------------------------------------------------------------
(* Uploads and generations *)

(* The program counters of an upload that relies on its staging file. *)
Running == {"hash", "meta", "begin", "parts", "commit", "committed", "failed", "retry",
            "finishFlush"}

(* Those of an upload that may still read it. *)
Reading == {"hash", "meta", "begin", "parts", "commit"}

(* StagedFiles are created in order, and only those that exist are uploaded. *)
CreatedInOrder == cur <= used /\ \A i \in Ids : i > used => up[i].pc = "idle"
(* The flushing mark of a running upload defers Cleanup. *)
UploadOwnsFile == \A i \in Ids : up[i].pc \in Running => sf[i].flushing /\ sf[i].fd
AttachedIsOpen == cur # 0 => sf[cur].fd /\ ~sf[cur].cleanupPending /\ registered
ReleasedIsDetached == \A i \in Ids : up[i].pc = "finishFlush" /\ up[i].release => cur # i
LifeInv == CreatedInOrder /\ UploadOwnsFile /\ AttachedIsOpen /\ ReleasedIsDetached

(* Generations only grow under a running upload, and while the generation is the
   captured one, the file and every part read from it are the captured ones. *)
GenerationsGrow == \A i \in Ids : up[i].pc \in Running => up[i].generation <= sf[i].generation
FileIsSnapshot ==
    \A i \in Ids : up[i].pc \in Reading /\ generationStillCurrent(i)
                    => sf[i].data = up[i].snap
PartsOfSnapshot ==
    \A i \in Ids : up[i].pc = "parts" /\ generationStillCurrent(i)
                    => \A b \in Blocks : up[i].parts[b] \in {NoPart, up[i].snap[b]}
CommitsSnapshot ==
    \A i \in Ids : up[i].pc = "commit"
                    => \A b \in 1..up[i].size : up[i].parts[b] = up[i].snap[b]
GenerationInv ==
    GenerationsGrow /\ FileIsSnapshot /\ PartsOfSnapshot /\ CommitsSnapshot /\ OneGeneration

-------------------------------------------------------------------------------
(* The life of a staging file *)

(* No StagedFile exists at first. *)
LEMMA LifeInit == Init => LifeInv
<1> SUFFICES ASSUME Init PROVE LifeInv
  OBVIOUS
<1>1. \A i \in Ids : up[i].pc = "idle"
  BY DEF Init, NoUpload
<1>2. UploadOwnsFile /\ ReleasedIsDetached
  BY <1>1 DEF UploadOwnsFile, ReleasedIsDetached, Running
<1>3. CreatedInOrder
  BY <1>1 DEF CreatedInOrder, Init
<1>4. AttachedIsOpen
  <2>1. cur # 0 => cur = 1 /\ registered /\ sf = [i \in Ids |-> IF i = 1 THEN Fresh ELSE Unused]
    BY DEF Init
  <2>2. 1 \in Ids
    BY BoundsAssumption DEF Ids
  <2>3. Fresh.fd /\ ~Fresh.cleanupPending
    BY DEF Fresh, Unused
  <2> QED
    BY <2>1, <2>2, <2>3 DEF AttachedIsOpen
<1> QED
  BY <1>2, <1>3, <1>4 DEF LifeInv

(* Steps that leave the StagedFiles and the uploads alone keep their lives in order. *)
LEMMA LifeKept ==
    ASSUME LifeInv, UNCHANGED <<cur, registered, sf, used, up>>
    PROVE  LifeInv'
  BY DEF LifeInv, CreatedInOrder, UploadOwnsFile, AttachedIsOpen, ReleasedIsDetached

(* An upload that goes on. *)
LEMMA LifeOnlyUpload ==
    ASSUME TypeOK, LifeInv, NEW i \in Ids, up[i].pc \in Running,
           UNCHANGED <<cur, registered, sf, used>>,
           NEW u, up' = [up EXCEPT ![i] = u], u.pc \in Running, u.pc # "finishFlush"
    PROVE  LifeInv'
<1>1. up \in [Ids -> Uploads]
  BY DEF TypeOK, StagedTypeOK
<1>2. ~(i > used)
  BY DEF LifeInv, CreatedInOrder, Running
<1> QED
  BY <1>1, <1>2 DEF LifeInv, CreatedInOrder, UploadOwnsFile, AttachedIsOpen, ReleasedIsDetached

(* So do steps of an upload that leave its StagedFile alone. *)
LEMMA LifeUploadGoesOn ==
    ASSUME TypeOK, LifeInv, NEW i \in Ids,
           \/ \E b \in Blocks : HashBlock(i, b) \/ UploadPart(i, b)
           \/ HashDone(i) \/ CaptureMetadata(i) \/ BeginAttempt(i) \/ BeforeCommit(i)
           \/ CommitUpload(i) \/ UploadLost(i) \/ UploadFails(i) \/ FlushFailed(i)
    PROVE  LifeInv'
<1>1. up \in [Ids -> Uploads] /\ up[i] \in Uploads
  BY DEF TypeOK, StagedTypeOK
<1>2. UNCHANGED <<cur, registered, sf, used>> /\ up[i].pc \in Running
  BY DEF HashBlock, UploadPart, HashDone, CaptureMetadata, BeginAttempt, BeforeCommit, Running,
         CommitUpload, UploadLost, UploadFails, FlushFailed, UploadOnly, inodeVars
<1>3. up' = [up EXCEPT ![i] = up'[i]]
  BY <1>1 DEF HashBlock, UploadPart, HashDone, CaptureMetadata, BeginAttempt, BeforeCommit,
         CommitUpload, UploadLost, UploadFails, FlushFailed, UploadGoesTo
<1>4. up'[i].pc \in Running /\ up'[i].pc # "finishFlush"
  BY <1>1 DEF HashBlock, UploadPart, HashDone, CaptureMetadata, BeginAttempt, BeforeCommit, Running,
         CommitUpload, UploadLost, UploadFails, FlushFailed, UploadGoesTo, Uploads
<1> QED
  BY <1>2, <1>3, <1>4, LifeOnlyUpload

(* A flush that begins (flushStagedFileDirect) owns the attached StagedFile. *)
LEMMA LifeBeginFlush ==
    ASSUME TypeOK, LifeInv, NEW i \in Ids, BeginFlush(i)
    PROVE  LifeInv'
<1>1. up \in [Ids -> Uploads] /\ sf \in [Ids -> StagedFiles] /\ used \in Ids
  BY DEF TypeOK, StagedTypeOK
<1>2. cur = i /\ sf[i].fd /\ UNCHANGED <<cur, registered, used>>
  BY DEF BeginFlush, Flushable
<1>3. up'[i].pc \in {"hash", "meta"} /\ \A j \in Ids \ {i} : up'[j] = up[j]
  BY <1>1 DEF BeginFlush, NoUpload
<1>4. /\ sf'[i].flushing /\ sf'[i].fd /\ sf'[i].cleanupPending = sf[i].cleanupPending
      /\ \A j \in Ids \ {i} : sf'[j] = sf[j]
  BY <1>1, <1>2 DEF BeginFlush, StagedFiles
<1>5. CreatedInOrder'
  BY <1>1, <1>2, <1>3 DEF LifeInv, CreatedInOrder, Ids
<1>6. UploadOwnsFile' /\ AttachedIsOpen'
  BY <1>2, <1>3, <1>4 DEF LifeInv, UploadOwnsFile, AttachedIsOpen, Running
<1>7. ReleasedIsDetached'
  BY <1>2, <1>3 DEF LifeInv, ReleasedIsDetached
<1> QED
  BY <1>5, <1>6, <1>7 DEF LifeInv

(* FinishFlush(true) on the early returns, and FinishFlush after the commit. *)
LEMMA LifeFinishFlush ==
    ASSUME TypeOK, LifeInv, NEW i \in Ids, RetryLater(i) \/ FinishFlush(i)
    PROVE  LifeInv'
<1>1. /\ up \in [Ids -> Uploads] /\ sf \in [Ids -> StagedFiles] /\ used \in Ids
      /\ up[i] \in Uploads /\ sf[i] \in StagedFiles
  BY DEF TypeOK, StagedTypeOK
<1>2. UNCHANGED <<cur, registered, used>> /\ up[i].pc \in {"retry", "finishFlush"}
  BY DEF RetryLater, FinishFlush, inodeVars
<1>3. up'[i].pc = "done" /\ \A j \in Ids \ {i} : up'[j] = up[j]
  BY <1>1 DEF RetryLater, FinishFlush, UploadGoesTo, Uploads
<1>4. \A j \in Ids \ {i} : sf'[j] = sf[j]
  BY <1>1 DEF RetryLater, FinishFlush
<1>5. CreatedInOrder'
  BY <1>1, <1>2, <1>3 DEF LifeInv, CreatedInOrder
<1>6. UploadOwnsFile'
  BY <1>2, <1>3, <1>4 DEF LifeInv, UploadOwnsFile, Running
<1>7. ReleasedIsDetached'
  BY <1>2, <1>3 DEF LifeInv, ReleasedIsDetached
<1>8. AttachedIsOpen'
  <2>1. CASE cur = i
    <3>1. sf[i].fd /\ ~sf[i].cleanupPending /\ registered
      BY <1>1, <2>1 DEF LifeInv, AttachedIsOpen, Ids
    <3>2. ~(up[i].pc = "finishFlush" /\ up[i].release)
      BY <2>1 DEF LifeInv, ReleasedIsDetached
    <3>3. sf'[i] = FinishFlushed(sf[i])
      BY <1>1, <3>2 DEF RetryLater, FinishFlush
    <3>4. sf'[i] = [sf[i] EXCEPT !.flushing = FALSE]
      BY <1>1, <3>1, <3>3 DEF FinishFlushed, StagedFiles
    <3>5. sf'[i].fd /\ ~sf'[i].cleanupPending
      BY <1>1, <3>1, <3>4 DEF StagedFiles
    <3> QED
      BY <1>2, <2>1, <3>1, <3>5 DEF AttachedIsOpen
  <2>2. CASE cur # i
    <3>1. cur \in Ids \cup {0}
      BY DEF TypeOK, InodeTypeOK
    <3> QED
      BY <1>2, <1>4, <2>2, <3>1 DEF LifeInv, AttachedIsOpen
  <2> QED
    BY <2>1, <2>2
<1> QED
  BY <1>5, <1>6, <1>7, <1>8 DEF LifeInv

(* A flush that returns gives the StagedFile back, and finishes a cleanup that waited for it. *)
LEMMA LifeFlushReturns ==
    ASSUME TypeOK, LifeInv, NEW i \in Ids, FlushReturns(i)
    PROVE  LifeInv'
<1>1. up \in [Ids -> Uploads]
  BY DEF TypeOK, StagedTypeOK
<1>2. UNCHANGED <<cur, registered, sf, used>>
  BY DEF FlushReturns
<1>3. up'[i].pc = "idle" /\ \A j \in Ids \ {i} : up'[j] = up[j]
  BY <1>1 DEF FlushReturns, NoUpload
<1> QED
  BY <1>2, <1>3
     DEF LifeInv, CreatedInOrder, UploadOwnsFile, AttachedIsOpen, ReleasedIsDetached, Running

(* A successful upload detaches the StagedFile it uploaded, or leaves it for the next generation. *)
LEMMA LifeFlushComplete ==
    ASSUME TypeOK, LifeInv, NEW i \in Ids, FlushComplete(i)
    PROVE  LifeInv'
<1>1. /\ up \in [Ids -> Uploads] /\ sf \in [Ids -> StagedFiles] /\ used \in Ids
      /\ up[i] \in Uploads /\ sf[i] \in StagedFiles /\ cur \in Ids \cup {0}
  BY DEF TypeOK, StagedTypeOK, InodeTypeOK
<1>2. used' = used /\ up[i].pc = "committed"
  BY DEF FlushComplete
<1>3. up'[i].pc = "finishFlush" /\ \A j \in Ids \ {i} : up'[j] = up[j]
  BY <1>1 DEF FlushComplete, UploadGoesTo, Uploads
<1>4. \A j \in Ids : /\ sf'[j].fd = sf[j].fd /\ sf'[j].flushing = sf[j].flushing
                     /\ sf'[j].cleanupPending = sf[j].cleanupPending
  <2>1. CASE cur = i
    <3>1. sf' = [sf EXCEPT ![i].awaitingRemoteRename = ~ ~generationStillCurrent(i) /\ oldKey # NoKey]
      BY <2>1 DEF FlushComplete
    <3> QED
      BY <1>1, <3>1 DEF StagedFiles
  <2>2. CASE cur # i
    BY <2>2 DEF FlushComplete
  <2> QED
    BY <2>1, <2>2
<1>5. cur' \in {0, cur}
  BY DEF FlushComplete, inodeVars
<1>6. CreatedInOrder'
  BY <1>1, <1>2, <1>3, <1>5 DEF LifeInv, CreatedInOrder, Ids
<1>7. UploadOwnsFile'
  BY <1>2, <1>3, <1>4 DEF LifeInv, UploadOwnsFile, Running
<1>8. cur' # 0 => (registered' <=> registered)
  BY DEF FlushComplete, inodeVars
<1>9. AttachedIsOpen'
  BY <1>1, <1>4, <1>5, <1>8 DEF LifeInv, AttachedIsOpen
<1>10. up'[i].release => cur' # i
  <2>1. CASE cur # i
    BY <1>5, <2>1, <1>1 DEF Ids
  <2>2. CASE cur = i
    BY <1>1, <2>2 DEF FlushComplete, Uploads, Ids
  <2> QED
    BY <2>1, <2>2
<1>11. ReleasedIsDetached'
  BY <1>1, <1>3, <1>5, <1>10 DEF LifeInv, ReleasedIsDetached, Ids
<1> QED
  BY <1>6, <1>7, <1>9, <1>11 DEF LifeInv

(* A StagedFile is created for the inode. *)
LEMMA LifeCreateStaged ==
    ASSUME TypeOK, LifeInv, CreateStaged, UNCHANGED up
    PROVE  LifeInv'
<1>1. /\ sf \in [Ids -> StagedFiles] /\ used \in Ids
      /\ used + 1 \in Ids /\ cur' = used + 1 /\ used' = used + 1
  BY BoundsAssumption DEF TypeOK, StagedTypeOK, CreateStaged, Ids
<1>2. /\ sf'[used + 1] = Fresh /\ \A j \in Ids \ {used + 1} : sf'[j] = sf[j]
      /\ registered'
  BY <1>1 DEF CreateStaged
<1>3. up[used + 1].pc = "idle"
  BY <1>1 DEF LifeInv, CreatedInOrder, Ids
<1>4. CreatedInOrder'
  BY <1>1 DEF LifeInv, CreatedInOrder, Ids
<1>5. UploadOwnsFile'
  BY <1>2, <1>3 DEF LifeInv, UploadOwnsFile, Running
<1>6. Fresh.fd /\ ~Fresh.cleanupPending
  BY DEF Fresh, Unused
<1>7. AttachedIsOpen'
  BY <1>1, <1>2, <1>6 DEF AttachedIsOpen
<1>8. ReleasedIsDetached'
  BY <1>1, <1>3 DEF ReleasedIsDetached
<1> QED
  BY <1>4, <1>5, <1>7, <1>8 DEF LifeInv

(* A change of the attached StagedFile that keeps it open. *)
LEMMA LifeChangeStaged ==
    ASSUME TypeOK, LifeInv, cur \in Ids, NEW t \in StagedFiles, sf' = [sf EXCEPT ![cur] = t],
           t.fd = sf[cur].fd, t.flushing = sf[cur].flushing,
           t.cleanupPending = sf[cur].cleanupPending,
           UNCHANGED <<cur, registered, used, up>>
    PROVE  LifeInv'
<1>1. \A j \in Ids : /\ sf'[j].fd = sf[j].fd /\ sf'[j].flushing = sf[j].flushing
                     /\ sf'[j].cleanupPending = sf[j].cleanupPending
  BY DEF TypeOK, StagedTypeOK
<1> QED
  BY <1>1 DEF LifeInv, CreatedInOrder, UploadOwnsFile, AttachedIsOpen, ReleasedIsDetached

(* The attached StagedFile is dropped: an upload that reads it keeps it open. *)
LEMMA LifeDropStaged ==
    ASSUME TypeOK, LifeInv, cur \in Ids, sf' = [sf EXCEPT ![cur] = Cleanup(sf[cur])],
           cur' = 0, UNCHANGED <<used, up>>
    PROVE  LifeInv'
<1>1. sf \in [Ids -> StagedFiles] /\ sf[cur] \in StagedFiles /\ used \in Ids
  BY DEF TypeOK, StagedTypeOK
<1>2. up[cur].pc \in Running => sf'[cur].flushing /\ sf'[cur].fd
  <2>1. SUFFICES ASSUME up[cur].pc \in Running PROVE sf'[cur].flushing /\ sf'[cur].fd
    OBVIOUS
  <2>2. sf[cur].flushing /\ sf[cur].fd
    BY <2>1 DEF LifeInv, UploadOwnsFile
  <2>3. sf'[cur] = [sf[cur] EXCEPT !.cleanupPending = TRUE]
    BY <1>1, <2>2 DEF Cleanup
  <2> QED
    BY <1>1, <2>2, <2>3 DEF StagedFiles
<1>3. UploadOwnsFile'
  BY <1>1, <1>2 DEF LifeInv, UploadOwnsFile
<1>4. CreatedInOrder'
  BY <1>1 DEF LifeInv, CreatedInOrder, Ids
<1>5. AttachedIsOpen' /\ ReleasedIsDetached'
  BY DEF AttachedIsOpen, ReleasedIsDetached, Ids
<1> QED
  BY <1>3, <1>4, <1>5 DEF LifeInv

(* resetCache detaches the StagedFile and closes it only if no upload reads it. *)
LEMMA LifeResetCache ==
    ASSUME TypeOK, LifeInv, NEW st, ResetCache(st), UNCHANGED <<used, up>>
    PROVE  LifeInv'
<1>1. CASE cur = 0
  BY <1>1 DEF ResetCache, LifeInv, CreatedInOrder, UploadOwnsFile, AttachedIsOpen,
              ReleasedIsDetached, Ids
<1>2. CASE cur # 0
  <2>1. cur \in Ids /\ cur' = 0 /\ sf' = [sf EXCEPT ![cur] = Cleanup(sf[cur])]
    BY <1>2 DEF ResetCache, TypeOK, InodeTypeOK
  <2> QED
    BY <2>1, LifeDropStaged
<1> QED
  BY <1>1, <1>2

(* The steps of the application and of sendRename and sendUpdateMeta. *)
LEMMA LifeWrite ==
    ASSUME TypeOK, TypeOK', LifeInv,
           WriteFileStaged \/ \E n \in 0..NB : TruncateStaged(n)
    PROVE  LifeInv'
<1>1. cur \in Ids /\ sf \in [Ids -> StagedFiles] /\ sf[cur] \in StagedFiles
  BY DEF TypeOK, InodeTypeOK, StagedTypeOK, WriteFileStaged, TruncateStaged, Writable
<1>2. UNCHANGED <<cur, registered, used, up>>
  BY DEF WriteFileStaged, TruncateStaged
<1>3. PICK d, n : sf' = [sf EXCEPT ![cur] = NextGeneration(sf[cur], d, n)]
  BY DEF WriteFileStaged, TruncateStaged
<1>4. sf'[cur] = NextGeneration(sf[cur], d, n) /\ NextGeneration(sf[cur], d, n) \in StagedFiles
  BY <1>1, <1>3 DEF TypeOK, StagedTypeOK
<1>5. /\ NextGeneration(sf[cur], d, n).fd = sf[cur].fd
      /\ NextGeneration(sf[cur], d, n).flushing = sf[cur].flushing
      /\ NextGeneration(sf[cur], d, n).cleanupPending = sf[cur].cleanupPending
  BY <1>1 DEF NextGeneration, StagedFiles
<1> QED
  BY <1>1, <1>2, <1>3, <1>4, <1>5, LifeChangeStaged

(* The sections of sendRename detach only a StagedFile that was uploaded. *)
LEMMA LifeRename ==
    ASSUME TypeOK, LifeInv, RenameStep
    PROVE  LifeInv'
<1>1. CASE StartRename \/ CopyBlob \/ DeleteOldKey \/ RenameError \/ RenameReturns
  BY <1>1, LifeKept
     DEF StartRename, CopyBlob, DeleteOldKey, RenameError, RenameReturns, inodeVars
<1>2. CASE RenameCopied
  <2>1. CASE cur # 0 /\ ~hasUnpersistedStagedFile
    <3>1. cur \in Ids /\ cur' = 0 /\ sf' = [sf EXCEPT ![cur] = Cleanup(sf[cur])]
      BY <1>2, <2>1 DEF RenameCopied, TypeOK, InodeTypeOK
    <3> QED
      BY <1>2, <3>1, LifeDropStaged DEF RenameCopied
  <2>2. CASE ~(cur # 0 /\ ~hasUnpersistedStagedFile)
    <3>1. sf' = sf /\ cur' = cur /\ registered' = (registered /\ TRUE)
      BY <1>2, <2>2 DEF RenameCopied
    <3> QED
      BY <1>2, <3>1 DEF RenameCopied, LifeInv, CreatedInOrder, UploadOwnsFile, AttachedIsOpen,
                        ReleasedIsDetached
  <2> QED
    BY <2>1, <2>2
<1>3. CASE RenameSourceMissing
  <2>1. CASE retryFromLocal
    <3>1. /\ cur \in Ids /\ sf[cur] \in StagedFiles
          /\ [sf[cur] EXCEPT !.awaitingRemoteRename = FALSE] \in StagedFiles
      BY <2>1 DEF retryFromLocal, TypeOK, InodeTypeOK, StagedTypeOK, StagedFiles
    <3>2. /\ sf' = [sf EXCEPT ![cur] = [sf[cur] EXCEPT !.awaitingRemoteRename = FALSE]]
          /\ UNCHANGED <<cur, registered, used, up>>
      BY <1>3, <2>1 DEF RenameSourceMissing
    <3>3. /\ [sf[cur] EXCEPT !.awaitingRemoteRename = FALSE].fd = sf[cur].fd
          /\ [sf[cur] EXCEPT !.awaitingRemoteRename = FALSE].flushing = sf[cur].flushing
          /\ [sf[cur] EXCEPT !.awaitingRemoteRename = FALSE].cleanupPending
               = sf[cur].cleanupPending
      BY <3>1 DEF StagedFiles
    <3> QED
      BY <3>1, <3>2, <3>3, LifeChangeStaged
  <2>2. CASE ~retryFromLocal
    BY <1>3, <2>2, LifeResetCache DEF RenameSourceMissing
  <2> QED
    BY <2>1, <2>2
<1> QED
  BY <1>1, <1>2, <1>3 DEF RenameStep

(* The invariant of a StagedFile's life is inductive. *)
LEMMA LifeStep == TypeOK /\ TypeOK' /\ LifeInv /\ [Next]_vars => LifeInv'
<1> SUFFICES ASSUME TypeOK, TypeOK', LifeInv, [Next]_vars PROVE LifeInv'
  OBVIOUS
<1>1. CASE Application
  <2>1. ASSUME NEW lo \in Blocks, NEW hi \in lo..NB, PrepareStagedWrite(lo, hi) PROVE LifeInv'
    BY <2>1, LifeCreateStaged, LifeKept DEF PrepareStagedWrite
  <2>2. CASE SetXattr \/ RenameInCache \/ SyncBegin
    BY <2>2, LifeKept DEF SetXattr, RenameInCache, SyncBegin, inodeVars
  <2>3. CASE Unlink
    BY <2>3, LifeResetCache DEF Unlink
  <2> QED
    BY <1>1, <2>1, <2>2, <2>3, LifeWrite DEF Application
<1>2. CASE WriterStep
  <2>1. CASE EnsureStaged
    BY <2>1, LifeCreateStaged, LifeKept DEF EnsureStaged
  <2>2. CASE WriteRefused
    BY <2>2, LifeKept DEF WriteRefused, inodeVars
  <2> QED
    BY <1>2, <2>1, <2>2, LifeWrite DEF WriterStep
<1>3. ASSUME NEW i \in Ids, UploadStep(i) PROVE LifeInv'
  <2>1. CASE FlusherBegins(i)
    BY <2>1, LifeBeginFlush DEF FlusherBegins
  <2> QED
    BY <1>3, <2>1, LifeUploadGoesOn, LifeFinishFlush, LifeFlushReturns, LifeFlushComplete
       DEF UploadStep
<1>4. CASE RenameStep
  BY <1>4, LifeRename
<1>5. CASE UpdateMetaStep
  <2>1. CASE StartUpdateMeta \/ SelfCopy
    BY <2>1, LifeKept DEF StartUpdateMeta, SelfCopy, inodeVars
  <2>2. CASE UpdateMetaReturns
    <3>1. CASE upd.pc = "conflict"
      BY <2>2, <3>1, LifeResetCache DEF UpdateMetaReturns
    <3>2. CASE upd.pc = "copied"
      BY <2>2, <3>2, LifeKept DEF UpdateMetaReturns
    <3>3. CASE upd.pc = "error"
      BY <2>2, <3>3, LifeKept DEF UpdateMetaReturns
    <3> QED
      BY <2>2, <3>1, <3>2, <3>3 DEF UpdateMetaReturns
  <2> QED
    BY <1>5, <2>1, <2>2 DEF UpdateMetaStep
<1>6. CASE SyncStep
  <2>1. CASE SyncUploads
    <3>1. cur \in Ids /\ BeginFlush(cur)
      BY <2>1 DEF SyncUploads, TypeOK, InodeTypeOK
    <3> QED
      BY <3>1, LifeBeginFlush
  <2>2. CASE SyncSkips
    <3>1. UNCHANGED <<cur, sf, used, up>> /\ (cur = 0 \/ registered' = registered)
      BY <2>2 DEF SyncSkips
    <3> QED
      BY <3>1 DEF LifeInv, CreatedInOrder, UploadOwnsFile, AttachedIsOpen, ReleasedIsDetached
  <2>3. CASE SyncChecksInode \/ SyncChecksStaged \/ SyncReturns
    BY <2>3, LifeKept DEF SyncChecksInode, SyncChecksStaged, SyncReturns, inodeVars
  <2> QED
    BY <1>6, <2>1, <2>2, <2>3 DEF SyncStep
<1>7. CASE Remote
  BY <1>7, LifeKept DEF Remote, RemoteDelete, inodeVars
<1>8. CASE UNCHANGED vars
  BY <1>8, LifeKept DEF vars, inodeVars
<1> QED
  BY <1>1, <1>2, <1>3, <1>4, <1>5, <1>6, <1>7, <1>8 DEF Next

(* flushStagedFileDirect reads the staging file without a lock for as long as an
   upload takes.  StagedFile.Cleanup, called by unlink, by the end of a rename
   and by a conflict, never removes the file under it; and the file attached to
   the inode is open and registered with the flusher. *)
THEOREM UploadsOwnTheirFile == Spec => []NoUseAfterCleanup
<1>1. Init => TypeInv /\ LifeInv
  BY TypeInit, LifeInit
<1>2. TypeInv /\ LifeInv /\ [Next]_vars => TypeInv' /\ LifeInv'
  BY TypeStep, LifeStep DEF TypeInv
<1>3. LifeInv => NoUseAfterCleanup
  BY DEF LifeInv, UploadOwnsFile, AttachedIsOpen, NoUseAfterCleanup, Running
<1> QED
  BY <1>1, <1>2, <1>3, PTL DEF Spec

-------------------------------------------------------------------------------
(* One generation per object *)

(* Nothing was read and nothing uploaded at first. *)
LEMMA GenerationInit == Init => GenerationInv
<1> SUFFICES ASSUME Init PROVE GenerationInv
  OBVIOUS
<1>1. \A i \in Ids : up[i].pc = "idle"
  BY DEF Init, NoUpload
<1>2. OneGeneration
  BY DEF Init, OneGeneration
<1> QED
  BY <1>1, <1>2 DEF GenerationInv, GenerationsGrow, FileIsSnapshot, PartsOfSnapshot,
                    CommitsSnapshot, Running, Reading

(* The StagedFiles change while the uploads do not: a file an upload reads keeps
   its bytes, or its generation grows. *)
LEMMA GenerationStagedChange ==
    ASSUME TypeOK, TypeOK', GenerationInv, UNCHANGED <<up, store>>,
           \A i \in Ids : up[i].pc \in Running =>
              \/ sf'[i].generation = sf[i].generation /\ sf'[i].data = sf[i].data
              \/ sf'[i].generation > sf[i].generation
    PROVE  GenerationInv'
<1>1. \A i \in Ids : /\ sf[i].generation \in Int /\ sf'[i].generation \in Int
                     /\ up[i].generation \in Int
  BY BoundsAssumption DEF TypeOK, StagedTypeOK, StagedFiles, Uploads
<1>2. GenerationsGrow'
  BY <1>1 DEF GenerationInv, GenerationsGrow
<1>3. \A i \in Ids : up[i].pc \in Running /\ sf'[i].generation = up'[i].generation
                      => sf[i].generation = up[i].generation /\ sf'[i].data = sf[i].data
  BY <1>1 DEF GenerationInv, GenerationsGrow
<1>4. FileIsSnapshot' /\ PartsOfSnapshot'
  BY <1>3 DEF GenerationInv, FileIsSnapshot, PartsOfSnapshot, generationStillCurrent, Running, Reading
<1>5. CommitsSnapshot' /\ OneGeneration'
  BY DEF GenerationInv, CommitsSnapshot, OneGeneration
<1> QED
  BY <1>2, <1>4, <1>5 DEF GenerationInv

(* Steps that leave the contents, the uploads and the objects alone keep the generations apart. *)
LEMMA GenerationKept ==
    ASSUME TypeOK, TypeOK', GenerationInv, UNCHANGED <<sf, up, store>>
    PROVE  GenerationInv'
  BY GenerationStagedChange

(* One upload moves while the bytes and generations stay. *)
LEMMA GenerationUploadChange ==
    ASSUME TypeOK, GenerationInv, NEW i \in Ids, OneGeneration',
           \A j \in Ids \ {i} : up'[j] = up[j],
           \A j \in Ids : up[j].pc \in Running /\ up'[j].pc \in Running
              => sf'[j].generation = sf[j].generation /\ sf'[j].data = sf[j].data,
           up'[i].pc \in Running => up'[i].generation <= sf'[i].generation,
           up'[i].pc \in Reading /\ sf'[i].generation = up'[i].generation
              => sf'[i].data = up'[i].snap,
           up'[i].pc = "parts" /\ sf'[i].generation = up'[i].generation
              => \A b \in Blocks : up'[i].parts[b] \in {NoPart, up'[i].snap[b]},
           up'[i].pc = "commit" => \A b \in 1..up'[i].size : up'[i].parts[b] = up'[i].snap[b]
    PROVE  GenerationInv'
<1>1. GenerationsGrow'
  BY DEF GenerationInv, GenerationsGrow
<1>2. FileIsSnapshot'
  BY DEF GenerationInv, FileIsSnapshot, generationStillCurrent, Running, Reading
<1>3. PartsOfSnapshot'
  BY DEF GenerationInv, PartsOfSnapshot, generationStillCurrent, Running
<1>4. CommitsSnapshot'
  BY DEF GenerationInv, CommitsSnapshot
<1> QED
  BY <1>1, <1>2, <1>3, <1>4 DEF GenerationInv

(* A flush captures the generation and the content it has, in one critical section. *)
LEMMA GenerationBeginFlush ==
    ASSUME TypeOK, GenerationInv, NEW i \in Ids, BeginFlush(i)
    PROVE  GenerationInv'
<1>1. /\ up \in [Ids -> Uploads] /\ sf \in [Ids -> StagedFiles]
      /\ sf[i] \in StagedFiles /\ sf[i].generation \in Int
  BY BoundsAssumption DEF TypeOK, StagedTypeOK, StagedFiles
<1>2. /\ up'[i].pc \in {"hash", "meta"} /\ up'[i].generation = sf[i].generation
      /\ up'[i].snap = sf[i].data /\ \A j \in Ids \ {i} : up'[j] = up[j]
  BY <1>1 DEF BeginFlush, NoUpload
<1>3. \A j \in Ids : sf'[j].generation = sf[j].generation /\ sf'[j].data = sf[j].data
  BY <1>1 DEF BeginFlush, StagedFiles
<1>4. OneGeneration'
  BY DEF GenerationInv, OneGeneration, BeginFlush
<1> QED
  BY <1>1, <1>2, <1>3, <1>4, GenerationUploadChange

(* The reading steps: what is read is the captured file as long as its
   generation is the captured one. *)
LEMMA GenerationReads ==
    ASSUME TypeOK, GenerationInv, NEW i \in Ids,
           \/ \E b \in Blocks : HashBlock(i, b)
           \/ HashDone(i) \/ CaptureMetadata(i) \/ BeginAttempt(i) \/ UploadLost(i)
           \/ FlushFailed(i)
    PROVE  GenerationInv'
<1>1. up \in [Ids -> Uploads] /\ up[i] \in Uploads
  BY DEF TypeOK, StagedTypeOK
<1>2. sf' = sf /\ store' = store
  BY DEF HashBlock, HashDone, CaptureMetadata, BeginAttempt, UploadLost, FlushFailed, UploadOnly
<1>3. /\ \A j \in Ids \ {i} : up'[j] = up[j]
      /\ up'[i].generation = up[i].generation /\ up'[i].snap = up[i].snap
      /\ up'[i].size = up[i].size
  BY <1>1 DEF HashBlock, HashDone, CaptureMetadata, BeginAttempt, UploadLost, FlushFailed,
              UploadGoesTo, Uploads
<1>4. up[i].pc \in Running /\ up'[i].pc \in Running
  BY <1>1 DEF HashBlock, HashDone, CaptureMetadata, BeginAttempt, UploadLost, FlushFailed,
              UploadGoesTo, Uploads, Running
<1>5. up'[i].pc \in Reading /\ sf[i].generation = up[i].generation
        => sf[i].data = up[i].snap
  <2>1. CASE up[i].pc \in Reading
    BY <2>1 DEF GenerationInv, FileIsSnapshot, generationStillCurrent
  <2>2. CASE up[i].pc \notin Reading
    BY <1>1, <2>2 DEF HashBlock, HashDone, CaptureMetadata, BeginAttempt, UploadLost, FlushFailed,
              UploadGoesTo, Uploads, Reading
  <2> QED
    BY <2>1, <2>2
<1>6. up'[i].pc = "parts" => up'[i].parts = Unread
  BY <1>1 DEF HashBlock, HashDone, CaptureMetadata, BeginAttempt, UploadLost, FlushFailed,
              UploadGoesTo, Uploads
<1>7. up'[i].pc = "commit" => up'[i].parts = up[i].snap
  BY <1>1 DEF HashBlock, HashDone, CaptureMetadata, BeginAttempt, UploadLost, FlushFailed,
              UploadGoesTo, Uploads
<1>8. up[i].generation <= sf[i].generation
  BY <1>4 DEF GenerationInv, GenerationsGrow
<1>9. \A b \in Blocks : Unread[b] = NoPart
  BY DEF Unread
<1>10. OneGeneration'
  BY <1>2 DEF GenerationInv, OneGeneration
<1> QED
  BY <1>2, <1>3, <1>4, <1>5, <1>6, <1>7, <1>8, <1>9, <1>10, GenerationUploadChange

(* A part read while the generation is the captured one is a part of the captured content. *)
LEMMA GenerationUploadPart ==
    ASSUME TypeOK, GenerationInv, NEW i \in Ids, NEW b \in Blocks, UploadPart(i, b)
    PROVE  GenerationInv'
<1>1. /\ up \in [Ids -> Uploads] /\ up[i] \in Uploads
      /\ up[i].parts \in [Blocks -> Stamps \cup {NoPart}]
  BY UploadFields DEF TypeOK, StagedTypeOK
<1>2. sf' = sf /\ store' = store /\ up[i].pc = "parts"
  BY DEF UploadPart, UploadOnly
<1>3. /\ \A j \in Ids \ {i} : up'[j] = up[j]
      /\ up'[i].generation = up[i].generation /\ up'[i].snap = up[i].snap
      /\ up'[i].pc \in {"parts", "failed"}
  BY <1>1 DEF UploadPart, Uploads
<1>4. up'[i].pc = "parts" => \A c \in Blocks :
        up'[i].parts[c] = IF c = b THEN sf[i].data[b] ELSE up[i].parts[c]
  BY <1>1 DEF UploadPart, Uploads
<1>5. /\ up[i].generation <= sf[i].generation
      /\ sf[i].generation = up[i].generation => sf[i].data = up[i].snap
      /\ sf[i].generation = up[i].generation
           => \A c \in Blocks : up[i].parts[c] \in {NoPart, up[i].snap[c]}
  BY <1>2 DEF GenerationInv, GenerationsGrow, FileIsSnapshot, PartsOfSnapshot,
              generationStillCurrent, Running, Reading
<1>6. OneGeneration'
  BY <1>2 DEF GenerationInv, OneGeneration
<1> QED
  BY <1>2, <1>3, <1>4, <1>5, <1>6, GenerationUploadChange DEF Running, Reading

(* beforeCommit: the generation did not change while the parts were read. *)
LEMMA GenerationBeforeCommit ==
    ASSUME TypeOK, GenerationInv, NEW i \in Ids, BeforeCommit(i)
    PROVE  GenerationInv'
<1>1. up \in [Ids -> Uploads] /\ up[i] \in Uploads /\ up[i].size \in 0..NB
  BY UploadFields DEF TypeOK, StagedTypeOK
<1>2. sf' = sf /\ store' = store /\ up[i].pc = "parts"
  BY DEF BeforeCommit, UploadOnly
<1>3. /\ \A j \in Ids \ {i} : up'[j] = up[j]
      /\ up'[i].generation = up[i].generation /\ up'[i].snap = up[i].snap
      /\ up'[i].size = up[i].size /\ up'[i].parts = up[i].parts
      /\ up'[i].pc \in {"commit", "retry"}
  BY <1>1 DEF BeforeCommit, UploadGoesTo, Uploads
<1>4. up'[i].pc = "commit" => generationStillCurrent(i)
  BY <1>1 DEF BeforeCommit, UploadGoesTo, Uploads
<1>5. /\ up[i].generation <= sf[i].generation
      /\ generationStillCurrent(i) => sf[i].data = up[i].snap
      /\ generationStillCurrent(i)
           => \A c \in Blocks : up[i].parts[c] \in {NoPart, up[i].snap[c]}
  BY <1>2 DEF GenerationInv, GenerationsGrow, FileIsSnapshot, PartsOfSnapshot, Running, Reading
<1>6. generationStillCurrent(i) => \A c \in 1..up[i].size : up[i].parts[c] = up[i].snap[c]
  BY <1>1, <1>5, BoundsAssumption DEF BeforeCommit, Blocks
<1>7. OneGeneration'
  BY <1>2 DEF GenerationInv, OneGeneration
<1> QED
  BY <1>2, <1>3, <1>4, <1>5, <1>6, <1>7, GenerationUploadChange
     DEF Running, Reading, generationStillCurrent

(* The commit makes the parts visible. *)
LEMMA GenerationCommit ==
    ASSUME TypeOK, GenerationInv, NEW i \in Ids, CommitUpload(i) \/ UploadFails(i)
    PROVE  GenerationInv'
<1>1. /\ up \in [Ids -> Uploads] /\ up[i] \in Uploads /\ up[i].key \in Keys
      /\ store \in [Keys -> Objects \cup {NoObject}]
  BY UploadFields DEF TypeOK, StagedTypeOK
<1>2. up[i].pc = "commit" => Uploaded(up[i]).data = Uploaded(up[i]).snap
  BY DEF GenerationInv, CommitsSnapshot, Uploaded, Content
<1>3. OneGeneration'
  <2>1. \A k \in Keys : \/ store'[k] = store[k]
                        \/ up[i].pc = "commit" /\ store'[k] = Uploaded(up[i])
    BY <1>1 DEF CommitUpload, UploadFails
  <2> QED
    BY <1>2, <2>1 DEF GenerationInv, OneGeneration
<1>4. /\ sf' = sf /\ \A j \in Ids \ {i} : up'[j] = up[j]
      /\ up'[i].generation = up[i].generation
      /\ up[i].pc \in {"parts", "commit"} /\ up'[i].pc \in {"committed", "failed"}
  BY <1>1 DEF CommitUpload, UploadFails, UploadGoesTo, Uploads
<1>5. up[i].generation <= sf[i].generation
  BY <1>4 DEF GenerationInv, GenerationsGrow, Running
<1> QED
  BY <1>3, <1>4, <1>5, GenerationUploadChange DEF Reading

(* The ends of an upload. *)
LEMMA GenerationFlushEnds ==
    ASSUME TypeOK, GenerationInv, NEW i \in Ids,
           RetryLater(i) \/ FinishFlush(i) \/ FlushReturns(i) \/ FlushComplete(i)
    PROVE  GenerationInv'
<1>1. /\ up \in [Ids -> Uploads] /\ up[i] \in Uploads
      /\ sf \in [Ids -> StagedFiles] /\ sf[i] \in StagedFiles
  BY DEF TypeOK, StagedTypeOK
<1>2. OneGeneration'
  BY DEF GenerationInv, OneGeneration, RetryLater, FinishFlush, FlushReturns, FlushComplete
<1>3. \A j \in Ids \ {i} : up'[j] = up[j]
  BY <1>1 DEF RetryLater, FinishFlush, FlushReturns, FlushComplete, UploadGoesTo
<1>4. CASE RetryLater(i) \/ FinishFlush(i) \/ FlushReturns(i)
  <2>1. up'[i].pc \in {"done", "idle"}
    BY <1>1, <1>4 DEF RetryLater, FinishFlush, FlushReturns, UploadGoesTo, Uploads, NoUpload
  <2>2. \A j \in Ids \ {i} : sf'[j] = sf[j]
    BY <1>1, <1>4 DEF RetryLater, FinishFlush, FlushReturns
  <2> QED
    BY <1>2, <1>3, <2>1, <2>2, GenerationUploadChange DEF Running, Reading
<1>5. CASE FlushComplete(i)
  <2>1. up'[i].pc = "finishFlush" /\ up'[i].generation = up[i].generation /\ up[i].pc = "committed"
    BY <1>1, <1>5 DEF FlushComplete, UploadGoesTo, Uploads
  <2>2. \A j \in Ids : sf'[j].generation = sf[j].generation /\ sf'[j].data = sf[j].data
    <3>1. CASE cur = i
      <4>1. sf' = [sf EXCEPT ![i].awaitingRemoteRename =
                       ~ ~generationStillCurrent(i) /\ oldKey # NoKey]
        BY <1>5, <3>1 DEF FlushComplete
      <4> QED
        BY <1>1, <4>1 DEF StagedFiles
    <3>2. CASE cur # i
      BY <1>5, <3>2 DEF FlushComplete
    <3> QED
      BY <3>1, <3>2
  <2>3. up[i].generation <= sf[i].generation
    BY <2>1 DEF GenerationInv, GenerationsGrow, Running
  <2> QED
    BY <1>2, <1>3, <2>1, <2>2, <2>3, GenerationUploadChange DEF Reading
<1> QED
  BY <1>4, <1>5

(* The object store is changed by requests that are not uploads. *)
LEMMA GenerationRequests ==
    ASSUME TypeOK, TypeOK', GenerationInv,
           CopyBlob \/ DeleteOldKey \/ SelfCopy \/ \E k \in Keys : RemoteDelete(k)
    PROVE  GenerationInv'
<1>1. /\ store \in [Keys -> Objects \cup {NoObject}]
      /\ ren.from \in Keys /\ ren.to \in Keys /\ upd.key \in Keys
  BY DEF TypeOK, StagedTypeOK, CallsTypeOK, Renames, Updates
<1>2. UNCHANGED <<sf, up>>
  BY DEF CopyBlob, DeleteOldKey, SelfCopy, RemoteDelete
<1>3. OneGeneration'
  <2>1. ASSUME CopyBlob \/ DeleteOldKey \/ \E k \in Keys : RemoteDelete(k) PROVE OneGeneration'
    BY <1>1, <2>1 DEF GenerationInv, OneGeneration, CopyBlob, DeleteOldKey, RemoteDelete
  <2>2. ASSUME SelfCopy PROVE OneGeneration'
    <3>1. store[upd.key] # NoObject
            => LET o == [store[upd.key] EXCEPT !.meta = upd.meta, !.hash = upd.hash]
               IN  o.data = store[upd.key].data /\ o.snap = store[upd.key].snap
      BY <1>1 DEF Objects
    <3>2. \A k \in Keys :
            \/ store'[k] = store[k]
            \/ /\ store[upd.key] # NoObject /\ k = upd.key
               /\ store'[k] = [store[upd.key] EXCEPT !.meta = upd.meta, !.hash = upd.hash]
      BY <1>1, <2>2 DEF SelfCopy
    <3> QED
      BY <1>1, <3>1, <3>2 DEF GenerationInv, OneGeneration
  <2> QED
    BY <2>1, <2>2
<1> QED
  BY <1>2, <1>3 DEF GenerationInv, GenerationsGrow, FileIsSnapshot, PartsOfSnapshot,
                    CommitsSnapshot, generationStillCurrent

(* The steps that change, create or drop the attached StagedFile. *)
LEMMA GenerationCreateStaged ==
    ASSUME TypeOK, TypeOK', LifeInv, GenerationInv, CreateStaged, UNCHANGED <<up, store>>
    PROVE  GenerationInv'
<1>1. used + 1 \in Ids /\ up[used + 1].pc = "idle"
  BY BoundsAssumption DEF TypeOK, StagedTypeOK, CreateStaged, Ids, LifeInv, CreatedInOrder
<1>2. \A i \in Ids : up[i].pc \in Running => sf'[i] = sf[i]
  BY <1>1 DEF CreateStaged, TypeOK, StagedTypeOK, Running
<1> QED
  BY <1>2, GenerationStagedChange

(* A write or truncate starts a generation that no running upload captured. *)
LEMMA GenerationWrite ==
    ASSUME TypeOK, TypeOK', GenerationInv, WriteFileStaged \/ \E n \in 0..NB : TruncateStaged(n)
    PROVE  GenerationInv'
<1>1. /\ cur \in Ids /\ sf \in [Ids -> StagedFiles] /\ sf[cur] \in StagedFiles
      /\ sf[cur].generation \in Int
  BY BoundsAssumption
     DEF TypeOK, InodeTypeOK, StagedTypeOK, StagedFiles, WriteFileStaged, TruncateStaged, Writable
<1>2. PICK d, n : sf' = [sf EXCEPT ![cur] = NextGeneration(sf[cur], d, n)]
  BY DEF WriteFileStaged, TruncateStaged
<1>3. NextGeneration(sf[cur], d, n).generation = sf[cur].generation + 1
  BY <1>1 DEF NextGeneration, StagedFiles
<1>4. \A i \in Ids : sf'[i] = sf[i] \/ sf'[i].generation > sf[i].generation
  BY <1>1, <1>2, <1>3
<1>5. UNCHANGED <<up, store>>
  BY DEF WriteFileStaged, TruncateStaged
<1> QED
  BY <1>4, <1>5, GenerationStagedChange

(* Cleanup leaves the bytes to the upload that reads them. *)
LEMMA GenerationDropStaged ==
    ASSUME TypeOK, TypeOK', LifeInv, GenerationInv, cur \in Ids,
           sf' = [sf EXCEPT ![cur] = Cleanup(sf[cur])], UNCHANGED <<up, store>>
    PROVE  GenerationInv'
<1>1. sf \in [Ids -> StagedFiles] /\ sf[cur] \in StagedFiles
  BY DEF TypeOK, StagedTypeOK
<1>2. ASSUME up[cur].pc \in Running
      PROVE  sf'[cur].generation = sf[cur].generation /\ sf'[cur].data = sf[cur].data
  <2>1. sf[cur].flushing /\ sf[cur].fd
    BY <1>2 DEF LifeInv, UploadOwnsFile
  <2>2. sf'[cur] = [sf[cur] EXCEPT !.cleanupPending = TRUE]
    BY <1>1, <2>1 DEF Cleanup
  <2> QED
    BY <1>1, <2>2 DEF StagedFiles
<1>3. \A i \in Ids : up[i].pc \in Running =>
        sf'[i].generation = sf[i].generation /\ sf'[i].data = sf[i].data
  BY <1>1, <1>2
<1> QED
  BY <1>3, GenerationStagedChange

(* resetCache changes no content and no object. *)
LEMMA GenerationResetCache ==
    ASSUME TypeOK, TypeOK', LifeInv, GenerationInv, NEW st, ResetCache(st), UNCHANGED <<up, store>>
    PROVE  GenerationInv'
<1>1. CASE cur = 0
  BY <1>1, GenerationKept DEF ResetCache
<1>2. CASE cur # 0
  <2>1. cur \in Ids /\ sf' = [sf EXCEPT ![cur] = Cleanup(sf[cur])]
    BY <1>2 DEF ResetCache, TypeOK, InodeTypeOK
  <2> QED
    BY <2>1, GenerationDropStaged
<1> QED
  BY <1>1, <1>2

(* Copies and deletes of a rename move objects that were committed before. *)
LEMMA GenerationRename ==
    ASSUME TypeOK, TypeOK', LifeInv, GenerationInv, RenameStep
    PROVE  GenerationInv'
<1>1. CASE StartRename \/ RenameError \/ RenameReturns
  BY <1>1, GenerationKept DEF StartRename, RenameError, RenameReturns
<1>2. CASE CopyBlob \/ DeleteOldKey
  BY <1>2, GenerationRequests
<1>3. CASE RenameCopied
  <2>1. CASE cur # 0 /\ ~hasUnpersistedStagedFile
    <3>1. cur \in Ids /\ sf' = [sf EXCEPT ![cur] = Cleanup(sf[cur])]
      BY <1>3, <2>1 DEF RenameCopied, TypeOK, InodeTypeOK
    <3> QED
      BY <1>3, <3>1, GenerationDropStaged DEF RenameCopied
  <2>2. CASE ~(cur # 0 /\ ~hasUnpersistedStagedFile)
    BY <1>3, <2>2, GenerationKept DEF RenameCopied
  <2> QED
    BY <2>1, <2>2
<1>4. CASE RenameSourceMissing
  <2>1. CASE retryFromLocal
    <3>1. /\ sf \in [Ids -> StagedFiles]
          /\ sf' = [sf EXCEPT ![cur].awaitingRemoteRename = FALSE] /\ UNCHANGED <<up, store>>
      BY <1>4, <2>1 DEF RenameSourceMissing, TypeOK, StagedTypeOK
    <3>2. \A i \in Ids : sf'[i].generation = sf[i].generation /\ sf'[i].data = sf[i].data
      BY <3>1 DEF StagedFiles
    <3> QED
      BY <3>1, <3>2, GenerationStagedChange
  <2>2. CASE ~retryFromLocal
    BY <1>4, <2>2, GenerationResetCache DEF RenameSourceMissing
  <2> QED
    BY <2>1, <2>2
<1> QED
  BY <1>1, <1>2, <1>3, <1>4 DEF RenameStep

(* The invariant of the generations is inductive, given the types and the lives. *)
LEMMA GenerationStep ==
    TypeOK /\ TypeOK' /\ LifeInv /\ GenerationInv /\ [Next]_vars => GenerationInv'
<1> SUFFICES ASSUME TypeOK, TypeOK', LifeInv, GenerationInv, [Next]_vars PROVE GenerationInv'
  OBVIOUS
<1>1. CASE Application
  <2>1. ASSUME NEW lo \in Blocks, NEW hi \in lo..NB, PrepareStagedWrite(lo, hi)
        PROVE  GenerationInv'
    BY <2>1, GenerationCreateStaged, GenerationKept DEF PrepareStagedWrite
  <2>2. CASE SetXattr \/ RenameInCache \/ SyncBegin
    BY <2>2, GenerationKept DEF SetXattr, RenameInCache, SyncBegin
  <2>3. CASE Unlink
    BY <2>3, GenerationResetCache DEF Unlink
  <2> QED
    BY <1>1, <2>1, <2>2, <2>3, GenerationWrite DEF Application
<1>2. CASE WriterStep
  <2>1. CASE EnsureStaged
    BY <2>1, GenerationCreateStaged, GenerationKept DEF EnsureStaged
  <2>2. CASE WriteRefused
    BY <2>2, GenerationKept DEF WriteRefused
  <2> QED
    BY <1>2, <2>1, <2>2, GenerationWrite DEF WriterStep
<1>3. ASSUME NEW i \in Ids, UploadStep(i) PROVE GenerationInv'
  <2>1. CASE FlusherBegins(i)
    BY <2>1, GenerationBeginFlush DEF FlusherBegins
  <2> QED
    BY <1>3, <2>1, GenerationReads, GenerationUploadPart, GenerationBeforeCommit,
       GenerationCommit, GenerationFlushEnds DEF UploadStep
<1>4. CASE RenameStep
  BY <1>4, GenerationRename
<1>5. CASE UpdateMetaStep
  <2>1. CASE StartUpdateMeta
    BY <2>1, GenerationKept DEF StartUpdateMeta
  <2>2. CASE UpdateMetaReturns
    <3>1. CASE upd.pc = "conflict"
      BY <2>2, <3>1, GenerationResetCache DEF UpdateMetaReturns
    <3>2. CASE upd.pc = "copied"
      BY <2>2, <3>2, GenerationKept DEF UpdateMetaReturns
    <3>3. CASE upd.pc = "error"
      BY <2>2, <3>3, GenerationKept DEF UpdateMetaReturns
    <3> QED
      BY <2>2, <3>1, <3>2, <3>3 DEF UpdateMetaReturns
  <2> QED
    BY <1>5, <2>1, <2>2, GenerationRequests DEF UpdateMetaStep
<1>6. CASE SyncStep
  <2>1. CASE SyncUploads
    <3>1. cur \in Ids /\ BeginFlush(cur)
      BY <2>1 DEF SyncUploads, TypeOK, InodeTypeOK
    <3> QED
      BY <3>1, GenerationBeginFlush
  <2>2. CASE SyncSkips \/ SyncChecksInode \/ SyncChecksStaged \/ SyncReturns
    BY <2>2, GenerationKept DEF SyncSkips, SyncChecksInode, SyncChecksStaged, SyncReturns
  <2> QED
    BY <1>6, <2>1, <2>2 DEF SyncStep
<1>7. CASE Remote
  BY <1>7, GenerationRequests DEF Remote
<1>8. CASE UNCHANGED vars
  BY <1>8, GenerationKept DEF vars
<1> QED
  BY <1>1, <1>2, <1>3, <1>4, <1>5, <1>6, <1>7, <1>8 DEF Next

(* Every object a staged upload makes visible is exactly one generation of the
   staged file, although a large file is read part by part while it is being
   written: the comparison of generations in beforeCommit is enough. *)
THEOREM ObjectsAreGenerations == Spec => []OneGeneration
<1>1. Init => TypeInv /\ LifeInv /\ GenerationInv
  BY TypeInit, LifeInit, GenerationInit
<1>2. TypeInv /\ LifeInv /\ GenerationInv /\ [Next]_vars
        => TypeInv' /\ LifeInv' /\ GenerationInv'
  BY TypeStep, LifeStep, GenerationStep DEF TypeInv
<1>3. GenerationInv => OneGeneration
  BY DEF GenerationInv
<1> QED
  BY <1>1, <1>2, <1>3, PTL DEF Spec
===============================================================================
