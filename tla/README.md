# A TLA+ model of GeeseFS

GeeseFS mounts an S3 bucket as a POSIX file system.  Writes are answered from
memory or from a local staging file and reach the object store later, from
goroutines that run while the application goes on writing, truncating, renaming
and unlinking the same files.  The hard part of the program is that asynchrony:
what is acknowledged must be stored in the end, under the right key, exactly as
it was at one instant, although every request takes time, may fail, and may be
answered after the world has changed.  This directory holds TLA+ modules of that
part, TLC configurations that check them on small instances, and TLAPS proofs of
theorems about them for every instance.

## The system and its parts

| Component (source) | State | Operations | What is hard | Correct when |
|---|---|---|---|---|
| Staged writes (`handles.go`, `file.go`, `goofys.go`) | the inode's `StagedFile`: descriptor, generation, `flushing`, `cleanupPending`, `awaitingRemoteRename` | `prepareStagedWrite`, `WriteFileStaged`, `ResizeStagedUnlocked`, `flushStagedFileDirect`, `syncStagedFile` | the file is uploaded while it is written; it may be unlinked, renamed or cleaned up under the upload | an object is exactly one generation; nothing is released before it is stored; fsync means durable |
| Asynchronous rename (`dir.go`, `file.go`) | `oldParent`, `oldName`, `renamingTo`, `DeletedChildren` | `renameInCache`, `sendRename`, `SendDelete` | copy and delete are two requests, later renames and new files reuse the names meanwhile | each file ends up under its last name, and no file is deleted in another's place |
| Buffered writes (`file.go`) | `buffers`, `mpu`, `IsFlushing`, `knownSize`, `knownETag` | `WriteFile`, `sendUpload`, `flushSmallObject`, `flushPart`, `completeMultipart`, `ResizeUnlocked` | parts are uploaded while new writes dirty them again | the committed object is the logical file at some instant; dirty data is never marked clean |
| BufferList (`buffer_list.go`) | intervals with state, `dirtyID`, `dirtyParts` | `Add`, `RemoveRange`, `ZeroRange`, `SetState`, `SetFlushedClean`, ... | splitting, counters kept by hand | agrees with a map from offset to byte and state |
| Buffer pool and eviction (`buffer_pool.go`, `goofys.go`) | `cur`, `limit`, the clean-buffer queue | `Use`, `FreeSomeCleanBuffers` | writers wait for the flusher, the flusher needs memory | no deadlock, accounting is exact |
| Reads (`file.go`) | loading buffers, `readRanges`, `readError` | `LoadRange`, `retryRead`, `sendRead` | requests answered after writes and truncates | a read returns the file as of some instant |
| Directory cache (`dir.go`, `goofys.go`) | `Children`, `DeletedChildren`, `DirTime`, `listMarker`, `lastFromCloud`, `inflightChanges`, `inflightListings`, positions of handles | `loadListing`, `listObjectsSlurp`, `listObjectsFlat`, `removeExpired`, `LookUp`, `EvictEntry` | a page or HEAD is applied after local changes it does not show; positions move while a directory is read | a listing never revives what was deleted nor loses what was created; readdir returns every file once; a trusted directory shows the bucket |
| Metadata (`file.go`, `handles.go`) | `userMetadata`, `userMetadataDirty` | `SetXattr`, `sendUpdateMeta` | a conditional copy raced by uploads | an update is published in the end and never attached to other bytes |
| External content cache, lazy reads | claims, pages, stages | `CacheFileInExternalCache`, `recordLazyRead`, ... | at most one store per content | a hash describes its content |
| Cluster mode (`cluster_*.go`) | `owner`, `ownerTerm`, `readyOwner` of each copy of an inode, its references and handles | `route`, `trySteal`, `tryYield`, `applyStolenInode`, the two phases of lookup, create and unlink, `ForgetInode2` | an inode moves between nodes while requests for it are on their way; answers are lost or overtaken | at most one owner; the nodes together behave as one inode |
| Backends, FUSE and Windows front ends, configuration, generated and vendored code | none of their own that matters here | dispatch and encoding | | |

How they interact: FUSE calls change the directory cache and the inodes under
`Inode.mu` and return; the flusher (`Goofys.Flusher`, `StagedFileFlusher`) picks
dirty inodes and starts goroutines that send requests without holding a lock and
take it again for the answer.  Every module below is built from those units: **one
action is one critical section or one request.**

## Modules

| Module | What it models |
|---|---|
| `StagedFile` | one file in staged-write mode, its StagedFiles, their uploads, a rename, an unlink, metadata updates and fsync |
| `Rename` | a namespace of files, the flusher, PUT, asynchronous rename and delete, names that are used again |
| `FileFlush` | one file on the buffered path: writes, truncates, reads, eviction, the single PUT and the multipart upload, conflicts, an upload that vanishes |
| `DirListing` | one directory of files: readers, lookups, the pages and HEADs they wait for, local changes and what they mask, expiry, eviction, another client |
| `SharedInode` | the abstract specification of cluster mode: one inode on which every operation acts in one step |
| `Cluster` | several nodes with copies of one directory and one file: routing, stealing and yielding, lookups and references, failed requests; implements `SharedInode` |
| `MCStagedFile`, `MCRename`, `MCFileFlush`, `MCDirListing`, `MCCluster` | the instances of the `.cfg` files |
| `StagedFileProofs` | types, `NoUseAfterCleanup` and `OneGeneration` of `StagedFile` |
| `StagedReleaseProofs` | `ReleasedIsStored`, `HashDescribesObject`, `SyncDurable` and `NoStaleOverwrite` of `StagedFile` |
| `RenameProofs` | consistency of the directory cache in `Rename`; `CleanIsStored`, `SettledIsStored`, `NoForeignDelete`, `NoUploadOverDeleted` and `ModifiedSettles` |
| `FileFlushProofs` | types, `FlushedIsUploaded`, `ReadsSeeWrites`, `SyncedIsStored` and `CommitIsInstant` of `FileFlush` |
| `DirListingProofs` | types, `OwnView`, `NothingVanishes` and `TrustedIsFresh` of `DirListing` |
| `ClusterProofs` | `OneOwner` and `TermsLead` of `Cluster` |
| `ClusterReferenceProofs` | `RefsConserved`, `HandlesServed` and `NoPanic` of `Cluster` |
| `ClusterRefinementProofs` | `Cluster` implements `SharedInode` (`ActsAsOneInode`) |

**StagedFile.** Variables follow the code's structures: `sf` holds the `StagedFile`
records (`fd`, `generation`, `flushing`, `cleanupPending`, `awaitingRemoteRename`)
with their content, one timestamp per block; `cur` is `inode.StagedFile`; `up` is
`flushStagedFileDirect` for each StagedFile as a state machine over its critical
sections and requests; `writer`, `ren`, `upd` and `sync` are a write, `sendRename`,
`sendUpdateMeta` and an fsync in progress.  Bytes are abstracted to the time of
their last write, a hash to the content it was computed from; both are compared,
never computed.  `upd.discarded` remembers that a metadata conflict discarded a staged
file.

**Rename.** `ino` are the inodes with `Parent`/`Name` as a path, `oldParent`/`oldName`
as `old`, and `renamingTo`; `child`, `deleted` and `modified` are `Children`,
`DeletedChildren` and `ModifiedChildren` of the directories; `look` is `TryFlush`
between its two critical sections; `job[i]` is the goroutine that flushes inode `i`
and `job[-i]` the upload of its StagedFile, `IsFlushing` being non-zero when one of
them runs.  The content of a file is the inode that wrote it and a version.  A
request that fails may have taken effect.  An object store may refuse to copy an
object onto itself; both outcomes are allowed.  When the copy of a rename finds no object the
code gives the file up in three critical sections (`RenameMissing`, `RenameUnlinks`,
`RenameFrees`); `ino[i].dropped` remembers it.

**FileFlush.** The file is `NP` parts of `PartBlocks` blocks.  `buf[b]` is what
`inode.buffers` says of a block: nothing, loading, clean, dirty, flushed; `fly` says
that the flush in flight captured its current `dirtyID`, so that a write, a split or an
append makes the answer miss it.  `job` is the goroutine that counts
`MaxParallelParts` in `IsFlushing` (`flushSmallObject`, `beginMultipartUpload`,
`completeMultipart`), `pjob[p]` is `flushPart`, `get[b]` a `retryRead` (one at a time
per block), `parts` is `mpu.Parts`.  An ETag is the content it stands for.  `lost`
remembers that `resetCache` discarded local changes and the attributes were not read
again, `leaked` the ranges that a finished flush left locked, `job.want` the file at
the moment the flusher decided to complete the upload.  `late` remembers that a body was
loaded which an answer had made old: an upload of newer bytes of its block was answered
while the GET was outstanding (`get[b].old`).  `Pressure` switches `wantFree` and eviction
on.

**DirListing.** Names are numbers in the order of the store, a content stands for its
ETag and size.  `child[n]` is the inode in `Children` (`fresh`: `AttrTime` not before
`refreshStartTime`), `deleted` is `DeletedChildren`, `dir` holds `listMarker`,
`lastFromCloud`, `listDone`, whether `DirTime` is within the TTL, and
`forgetDuringList`.  `handle[r]` is a `DirHandle` with its thread's place in `ReadDir`
and `loadListing`; `idx` is the position among the sorted children, -1 once an
insertion or a removal has invalidated it.  `request[p]` is a listing or a HEAD: it is
sent with the mask of `addInflightListing`, the store answers it from the bucket of
that moment, and a third step applies it under the directory's lock
(`Slurped`, `Listed`, `LookUpSlurped`, `LookUpReturns`).  `put` and `del` are
`flushSmallObject` and `SendDelete` with the same three steps; `addInflightChange`
adds their name to every mask, and an upload leaves `inflightChanges` (`PutUnmasks`) before
the inode learns its ETag (`PutReturns`).  `Own` names are changed by this mount, `Remote` ones by
another client.  Four ghosts serve the properties.  `quiet` are the remote names left alone
since a refresh began with no request on its way, or since the mount: an older request may
still bring an older version.  `handle.must` are the files that a reader has to return: this
mount's and the quiet ones at opendir, less those unlinked or changed since.  `handle.got`
are the names it returned and that have not left and come back.  `handle.whole` says whether
the reader met the complete directory before it passed `lastFromCloud` (`Met`).

`races` is a history variable: it collects which of six kinds of timing have happened under
which the code does not keep these properties.  No step is barred; each property says which
of them it excuses (`OwnView` the first four, `FileRaces`; the others all six).

| Race | What happens | Property it breaks |
|---|---|---|
| `recreated` | a name is created again before the DELETE of the old file is on its way, and a page or HEAD shows the old object | `OwnView` (`RecreatedIsShown`, run `dir_recreated`) |
| `lostAnswer` | a PUT is stored, its answer lost, the next listing shows an unknown ETag (two writes) | `OwnView`, handles.go:417 |
| `earlyUnmask` | a listing or HEAD is sent after an upload has left `inflightChanges` and before its ETag is noted; a write made during the PUT is taken for a conflict and discarded (two writes) | `OwnView`, file.go:2487 |
| `failedLookup` | the HEAD for a cached entry fails; `recheckInode` drops the inode while the directory stays trusted | `NothingVanishes`, dir.go:1947 |
| `evictedListing` | entries of a half-read listing are evicted, and the next reader continues that listing behind them and seals it | `NothingVanishes`, goofys.go:1656 |
| `overlappingRefresh` | a second reader starts a refresh while the first one's page is on its way: `refreshStartTime` moves past what the page loads (two readers) | `NothingVanishes`, dir.go:662 |

**Cluster and SharedInode.** Every node has a copy of the directory and of the file:
`own[i][n]` is `owner`, `ownerTerm` and `readyOwner`, `body[n]` the file's inode
(`known`: in `fs.inodes`), `handles` its `fileHandles`, `linked` and `deleted` the
entry of the directory.  `kref`, `fhAt` and `dhAt` are what a node's kernel holds:
lookups it has not forgotten, the nodes that serve its handles.  `op[t]` is one
operation of one thread: it routes (`Route`), runs where it is owned (`Exec`), is sent
to the owner (`ServeCall`), or asks for the inode (`TryStealInodeOwnership`,
`ApplySteal`); each answer is applied in a step of its own (`ApplyReply`).  The second
phase of lookup, create and unlink, which works on the file at the owner of the
directory, is the same frame with `nested` set; it keeps the directory's lock.  `Fail`
is a request that fails or meets a dead node: where the code goes on with a nil answer
or without its lock the process ends, elsewhere the node unmounts and has the others
unmount (`Join`) before it exits (`Exit`).
`unlink` and the request handlers compare `owner` only and do not wait for `readyOwner`, and
the root, whose copies `NewClusterGoofys` marks ready on every node (`Root`), has nothing to
wait for.  So a node that has learned that it is the next owner may work on its old copy
while the answer that carries the inode is still on its way.  The history variable `early`
remembers that this has happened (`Relies`, `Hears`); nothing bars it, and the properties
say what holds in every behaviour up to it.

`SharedInode` has no nodes: one reference count, one count of handles, one value, and
one action per operation.  `Cluster!ActsAsOneInode` is its specification under a
refinement mapping that takes the inode from its owner or from the answer that carries
it.  A lost answer loses the inode for good (`Lose`), and then nothing acts on a copy.

## Runs

Runs that pass:

| Run | What it shows |
|---|---|
| `staged_upload` | Writes, truncates, a rename, an unlink, uploads that fail or whose answer is lost: an object is exactly one generation (`OneGeneration`), its hash is that of its bytes (`HashDescribesObject`), no upload reads a closed file (`NoUseAfterCleanup`), a StagedFile is released only when its last generation is stored (`ReleasedIsStored`), an upload never replaces a newer one (`NoStaleOverwrite`), and every generation is stored under the final name in the end (`EventuallyPersisted`) |
| `staged_sync` | fsync returns only when what was written before it is stored (`SyncDurable`) |
| `staged_meta` | two metadata updates by conditional self-copy race the uploads of the mount and a removal by another client: until a conflict discards a staged file no hash is put on other bytes (`HashDescribesObject`), and no upload reads a file that such a conflict cleans up (`NoUseAfterCleanup`) |
| `rename_names` | files move along a chain of directories while names are reused: listing and inodes agree (`NamesAgree`), the bucket ends up equal to the namespace (`SettledIsStored`), nothing is uploaded to a key that another file has yet to leave (`NoUploadOverDeleted`), the counters return to zero (`ModifiedSettles`), everything is flushed and every name is free again (`EventuallySettled`) |
| `rename_faults` | the same with failures, tombstones and remote removals: a clean file is stored until `sendRename` gives one up (`CleanIsStored`), no DELETE removes another file's object (`NoForeignDelete`) |
| `rename_staged` | uploads to the key a file leaves and the copy that follows lose no version |
| `flush_modify` | an object is overwritten in place under memory pressure, parts flushed in parallel, a request failed or its answer lost: a read returns the newest write, unless an old body came late (`ReadsSeeWrites`), a flushed block is in the upload with its newest content (`FlushedIsUploaded`), a commit publishes the file of one instant (`CommitIsInstant`) |
| `flush_resize` | a file is truncated across the limit of a single PUT while it is flushed and read, a request fails, the upload vanishes, another client replaces or deletes the object: a file that needs no flush is stored (`SyncedIsStored`), everything is stored in the end (`EventuallyStored`), a truncate that waits for an upload returns (`TruncateReturns`) |
| `dir_listing` | a directory is read in pages and a name looked up while a file is created, written, written again while it is uploaded, unlinked, deleted and evicted and requests fail: until one of the races above no answer revives, ages or discards one of the mount's files (`OwnView`), a file that has left the cache is stored and will be asked for (`NothingVanishes`), a reader that met the complete directory misses no file, and none returns one twice (`ReadDirComplete`), a trusted directory shows what other clients left (`TrustedIsFresh`) |
| `cluster_transfer` | three nodes work on one file while it and its directory move between them and a request fails: until a node uses an inode before it has come, never two owners (`OneOwner`), terms lead to the owner (`TermsLead`), references are neither lost nor invented (`RefsConserved`), a handle is served where it was opened (`HandlesServed`), no request names an unknown inode (`NoPanic`), the nodes implement `SharedInode` (`ActsAsOneInode`), operations end (`OperationsEnd`) |

Two runs end in a counterexample, a behaviour of the code that contradicts one of its
comments; the findings are in `PROJECT.json`:

| Run | The disagreement |
|---|---|
| `dir_recreated` | `rm f; echo x > f` while a listing or a HEAD of the old object is on its way or starts before the DELETE: `handleListResult` and `insertSubTree` look at `DeletedChildren` only when the name has no inode, so the old object's ETag is taken for a conflict, the new data is dropped, and the DELETE then removes the object (`RecreatedIsShown`, against "Don't revive deleted items", dir.go:455) |
| `flush_late` | a GET is outstanding for a block that is written and uploaded meanwhile; the upload's answer makes the buffer clean, and the body of the GET then replaces it by the bytes the upload has replaced (`CleanIsCurrent`, against "Unmodified chunks (equal to the current server-side object state)", buffer_list.go:93) |

Three more behaviours are inside the bounds of passing runs and are excused there by a
history variable, since what the properties say is broken once they happen:

* `rename_faults` (`dropped`): a new file is moved while its first PUT is in flight, and the
  PUT fails.  The file is still ST_CREATED but has an old name, so `sendUpload` starts with
  `sendRename` (file.go:1442), the copy of the object that was never stored gets ENOENT, and
  that is taken for "File is removed remotely, dropping cache" (file.go:1621).  Between
  file.go:1619 and 1622 the file is listed, ST_CACHED and nowhere stored; then it is gone.
* `staged_meta` (`upd.discarded`): a metadata update that takes this mount's own upload, or a
  removal by another client, for a conflict discards the staged file while its next upload is
  on its way.  That upload leaves its hash in `userMetadata` and not its ETag in `knownETag`,
  and the next update publishes the hash of one upload with the bytes of another
  (`HashDescribesObject`, file.go:1775).  After an unlink the conflict also turns the removed
  inode back into a cached one.  The property holds as well with three StagedFiles (9.5
  million states).
* `cluster_transfer` (`early`): node 2 has the directory open and opens the file, and the
  answer of its steal is on its way with the reference count; node 3 removes the file, the
  request is served at node 2, which has learned that it is the owner and runs `doUnlink` on
  its old copy (cluster_fs.go:121).  The stolen inode then arrives with the name's reference
  (`RefsConserved`), and the name comes back with it (`ActsAsOneInode`).  With two threads on
  one node a thread that learns that its node is the next owner of the root works on the old
  copy although another thread's steal is on its way (cluster_fs.go:64), and `OneOwner`
  breaks.

The bounds of the passing runs leave out further behaviours that exploration of the
same modules turned up.  Each is reached by giving a passing run the constants named
here, and is recorded so that nobody widens a bound without knowing what comes:

* `StagedFile`, a flush between the two halves of a write turns a partial update into a
  sparse replacement, although file.go:302 says that existing data is preserved
  (file.go:328).  So does a truncate there: it turns the fresh, empty StagedFile of a
  write that replaces the file into zeroes of the new size, which a flush publishes and
  releases (file.go:278 and 3106; `MaxClock = 3`).  `sparse` remembers both, and the
  properties excuse such a file.  The proof of `ReleasedIsStored` found the second.
* `Rename`, moves back into the first directory under another name: a/x -> b/x -> a/y
  forgets that the object is at a/x (dir.go:1723, against the comment in dir.go:1724).
* `staged_sync` with metadata updates: one takes this mount's own upload for a remote
  change and discards the staged data; fsync takes the missing StagedFile for a stored one
  and reports success (`SyncDurable`, goofys.go:1740).
* `Staged = TRUE` with creation at a name another file is leaving: `flushStagedFileDirect`
  does not look at `DeletedChildren`, the pending rename then copies the new content
  (`NoUploadOverDeleted`, goofys.go:1833).
* `HashMin > 0`: `flushStagedFileDirect` stores a hash only above the threshold and
  removes none below it, so a file that shrinks is uploaded with its previous hash
  (`HashDescribesObject`, goofys.go:1883).
* An unlink between `PrepareStagedWrite` and `EnsureStaged` attaches a StagedFile to a
  deleted inode, which is then uploaded (file.go:328); the properties of `StagedFile`
  are about linked files.
* Moves back to the first path: a clean file moved away and back leaves its directory
  counted as modified (`ModifiedSettles`, dir.go:1722); with `Staged = TRUE` the PUT of the
  unchanged file may overwrite a newer staged upload (`CleanIsStored`, file.go:295).
* Moves within one directory, two inodes, two renames: a rename between the two halves of
  `TryFlush` makes its look at `DeletedChildren` stale (`NoUploadOverDeleted`,
  file.go:1400).
* `Unlinks <- All`, one failure: `SendDelete` clears the old name before the request
  and retries under the new one (`SettledIsStored`, dir.go:1139).
* `Overwrite = TRUE`: a new file moved over another and then removed leaves the
  other's object (`SettledIsStored`, dir.go:1633).
* Two renames and one failure: a copy that fails after the second rename leaves a name
  marked as deleted for ever (`EventuallySettled`, file.go:1639); a rename whose DELETE
  fails leaves its directory counted as modified (`ModifiedSettles`, file.go:1712).
* `Unlinks <- All`: a file is moved onto a name that another inode still leaves and removed
  there; when its DELETE is answered, `SendDelete` clears `DeletedChildren` of its name
  whoever's entry it is, and the name is free too early (`CleanIsStored`, dir.go:1195).
* Two renames, the second during the copy of the first, and another client removes the object
  (`MaxRemote = 1`): the ENOENT of the copy clears the mark at the first name only
  (file.go:1624); the one in the middle stays marked and counted (`ModifiedSettles`).  The
  proof of `ModifiedSettles` found it, and the two before it are why the other proofs about
  `Rename` needed their conditions.
* `Staged = TRUE`, two renames: the second rename clears `renamingTo` while the first
  copy is in flight, so a staged upload goes to a key that is then deleted
  (`CleanIsStored`, dir.go:1719).
* `FileFlush`, a created file of two parts, three writes, a truncate, a failure, `MaxGone = 1`:
  a part whose answer arrives after another part met NoSuchUpload is marked flushed
  although the upload was forgotten (`FlushedIsUploaded`, file.go:2782).
* `FileFlush`, a created file extended between the decision to complete the upload and its
  first critical section: the new part is copied from an object that does not exist, and
  the ENOENT is taken for a conflict, which discards the file (file.go:2816).
* `FileFlush`, a lost answer of a PUT or a commit: the next conditional read meets this
  mount's own object and discards newer local changes as a conflict (`lost`;
  file.go:2418).  `recoverCompletedMultipart` in the S3 backend makes it rare for
  commits.  After a lost commit a truncate back to the old `knownSize` makes a file look
  clean whose object is longer (`SyncedIsStored` with two writes and a created file).
* `FileFlush`, `PartBlocks = 2` with truncates: a truncated tail of a flushed part stays in
  the upload and the object becomes longer than the file.
* `DirListing`, `Remote = {}`: when the last entry of a page is unlinked before a reader
  comes to it, `lastFromCloud` names nothing that would clear it; `loadListing` loads no
  further page and readdir ends early, also for the readers that follow, until the
  marker is reset (dir.go:849).  Created again behind the reader, the same name lets it
  go on, and pages that were loaded for another reader then insert names behind its
  position.  So `ReadDirComplete` speaks of readers that met the complete directory before
  they passed `lastFromCloud` (`whole`).  An earlier form, which only
  asked for `lastFromCloud` to be empty at the end, held in the run with one reader and two
  names; the attempt to prove it found these histories.
* `DirListing`: `markGapLoaded` (dir.go:337) computes the new length without the new gap,
  so `Gaps` stays empty although dir.go:327 says "Remember this range as already loaded";
  `checkGapLoaded` is always false and gaps are not modelled.
* `FileFlush`, fsync of a created empty file returns at once and stores nothing
  (`SyncedIsStored` excuses it; `isStillDirty`, file.go:2344).

`Stuck` in `FileFlush` names three states that the liveness properties excuse because
nothing leads out of them: a range that `flushSmallObject` leaves locked after a conflict
(file.go:2418), an upload truncated to no parts, which the store refuses to complete
(file.go:2845), and a truncate of an open file after a failed flush, for which `SyncFile`
returns the old error before it forces another flush (file.go:3029), so that
`ResizeUnlocked` loops.

**Bounds.** Two blocks are enough to tell a torn object from a whole one; two
StagedFiles to have one that was detached while its upload runs; two or three writes
for a generation to change before, during and after an upload.  Three inodes on a
chain of three directories give a moved file, a new file at the name it left, and a
tombstone; two renames of one file reach every branch of `renameInCache` and of
`sendRename`'s answer.  One failed request at each place where a request is sent
exercises every error path; a second failure repeats the first.  The passing runs of
`Rename` use the moves that avoid the disagreements above (no way back to a
directory, no overwriting, one rename of a staged file).  In `FileFlush` two parts let
one be written while the other is flushed, copied or loaded; two blocks in a part are
needed for read-modify-write, one suffices where only the size matters; the second
write meets every state of the first one's flush.

In `DirListing` two names with pages of one entry give a page border, an entry before
and one behind it; two local writes give a file that is written again while it is
uploaded, and with its unlink and deletion meet every state of a listing and of a HEAD; one
remote change falls before, into or after a refresh.  `MaxChanges` leaves out behaviours
with two writes and the remote change, and TLC does not go on after a race
(`MCDirListing!Explored`): the properties of the listing claim nothing there, and what
`OwnView` claims after the last two is proved.  With both names in the bucket at first the
run passes as well (2.5 million states), and without `MaxChanges` (2.9 million).  In `Cluster` three nodes let an inode move on while a third still believes in
the first owner; three operations with one failure reach every pair of them.  Larger
instances that pass: three threads with one failure (466 000 states), two nodes with
four operations (182 000), three nodes with four operations (1.1 million).

**Fairness.** Weak fairness of a goroutine that was started, and of the periodic
`StagedFileFlusher`, which looks at every StagedFile on every tick.  In `Rename`
strong fairness of `TryFlush(i)`: `Goofys.Flusher` goes round the queue of dirty
inodes (`inodeQueue.Next`), so an inode that stays dirty is looked at again and
again although the flusher looks at one inode at a time.  In `FileFlush` weak fairness
of the flusher and its goroutines, of requests for data, of readers and truncates that
wait, and of closing the file.  In `Cluster` weak fairness of every thread's operation:
a request is answered or fails (gRPC reports a broken connection), and the flusher
stores what makes `tryYield` refuse.  `DirListing` is checked for safety only.  Requests
fail only as
often as the bound says; application requests are not fair.

## What is proved

* `StagedFileProofs!TypeCorrect`: `Spec => []TypeOK`, for every number of blocks and
  StagedFiles and every bound.  `TypeOK` is not inductive: that a hash and a part
  are bytes rests on every block having been read (`HashedBlocks`, `PartsRead`), and
  that a generation stays below the clock on generations counting writes
  (`GenerationsCount`).
* `StagedFileProofs!UploadsOwnTheirFile`: an upload has its staging file open
  until it ends.  The invariant `LifeInv` says that a running upload holds the
  `flushing` mark, that the attached StagedFile is open and not condemned, and that
  one that was released is not attached; `Cleanup` then only sets `cleanupPending`.
* `StagedFileProofs!ObjectsAreGenerations`: every object is one generation of
  the file.  `GenerationInv` carries the argument of the comment in
  `flushStagedFileDirect`: generations only grow, so while the generation is the
  captured one the file is the captured one, so are the parts read from it, and
  the comparison before the commit establishes it for all of them.
* `StagedReleaseProofs!ReleasedFilesAreStored`: `ReleasedIsStored`, as long as no extended
  attribute was changed (`meta = 0`; the metadata update listed above discards staged
  data).  The invariant `Stored` says where the file is at every moment: the attached
  StagedFile holds it, unless a write is about to replace it (`StagedIsFile`); the object at
  the key this mount expects it under has it once the current generation is committed,
  while a rename is awaited and when nothing is attached (`CommittedIsStored`,
  `AwaitingIsStored`, `DetachedIsStored`).  It needs that a running upload is of the
  attached StagedFile and under that key (`UploadAttached`), which rests on `IsFlushing`
  counting uploads and the rename (`FlushCount`, a cardinality) so that each sees the other
  (`RenameShape`), and that what was read of a generation lies within its file
  (`UploadReads`).
* `StagedReleaseProofs!LargeObjectsAreHashed` and `HashesDescribeObjects`: under the same
  condition an object of a size that is hashed carries no hash but that of its bytes, for
  every `HashMin`; with `HashMin = 0` that is `HashDescribesObject`.  `HashInv` follows the
  hash from the pass over the live file (`HashReadsSnapshot`) through `userMetadata` to the
  upload (`HashCaptured`), with `GenerationInv` for the bytes.
* `StagedReleaseProofs!SyncedFilesAreStored`: `SyncDurable`, again as long as no extended
  attribute was changed.  `Synced` repeats `Stored` in time: the object at the expected key
  includes every write so far once the current generation is committed, while a rename is
  awaited, and when nothing is attached.  An fsync reads the inode and the StagedFile in two
  critical sections, so `SyncKnows` adds what it may rely on between them: if its StagedFile
  is no longer the attached one, what was written before the fsync is stored, and stays so
  through every later upload, rename and removal of the old key (`Durable`, which also says
  that a rename of the file will copy the object and not forget it).
* `StagedReleaseProofs!ObjectsOnlyGrow` and `NoUploadIsOvertaken`: an object is only replaced
  by one that includes at least the same writes, in every state without a changed
  attribute, a foreign deletion or a `sparse` StagedFile; where the bounds allow none of the
  first two this is `NoStaleOverwrite`.  `Ordered` says that at most one upload can still
  commit (`OneUpload`, from `IsFlushing` and the rename seeing each other), that nothing
  newer is at its key (`UploadsInOrder`), and that the new name has no object before the
  rename copied one there (`NewKeyFree`).
* `RenameProofs!NamesCorrect`: a listed inode is alive and has the name it is listed
  under.  Beside the types the invariant needs that the number of the next inode is
  listed nowhere, and that a copy in flight has a source.
* `RenameProofs!CleanFilesAreStored`, `SettledFilesAreStored`, `DeletesAreNotForeign` and
  `UploadsWaitForRenames`: `CleanIsStored`, `SettledIsStored`, `NoForeignDelete` and
  `NoUploadOverDeleted`, for any directories, names and numbers of files, writes, renames and,
  the third excepted, removals by other clients, assuming `Forward`: no request fails (`MaxFaults = 0`), nothing
  is staged or overwritten, directories can be ranked so that every move goes to a higher
  rank, and files are not removed from where they were moved to.  The instance of
  `rename_names` satisfies it; the counterexamples without each of the conditions are in the
  list above.  The invariant is `FilesInv`, which holds until a file
  is given up (`Gone`); `NamesInv` holds throughout.  `NodeInv` and `JobInv` say which states, old
  names and requests go together, and that whoever has something to leave at a path has the
  mark there (`deleted[old] = i`), while an inode that has or may get an object at its own
  path (`Uses`) finds no mark there.  So every key that a request or the content of a file
  depends on has one holder (`Holder`, `KeysHeld`), and a step of one inode disturbs nothing
  of another (`StepOf`, `FilesStep`).  `StoredInv` and `ObjectsInv` say where an object is
  and why (`Owes`); `ReasonsInv` why a mark is; `MarksInv`, marks lie at lower ranks than the
  file, so that a move never meets the file's own mark.  `LookInv` is the argument for the
  window in `TryFlush`: what it saw of `DeletedChildren` still holds when it has the inode's
  lock, unless the file has left the directory, which it checks.
* `RenameProofs!CountersSettle`: `ModifiedSettles`, if also no other client removes objects
  (`MaxRemote = 0`).  `CountersInv` gives the counter of a directory at every moment: the
  number of its inodes that are not clean plus the number of its marks, without the mark of a
  file that was removed there.  A step changes at most one of each (`OneChange`,
  `CountersStep`).
* `FileFlushProofs!TypeCorrect`: `TypeOK`, for any number and size of parts, any limit of
  parallel parts and all bounds.  `TypeInv` adds that sequences have the length their flush
  captured, that a part being flushed and every dirty or flushed block lie within the file,
  and that only a dirty buffer is captured.
* `FileFlushProofs!FlushedBlocksAreUploaded`: `FlushedIsUploaded` until an upload vanishes
  (`vanished = 0`): truncates, foreign changes, conflicts and late bodies included.  The
  condition is needed, see file.go:2782 above.
  `Sent` says that a part in flight holds what was flushed of it before and what it will mark
  as flushed, and that what it will mark belongs to the current upload (`UploadIsCurrent`).
* `FileFlushProofs!DirtyIsNewest`: what is dirty or flushed in memory is the newest write of its
  block, in every history.
* `FileFlushProofs!ReadsReturnNewest`, `SyncedFileIsStored` and `CommitsAreInstant`:
  `ReadsSeeWrites`, `SyncedIsStored` and `CommitIsInstant` in the histories `Steady` describes:
  nothing is truncated and no upload vanishes; each of the two breaks one of the properties,
  see the list above.  Bodies may arrive at any time; the properties end with the first that
  is late.  `CommitIsInstant` also needs that nobody else changes the object.
  Writes at any offset, reads, evictions, failed and lost requests, read-modify-write of parts and uploads that are given
  up and begun again are in.  `Told` says for every flush in flight which bytes of the file
  it has: all but those written since (`PutHolds`, `PartHolds`, `PartsHold`), so that the
  answer may mark exactly the buffers whose `dirtyID` was captured; that the object never
  reaches beyond the file (`StoreWithin`); and that a completion still has the file it was
  decided for (`WantIsFile`) in the parts that are uploaded and, for the others, in the
  object (`WantIsParts`).  That the commit then puts the same sequence together (`CommitWhole`)
  is an induction over the parts, done with the least counterexample of a set of naturals
  (`SetInduction`) since `Joined` is a recursive function.
* `DirListingProofs!TypesHold` and `OwnFilesAreShown`: the types and `OwnView`, for any
  number of names, readers, lookups and writes and any page size, in every behaviour, until
  one of `FileRaces` happens; refreshes may overlap and half-read listings be evicted.
  The invariant `MirrorInv` has four parts.  `OwnFile` says how the cache, `DeletedChildren`, the upload, the deletion and the object of a file can differ
  at one time.  `Seen` says that an answer which does not mask a name still tells the truth
  about it: the object it shows is the one in the bucket, and a name it decides about and
  does not show is not there; a change of the object is in flight when it happens, and
  `addInflightChange` and `addInflightListing` have masked it by then in every request.
  `HeldInv` says that a lookup which holds an inode of this mount will find its object, so
  that `recheckInode` does not drop it.  `ReaderInv` and `LookerInv` tie requests to the
  threads that wait for them.
* `DirListingProofs!NoFileVanishes` and `TrustedDirIsFresh`: in every behaviour, until one of
  the races happens.  Neither is inductive.  `RefreshInv` adds which names the refresh
  under way has reached (`Reached`: those up to `listMarker`, those a request in flight
  starts behind or masks, all of them once a listing is complete) and that
  `removeExpired` will not take them (`Safe`): they are up to date or have local changes.
  A page extends what is reached by the names it decides about, which it shows or which
  are not in the bucket (`PageCovers`).
* `DirListingProofs!NothingIsReturnedTwice`, under the conditions of `OwnFilesAreShown`, and
  `ReadDirIsComplete`, until any race: `ReadDirComplete`.  A position is a number among the
  sorted children or, once invalidated, the last name; `PositionInv` says that both mean the
  same: what was returned and is still there lies before it, and nothing else does that is
  behind the last name.  `RankOrder` and `RankAppended` are the facts about positions in a
  sorted set that this needs: an insertion at the end moves none of them.  `MustInv` says that
  what a reader must return and has passed was returned and is still there.  It needs that
  nothing which must be returned is inserted behind the reader: as far as the directory is
  complete, or up to `lastFromCloud`, such names are there already (`Promises`, from
  `RefreshInv`, with `lastFromCloud` never ahead of `listMarker`), and `removeExpired` does
  not take them (`PromiseKept`).
* `ClusterProofs!SingleOwner` and `OwnersAreFollowed`: `OneOwner` and `TermsLead`, for any
  nodes, threads and bounds, in every behaviour, until a node uses an inode before it has
  come to it (`early`); the behaviours that break them afterwards are described above.
  `OwnInv` holds as long (`OwnershipInvariant`).  It speaks of what is known of an
  inode (`Known`: an owner and a term in a copy or in an answer under way) and of who has
  it (`Has`): knowledge is never ahead of the inode (`Lead`), one term names one owner
  (`Agree`), an inode is at rest or in one answer (`Token`), `readyOwner` is set on owners
  only, the root excepted (`Ready`), and whoever sends a request has the name
  of a node to send it to (`Names`).
* `ClusterReferenceProofs!ReferencesAreConserved`, `HandlesAreServed` and `NobodyPanics`:
  `RefsConserved`, `HandlesServed` and `NoPanic`, again until `early`, from the
  invariant `RefInv` beside `OwnInv` (`ReferenceInvariant`).  The three are proved together
  because they rest on each other.  `Counted` says that the count of the file, in the copy of
  its owner or in the answer that carries it, covers what must be kept (`Need`: lookups the
  kernels hold, lookups and forgets on their way, and the name).  The sum over nodes and
  threads is the cardinality of a set of tokens (`Column`, `KeptIsSum`), so that a step which
  hands a reference from an answer to a kernel moves a token.  `Copied` says that every node
  that has heard of a file which is needed has it in `fs.inodes`; a node drops it only when
  the count is 0, and then nobody is left to ask.  `Handled` bounds the handles opened on a
  node by its `fileHandles`, from the moment the owner opens one to the moment it closes it:
  `tryYield` refuses in between, so the inode stays.  Around these: an inode is with one node
  or in one answer, counting nodes whose process ended (`Alone`), only the owner of the
  directory has the name and only the owner of the file changes it (`Placed`), a kernel
  opens, closes and forgets one thing at a time (`Solo`) and asks only for what it has
  (`Kernels`), and frames are as the code builds them (`Sanes`).
* `ClusterRefinementProofs!ClusterIsOneInode`: `Spec => ActsAsOneInode`: every step up to
  the first that makes `early` true is a step of `SharedInode` or a stutter, the refinement mapping being that of `Cluster!Shared`.  Step by step: a step
  that leaves every inode where it is (`Places`) changes the one inode exactly as its owner
  changes its copy, and only the owner does (`ExecImplements`); a step that only moves frames
  or uploads is a stutter (`QuietImplements`, `FlushImplements`); `tryYield` and
  `applyStolenInode` are stutters because the answer carries what the copy held and the other
  way round (`YieldImplements`, `ArriveImplements`); a node that ends, or is given an inode it
  can no longer receive, is the abstract `Lose` (`LoseAbs`).  Beside `OwnInv` and `RefInv`
  this needs `Filled`: only the owner's copy has handles, and a file that is not dirty is in
  the bucket, whether its inode is with a node or in an answer.  That is why a read of a
  clean file, which goes to the bucket, returns the value the last writer left on another
  node.

The assumptions are those of the modules: bounds are naturals, the model values
differ from the data, the set of paths is finite.

Only model-checked: all other properties, liveness (fairness is out of the prover's
reach), and everything the counterexample runs show.  For `FileFlush` these are also the
histories with truncates, which the runs check with parts of one block: with larger parts
the object may become longer than the file; for `Rename` the histories with failed requests
(`rename_faults`) and staged writes (`rename_staged`).  Of the invariants, `TypeOK` of
`Cluster` has no theorem: what it adds to the types in `OwnInv` and `RefInv` are the ranges
that terms, references and values keep to under the bounds of the model, a fact about the
bounds and not about the code.

## Not modelled

* Directory renames and removal, hard links, PATCH, read-ahead, the disk cache, the
  memory limit of the buffer pool, the external and lazy caches: see the plan.
* `DirListing` has one directory of plain files that is the root of a mount:
  sub-directories, `intelligentListCut` and names with characters below `/`, `Seek`, the
  dot entries, `.invalidate`, and uploads other than the single PUT are left out.
  Staged uploads do not register with `inflightChanges` at all.
* `Cluster` has one file: `mkDir`, `rmDir` and symbolic links go the same ways and are
  left out, as are user metadata (which `applyStolenInode` does not install), the size
  0 that `SetInodeAttributes` passes when only the mode changes, owner and term read
  after the lock was released (cluster_fs_grpc.go:30), eviction on a single node
  (goofys.go:1616), and the unmount after ten seconds without a lock.
* Backends are modelled by what their callers rely on; the FUSE and Windows front ends
  dispatch; configuration holds no protocol.  Most of the repository's lines are the
  vendored AWS SDK under `s3ext/` and generated code, which a model of this program has
  nothing to say about.
* Timers (debounce, retry interval, TTL) are nondeterminism: a step they guard may happen
  at any time.

## Plan

1. Proofs: `CleanIsStored` of `Rename` with failed requests and tombstones.
2. `BufferList`: the interval list as operators, checked against a map from offset
   to state.
3. `BufferPool` with its memory limit; the external cache and lazy reads.
4. An abstract file that is replaced atomically, refined by `FileFlush` and
   `StagedFile`; PATCH and hashing of parts in `FileFlush`.
