-------------------------------- MODULE Rename --------------------------------
(***************************************************************************)
(* Names and the object store: create, write, rename and unlink of files   *)
(* change the directory cache at once (dir.go) and reach the object store  *)
(* later, when the flusher starts an upload, a copy-and-delete (sendRename)*)
(* or a DELETE (SendDelete) for one inode at a time.  In between the names *)
(* are free to be used again.                                              *)
(*                                                                         *)
(* One action is one critical section of the directory and inode locks, or *)
(* one request.  A file is small: it is uploaded by one PUT                *)
(* (flushSmallObject) or, in staged-write mode, by flushStagedFileDirect,  *)
(* whose inner steps are in module StagedFile.  The content of a file is   *)
(* the inode that wrote it and its version.                                *)
(*                                                                         *)
(* Not in this module: directories that are renamed or removed themselves, *)
(* open file handles, multipart uploads and hard links.                    *)
(***************************************************************************)
EXTENDS Integers, FiniteSets

CONSTANTS
    Dirs, Names,    \* a path is a directory and a name in it
    Initial,        \* paths of the files that exist and were listed
    Creates,        \* paths the application creates files at
    Unlinks,        \* paths it removes files from
    Moves,          \* pairs of paths it renames
    Overwrite,      \* it renames onto existing files
    Staged,         \* StagedWriteModeEnabled
    MaxInodes,      \* bound: inodes, tombstones of failed deletes included
    MaxVersion,     \* bound: writes to a file
    MaxRenames,     \* bound: renames
    MaxFaults,      \* bound: failed requests
    MaxRemote,      \* bound: objects removed by other clients
    NoPath, NoObject

Paths  == Dirs \X Names
Inodes == 1..MaxInodes

ASSUME PathsAssumption ==
    /\ Initial \subseteq Paths /\ Creates \subseteq Paths /\ Unlinks \subseteq Paths
    /\ Moves \subseteq Paths \X Paths
    /\ NoPath \notin Paths /\ IsFiniteSet(Paths)
ASSUME BoundsAssumption ==
    /\ MaxInodes \in Nat \ {0} /\ Cardinality(Initial) <= MaxInodes
    /\ MaxVersion \in Nat /\ MaxRenames \in Nat /\ MaxFaults \in Nat /\ MaxRemote \in Nat
    /\ Overwrite \in BOOLEAN /\ Staged \in BOOLEAN

VARIABLES
    ino,            \* the inodes
    child,          \* dir.Children: the inode at a path, 0 = none
    deleted,        \* dir.DeletedChildren: the inode whose object leaves a path
    modified,       \* dir.ModifiedChildren
    look,           \* the flusher inside TryFlush
    job,            \* the goroutines that flush an inode, one from TryFlush and one with its
                    \* StagedFile; IsFlushing # 0 iff one of them is there
    store,          \* the object store
    used, renames, faults, remote

vars == <<ino, child, deleted, modified, look, job, store, used, renames, faults, remote>>

States  == {"NONE", "CREATED", "MODIFIED", "CACHED", "DELETED", "DEAD"}
Versions == 0..MaxVersion
Known   == -1..MaxVersion
Place   == Paths \cup {NoPath}
Objects == [ino: Inodes, ver: Versions]
ASSUME ObjectAssumption == NoObject \notin Objects
NodeSet == [st: States, path: Place, old: Place, renamingTo: BOOLEAN,
            ver: Versions,               \* the version the application sees
            known: Known,                \* the version that was uploaded or looked up
            cached: BOOLEAN,             \* its bytes are in memory
            staged: BOOLEAN,             \* it has an unpersisted StagedFile
            awaiting: BOOLEAN,           \* or one that was uploaded to a key the file left
            dropped: BOOLEAN]            \* history: sendRename has given the file up
NoNode  == [st |-> "NONE", path |-> NoPath, old |-> NoPath, renamingTo |-> FALSE, ver |-> 0,
            known |-> -1, cached |-> FALSE, staged |-> FALSE, awaiting |-> FALSE,
            dropped |-> FALSE]
Pcs     == {"idle", "put", "send", "sent", "copy", "copied", "missing", "dropped", "unlinked",
            "retried", "error", "remove", "removed", "end", "delete", "gone"}
JobSet  == [pc: Pcs, from: Place, to: Place, ver: Versions, ok: BOOLEAN]
NoJob   == [pc |-> "idle", from |-> NoPath, to |-> NoPath, ver |-> 0, ok |-> TRUE]
NoLook  == [ino |-> 0, dir |-> NoPath, over |-> FALSE]

(* The goroutine of inode i that TryFlush started is i, the one of its StagedFile -i. *)
Workers == Inodes \cup {-i : i \in Inodes}
Owner(w) == IF w > 0 THEN w ELSE -w

Dir(p) == p[1]
Name(p) == p[2]
Linked(i) == ino[i].path \in Paths /\ child[ino[i].path] = i

-------------------------------------------------------------------------------
(* Helpers of the code *)

(* SetCacheState counts an inode in one of these states as a modified child. *)
Counted(st) == IF st \in {"CREATED", "MODIFIED", "DELETED"} THEN 1 ELSE 0

addModified(m, p, n) == [m EXCEPT ![Dir(p)] = @ + n]

(* SetCacheState(st) of the inode x seen by the counter of its directory. *)
Recount(m, x, st) == addModified(m, x.path, Counted(st) - Counted(x.st))

(* Mutant: a pending rename does not count. *)
MutRenameIsClean(x) == x.ver # x.known

(* Mutant: uploads go to the new key at once. *)
MutSourceKeyIsNew(x) == x.path

(* Where the object of an inode is, until it is moved. *)
SourceKey(x) == IF x.old # NoPath THEN x.old ELSE x.path

isStillDirty(x) == x.old # NoPath \/ x.ver # x.known

(* resetCache: buffers and staged data are dropped. *)
Reset(x, st) == [x EXCEPT !.st = st, !.cached = FALSE, !.staged = FALSE,
                                 !.awaiting = FALSE]

Idle(i) == job[i].pc = "idle" /\ job[-i].pc = "idle"
Flushable(x) == x.st \in {"CREATED", "MODIFIED"}

-------------------------------------------------------------------------------
(* The files that were listed get the first inodes. *)
Listed == 1..Cardinality(Initial)

Init ==
    /\ \E f \in [Listed -> Initial] :
          /\ \A p \in Initial : \E i \in Listed : f[i] = p
          /\ ino = [i \in Inodes |-> IF i \in Listed
                      THEN [NoNode EXCEPT !.st = "CACHED", !.path = f[i], !.known = 0]
                      ELSE NoNode]
          /\ child = [p \in Paths |-> IF p \in Initial THEN CHOOSE i \in Listed : f[i] = p ELSE 0]
    /\ store = [p \in Paths |-> IF p \in Initial THEN [ino |-> child[p], ver |-> 0] ELSE NoObject]
    /\ used = Cardinality(Initial)
    /\ deleted = [p \in Paths |-> 0]
    /\ modified = [d \in Dirs |-> 0]
    /\ look = NoLook
    /\ job = [w \in Workers |-> NoJob]
    /\ renames = 0 /\ faults = 0 /\ remote = 0

-------------------------------------------------------------------------------
(* Application requests *)

(* CreateOrOpen of a name the directory cache does not have. *)
Create(p) ==
    /\ child[p] = 0
    /\ used < MaxInodes /\ used' = used + 1
    /\ LET i == used + 1
           x == [NoNode EXCEPT !.st = "CREATED", !.path = p, !.cached = TRUE, !.staged = Staged]
       IN  /\ ino' = [ino EXCEPT ![i] = x]
           /\ child' = [child EXCEPT ![p] = i]
    /\ modified' = addModified(modified, p, 1)
    /\ UNCHANGED <<deleted, look, job, store, renames, faults, remote>>

(* WriteFile replaces the content. *)
Write(i) ==
    /\ Linked(i)
    /\ LET x == ino[i]
           st == IF x.st = "CACHED" THEN "MODIFIED" ELSE x.st
       IN  /\ x.ver < MaxVersion
           /\ ino' = [ino EXCEPT ![i] = [x EXCEPT !.ver = @ + 1, !.st = st, !.cached = TRUE,
                                                 !.staged = Staged, !.awaiting = FALSE]]
           /\ modified' = Recount(modified, x, st)
    /\ UNCHANGED <<child, deleted, look, job, store, used, renames, faults, remote>>

(* renameInCache of inode i from p to q, given the state of the directory after
   a file at q was detached: the entries that change. *)
MovesFreely(x, i) == (x.st = "CREATED" /\ Idle(i)) \/ x.old # NoPath

(* Mutant: the inode keeps its old place. *)
MutStaysInPlace(x, i, q) == [x EXCEPT !.old = IF MovesFreely(x, i) THEN @ ELSE q]

Unrenamed(x, q) == Dir(x.old) = Dir(q) /\ Name(x.old) = Name(x.path)

MovedInode(x, i, q) ==
    [x EXCEPT
        !.path = q,
        !.st = IF @ = "CACHED" THEN "MODIFIED" ELSE @,
        !.renamingTo = FALSE,
        !.old = IF ~MovesFreely(x, i) THEN x.path
                ELSE IF x.old # NoPath /\ ~x.renamingTo /\ Unrenamed(x, q) THEN NoPath ELSE @]

(* Mutant: the directory the file leaves is not counted. *)
MutCountsOneParent(m, x, i, q) == addModified(m, q, 1)

MovedDeleted(x, i, q) ==
    LET marks == ~MovesFreely(x, i) \/ x.renamingTo
        d == IF marks /\ deleted[x.path] = 0 THEN [deleted EXCEPT ![x.path] = i] ELSE deleted
    IN  IF d[q] = i THEN [d EXCEPT ![q] = 0] ELSE d

MovedModified(m, x, i, q) ==
    addModified(
        CASE MovesFreely(x, i) /\ ~x.renamingTo -> addModified(m, x.path, -1)
          [] ~MovesFreely(x, i) /\ x.st = "CACHED" -> addModified(m, x.path, 1)
          [] OTHER -> m,
        q, 1)

(* Rename: a file that is overwritten is forgotten, its object stays until the
   new one replaces it. *)
RenameFile(p, q) ==
    /\ child[p] # 0
    /\ renames < MaxRenames /\ renames' = renames + 1
    /\ LET i == child[p]
           j == child[q]
           x == ino[i]
           m == IF j = 0 THEN modified ELSE Recount(modified, ino[j], "DEAD")
       IN  /\ j # 0 => Overwrite
           /\ ino' = [k \in Inodes |-> IF k = i THEN MovedInode(x, i, q)
                                        ELSE IF k = j THEN Reset(ino[j], "DEAD") ELSE ino[k]]
           /\ child' = [child EXCEPT ![p] = 0, ![q] = i]
           /\ deleted' = MovedDeleted(x, i, q)
           /\ modified' = MovedModified(m, x, i, q)
    /\ UNCHANGED <<look, job, store, used, faults, remote>>

(* doUnlink *)
Unlink(p) ==
    /\ child[p] # 0
    /\ LET i == child[p]
           x == ino[i]
           moved  == x.old # NoPath /\ ~x.renamingTo
           remove == ~moved /\ (x.st # "CREATED" \/ ~Idle(i)) /\ deleted[p] = 0
           st == IF moved \/ remove THEN "DELETED" ELSE "DEAD"
       IN  /\ ino' = [ino EXCEPT ![i] = Reset(x, st)]
           /\ deleted' = IF remove THEN [deleted EXCEPT ![p] = i] ELSE deleted
           /\ modified' = Recount(modified, x, st)
    /\ child' = [child EXCEPT ![p] = 0]
    /\ UNCHANGED <<look, job, store, used, renames, faults, remote>>

(* Mutant: DeletedChildren is not consulted. *)
MutIgnoresDeleted(i) ==
    /\ look.ino = 0
    /\ Counted(ino[i].st) = 1 /\ ~ino[i].staged
    /\ look' = [ino |-> i, dir |-> Dir(ino[i].path), over |-> FALSE]
    /\ UNCHANGED <<ino, child, deleted, modified, job, store, used, renames, faults, remote>>

-------------------------------------------------------------------------------
(* The flusher: TryFlush looks at the directory, releases its lock and then
   locks the inode. *)

TryFlush(i) ==
    /\ look.ino = 0
    /\ Counted(ino[i].st) = 1 /\ ~ino[i].staged
    /\ look' = [ino |-> i, dir |-> Dir(ino[i].path), over |-> deleted[ino[i].path] # 0]
    /\ UNCHANGED <<ino, child, deleted, modified, job, store, used, renames, faults, remote>>

LookEnds ==
    /\ look' = NoLook
    /\ UNCHANGED <<child, deleted, modified, store, used, renames, faults, remote>>

(* Nothing to do, or not now. *)
FlushNothing ==
    /\ look.ino # 0
    /\ LET x == ino[look.ino]
       IN  \/ Dir(x.path) # look.dir \/ x.staged
           \/ ~Idle(look.ino)
           \/ x.st \notin {"CREATED", "MODIFIED", "DELETED"}
           \/ Flushable(x) /\ look.over
    /\ LookEnds /\ UNCHANGED <<ino, job>>

Starts(i) == look.ino = i /\ Dir(ino[i].path) = look.dir /\ ~ino[i].staged /\ Idle(i)

(* SendDelete *)
StartDelete(i) ==
    /\ Starts(i) /\ ino[i].st = "DELETED"
    /\ job' = [job EXCEPT ![i] = [NoJob EXCEPT !.pc = "delete", !.from = SourceKey(ino[i]),
                                               !.to = ino[i].old]]
    /\ ino' = [ino EXCEPT ![i].old = NoPath]
    /\ LookEnds

(* sendUpload: sendRename, or flushSmallObject *)
StartRename(i) ==
    /\ Starts(i) /\ Flushable(ino[i]) /\ ~look.over
    /\ ino[i].old # NoPath
    /\ job' = [job EXCEPT ![i] = [NoJob EXCEPT !.pc = "copy", !.from = ino[i].old,
                                               !.to = ino[i].path]]
    /\ ino' = [ino EXCEPT ![i].renamingTo = TRUE]
    /\ LookEnds

StartPut(i) ==
    /\ Starts(i) /\ Flushable(ino[i]) /\ ~look.over
    /\ ino[i].old = NoPath
    /\ job' = [job EXCEPT ![i] = [NoJob EXCEPT !.pc = "put"]]
    /\ LookEnds /\ UNCHANGED ino

-------------------------------------------------------------------------------
(* flushSmallObject *)

(* The bytes come from memory, or for an existing object from the object store,
   which must still have the version this mount knows. *)
Readable(x, i) ==
    \/ x.cached \/ x.st = "CREATED"
    \/ store[SourceKey(x)] = [ino |-> i, ver |-> x.known]

PutPrepare(i) ==
    /\ job[i].pc = "put"
    /\ LET x == ino[i]
       IN  \/ /\ ~Flushable(x)
              /\ job' = [job EXCEPT ![i] = NoJob]
              /\ UNCHANGED <<ino, modified>>
           \/ /\ Flushable(x) /\ Readable(x, i)
              /\ job' = [job EXCEPT ![i] = [@ EXCEPT !.pc = "send", !.to = SourceKey(x),
                                                     !.ver = x.ver]]
              /\ ino' = [ino EXCEPT ![i].cached = TRUE]
              /\ UNCHANGED modified
           \/ /\ Flushable(x) /\ ~Readable(x, i)
              /\ job' = [job EXCEPT ![i] = NoJob]
              /\ ino' = [ino EXCEPT ![i] = Reset(x, "CACHED")]
              /\ modified' = Recount(modified, x, "CACHED")
    /\ UNCHANGED <<child, deleted, look, store, used, renames, faults, remote>>

(* flushStagedFileDirect takes the key at once and looks at no directory. *)
StagedFlush(i) ==
    /\ ino[i].staged /\ ~ino[i].renamingTo /\ job[-i].pc = "idle"
    /\ job' = [job EXCEPT ![-i] = [NoJob EXCEPT !.pc = "send", !.to = SourceKey(ino[i]),
                                               !.ver = ino[i].ver]]
    /\ UNCHANGED <<ino, child, deleted, modified, look, store, used, renames, faults, remote>>

(* A request that failed may have taken effect. *)
Fault == faults < MaxFaults /\ faults' = faults + 1

Put(w) ==
    /\ job[w].pc = "send"
    /\ \/ job' = [job EXCEPT ![w].pc = "sent"] /\ UNCHANGED faults
       \/ Fault /\ job' = [job EXCEPT ![w].pc = "sent", ![w].ok = FALSE]
    /\ \/ store' = [store EXCEPT ![job[w].to] = [ino |-> Owner(w), ver |-> job[w].ver]]
       \/ ~job'[w].ok /\ UNCHANGED store
    /\ UNCHANGED <<ino, child, deleted, modified, look, used, renames, remote>>

(* An upload whose StagedFile was detached meanwhile changes nothing. *)
PutReturns(w) ==
    /\ job[w].pc = "sent"
    /\ job' = [job EXCEPT ![w] = NoJob]
    /\ LET i == Owner(w)
           current == w < 0 /\ ino[i].ver = job[w].ver
           x == [ino[i] EXCEPT !.known = job[w].ver,
                               !.staged = @ /\ ~current,
                               !.awaiting = @ \/ (current /\ ino[i].old # NoPath)]
           st == IF ~Flushable(x) THEN x.st
                 ELSE IF isStillDirty(x) THEN "MODIFIED" ELSE "CACHED"
       IN  \/ /\ job[w].ok /\ (w < 0 => ino[i].staged)
              /\ ino' = [ino EXCEPT ![i] = [x EXCEPT !.st = st]]
              /\ modified' = Recount(modified, x, st)
           \/ (~job[w].ok \/ (w < 0 /\ ~ino[i].staged)) /\ UNCHANGED <<ino, modified>>
    /\ UNCHANGED <<child, deleted, look, store, used, renames, faults, remote>>

-------------------------------------------------------------------------------
(* sendRename *)

(* An object store refuses or performs a copy of an object onto itself. *)
CopyBlob(i) ==
    /\ job[i].pc = "copy"
    /\ LET from == job[i].from
           to   == job[i].to
       IN  \/ /\ store[from] # NoObject
              /\ store' = [store EXCEPT ![to] = store[from]]
              /\ job' = [job EXCEPT ![i].pc = "copied"] /\ UNCHANGED faults
           \/ /\ store[from] = NoObject
              /\ job' = [job EXCEPT ![i].pc = "missing"] /\ UNCHANGED <<store, faults>>
           \/ /\ from = to
              /\ job' = [job EXCEPT ![i].pc = "error"] /\ UNCHANGED <<store, faults>>
           \/ /\ Fault
              /\ job' = [job EXCEPT ![i].pc = "error"]
              /\ \/ UNCHANGED store
                 \/ store[from] # NoObject /\ store' = [store EXCEPT ![to] = store[from]]
    /\ UNCHANGED <<ino, child, deleted, modified, look, used, renames, remote>>

(* Mutant: a second rename during the copy goes unnoticed. *)
MutCopiedIsDone(i) ==
    /\ job[i].pc = "copied"
    /\ ino' = [ino EXCEPT ![i] = [@ EXCEPT !.renamingTo = FALSE, !.old = NoPath]]
    /\ job' = [job EXCEPT ![i].pc = "remove"]
    /\ UNCHANGED <<child, deleted, modified, look, store, used, renames, faults, remote>>

(* The object is there by the new name: which name does the inode have now? *)
RenameCopied(i) ==
    /\ job[i].pc = "copied"
    /\ LET from == job[i].from
           to   == job[i].to
           old == IF ino[i].path \in {from, to} THEN NoPath ELSE to
           x == [ino[i] EXCEPT !.renamingTo = FALSE, !.old = old,
                               !.awaiting = @ /\ old # NoPath]
           st == IF Flushable(x) /\ ~isStillDirty(x) /\ ~x.staged THEN "CACHED" ELSE x.st
           del == IF x.path # to /\ x.path = from THEN to ELSE from
       IN  /\ ino' = [ino EXCEPT ![i] = [x EXCEPT !.st = st]]
           /\ modified' = Recount(modified, x, st)
           /\ job' = [job EXCEPT ![i] = [@ EXCEPT !.pc = "remove", !.from = del]]
    /\ UNCHANGED <<child, deleted, look, store, used, renames, faults, remote>>

DeleteBlob(i, pc) ==
    /\ \/ store' = [store EXCEPT ![job[i].from] = NoObject]
          /\ job' = [job EXCEPT ![i].pc = pc] /\ UNCHANGED faults
       \/ /\ Fault
          /\ job' = [job EXCEPT ![i].pc = pc, ![i].ok = FALSE]
          /\ \/ UNCHANGED store
             \/ store' = [store EXCEPT ![job[i].from] = NoObject]
    /\ UNCHANGED <<ino, child, deleted, modified, look, used, renames, remote>>

RenameRemove(i) == job[i].pc = "remove" /\ DeleteBlob(i, "removed")

(* The name is free again, or a tombstone repeats the DELETE. *)
RenameRemoved(i) ==
    /\ job[i].pc = "removed"
    /\ job' = [job EXCEPT ![i].pc = "end"]
    /\ LET del == job[i].from
       IN  \/ /\ job[i].ok
              /\ deleted' = [deleted EXCEPT ![del] = 0]
              /\ modified' = addModified(modified, del, -1)
              /\ UNCHANGED <<ino, used>>
           \/ /\ ~job[i].ok
              /\ used < MaxInodes /\ used' = used + 1
              /\ ino' = [ino EXCEPT ![used + 1] = [NoNode EXCEPT !.st = "DELETED", !.path = del]]
              /\ deleted' = [deleted EXCEPT ![del] = used + 1]
              /\ modified' = addModified(modified, del, 1)
    /\ UNCHANGED <<child, look, store, renames, faults, remote>>

(* The source is gone.  An uploaded generation that is still in its StagedFile is
   uploaded again; otherwise the file is taken to be removed remotely. *)
RenameRetries(i) ==
    /\ job[i].pc = "missing" /\ ino[i].awaiting
    /\ job' = [job EXCEPT ![i] = [@ EXCEPT !.pc = "retried", !.from = ino[i].old]]
    /\ LET x == [ino[i] EXCEPT !.old = NoPath, !.renamingTo = FALSE, !.awaiting = FALSE,
                               !.staged = TRUE]
           st == IF x.st = "CACHED" THEN "MODIFIED" ELSE x.st
       IN  /\ ino' = [ino EXCEPT ![i] = [x EXCEPT !.st = st]]
           /\ modified' = Recount(modified, x, st)
    /\ UNCHANGED <<child, deleted, look, store, used, renames, faults, remote>>

(* The cache of the file is dropped, its directory and the name it left are remembered... *)
RenameMissing(i) ==
    /\ job[i].pc = "missing" /\ ~ino[i].awaiting
    /\ job' = [job EXCEPT ![i] = [@ EXCEPT !.pc = "dropped", !.from = ino[i].old,
                                          !.to = ino[i].path]]
    /\ ino' = [ino EXCEPT ![i] = [Reset(@, "CACHED") EXCEPT !.old = NoPath, !.renamingTo = FALSE,
                                                             !.dropped = TRUE]]
    /\ modified' = Recount(modified, ino[i], "CACHED")
    /\ UNCHANGED <<child, deleted, look, store, used, renames, faults, remote>>

(* ...the file is removed from that directory, if it is still there, under whatever name... *)
RenameUnlinks(i) ==
    /\ job[i].pc = "dropped"
    /\ job' = [job EXCEPT ![i].pc = "unlinked"]
    /\ child' = IF Linked(i) /\ Dir(ino[i].path) = Dir(job[i].to)
                THEN [child EXCEPT ![ino[i].path] = 0] ELSE child
    /\ UNCHANGED <<ino, deleted, modified, look, store, used, renames, faults, remote>>

(* ...and the name it left is free; after a retry only if it is still marked by this file. *)
RenameFrees(i) ==
    /\ job[i].pc \in {"unlinked", "retried"}
    /\ job' = [job EXCEPT ![i].pc = "end"]
    /\ LET p == job[i].from
           frees == p # NoPath /\ deleted[p] # 0 /\ (job[i].pc = "retried" => deleted[p] = i)
       IN  /\ deleted' = IF frees THEN [deleted EXCEPT ![p] = 0] ELSE deleted
           /\ modified' = IF frees THEN addModified(modified, p, -1) ELSE modified
    /\ UNCHANGED <<ino, child, look, store, used, renames, faults, remote>>

RenameError(i) ==
    /\ job[i].pc = "error"
    /\ job' = [job EXCEPT ![i].pc = "end"]
    /\ LET back == ino[i].path = job[i].from
           x == [ino[i] EXCEPT !.renamingTo = FALSE, !.old = IF back THEN NoPath ELSE @,
                               !.awaiting = @ /\ ~back]
           st == IF back /\ Flushable(x) /\ ~isStillDirty(x) /\ ~x.staged THEN "CACHED" ELSE x.st
           m == Recount(modified, x, st)
       IN  /\ ino' = [ino EXCEPT ![i] = [x EXCEPT !.st = st]]
           /\ modified' = IF back THEN addModified(m, x.path, -1) ELSE m
    /\ UNCHANGED <<child, deleted, look, store, used, renames, faults, remote>>

RenameReturns(i) ==
    /\ job[i].pc = "end"
    /\ job' = [job EXCEPT ![i] = NoJob]
    /\ UNCHANGED <<ino, child, deleted, modified, look, store, used, renames, faults, remote>>

-------------------------------------------------------------------------------
(* The goroutine of SendDelete *)

(* Mutant: the name of a deleted file is never given free. *)
MutNameStaysDeleted(i) ==
    /\ job[i].pc = "gone"
    /\ job' = [job EXCEPT ![i] = NoJob]
    /\ ino' = IF job[i].ok THEN [ino EXCEPT ![i] = Reset(@, "DEAD")] ELSE ino
    /\ modified' = IF job[i].ok THEN Recount(modified, ino[i], "DEAD") ELSE modified
    /\ UNCHANGED <<child, deleted, look, store, used, renames, faults, remote>>

SendDelete(i) == job[i].pc = "delete" /\ DeleteBlob(i, "gone")

DeleteReturns(i) ==
    /\ job[i].pc = "gone"
    /\ job' = [job EXCEPT ![i] = NoJob]
    /\ LET x == ino[i]
           st == IF x.st = "DELETED" THEN "DEAD" ELSE x.st
           old == job[i].to
           m == Recount(modified, x, st)
       IN  \/ /\ job[i].ok
              /\ ino' = [ino EXCEPT ![i] = Reset(x, st)]
              /\ deleted' = [p \in Paths |-> IF p \in {old, x.path} THEN 0 ELSE deleted[p]]
              /\ modified' = IF old # NoPath THEN addModified(m, old, -1) ELSE m
           \/ ~job[i].ok /\ UNCHANGED <<ino, deleted, modified>>
    /\ UNCHANGED <<child, look, store, used, renames, faults, remote>>

(* Another client removes an object. *)
RemoteDelete(p) ==
    /\ store[p] # NoObject
    /\ remote < MaxRemote /\ remote' = remote + 1
    /\ store' = [store EXCEPT ![p] = NoObject]
    /\ UNCHANGED <<ino, child, deleted, modified, look, job, used, renames, faults>>

-------------------------------------------------------------------------------
Application ==
    \/ \E p \in Creates : Create(p)
    \/ \E i \in Inodes : Write(i)
    \/ \E m \in Moves : RenameFile(m[1], m[2])
    \/ \E p \in Unlinks : Unlink(p)
Flusher ==
    \/ FlushNothing
    \/ \E i \in Inodes : TryFlush(i) \/ StartDelete(i) \/ StartRename(i) \/ StartPut(i)
Work(i) ==
    \/ PutPrepare(i) \/ StagedFlush(i) \/ (\E w \in {i, -i} : Put(w) \/ PutReturns(w))
    \/ CopyBlob(i) \/ RenameCopied(i) \/ RenameRemove(i) \/ RenameRemoved(i)
    \/ RenameRetries(i) \/ RenameMissing(i) \/ RenameUnlinks(i) \/ RenameFrees(i)
    \/ RenameError(i) \/ RenameReturns(i)
    \/ SendDelete(i) \/ DeleteReturns(i)
Remote == \E p \in Paths : RemoteDelete(p)

Next == Application \/ Flusher \/ (\E i \in Inodes : Work(i)) \/ Remote

Spec == Init /\ [][Next]_vars

(* Goroutines that were started run on; the flusher goes round the queue of dirty
   inodes, so no inode is passed over for ever. *)
Fairness ==
    /\ WF_vars(FlushNothing \/ \E i \in Inodes : StartDelete(i) \/ StartRename(i) \/ StartPut(i))
    /\ \A i \in Inodes : SF_vars(TryFlush(i)) /\ WF_vars(Work(i))
FairSpec == Spec /\ Fairness

-------------------------------------------------------------------------------
(* Properties *)

TypeOK ==
    /\ ino \in [Inodes -> NodeSet] /\ job \in [Workers -> JobSet]
    /\ child \in [Paths -> Inodes \cup {0}] /\ deleted \in [Paths -> Inodes \cup {0}]
    /\ modified \in [Dirs -> Int]
    /\ store \in [Paths -> Objects \cup {NoObject}]
    /\ look.ino \in Inodes \cup {0}

(* Types; and the directory cache is consistent: an inode is listed under the name
   it has, and only while it lives, so removeChildUnlocked never panics. *)
ChildrenNamed ==
    \A p \in Paths : child[p] # 0 => /\ ino[child[p]].path = p
                                     /\ ino[child[p]].st \in {"CREATED", "MODIFIED", "CACHED"}
NamesAgree == TypeOK /\ ChildrenNamed

(* Nothing is left to flush. *)
Settled ==
    \A i \in Inodes : Idle(i) /\ ino[i].st \in {"NONE", "CACHED", "DEAD"}

(* README.md, "Asynchronous rename", and renameInCache's list of edge cases: whatever was
   created, written, renamed and removed, when everything is flushed the object
   store has exactly the files of the namespace with their last content. *)
SettledIsStored ==
    Settled /\ remote = 0 =>
        \A p \in Paths :
            store[p] = IF child[p] = 0 THEN NoObject
                       ELSE [ino |-> child[p], ver |-> ino[child[p]].ver]

(* sendRename has given up no file. *)
NoneDropped == \A i \in Inodes : ~ino[i].dropped

(* A file whose state is ST_CACHED can be evicted: its object is there, under its
   name, with its last version (sendRename, flushSmallObject: SetCacheState), until
   sendRename gives up a file it takes to be removed remotely. *)
CleanIsStored ==
    remote = 0 /\ NoneDropped =>
        \A i \in Inodes : Linked(i) /\ ino[i].st = "CACHED"
            => store[ino[i].path] = [ino |-> i, ver |-> ino[i].ver]

(* The DELETE of an unlinked file or of a renamed file's old key never removes the
   object another linked file has at that key (SendDelete, sendRename). *)
NoForeignDelete ==
    [][\A p \in Paths : \A i \in Inodes :
          (store[p] # NoObject /\ store'[p] = NoObject /\ remote' = remote
             /\ store[p].ino = i /\ Linked(i))
          => SourceKey(ino[i]) # p]_vars

(* An inode whose object still has to leave path p. *)
Leaves(j, p) ==
    \/ ino[j].old = p
    \/ ino[j].st = "DELETED" /\ Idle(j) /\ SourceKey(ino[j]) = p
    \/ job[j].pc \in {"copy", "copied", "remove", "delete"} /\ job[j].from = p

(* dir.go, renameInCache: "create a new file in place of a renamed one => don't
   flush until rename completes": no PUT to a key another file has yet to leave, until
   sendRename gives a file up: what is written to it before it is unlinked is uploaded. *)
NoUploadOverDeleted ==
    [][\A w \in Workers : job[w].pc = "send" /\ job'[w].pc = "sent" /\ NoneDropped
          => ~\E j \in Inodes \ {Owner(w)} : Leaves(j, job[w].to)]_vars

(* file.go, sendRename: "track ModifiedChildren because rename is special - it takes
   two parents": the counters are back at zero when everything is flushed (a
   directory with a counter above zero is never deleted or evicted). *)
ModifiedSettles == Settled => \A d \in Dirs : modified[d] = 0

(* Once the application stops, everything is flushed and every name is free. *)
EventuallySettled == <>[](Settled /\ \A p \in Paths : deleted[p] = 0)
===============================================================================
