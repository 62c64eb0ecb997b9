------------------------------ MODULE DirListing ------------------------------
(***************************************************************************)
(* The cached listing of one directory, the root of a mount, against the    *)
(* bucket.  Readers (DirHandle) load it page by page (loadListing,          *)
(* listObjectsSlurp, listObjectsFlat), lookups refresh single entries       *)
(* (LookUpCached, LookUp), the application creates, writes and unlinks      *)
(* files, whose uploads and deletions (flushSmallObject, SendDelete) run in *)
(* the background and mask the listings they overlap                        *)
(* (addInflightChange, addInflightListing), entries expire (StatCacheTTL,   *)
(* removeExpired) and are evicted (EvictEntry), and other clients change    *)
(* the bucket.                                                              *)
(*                                                                          *)
(* A request is three steps: it is sent, the store answers it from the      *)
(* bucket of that moment, the answer is applied under the directory's lock. *)
(***************************************************************************)
EXTENDS Integers, FiniteSets, FiniteSetsExt

CONSTANTS
    N,          \* the names of the directory are 1..N, in the order of the store
    Remote,     \* the names other clients change; this mount changes the others
    Stored,     \* the names with an object at start
    PageSize,   \* entries of a page of a listing
    Preload,    \* ~flags.NoPreloadDir
    Readers,    \* directory handles
    Lookers,    \* threads that look names up
    LookedUp,   \* the names they look up
    MaxWrites, MaxRemote \* bounds

Names == 1..N
Own == Names \ Remote
Procs == Readers \cup Lookers
Contents == 0..(1 + MaxWrites + MaxRemote) \* of an object, 0 when there is none

ASSUME Constants ==
    /\ {N, PageSize} \subseteq Nat \ {0} /\ {Remote, Stored, LookedUp} \subseteq SUBSET Names
    /\ Preload \in BOOLEAN /\ Readers \cap Lookers = {}
    /\ {MaxWrites, MaxRemote} \subseteq Nat

VARIABLES
    bucket,   \* the objects; a content stands for its ETag and size
    child,    \* Children: cacheState, knownETag, content seen by readers of the file,
              \* open handles, AttrTime >= refreshStartTime
    deleted,  \* DeletedChildren
    put, del, \* the upload and the deletion of a name in flight
    dir,      \* listMarker, lastFromCloud, listDone, DirTime within the TTL, forgetDuringList
    handle,   \* the directory handles and where their thread is in ReadDir
    look,     \* the threads that look a name up
    request,  \* the listing or HEAD a thread waits for, with its entry of inflightListings
    last,     \* the content the application last gave a name, 0 when unlinked
    quiet,    \* the remote names unchanged since a refresh began, or the mount, with no
              \* request on its way
    races,    \* history: what has happened, of AllRaces
    writes, remotes

cache == <<child, dir>>
jobs == <<bucket, deleted, put, del>>
bounds == <<writes, remotes>>
vars == <<bucket, child, deleted, put, del, dir, handle, look, request, last, quiet,
          races, writes, remotes>>

(* What the properties below do not survive:
   "lostAnswer": an upload that was stored is reported as failed;
   "earlyUnmask": a request is sent after an upload has left inflightChanges and before its
      ETag is known;
   "recreated": an unlinked name is created again before its DELETE is on its way;
   "failedLookup": the HEAD for an entry of the cache fails;
   "overlappingRefresh": a reader starts a refresh while another's first page is on its way;
   "evictedListing": entries of a listing that was left half read are evicted. *)
FileRaces == {"lostAnswer", "earlyUnmask", "recreated", "failedLookup"}
AllRaces == FileRaces \cup {"overlappingRefresh", "evictedListing"}

Happens(race, cond) == IF cond THEN {race} ELSE {}

NoChild == [st |-> "none", etag |-> 0, data |-> 0, open |-> FALSE, fresh |-> FALSE]
NoPut == [pc |-> "none", v |-> 0]
NoRequest == [kind |-> "none", from |-> 0, skip |-> {}, answered |-> FALSE,
              items |-> [n \in {} |-> 0], more |-> FALSE]
NewHandle == [pc |-> "idle", idx |-> 0, name |-> 0, entry |-> 0, start |-> 0,
              loaded |-> FALSE, done |-> FALSE, got |-> {}, must |-> {}, twice |-> FALSE,
              whole |-> "partly"]
Closed == [NewHandle EXCEPT !.pc = "closed"]
NoLook == [pc |-> "idle", n |-> 0, same |-> FALSE]
----------------------------------------------------------------------------
(* The sorted children and the positions of the handles *)

Present(ch) == {n \in Names : ch[n].st # "none"}
\* Children[i], counted from zero.
ChildAt(ch, i) == CHOOSE n \in Present(ch) : Cardinality({c \in Present(ch) : c < n}) = i

\* Mutant: the position is found one entry too far.
MutPositionPast(ch, h) ==
    IF h.idx >= 0 THEN h.idx ELSE Cardinality({c \in Present(ch) : c <= h.name}) + 1

\* checkDirPosition: an invalidated position is found again by the last name.
Position(ch, h) == IF h.idx >= 0 THEN h.idx ELSE Cardinality({c \in Present(ch) : c <= h.name})

\* Removal and insertion in the middle invalidate the positions of all handles; an insertion
\* at the end does not.  A name that comes (back) may be returned (again).
Repositioned(hs, old, new) ==
    LET gone == Present(old) \ Present(new)
        come == Present(new) \ Present(old)
        moved == gone # {} \/ \E n \in come, c \in Present(old) : n < c
    IN  [r \in Readers |-> IF hs[r].pc \in {"closed", "ended"} THEN hs[r]
                           ELSE [hs[r] EXCEPT !.idx = IF moved THEN -1 ELSE @, !.got = @ \ come]]

\* A reader need not return n once n has been unlinked or changed.
Changed(hs, n) == [r \in Readers |-> [hs[r] EXCEPT !.must = @ \ {n}]]

\* A lookup that holds a removed inode must not take its successor for it.
Detached(ls, new) ==
    [l \in Lookers |-> [ls[l] EXCEPT !.same = @ /\ new[ls[l].n].st # "none"]]

\* removeExpired(from): entries a listing has passed without mentioning them.
RemoveExpired(ch, d, from) ==
    [n \in Names |-> IF /\ n >= from /\ (d.last # 0 => n < d.last)
                        /\ ch[n].st = "cached" /\ ~ch[n].fresh /\ ~ch[n].open
                     THEN NoChild ELSE ch[n]]

\* sealDir.
Sealed(d) == [d EXCEPT !.marker = 0, !.done = TRUE, !.last = 0, !.valid = TRUE]

\* setFromBlobItemLocked: an unknown ETag discards what is cached, local changes included.
FromBlob(c, v) ==
    IF c.etag = v THEN [c EXCEPT !.fresh = TRUE]
    ELSE [c EXCEPT !.st = "cached", !.etag = v, !.data = v, !.fresh = TRUE]

\* handleListResult and insertSubTree: masked names are passed over, names whose deletion
\* is not finished are not revived.
Applied(ch, q) ==
    [n \in Names |->
        IF n \notin DOMAIN q.items \ q.skip THEN ch[n]
        ELSE IF ch[n].st # "none" THEN FromBlob(ch[n], q.items[n])
        ELSE IF deleted[n] THEN NoChild
        ELSE [NoChild EXCEPT !.st = "cached", !.etag = q.items[n], !.data = q.items[n], !.fresh = TRUE]]
----------------------------------------------------------------------------
(* Requests and the changes in flight that mask their answers *)

inflightChange(n) == put[n].pc \in {"sent", "stored"} \/ del[n] # "none"

\* A request sent now may be answered with an object whose ETag this mount does not know yet.
EarlyUnmask == Happens("earlyUnmask", \E n \in Names : put[n].pc = "unmasked")

\* Mutant: the listing does not learn of the changes already in flight.
MutListingUnmasked(kind, from) == [NoRequest EXCEPT !.kind = kind, !.from = from]

\* addInflightListing, and the request is sent.
addInflightListing(kind, from) ==
    [NoRequest EXCEPT !.kind = kind, !.from = from, !.skip = {n \in Names : inflightChange(n)}]

\* addInflightChange: every listing in flight will pass n over.
addInflightChange(n) ==
    request' = [p \in Procs |-> IF request[p].kind = "none" THEN request[p]
                                ELSE [request[p] EXCEPT !.skip = @ \cup {n}]]

\* The store answers with the first PageSize objects after q.from, or with one object.
Answer(p) ==
    LET q == request[p]
        after == {n \in Names : bucket[n] # 0 /\ n > q.from}
        page == {n \in after : Cardinality({m \in after : m < n}) < PageSize}
        found == IF q.kind = "head" THEN {n \in {q.from} : bucket[n] # 0} ELSE page
    IN  /\ q.kind # "none" /\ ~q.answered
        /\ request' = [request EXCEPT ![p].answered = TRUE, ![p].items = [n \in found |-> bucket[n]],
                                      ![p].more = q.kind # "head" /\ page # after]
        /\ UNCHANGED <<bucket, child, deleted, put, del, dir, handle, look, last, quiet, races, bounds>>

\* The children become ch: positions and held inodes follow.
Becomes(ch, hs) ==
    /\ child' = ch
    /\ handle' = hs
    /\ look' = Detached(look, ch)
----------------------------------------------------------------------------
(* Reading the directory *)

OpenDir(r) ==
    /\ handle[r].pc = "closed"
    /\ handle' = [handle EXCEPT ![r] =
           [NewHandle EXCEPT !.must = {n \in Own : last[n] # 0} \cup {n \in quiet : bucket[n] # 0}]]
    /\ UNCHANGED <<cache, jobs, look, request, last, quiet, races, bounds>>

CloseDir(r) ==
    /\ handle[r].pc \in {"idle", "ended"}
    /\ handle' = [handle EXCEPT ![r] = Closed]
    /\ UNCHANGED <<cache, jobs, look, request, last, quiet, races, bounds>>

\* The locals of loadListing are gone when it returns.
Served(h) == [h EXCEPT !.start = 0, !.loaded = FALSE, !.done = FALSE]

\* Whether the reader met the complete directory before it passed the last entry of a
\* listing that is not (lastFromCloud).
Met(h, d, past) ==
    IF h.whole # "partly" THEN h.whole
    ELSE IF d.valid \/ d.done THEN "yes" ELSE IF past THEN "no" ELSE "partly"

\* The end of ReadDir: the child at the position, or the end of the directory.
Serve(r, ch, d, hs) ==
    LET i == Position(ch, hs[r])
        e == ChildAt(ch, i)
    IN  IF i >= Cardinality(Present(ch))
        THEN /\ dir' = [d EXCEPT !.done = FALSE, !.valid = @ /\ ~d.forget]
             /\ Becomes(ch, [hs EXCEPT ![r] = [Closed EXCEPT !.pc = "ended", !.must = hs[r].must \ hs[r].got,
                                                   !.twice = hs[r].twice, !.whole = Met(hs[r], d, TRUE)]])
        ELSE /\ dir' = [d EXCEPT !.last = IF @ = e THEN 0 ELSE @]
             /\ Becomes(ch, [hs EXCEPT ![r] = [Served(@) EXCEPT !.pc = "entry", !.idx = i, !.entry = e,
                                                               !.whole = Met(hs[r], d, e > d.last)]])

\* The loop of loadListing and what follows it, in one hold of the directory's lock.
Load(r, ch, d, hs) ==
    IF d.last = 0 /\ ~d.done
    THEN /\ dir' = d
         /\ Becomes(ch, [hs EXCEPT ![r].pc = "list"])
    ELSE LET kept == IF hs[r].loaded \/ d.done THEN RemoveExpired(ch, d, hs[r].start) ELSE ch
         IN  Serve(r, kept, d, Repositioned(hs, ch, kept))

Loading(r) == handle[r].pc \in {"slurp", "loaded", "list", "flat"}

\* The first lines of loadListing: a new refresh starts unless one is under way.
Refreshes == ~dir.done /\ dir.marker = 0
Overlapping == Happens("overlappingRefresh", Refreshes /\ \E o \in Readers : Loading(o))

\* Mutant: refreshStartTime keeps its old value.
MutStartedEarlier(ch) == ch

Started(ch) == [n \in Names |-> [ch[n] EXCEPT !.fresh = FALSE]]

\* ReadDir up to its first request or its answer from the cache.
ReadDir(r) ==
    LET d == IF Refreshes THEN [dir EXCEPT !.last = 0, !.forget = FALSE] ELSE dir
        ch == IF Refreshes THEN Started(child) ELSE child
        hs == [handle EXCEPT ![r].idx = Position(child, handle[r])]
    IN  /\ handle[r].pc = "idle"
        /\ \/ /\ dir.valid
              /\ Serve(r, child, dir, hs)
              /\ UNCHANGED <<request, quiet, races>>
           \/ /\ ~dir.valid
              /\ quiet' = IF ~Refreshes THEN quiet
                          ELSE IF \E p \in Procs : request[p].kind # "none" THEN quiet ELSE Remote
              /\ \/ /\ dir.marker = 0 /\ Preload
                    /\ dir' = d
                    /\ Becomes(ch, [hs EXCEPT ![r].pc = "slurp"])
                    /\ request' = [request EXCEPT ![r] = addInflightListing("slurp", 0)]
                    /\ races' = races \cup Overlapping \cup EarlyUnmask
                 \/ /\ dir.marker # 0 \/ ~Preload
                    /\ Load(r, ch, d, hs)
                    /\ races' = races \cup Overlapping
                    /\ UNCHANGED request
        /\ UNCHANGED <<jobs, last, bounds>>

\* listObjectsSlurp of the directory itself, and slurpOnce.
Slurped(r) ==
    LET q == request[r]
        all == Applied(child, q)
        d == IF q.more THEN dir ELSE Sealed(dir)
        ch == IF q.more THEN all ELSE RemoveExpired(all, d, 0)
    IN  /\ handle[r].pc = "slurp" /\ q.answered
        /\ dir' = d
        /\ Becomes(ch, [Repositioned(Repositioned(handle, child, all), all, ch)
                            EXCEPT ![r].pc = "loaded", ![r].done = ~q.more])
        /\ request' = [request EXCEPT ![r] = NoRequest]
        /\ UNCHANGED <<jobs, last, quiet, races, bounds>>

\* loadListing takes the lock again after a slurp or a page.
Loaded(r) ==
    LET seal == handle[r].done /\ ~dir.done
        d == IF seal THEN Sealed(dir) ELSE dir
        ch == IF seal THEN RemoveExpired(child, d, 0) ELSE child
    IN  /\ handle[r].pc = "loaded"
        /\ Load(r, ch, d, [Repositioned(handle, child, ch) EXCEPT ![r].done = FALSE])
        /\ UNCHANGED <<jobs, request, last, quiet, races, bounds>>

\* listObjectsFlat up to its request.
listObjectsFlat(r) ==
    /\ handle[r].pc = "list"
    /\ request' = [request EXCEPT ![r] = addInflightListing("flat", dir.marker)]
    /\ handle' = [handle EXCEPT ![r].pc = "flat", ![r].loaded = TRUE,
                                ![r].start = IF handle[r].loaded THEN @ ELSE dir.marker]
    /\ races' = races \cup EarlyUnmask
    /\ UNCHANGED <<cache, jobs, look, last, quiet, bounds>>

\* handleListResult and the end of listObjectsFlat: the marker moves on, or the directory
\* is sealed.
Listed(r) ==
    LET q == request[r]
        shown == DOMAIN q.items \ q.skip
        all == Applied(child, q)
        passed == [dir EXCEPT !.last = Max({@} \cup shown)]
        d == IF q.more THEN [passed EXCEPT !.marker = Max({@} \cup DOMAIN q.items)]
             ELSE Sealed(passed)
        ch == IF q.more THEN all ELSE RemoveExpired(all, d, 0)
    IN  /\ handle[r].pc = "flat" /\ q.answered
        /\ dir' = d
        /\ Becomes(ch, [Repositioned(Repositioned(handle, child, all), all, ch)
                            EXCEPT ![r].pc = "loaded"])
        /\ request' = [request EXCEPT ![r] = NoRequest]
        /\ UNCHANGED <<jobs, last, quiet, races, bounds>>

\* A listing fails: ReadDir returns the error, the position stays.
ListFails(r) ==
    /\ handle[r].pc \in {"slurp", "flat"} /\ request[r].answered
    /\ handle' = [handle EXCEPT ![r] = [Served(@) EXCEPT !.pc = "idle"]]
    /\ request' = [request EXCEPT ![r] = NoRequest]
    /\ UNCHANGED <<cache, jobs, look, last, quiet, races, bounds>>

\* Mutant: Next counts on from an invalidated position.
MutAdvanceAlways(r) ==
    LET h == handle[r]
    IN  /\ h.pc = "entry"
        /\ handle' = [handle EXCEPT ![r] =
               [h EXCEPT !.pc = "idle", !.idx = @ + 1, !.name = h.entry, !.entry = 0,
                         !.got = @ \cup {h.entry}, !.twice = @ \/ h.entry \in h.got]]
        /\ UNCHANGED <<cache, jobs, look, request, last, quiet, races, bounds>>

\* The entry is written into the kernel's buffer and Next moves the position, if nothing
\* has invalidated it since; or the buffer is full and the entry waits for the next call.
Advance(r) ==
    LET h == handle[r]
    IN  /\ h.pc = "entry"
        /\ handle' = [handle EXCEPT ![r] =
               [h EXCEPT !.pc = "idle", !.idx = IF @ >= 0 THEN @ + 1 ELSE @, !.name = h.entry, !.entry = 0,
                         !.got = @ \cup {h.entry}, !.twice = @ \/ h.entry \in h.got]]
        /\ UNCHANGED <<cache, jobs, look, request, last, quiet, races, bounds>>

BufferFull(r) ==
    /\ handle[r].pc = "entry"
    /\ handle' = [handle EXCEPT ![r].pc = "idle", ![r].entry = 0]
    /\ UNCHANGED <<cache, jobs, look, request, last, quiet, races, bounds>>
----------------------------------------------------------------------------
(* Looking a name up *)

\* LookUpCached when the cache cannot answer: a known name is asked for with HEAD, an
\* unknown one with a listing that starts at it.  The TTL of an AttrTime may have passed
\* whenever an entry is looked at.
LookUpCached(l, n) ==
    /\ look[l].pc = "idle"
    /\ IF child[n].st # "none" THEN child[n].st = "cached"
       ELSE ~deleted[n] /\ ~dir.valid
    /\ LET kind == IF child[n].st = "none" /\ Preload THEN "slurp" ELSE "head"
       IN  /\ request' = [request EXCEPT ![l] = addInflightListing(kind, n)]
           /\ look' = [look EXCEPT ![l] = [pc |-> kind, n |-> n, same |-> child[n].st # "none"]]
    /\ races' = races \cup EarlyUnmask
    /\ UNCHANGED <<cache, jobs, handle, last, quiet, bounds>>

\* listObjectsSlurp for a lookup: the page is applied, nothing is sealed; a name that is
\* still unknown is asked for.
LookUpSlurped(l) ==
    LET ch == Applied(child, request[l])
        n == look[l].n
        found == ch[n].st # "none"
    IN  /\ look[l].pc = "slurp" /\ request[l].answered
        /\ child' = ch
        /\ handle' = Repositioned(handle, child, ch)
        /\ look' = [Detached(look, ch) EXCEPT ![l] = IF found THEN NoLook ELSE [@ EXCEPT !.pc = "head"]]
        /\ request' = [request EXCEPT ![l] = IF found THEN NoRequest ELSE addInflightListing("head", n)]
        /\ races' = IF found THEN races ELSE races \cup EarlyUnmask
        /\ UNCHANGED <<dir, jobs, last, quiet, bounds>>

\* LookUp applies the object; without one recheckInode removes the inode it had found.
LookUpReturns(l) ==
    LET q == request[l]
        n == look[l].n
        ch == IF n \in DOMAIN q.items THEN Applied(child, q)
              ELSE IF look[l].same THEN [child EXCEPT ![n] = NoChild] ELSE child
    IN  /\ look[l].pc = "head" /\ q.answered
        /\ child' = ch
        /\ handle' = Repositioned(handle, child, ch)
        /\ look' = [Detached(look, ch) EXCEPT ![l] = NoLook]
        /\ request' = [request EXCEPT ![l] = NoRequest]
        /\ UNCHANGED <<dir, jobs, last, quiet, races, bounds>>

\* recheckInode removes the inode whatever the error is.
LookUpFails(l) ==
    LET n == look[l].n
        ch == IF look[l].same THEN [child EXCEPT ![n] = NoChild] ELSE child
    IN  /\ look[l].pc \in {"slurp", "head"} /\ request[l].answered
        /\ child' = ch
        /\ handle' = Repositioned(handle, child, ch)
        /\ look' = [Detached(look, ch) EXCEPT ![l] = NoLook]
        /\ request' = [request EXCEPT ![l] = NoRequest]
        /\ races' = races \cup Happens("failedLookup", look[l].same)
        /\ UNCHANGED <<dir, jobs, last, quiet, bounds>>
----------------------------------------------------------------------------
(* The application's files and the requests that store and delete them *)

\* CreateOrOpen: the kernel creates a name that a lookup did not find.
Create(n) ==
    LET ch == [child EXCEPT ![n] = [NoChild EXCEPT !.st = "created", !.data = writes + 2,
                                        !.open = TRUE, !.fresh = TRUE]]
    IN  /\ n \in Own /\ child[n].st = "none" /\ last[n] = 0 /\ writes < MaxWrites
        /\ Becomes(ch, Repositioned(handle, child, ch))
        /\ last' = [last EXCEPT ![n] = writes + 2]
        /\ writes' = writes + 1
        /\ races' = races \cup Happens("recreated", deleted[n] /\ del[n] = "none")
        /\ UNCHANGED <<dir, jobs, request, quiet, remotes>>

Open(n) ==
    /\ n \in Own /\ child[n].st # "none" /\ ~child[n].open /\ writes < MaxWrites
    /\ child' = [child EXCEPT ![n].open = TRUE]
    /\ UNCHANGED <<dir, jobs, handle, look, request, last, quiet, races, bounds>>

Release(n) ==
    /\ child[n].open
    /\ child' = [child EXCEPT ![n].open = FALSE]
    /\ UNCHANGED <<dir, jobs, handle, look, request, last, quiet, races, bounds>>

WriteFile(n) ==
    /\ child[n].open /\ writes < MaxWrites
    /\ child' = [child EXCEPT ![n].data = writes + 2,
                              ![n].st = IF @ = "cached" THEN "modified" ELSE @]
    /\ last' = [last EXCEPT ![n] = writes + 2]
    /\ writes' = writes + 1
    /\ UNCHANGED <<dir, jobs, handle, look, request, quiet, races, remotes>>

\* doUnlink: what is or may be in the bucket is deleted in the background.
Unlink(n) ==
    LET ch == [child EXCEPT ![n] = NoChild]
    IN  /\ n \in Own /\ child[n].st # "none"
        /\ deleted' = [deleted EXCEPT ![n] = @ \/ child[n].st # "created" \/ put[n].pc # "none"]
        /\ Becomes(ch, Changed(Repositioned(handle, child, ch), n))
        /\ last' = [last EXCEPT ![n] = 0]
        /\ UNCHANGED <<bucket, put, del, dir, request, quiet, races, bounds>>

\* TryFlush and flushSmallObject up to the PUT; a new file waits for the deletion of the old.
SendPut(n) ==
    /\ child[n].st \in {"created", "modified"} /\ ~deleted[n] /\ put[n].pc = "none"
    /\ put' = [put EXCEPT ![n] = [pc |-> "sent", v |-> child[n].data]]
    /\ addInflightChange(n)
    /\ UNCHANGED <<cache, bucket, deleted, del, handle, look, last, quiet, races, bounds>>

StorePut(n) ==
    /\ put[n].pc = "sent"
    /\ bucket' = [bucket EXCEPT ![n] = put[n].v]
    /\ put' = [put EXCEPT ![n].pc = "stored"]
    /\ UNCHANGED <<cache, deleted, del, handle, look, request, last, quiet, races, bounds>>

\* completeInflightChange: from here on listings are no longer masked...
PutUnmasks(n) ==
    /\ put[n].pc = "stored"
    /\ put' = [put EXCEPT ![n].pc = "unmasked"]
    /\ UNCHANGED <<cache, bucket, deleted, del, handle, look, request, last, quiet, races, bounds>>

\* ...and updateFromFlush under the inode's lock, unless the inode was unlinked meanwhile.
PutReturns(n) ==
    LET c == child[n]
    IN  /\ put[n].pc = "unmasked"
        /\ put' = [put EXCEPT ![n] = NoPut]
        /\ child' = IF deleted[n] THEN child
                    ELSE [child EXCEPT ![n] =
                             [c EXCEPT !.etag = put[n].v, !.fresh = TRUE,
                                       !.st = IF @ = "cached" \/ c.data = put[n].v THEN "cached"
                                              ELSE "modified"]]
        /\ UNCHANGED <<bucket, deleted, del, dir, handle, look, request, last, quiet, races, bounds>>

\* completeInflightChange, and the error is recorded.
PutFails(n) ==
    /\ put[n].pc \in {"sent", "stored"}
    /\ put' = [put EXCEPT ![n] = NoPut]
    /\ races' = races \cup Happens("lostAnswer", put[n].pc = "stored")
    /\ UNCHANGED <<cache, bucket, deleted, del, handle, look, request, last, quiet, bounds>>

\* TryFlush of a deleted inode and SendDelete up to the request.
SendDelete(n) ==
    /\ deleted[n] /\ put[n].pc = "none" /\ del[n] = "none"
    /\ del' = [del EXCEPT ![n] = "sent"]
    /\ addInflightChange(n)
    /\ UNCHANGED <<cache, bucket, deleted, put, handle, look, last, quiet, races, bounds>>

StoreDelete(n) ==
    /\ del[n] = "sent"
    /\ bucket' = [bucket EXCEPT ![n] = 0]
    /\ del' = [del EXCEPT ![n] = "stored"]
    /\ UNCHANGED <<cache, deleted, put, handle, look, request, last, quiet, races, bounds>>

DeleteReturns(n) ==
    /\ del[n] = "stored"
    /\ del' = [del EXCEPT ![n] = "none"]
    /\ deleted' = [deleted EXCEPT ![n] = FALSE]
    /\ UNCHANGED <<cache, bucket, put, handle, look, request, last, quiet, races, bounds>>

\* A DELETE that fails, or whose answer is lost, is repeated; for a name that was created
\* again meanwhile it is then no longer on its way.
DeleteFails(n) ==
    /\ del[n] # "none"
    /\ del' = [del EXCEPT ![n] = "none"]
    /\ races' = races \cup Happens("recreated", child[n].st # "none")
    /\ UNCHANGED <<cache, bucket, deleted, put, handle, look, request, last, quiet, bounds>>
----------------------------------------------------------------------------
(* Time, eviction and other clients *)

\* StatCacheTTL has passed since DirTime, perhaps while a listing is under way.
ExpireDir ==
    /\ dir.valid
    /\ dir' = [dir EXCEPT !.valid = FALSE]
    /\ UNCHANGED <<child, jobs, handle, look, request, last, quiet, races, bounds>>

\* Mutant: the directory stays trusted.
MutEvictTrusted(n) ==
    LET ch == [child EXCEPT ![n] = NoChild]
    IN  /\ child[n].st = "cached" /\ ~child[n].open
        /\ \A r \in Readers : handle[r].pc = "closed"
        /\ Becomes(ch, Repositioned(handle, child, ch))
        /\ dir' = [dir EXCEPT !.forget = TRUE]
        /\ races' = races \cup Happens("evictedListing", ~Refreshes)
        /\ UNCHANGED <<jobs, request, last, quiet, bounds>>

EvictEntry(n) ==
    LET ch == [child EXCEPT ![n] = NoChild]
    IN  /\ child[n].st = "cached" /\ ~child[n].open
        /\ \A r \in Readers : handle[r].pc = "closed"
        /\ Becomes(ch, Repositioned(handle, child, ch))
        /\ dir' = [dir EXCEPT !.valid = FALSE, !.forget = TRUE]
        /\ races' = races \cup Happens("evictedListing", ~Refreshes)
        /\ UNCHANGED <<jobs, request, last, quiet, bounds>>

\* Another client creates, overwrites or deletes an object.
RemoteChange(n) ==
    /\ n \in Remote /\ remotes < MaxRemote
    /\ \E v \in {0, 2 + MaxWrites + remotes} \ {bucket[n]} : bucket' = [bucket EXCEPT ![n] = v]
    /\ remotes' = remotes + 1
    /\ quiet' = quiet \ {n}
    /\ handle' = Changed(handle, n)
    /\ UNCHANGED <<cache, deleted, put, del, look, request, last, races, writes>>
----------------------------------------------------------------------------
Init ==
    /\ bucket = [n \in Names |-> IF n \in Stored THEN 1 ELSE 0]
    /\ child = [n \in Names |-> NoChild]
    /\ deleted = [n \in Names |-> FALSE]
    /\ put = [n \in Names |-> NoPut]
    /\ del = [n \in Names |-> "none"]
    /\ dir = [marker |-> 0, last |-> 0, done |-> FALSE, valid |-> FALSE, forget |-> FALSE]
    /\ handle = [r \in Readers |-> Closed]
    /\ look = [l \in Lookers |-> NoLook]
    /\ request = [p \in Procs |-> NoRequest]
    /\ last = [n \in Names |-> IF n \in Own THEN bucket[n] ELSE 0]
    /\ quiet = Remote
    /\ races = {} /\ writes = 0 /\ remotes = 0

ReaderStep(r) ==
    \/ OpenDir(r) \/ CloseDir(r) \/ ReadDir(r) \/ Slurped(r) \/ Loaded(r) \/ listObjectsFlat(r)
    \/ Listed(r) \/ ListFails(r) \/ Advance(r) \/ BufferFull(r)

LookerStep(l) ==
    \/ \E n \in LookedUp : LookUpCached(l, n)
    \/ LookUpSlurped(l) \/ LookUpReturns(l) \/ LookUpFails(l)

FileStep(n) ==
    \/ Create(n) \/ Open(n) \/ Release(n) \/ WriteFile(n) \/ Unlink(n)
    \/ SendPut(n) \/ StorePut(n) \/ PutUnmasks(n) \/ PutReturns(n) \/ PutFails(n)
    \/ SendDelete(n) \/ StoreDelete(n) \/ DeleteReturns(n) \/ DeleteFails(n)

Next ==
    \/ \E r \in Readers : ReaderStep(r)
    \/ \E p \in Procs : Answer(p)
    \/ \E l \in Lookers : LookerStep(l)
    \/ \E n \in Names : FileStep(n) \/ EvictEntry(n) \/ RemoteChange(n)
    \/ ExpireDir

Spec == Init /\ [][Next]_vars
----------------------------------------------------------------------------
(* Properties *)

TypeOK ==
    /\ bucket \in [Names -> Contents]
    /\ child \in [Names -> [st : {"none", "created", "modified", "cached"}, etag : Contents,
                            data : Contents, open : BOOLEAN, fresh : BOOLEAN]]
    /\ deleted \in [Names -> BOOLEAN]
    /\ put \in [Names -> [pc : {"none", "sent", "stored", "unmasked"}, v : Contents]]
    /\ del \in [Names -> {"none", "sent", "stored"}]
    /\ dir \in [marker : 0..N, last : 0..N, done : BOOLEAN, valid : BOOLEAN, forget : BOOLEAN]
    /\ \A r \in Readers :
           /\ handle[r].pc \in {"closed", "idle", "slurp", "loaded", "list", "flat", "entry", "ended"}
           /\ handle[r].idx \in -1..N /\ {handle[r].name, handle[r].start} \subseteq 0..N
           /\ handle[r].pc = "entry" => handle[r].entry \in Names
    /\ \A l \in Lookers : look[l].pc \in {"idle", "slurp", "head"}
    /\ races \subseteq AllRaces
    /\ \A p \in Procs : request[p].skip \subseteq Names /\ DOMAIN request[p].items \subseteq Names

\* What the directory shows of this mount's files is what the application left there.
FilesShown == \A n \in Own : child[n].st # "none" => last[n] # 0 /\ child[n].data = last[n]

\* An unlinked name is not revived by a page that was read before its deletion, and no page
\* or HEAD brings an older version back or discards a change that is not stored yet
\* (the masking by inflightChanges, DeletedChildren).
OwnView == races \cap FileRaces = {} => FilesShown

\* dir.go, handleListResult: "Don't revive deleted items": a page that was read before the
\* DELETE does not show the old object under the name of the file created in its place.
RecreatedIsShown == races \subseteq {"recreated"} => FilesShown

\* A file that has left the cache is complete in the bucket, and the next lookup asks for it:
\* neither DirTime nor DeletedChildren makes LookUpCached answer ENOENT
\* (removeExpired, sealDir, EvictEntry, recheckInode).
NothingVanishes ==
    races = {} =>
        \A n \in Own : last[n] # 0 /\ child[n].st = "none" =>
            bucket[n] = last[n] /\ ~deleted[n] /\ ~dir.valid

\* A name that exists from opendir to the end of the directory is returned, and no name is
\* returned twice, whatever is created, unlinked, listed or looked up in between, if the
\* reader met the complete directory before it passed the end of what was listed
\* (checkDirPosition, Next, lastFromCloud).
ReadDirComplete ==
    races = {} =>
        \A r \in Readers : /\ ~handle[r].twice
                           /\ handle[r].pc = "ended" /\ handle[r].whole = "yes" => handle[r].must = {}

\* A directory whose DirTime is trusted shows the bucket: names other clients left alone
\* since the refresh began are there in their version, and those that they deleted before
\* it are gone (page borders, removeExpired, sealDir).
TrustedIsFresh ==
    races = {} /\ dir.valid =>
        \A n \in quiet : child[n].etag = bucket[n] /\ (bucket[n] = 0 => child[n].st = "none")
===============================================================================
