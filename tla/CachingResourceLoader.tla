----------------------- MODULE CachingResourceLoader -----------------------
(***************************************************************************)
(* One streaming loader over the sparse cache store                        *)
(* (Sources/ParsoAudioStreaming/CachingResourceLoader.swift and            *)
(* CachingResourceLoaderPrefetch.swift).  Each loading request of the      *)
(* player is a task of its own that answers from the cache while it can    *)
(* and from the network otherwise; the tasks run in parallel and share the *)
(* loader's write handle, whose file offset is set by one call and used by *)
(* the next.  A warm-up task fills the cache with a handle of its own.     *)
(* Between two awaits of a task any call of the store may be made.         *)
(*                                                                         *)
(* A handle is the root its file is in, Lost once that file has been       *)
(* unlinked: a rename carries it along.                                    *)
(***************************************************************************)
EXTENDS SparseCacheStore

CONSTANTS Track,    \* the key this loader streams
          Tasks,    \* its loading requests
          Lost,
          MaxMoves  \* bound on the requests, warm-ups, calls, purges and restarts

ASSUME LoaderAssumption == Track \in Keys /\ Lost \notin Roots /\ None \notin Roots

VARIABLES task,        \* task -> its local variables in handle and serve
          warming,     \* the local variables of warm
          handle,      \* fileHandle
          offset,      \* the file offset of that handle
          ranged,      \* resolvedSupportsByteRanges
          didShutdown,
          history      \* what has happened, for the properties and the bound

loaderVars == <<task, warming, handle, offset, ranged, didShutdown, history>>
vars == <<storeVars, loaderVars>>

Length == SizeOf(Track)
Chunks == 0..(Length - 1)
ToTheEnd == Length + 1          \* Int64.max

Idle == [pc |-> "idle", root |-> "evictable", cursor |-> 0, end |-> 0, total |-> 0,
         bodyEnd |-> 0, from |-> 0, n |-> 0, chunked |-> FALSE, expected |-> 0]
NoWarmup == [pc |-> "idle", root |-> "evictable", from |-> 0, to |-> 0]

CacheTotal == MetaOf(Now, Track).total

-----------------------------------------------------------------------------
(***************************************************************************)
(* History                                                                 *)
(***************************************************************************)
\* The metadata claims bytes beyond the end of the file.
Overclaims ==
    \E o \in MetaOf(Now, Track).ranges : o >= FileSize(blob[fileURL(Track)][Track])

\* A request, the warm-up or the open handle relies on where the file is.
InUse == handle # None \/ warming.pc # "idle" \/ \E t \in Tasks : task[t].pc # "idle"

Displaced ==
    \/ RootFor(metas'[Track]) # RootFor(metas[Track])
    \/ \E r \in Roots : blob[r][Track] # None /\ blob'[r][Track] = None

\* An unpin that finds an older copy in the evictable root keeps that copy.
UnpinsOntoCopy == /\ RootFor(metas[Track]) = "durable" /\ RootFor(metas'[Track]) = "evictable"
                  /\ metas'[Track] # None /\ blob["evictable"][Track] # None

\* disturbed: something has happened that the store does not notice.
Noted(cause) == [history EXCEPT !.disturbed = @ \/ cause \/ (InUse /\ Displaced) \/ UnpinsOntoCopy]

\* A request counts for two calls.
Counted(h) == [h EXCEPT !.moves = @ + 1]
Requested(h) == [h EXCEPT !.moves = @ + 2]

\* What a store call leaves of the loader's handle.
Follow ==
    handle' = IF handle \notin Roots \/ blob'[handle][Track] # None THEN handle
              ELSE IF blob[OtherRoot(handle)][Track] = None
                      /\ blob'[OtherRoot(handle)][Track] # None
                   THEN OtherRoot(handle) ELSE Lost

-----------------------------------------------------------------------------
(***************************************************************************)
(* A loading request                                                       *)
(***************************************************************************)
Set(t, v) == task' = [task EXCEPT ![t] = v] /\ UNCHANGED <<warming, didShutdown>>

\* A step of a task that changes nothing else.
Local(t, v) == Set(t, v) /\ UNCHANGED <<storeVars, handle, offset, ranged, history>>

\* A step that ends with a call of the store.
Await(t, v, s) == Set(t, v) /\ Call(s) /\ Follow /\ history' = Noted(FALSE) /\ UNCHANGED offset

\* The bounds of serve, once the length n of the resource is known (0 = not).
Bounded(v, n) ==
    LET end == IF n > 0 THEN Min({n, v.end}) ELSE v.end
    IN  IF v.cursor < end THEN [v EXCEPT !.pc = "path", !.total = n, !.end = end] ELSE Idle

\* resourceLoader(_:shouldWaitFor...), handle and the first half of
\* ensureResolvedLength: a request for a part of the file, or for all to the end.
Request(t) ==
    /\ task[t].pc = "idle" /\ ~didShutdown /\ history.moves + 1 < MaxMoves
    /\ \E start \in Chunks, end \in Chunks \union {ToTheEnd} :
          LET v == [Idle EXCEPT !.pc = "probe", !.cursor = start, !.expected = start, !.end = end]
          IN  /\ start < end
              /\ Set(t, IF CacheTotal > 0 THEN Bounded(v, CacheTotal) ELSE v)
    /\ history' = Requested(history)
    /\ UNCHANGED <<storeVars, handle, offset, ranged>>

\* The origin answers the probe with a length, or with a 200 that has none.
Probe(t) ==
    /\ task[t].pc = "probe"
    /\ \/ ranged' \in BOOLEAN /\ Await(t, Bounded(task[t], Length), setContentLength(Now, Track, Length))
       \/ ranged' = FALSE /\ Await(t, Bounded(task[t], 0), Now)

Path(t) == /\ task[t].pc = "path"
           /\ Local(t, [task[t] EXCEPT !.pc = "create", !.root = fileURL(Track)])

Created(r) == IF blob[r][Track] # None THEN Now ELSE [Now EXCEPT !.blob[r][Track] = <<>>]

Create(t) == /\ task[t].pc = "create" /\ UNCHANGED ranged
             /\ Await(t, [task[t] EXCEPT !.pc = "loop"], Created(task[t].root))

\* The head of serve's loop: shutdown has cancelled every request.
Lookup(t) ==
    LET hit == cachedContiguousBytes(Now, Track, task[t].cursor)
        end == Min({task[t].cursor + hit.n, task[t].end})
    IN  /\ task[t].pc = "loop" /\ UNCHANGED ranged
        /\ IF didShutdown THEN Await(t, Idle, Now)
           ELSE Await(t, [task[t] EXCEPT !.pc = IF hit.n > 0 THEN "read" ELSE "ask",
                                         !.n = IF hit.n > 0 THEN end ELSE 0], hit.s)

Continue(v) == IF v.cursor < v.end THEN [v EXCEPT !.pc = "loop", !.n = 0, !.from = 0, !.bodyEnd = 0]
               ELSE Idle

\* readFile of the path the request started with.
Read(t) ==
    LET v    == task[t]
        file == blob[v.root][Track]
        stop == Min({v.n, FileSize(file)})
        more == stop - v.cursor
    IN  /\ v.pc = "read"
        /\ IF more <= 0 THEN Local(t, [v EXCEPT !.pc = "ask", !.n = 0])
           ELSE /\ Set(t, Continue([v EXCEPT !.cursor = stop, !.expected = @ + more]))
                /\ history' = [history EXCEPT !.falseServed =
                                  @ \/ \E i \in (v.cursor + 1)..stop : ~file[i]]
                /\ UNCHANGED <<storeVars, handle, offset, ranged>>

\* The response of the origin: a range that starts at the cursor, the whole
\* body, or the whole body without a length.
Ask(t) ==
    LET v     == task[t]
        known == IF CacheTotal > 0 THEN CacheTotal ELSE v.total
        Body(end) == [v EXCEPT !.pc = "body", !.from = v.cursor, !.bodyEnd = end]
    IN  /\ v.pc = "ask"
        /\ \/ /\ ranged /\ v.cursor < Length
              /\ Local(t, Body(IF v.total > 0 THEN Min({v.end, Length}) ELSE Length))
           \/ /\ v.cursor = 0 /\ ranged' = FALSE
              /\ \E n \in {Length, known} \ {0} : Await(t, Body(Length), setContentLength(Now, Track, n))
           \/ /\ v.cursor = 0 /\ known = 0 /\ ranged' = FALSE
              /\ Await(t, [Body(Length) EXCEPT !.chunked = TRUE, !.end = ToTheEnd], Now)

SeekEarly(t) ==
    LET v == task[t]
    IN  /\ v.pc = "body" /\ v.cursor < v.bodyEnd
        /\ Set(t, [v EXCEPT !.pc = "write"])
        /\ handle' = IF handle = None /\ blob[v.root][Track] # None THEN v.root ELSE handle
        /\ offset' = v.cursor - 1
        /\ UNCHANGED <<storeVars, ranged, history>>

\* flush, first half: the handle is opened once, at the path of this request,
\* and seeks; a path with no file leaves it closed and the bytes are dropped.
Seek(t) ==
    LET v == task[t]
    IN  /\ v.pc = "body" /\ v.cursor < v.bodyEnd
        /\ Set(t, [v EXCEPT !.pc = "write"])
        /\ handle' = IF handle = None /\ blob[v.root][Track] # None THEN v.root ELSE handle
        /\ offset' = v.cursor
        /\ UNCHANGED <<storeVars, ranged, history>>

\* Chunks a..b-1 written into a file, over its end if need be.
Written(file, a, b, good) ==
    [i \in 1..Max({FileSize(file), b}) |-> IF a < i /\ i <= b THEN good
                                           ELSE i <= FileSize(file) /\ file[i]]

WriteOver(t) ==
    LET v == task[t]
    IN  /\ v.pc = "write"
        /\ Set(t, [v EXCEPT !.pc = "body", !.cursor = @ + 1, !.expected = @ + 1])
        /\ blob' = IF handle \in Roots
                   THEN [blob EXCEPT ![handle][Track] =
                            Written(@, offset, offset + 1, offset = v.cursor)] ELSE blob
        /\ offset' = IF \E u \in Tasks \ {t} : task[u].pc = "write" THEN offset + 1 ELSE 0
        /\ history' = [history EXCEPT !.disturbed = @ \/ (handle \in Roots /\ offset # v.cursor)]
        /\ UNCHANGED <<metas, metaFile, used, limitBytes, protectedKeys, handle, ranged>>

\* flush, second half: the chunk goes where the shared offset is, the player
\* gets what it asked for.
Write(t) ==
    LET v == task[t]
    IN  /\ v.pc = "write"
        /\ Set(t, [v EXCEPT !.pc = "body", !.cursor = @ + 1,
                            !.expected = IF v.cursor < v.end THEN @ + 1 ELSE @])
        /\ blob' = IF handle \in Roots
                   THEN [blob EXCEPT ![handle][Track] = Written(@, offset, offset + 1, offset = v.cursor)] ELSE blob
        /\ offset' = IF \E u \in Tasks \ {t} : task[u].pc = "write" THEN offset + 1 ELSE 0
        /\ history' = [history EXCEPT !.disturbed = @ \/ (handle \in Roots /\ offset # v.cursor)]
        /\ UNCHANGED <<metas, metaFile, used, limitBytes, protectedKeys, handle, ranged>>

RecordFromStart(t) ==
    LET v   == task[t]
        top == IF v.pc = "body" THEN v.cursor - 1 ELSE v.n - 1
        w   == [v EXCEPT !.pc = "record", !.n = top]
    IN  /\ (v.pc = "body" /\ v.cursor = v.bodyEnd) \/ v.pc = "record"
        /\ UNCHANGED ranged
        /\ Await(t, IF top > v.from THEN w
                    ELSE IF v.chunked THEN [w EXCEPT !.pc = "length"] ELSE Continue(v),
                 recordWrite(Now, Track, 0..top))

\* The body is in: its chunks are recorded last to first, one await each.
Record(t) ==
    LET v   == task[t]
        top == IF v.pc = "body" THEN v.cursor - 1 ELSE v.n - 1
        w   == [v EXCEPT !.pc = "record", !.n = top]
    IN  /\ (v.pc = "body" /\ v.cursor = v.bodyEnd) \/ v.pc = "record"
        /\ UNCHANGED ranged
        /\ Await(t, IF top > v.from THEN w
                    ELSE IF v.chunked THEN [w EXCEPT !.pc = "length"] ELSE Continue(v),
                 recordWrite(Now, Track, {top}))

\* A body without a length: its real length, then all of it.
RecordWhole(t) ==
    LET v == task[t]
    IN  /\ UNCHANGED ranged
        /\ \/ v.pc = "length" /\ Await(t, [v EXCEPT !.pc = "whole"], setContentLength(Now, Track, v.cursor))
           \/ v.pc = "whole" /\ Await(t, Idle, recordWrite(Now, Track, 0..(v.cursor - 1)))

\* The network fails, or the request is cancelled.
Fail(t) == task[t].pc \in {"probe", "ask", "body"} /\ Local(t, Idle)

-----------------------------------------------------------------------------
(***************************************************************************)
(* warm(upTo:)                                                             *)
(***************************************************************************)
Warmed(v, s) == /\ warming' = v /\ Call(s) /\ Follow /\ history' = Noted(FALSE)
                /\ UNCHANGED <<task, offset, ranged, didShutdown>>

WarmStart ==
    /\ warming.pc = "idle" /\ history.moves + 1 < MaxMoves
    /\ \E bytes \in 1..Length :
          warming' = [pc |-> "create", root |-> fileURL(Track), from |-> 0, to |-> bytes]
    /\ history' = Requested(history)
    /\ UNCHANGED <<storeVars, task, handle, offset, ranged, didShutdown>>

WarmCreate == /\ warming.pc = "create"
              /\ Warmed([warming EXCEPT !.pc = "already"], Created(warming.root))

\* What the range map says is there is not checked against the file.
WarmAlready ==
    LET already == contiguousBytes(MetaOf(Now, Track).ranges, 0)
    IN  /\ warming.pc = "already"
        /\ Warmed(IF already < warming.to THEN [warming EXCEPT !.pc = "ask", !.from = already]
                  ELSE NoWarmup, Now)

WarmAnswer ==
    /\ warming.pc = "ask"
    /\ \/ Warmed([warming EXCEPT !.pc = "write"], Now)
       \/ /\ warming.from = 0
          /\ \E n \in {Length, CacheTotal} \ {0} :
                Warmed([warming EXCEPT !.pc = "write", !.to = Length], setContentLength(Now, Track, n))
       \/ Warmed(NoWarmup, Now)

\* A handle of its own on the path it started with: no file, no warm-up.
WarmWrite ==
    LET file == blob[warming.root][Track]
    IN  /\ warming.pc = "write"
        /\ IF file = None THEN Warmed(NoWarmup, Now)
           ELSE Warmed([warming EXCEPT !.pc = "record"],
                       [Now EXCEPT !.blob[warming.root][Track] = Written(@, warming.from, warming.to, TRUE)])

WarmRecord == /\ warming.pc = "record"
              /\ Warmed(NoWarmup, recordWrite(Now, Track, warming.from..(warming.to - 1)))

-----------------------------------------------------------------------------
(***************************************************************************)
(* The app, the system and the process                                     *)
(***************************************************************************)
\* shutdown closes the handle under the requests it cancels: one that is
\* between its seek and its write loses the chunk, and still records it.
shutdown == /\ ~didShutdown /\ didShutdown' = TRUE /\ handle' = None
            /\ history' = [history EXCEPT !.disturbed = @ \/ \E t \in Tasks : task[t].pc = "write"]
            /\ UNCHANGED <<storeVars, task, warming, offset, ranged>>

NewLoader == /\ \A t \in Tasks : task[t].pc = "idle"
             /\ handle' = None /\ ranged' = TRUE /\ didShutdown' = FALSE
             /\ UNCHANGED <<storeVars, task, warming, offset, history>>

Others == Keys \ {Track}

AppCall ==
    \/ \E k \in Keys : Pin(k) \/ Unpin(k) \/ Touch(k) \/ RecordDerived(k) \/ CompleteURL(k)
                       \/ Drop({k})
    \/ \E k \in Others : Adopt(k) \/ Register(k) \/ Ingest(k)
    \/ clearEvictable \/ clearDurable \/ clearAll \/ garbageCollectStalePartials
    \/ setLimit \/ setProtectedKeys

App == /\ history.moves < MaxMoves /\ AppCall /\ storeVars' # storeVars /\ Follow
       /\ history' = Counted(Noted(FALSE))
       /\ UNCHANGED <<task, warming, offset, ranged, didShutdown>>

\* The file that was in the durable root is unlinked, if there was one.
IngestTrack == /\ history.moves < MaxMoves /\ Ingest(Track)
               /\ handle' = IF handle = "durable" THEN Lost ELSE handle
               /\ history' = Counted(Noted(InUse))
               /\ UNCHANGED <<task, warming, offset, ranged, didShutdown>>

PurgeBlob == /\ history.moves < MaxMoves /\ (\E k \in Keys : Purge(k)) /\ Follow
             /\ history' = Counted(Noted(TRUE))
             /\ UNCHANGED <<task, warming, offset, ranged, didShutdown>>

NewProcess(cause) ==
    /\ history.moves < MaxMoves
    /\ task' = [t \in Tasks |-> Idle] /\ warming' = NoWarmup
    /\ handle' = None /\ offset' = 0 /\ ranged' = TRUE /\ didShutdown' = FALSE
    /\ history' = Counted(Noted(cause))

Crash     == Restart(Now) /\ NewProcess(FALSE)
CrashInCall == (\E k \in Keys : CrashInPin(k) \/ CrashInRemove(k) \/ CrashInIngest(k)) /\ NewProcess(TRUE)

-----------------------------------------------------------------------------
Init ==
    /\ StoreInit
    /\ task = [t \in Tasks |-> Idle] /\ warming = NoWarmup
    /\ handle = None /\ offset = 0 /\ ranged = TRUE /\ didShutdown = FALSE
    /\ history = [disturbed |-> FALSE, falseServed |-> FALSE, moves |-> 0]

Step(t) == Request(t) \/ Probe(t) \/ Path(t) \/ Create(t) \/ Lookup(t) \/ Read(t) \/ Ask(t)
           \/ Seek(t) \/ Write(t) \/ Record(t) \/ RecordWhole(t) \/ Fail(t)
WarmStep == WarmStart \/ WarmCreate \/ WarmAlready \/ WarmAnswer \/ WarmWrite \/ WarmRecord

Next == \/ \E t \in Tasks : Step(t)
        \/ WarmStep \/ App \/ IngestTrack \/ PurgeBlob \/ Crash \/ CrashInCall
        \/ shutdown \/ NewLoader

Spec == Init /\ [][Next]_vars

-----------------------------------------------------------------------------
(* Properties *)

\* Every metadata record, file and cursor is well formed; chunk numbers are
\* only known to be natural, since a misplaced write can lengthen a file.
TypeOK ==
    /\ metas \in [Keys -> Meta \union {None}]
    /\ metaFile \in [Roots -> [Keys -> Meta \union {None}]]
    /\ \A r \in Roots, k \in Keys : blob[r][k] = None \/ blob[r][k] \in Seq(BOOLEAN)
    /\ handle \in Roots \union {None, Lost} /\ offset \in Nat
    /\ \A t \in Tasks : task[t].cursor \in Nat /\ task[t].root \in Roots

\* A request is answered chunk by chunk from where it starts to where it ends,
\* whatever mix of cache and network answers it: the player gets nothing twice
\* and nothing is left out.
InOrder == \A t \in Tasks : task[t].pc # "idle" =>
              task[t].expected = Min({task[t].cursor, task[t].end})

\* A byte that is not the origin's reaches the player from the cache only after
\* the file was unlinked, moved or lost in a crash under a request, a handle or
\* the metadata, or after two writes of one handle collided.  The store checks
\* a read against the size of the file alone, so it notices none of these when
\* a later chunk lengthens the file over the hole.
ServedReal == history.falseServed => history.disturbed

\* The metadata claims bytes beyond the end of the file only after such an
\* event: bytes are written before they are recorded, and an eviction, a
\* removal or a discard takes the claim along with the file.
OverclaimHasCause == Overclaims => history.disturbed

\* What a new process would load is what the actor holds, after every call and
\* every crash: a pin, an unpin, an ingest or a removal leaves no older record
\* in the other root that would win.
DiskAgrees == loadMetas(Now) = metas

Tier(k, durable) == metas[k] # None /\ metas[k].durable = durable

\* The streaming total grows past the limit, or is left past a new limit, only
\* when all that is left is protected or being written, or when a pinned entry
\* comes back to the evictable root (setDurable does not evict), or when the
\* track's file is longer than it should be after two writes collided
\* (completeFileURL takes its size for what is cached, and does not evict).
BudgetKept == [][
    LET total == CachedTotal(Now)
        spared(k) == k \in protectedKeys' \/ (k = used'[Len(used')] /\ limitBytes' = limitBytes)
    IN  /\ limitBytes' > 0 /\ total' > limitBytes'
        /\ total' > total \/ limitBytes' # limitBytes
        => \/ \E k \in Keys : Tier(k, TRUE) /\ Tier(k, FALSE)'
           \/ \A k \in Entries(Now, FALSE)' : spared(k)
           \/ history.disturbed /\ CompleteURL(Track)]_vars

HasAll(file, n) == FileSize(file) >= n /\ \A i \in 1..n : file[i]

Offline(k) == Tier(k, TRUE) /\ metas[k].complete /\ HasAll(blob["durable"][k], metas[k].total)

\* The whole file of a pinned entry stays on disk, in one root or the other,
\* through evictions, collections, streaming and crashes, a crash inside a pin
\* or an unpin included; only a removal that names it takes it away, a crash
\* inside a removal or a new download, and an unpin that finds an older copy
\* in the evictable root (moveFile then deletes the pinned one).  Two writes of
\* one handle that collide overwrite a chunk of it.
DurableKept == [][\A k \in Keys : ~history.disturbed /\ Offline(k) =>
    \/ \E r \in Roots : HasAll(blob'[r][k], metas[k].total)
    \/ Drop({k}) \/ clearDurable \/ clearAll \/ CrashInRemove(k) \/ CrashInIngest(k)
    \/ blob["evictable"][k] # None /\ (Unpin(k) \/ CrashInPin(k))
    \/ \E t \in Tasks : Write(t) /\ offset # task[t].cursor]_vars
=============================================================================
