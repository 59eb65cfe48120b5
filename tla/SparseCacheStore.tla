-------------------------- MODULE SparseCacheStore --------------------------
(***************************************************************************)
(* The sparse byte-range cache of ParsoAudioStreaming                      *)
(* (Sources/ParsoAudioStreaming/SparseCacheStore*.swift): an actor that    *)
(* keeps one metadata record per key in memory and on disk, and one blob   *)
(* per key in one of two roots, evictable (streaming) and durable          *)
(* (pinned).  Bytes are counted in chunks.  A blob is the sequence of its  *)
(* chunks, TRUE where the chunk holds the origin's bytes and FALSE where   *)
(* it is a hole or holds something else.                                   *)
(*                                                                         *)
(* The store is an actor, so a call is one step for every other task; a    *)
(* crash may still stop it between two of its writes to disk (the ...Cuts  *)
(* operators list the disks it can leave).  A call is written as a         *)
(* function from a store state (Now) to the next one, so that a call that  *)
(* makes other calls is their composition.                                 *)
(***************************************************************************)
EXTENDS Integers, Sequences, FiniteSetsExt

CONSTANTS Keys,     \* cache keys
          SizeOf(_),\* chunks of the whole file of a key
          Limits,   \* values of limitBytes, 0 = no limit
          None      \* no metadata, no file

Meta == [total: Nat,            \* totalBytes, 0 = nil
         ranges: SUBSET Nat,    \* rangeMap, as the set of its chunks
         cached: Nat,           \* cachedBytes
         complete: BOOLEAN,
         durable: BOOLEAN,
         derived: {0, 1}]       \* derivedTotal

ASSUME KeysAssumption == IsFiniteSet(Keys)

ASSUME StoreAssumption ==
    /\ \A k \in Keys : SizeOf(k) \in Nat \ {0}
    /\ Limits \subseteq Nat /\ Limits # {}
    /\ None \notin Meta /\ None \notin Seq(BOOLEAN)

VARIABLES metas,         \* metas: what the actor holds in memory
          metaFile,      \* root -> key -> <root>/meta/<key>.json
          blob,          \* root -> key -> <root>/blobs/<key>
          used,          \* the keys by lastAccessedAt, oldest first
          limitBytes,
          protectedKeys

storeVars == <<metas, metaFile, blob, used, limitBytes, protectedKeys>>

Roots == {"evictable", "durable"}
OtherRoot(r) == IF r = "evictable" THEN "durable" ELSE "evictable"

newMeta == [total |-> 0, ranges |-> {}, cached |-> 0,
            complete |-> FALSE, durable |-> FALSE, derived |-> 0]

RootFor(m) == IF m # None /\ m.durable THEN "durable" ELSE "evictable"
fileURL(k) == RootFor(metas[k])

FileSize(b) == IF b = None THEN 0 ELSE Len(b)
WholeFile(k) == [i \in 1..SizeOf(k) |-> TRUE]

(***************************************************************************)
(* ByteRangeMap                                                            *)
(***************************************************************************)
contiguousBytes(R, o) == CHOOSE n \in 0..Cardinality(R) :
                            o..(o + n - 1) \subseteq R /\ o + n \notin R
covers(R, n) == n > 0 /\ contiguousBytes(R, 0) >= n

-----------------------------------------------------------------------------
(***************************************************************************)
(* Calls, as functions of the store state                                  *)
(***************************************************************************)
Now == [metas |-> metas, metaFile |-> metaFile, blob |-> blob, used |-> used]

Becomes(s) == /\ metas' = s.metas /\ metaFile' = s.metaFile
              /\ blob' = s.blob /\ used' = s.used

MetaOf(s, k) == IF s.metas[k] = None THEN newMeta ELSE s.metas[k]

\* lastAccessedAt of k is now.
Recent(u, k) == LET at == CHOOSE i \in DOMAIN u : u[i] = k
                IN  SubSeq(u, 1, at - 1) \o SubSeq(u, at + 1, Len(u)) \o <<k>>
Accessed(s, k) == [s EXCEPT !.used = Recent(@, k)]

persistMeta(s, k, m) == [s EXCEPT !.metas[k] = m, !.metaFile[RootFor(m)][k] = m]

Without(f, K) == [k \in DOMAIN f |-> IF k \in K THEN None ELSE f[k]]

KeepingMetas(s, K) ==
    [s EXCEPT !.metaFile = [r \in Roots |-> Without(@[r], K)],
              !.blob = [r \in Roots |-> Without(@[r], K)]]

removeKeys(s, K) ==
    [s EXCEPT !.metas = Without(@, K),
              !.metaFile = [r \in Roots |-> Without(@[r], K)],
              !.blob = [r \in Roots |-> Without(@[r], K)]]

Entries(s, durable) == {k \in Keys : s.metas[k] # None /\ s.metas[k].durable = durable}

CachedTotal(s) ==
    MapThenSumSet(LAMBDA k : s.metas[k].cached + s.metas[k].derived, Entries(s, FALSE))

Evictable(s, extraKeys) == Entries(s, FALSE) \ (protectedKeys \union extraKeys)

\* The n keys accessed longest ago, those of K only.
Oldest(s, n, K) == {s.used[i] : i \in 1..n} \intersect K

EvictedCount(s, K, limit) ==
    LET Enough(n) == \/ CachedTotal(removeKeys(s, Oldest(s, n, K))) <= limit
                     \/ n = Len(s.used)
    IN  CHOOSE n \in 0..Len(s.used) : Enough(n) /\ \A m \in 0..(n - 1) : ~Enough(m)

Evicted(s, K, limit) == removeKeys(s, Oldest(s, EvictedCount(s, K, limit), K))

EvictLate(s, extraKeys, limit) ==
    IF limit = 0 THEN s ELSE Evicted(s, Evictable(s, extraKeys), limit + 1)

EvictDurable(s, extraKeys, limit) ==
    IF limit = 0 THEN s
    ELSE Evicted(s, {k \in Keys : s.metas[k] # None} \ (protectedKeys \union extraKeys), limit)

evictTo(s, extraKeys, limit) ==
    IF limit = 0 THEN s ELSE Evicted(s, Evictable(s, extraKeys), limit)

evictToFit(s, extraKeys) == evictTo(s, extraKeys, limitBytes)

setContentLength(s, k, n) ==
    persistMeta(IF s.metas[k] = None THEN Accessed(s, k) ELSE s,
                k, [MetaOf(s, k) EXCEPT !.total = n])

recordWrite(s, k, R) ==
    LET m == MetaOf(s, k)
        all == m.ranges \union R
    IN  evictToFit(persistMeta(Accessed(s, k), k,
                       [m EXCEPT !.ranges = all, !.cached = Cardinality(all),
                                 !.complete = @ \/ covers(all, m.total)]), {k})

touch(s, k) == IF s.metas[k] = None THEN s
               ELSE persistMeta(Accessed(s, k), k, s.metas[k])

moveFile(s, k, from, to) ==
    CASE s.blob[from][k] = None -> s
      [] s.blob[from][k] # None /\ s.blob[to][k] # None -> [s EXCEPT !.blob[from][k] = None]
      [] OTHER -> [s EXCEPT !.blob[to][k] = s.blob[from][k], !.blob[from][k] = None]

CutsKeepingMeta(s, k) ==
    LET from  == RootFor(s.metas[k])
        moved == moveFile(s, k, from, OtherRoot(from))
    IN  <<moved, moved>>

\* The disks a pin or an unpin passes through: the blob moved, the old
\* metadata file removed, the new one written.
setDurableCuts(s, k) ==
    LET from  == RootFor(s.metas[k])
        moved == moveFile(s, k, from, OtherRoot(from))
    IN  <<moved, [moved EXCEPT !.metaFile[from][k] = None]>>

setDurable(s, k, makeDurable) ==
    IF s.metas[k] = None \/ s.metas[k].durable = makeDurable THEN s
    ELSE persistMeta(setDurableCuts(s, k)[2], k, [s.metas[k] EXCEPT !.durable = makeDurable])

Complete(m, n) == [m EXCEPT !.total = n, !.ranges = 0..(n - 1), !.cached = n, !.complete = TRUE]

\* The caller has written the file at fileURL(k).
adoptCompleteFile(s, k, makeDurable) ==
    LET landed  == [s EXCEPT !.blob[RootFor(s.metas[k])][k] = WholeFile(k)]
        adopted == persistMeta(Accessed(landed, k), k, Complete(MetaOf(s, k), SizeOf(k)))
    IN  evictToFit(IF makeDurable THEN setDurable(adopted, k, TRUE) ELSE adopted, {k})

\* Moves a finished download into the durable root; whatever the evictable
\* root holds for the key stays where it is.
ingestCompleteFile(s, k) ==
    persistMeta(Accessed([s EXCEPT !.blob["durable"][k] = WholeFile(k)], k),
                k, [Complete(MetaOf(s, k), SizeOf(k)) EXCEPT !.durable = TRUE])

ingestCuts(s, k) == <<[s EXCEPT !.blob["durable"][k] = None],
                      [s EXCEPT !.blob["durable"][k] = WholeFile(k)]>>

\* The caller has written the file into the evictable blob directory.
registerComplete(s, k) ==
    evictToFit(persistMeta(Accessed([s EXCEPT !.blob["evictable"][k] = WholeFile(k)], k), k,
                   [MetaOf(s, k) EXCEPT !.complete = TRUE, !.cached = SizeOf(k),
                                     !.total = SizeOf(k)]), {})

recordDerivedBytes(s, k) ==
    IF s.metas[k] = None THEN s
    ELSE evictToFit(persistMeta(Accessed(s, k), k, [s.metas[k] EXCEPT !.derived = 1]), {k})

discardCachedBytes(s, k) ==
    LET gone == [s EXCEPT !.blob[RootFor(s.metas[k])][k] = None]
    IN  persistMeta(Accessed(gone, k), k,
            [s.metas[k] EXCEPT !.cached = 0, !.complete = FALSE, !.ranges = {}])

\* What a read from chunk o may take from the file, and the store it leaves:
\* the check is on the size of the file alone.
cachedContiguousBytes(s, k, o) ==
    LET n    == contiguousBytes(MetaOf(s, k).ranges, o)
        size == FileSize(s.blob[RootFor(s.metas[k])][k])
    IN  CASE n = 0 -> [n |-> 0, s |-> s]
          [] n > 0 /\ size >= o + n -> [n |-> n, s |-> touch(s, k)]
          [] OTHER -> [n |-> 0, s |-> discardCachedBytes(s, k)]

\* completeFileURL of an entry marked complete.
completeFileURL(s, k) ==
    LET m    == s.metas[k]
        size == FileSize(s.blob[RootFor(m)][k])
    IN  CASE size = 0 -> discardCachedBytes(s, k)
          [] size > 0 /\ (m.total # size \/ m.cached # size \/ ~covers(m.ranges, size))
               -> touch(persistMeta(s, k, Complete(m, size)), k)
          [] OTHER -> touch(s, k)

\* remove(key) clears the evictable root, then the durable one; in each the
\* blob goes before the metadata.
removeCuts(s, k) ==
    LET a == [s EXCEPT !.blob["evictable"][k] = None]
        b == [a EXCEPT !.metaFile["evictable"][k] = None]
        c == [b EXCEPT !.blob["durable"][k] = None]
    IN  <<a, b, c>>

loadMetas(s) == [k \in Keys |-> IF s.metaFile["durable"][k] # None
                                THEN s.metaFile["durable"][k]
                                ELSE s.metaFile["evictable"][k]]

-----------------------------------------------------------------------------
(***************************************************************************)
(* The calls of an app, and what can happen to the store                   *)
(***************************************************************************)
StoreInit ==
    /\ metas = [k \in Keys |-> None]
    /\ metaFile = [r \in Roots |-> [k \in Keys |-> None]]
    /\ blob = [r \in Roots |-> [k \in Keys |-> None]]
    /\ used \in {s \in [1..Cardinality(Keys) -> Keys] : {s[i] : i \in DOMAIN s} = Keys}
    /\ limitBytes \in Limits
    /\ protectedKeys = {}

Call(s) == Becomes(s) /\ UNCHANGED <<limitBytes, protectedKeys>>

Pin(k)   == Call(setDurable(Now, k, TRUE))
Unpin(k) == Call(setDurable(Now, k, FALSE))

Adopt(k) == \E d \in BOOLEAN : Call(adoptCompleteFile(Now, k, d))
Ingest(k) == Call(ingestCompleteFile(Now, k))
Register(k) == Call(registerComplete(Now, k))
RecordDerived(k) == Call(recordDerivedBytes(Now, k))
Touch(k) == Call(touch(Now, k))
CompleteURL(k) == metas[k] # None /\ metas[k].complete /\ Call(completeFileURL(Now, k))

Drop(K) == Call(removeKeys(Now, K))
clearEvictable == Drop(Entries(Now, FALSE))
clearDurable   == Drop(Entries(Now, TRUE))
clearAll       == Drop(Keys)

\* The cutoff is a date: everything last touched before it.
garbageCollectStalePartials ==
    \E n \in 0..Cardinality(Keys) :
        Drop({k \in Entries(Now, FALSE) : ~metas[k].complete /\ \E i \in 1..n : used[i] = k})

setLimit == \E n \in Limits :
    /\ limitBytes' = n
    /\ protectedKeys' = protectedKeys
    /\ Becomes(evictTo(Now, {}, n))

setProtectedKeys == /\ protectedKeys' \in SUBSET Keys
                    /\ UNCHANGED <<metas, metaFile, blob, used, limitBytes>>

\* The process ends, at rest or at a cut of a call, and a new one loads the
\* metadata the disk holds.
Restart(s) == /\ Becomes([s EXCEPT !.metas = loadMetas(s)])
              /\ protectedKeys' = {}
              /\ UNCHANGED limitBytes

CrashInPin(k) == \E i \in 1..2 : metas[k] # None /\ Restart(setDurableCuts(Now, k)[i])
CrashInRemove(k) == \E i \in 1..3 : Restart(removeCuts(Now, k)[i])
CrashInIngest(k) == \E i \in 1..2 : Restart(ingestCuts(Now, k)[i])

\* The system reclaims a file of the evictable root.
Purge(k) == Call([Now EXCEPT !.blob["evictable"][k] = None])
=============================================================================
