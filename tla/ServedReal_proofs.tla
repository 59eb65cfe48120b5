-------------------------- MODULE ServedReal_proofs --------------------------
(***************************************************************************)
(* What the player is served from the cache is the origin's, and the       *)
(* metadata claims nothing that is not in the file, for as long as nothing *)
(* has disturbed the store (history.disturbed): the two promises ServedReal *)
(* and OverclaimHasCause of CachingResourceLoader.  Neither is inductive:  *)
(* what makes them so is that the metadata, every request between its      *)
(* lookup and its last record, the warm-up and the open handle all agree   *)
(* on one file and on what is in it (Undisturbed).                         *)
(***************************************************************************)
EXTENDS CachingResourceLoader_proofs

\* Chunk o of the file is the origin's.
Holds(f, o) == o < FileSize(f) /\ f[o + 1]

\* A record and the two files of its key: the chunks it claims are there and
\* the origin's, it is complete only when it claims them all, its file has no
\* more, and the durable root has a file only for a durable record.
Honest(m, e, d) ==
    LET f == IF m.durable THEN d ELSE e
    IN  /\ \A o \in m.ranges : Holds(f, o)
        /\ m.total \in {0, Length}
        /\ m.complete => m.total = Length /\ Chunks \subseteq m.ranges
        /\ FileSize(f) <= Length
        /\ ~m.durable => d = None

HonestStore(s) == Honest(MetaOf(s, Track), s.blob["evictable"][Track], s.blob["durable"][Track])

InBody == {"body", "write", "record", "length", "whole"}

\* A request on the file f of the root r, with the handle h: it holds the
\* path of that file, and what it will answer from it, record or claim is there.
HonestTask(v, r, f, h) ==
    /\ v.total \in {0, Length}
    /\ v.pc \notin InBody => ~v.chunked
    /\ v.pc \notin {"idle", "probe", "path"} => v.root = r
    /\ v.pc \notin {"idle", "probe", "path", "create"} => f # None
    /\ v.pc = "read" => \A o \in v.cursor..(v.n - 1) : Holds(f, o)
    /\ v.pc \in InBody => /\ \A o \in v.from..(v.cursor - 1) : Holds(f, o)
                          /\ v.bodyEnd <= Length
                          /\ v.chunked => v.from = 0 /\ v.bodyEnd = Length
    /\ v.pc \in {"record", "length", "whole"} => v.cursor = v.bodyEnd
    /\ v.pc \in {"length", "whole"} => v.chunked
    /\ v.pc = "write" => h = r

HonestWarmup(w, r, f) ==
    /\ w.pc # "idle" => w.root = r /\ w.to <= Length
    /\ w.pc \notin {"idle", "create"} => f # None
    /\ w.pc = "record" => \A o \in w.from..(w.to - 1) : Holds(f, o)

HonestHandle(h, r, f) == h # None => h = r /\ f # None

\* The file that the metadata names.
TrackRoot == fileURL(Track)
TrackFile == blob[TrackRoot][Track]

AllHonest == /\ HonestStore(Now)
             /\ \A t \in Tasks : HonestTask(task[t], TrackRoot, TrackFile, handle)
             /\ HonestWarmup(warming, TrackRoot, TrackFile)
             /\ HonestHandle(handle, TrackRoot, TrackFile)

Hist == [disturbed: BOOLEAN, falseServed: BOOLEAN, moves: Nat]

Undisturbed == /\ Safe
               /\ history \in Hist
               /\ history.falseServed => history.disturbed
               /\ ~history.disturbed => AllHonest

-----------------------------------------------------------------------------
(* The rows of the track in two states of the store *)

\* What the claims of the track say is the same, and so are its files; or
\* both are gone.
SameRow(s, t) ==
    /\ MetaOf(t, Track).ranges = MetaOf(s, Track).ranges
    /\ MetaOf(t, Track).total = MetaOf(s, Track).total
    /\ MetaOf(t, Track).complete = MetaOf(s, Track).complete
    /\ MetaOf(t, Track).durable = MetaOf(s, Track).durable
    /\ \A r \in Roots : t.blob[r][Track] = s.blob[r][Track]

GoneRow(t) ==
    /\ MetaOf(t, Track).ranges = {}
    /\ MetaOf(t, Track).total = 0
    /\ ~MetaOf(t, Track).complete
    /\ ~MetaOf(t, Track).durable
    /\ \A r \in Roots : t.blob[r][Track] = None

Harmless(s, t) == SameRow(s, t) \/ GoneRow(t)

LEMMA HarmlessChain ==
    ASSUME NEW s, NEW t, NEW u, Harmless(s, t), Harmless(t, u)
    PROVE  Harmless(s, u)
  BY DEF Harmless, SameRow, GoneRow

LEMMA HarmlessHonest ==
    ASSUME NEW s, NEW t, HonestStore(s), Harmless(s, t)
    PROVE  HonestStore(t)
<1>1. CASE SameRow(s, t)
  BY <1>1 DEF HonestStore, Honest, SameRow, Roots
<1>2. CASE GoneRow(t)
  BY <1>2, LengthNat DEF HonestStore, Honest, GoneRow, Roots, FileSize
<1> QED
  BY <1>1, <1>2 DEF Harmless

LEMMA AccessRow ==
    ASSUME NEW s, Kept(s), NEW k \in Keys
    PROVE  /\ MetaOf(Accessed(s, k), Track) = MetaOf(s, Track)
           /\ Accessed(s, k).blob = s.blob
           /\ Accessed(s, k).metas = s.metas
  BY Accesses DEF Kept, MetaOf

LEMMA PersistRow ==
    ASSUME NEW s, Kept(s), NEW k \in Keys, NEW m \in Records
    PROVE  /\ MetaOf(persistMeta(s, k, m), Track) = IF k = Track THEN m ELSE MetaOf(s, Track)
           /\ persistMeta(s, k, m).blob = s.blob
<1> DEFINE t == persistMeta(s, k, m)
<1>1. /\ t.metas = [s.metas EXCEPT ![k] = m] /\ t.blob = s.blob
      /\ t.metaFile = [s.metaFile EXCEPT ![RootFor(m)] = [@ EXCEPT ![k] = m]]
  BY Persists DEF Kept
<1> HIDE DEF t
<1>2. m # None
  BY StoreAssumption DEF Records
<1>3. s.metas \in [Keys -> Known]
  BY DEF Kept, StoreState
<1>4. MetaOf(t, Track) = IF k = Track THEN m ELSE MetaOf(s, Track)
  BY <1>1, <1>2, <1>3, LengthNat DEF MetaOf
<1> QED
  BY <1>1, <1>4 DEF t

LEMMA PutRow ==
    ASSUME NEW s, Kept(s), NEW k \in Keys, NEW r \in Roots, NEW f \in Files
    PROVE  LET t == [s EXCEPT !.blob[r][k] = f]
           IN  /\ MetaOf(t, Track) = MetaOf(s, Track)
               /\ \A q \in Roots : t.blob[q][Track] =
                     IF q = r /\ k = Track THEN f ELSE s.blob[q][Track]
<1> DEFINE t == [s EXCEPT !.blob[r][k] = f]
<1>1. t.metas = s.metas /\ t.blob = [s.blob EXCEPT ![r] = [@ EXCEPT ![k] = f]]
  BY Puts DEF Kept
<1>2. s.blob \in [Roots -> [Keys -> Files]]
  BY DEF Kept, StoreState
<1> HIDE DEF t
<1>3. MetaOf(t, Track) = MetaOf(s, Track)
  BY <1>1 DEF MetaOf
<1>4. \A q \in Roots : t.blob[q][Track] = IF q = r /\ k = Track THEN f ELSE s.blob[q][Track]
  BY <1>1, <1>2, LengthNat
<1> QED
  BY <1>3, <1>4 DEF t

LEMMA RemoveRow ==
    ASSUME NEW s, Kept(s), NEW K
    PROVE  /\ Harmless(s, removeKeys(s, K))
           /\ Track \notin K => SameRow(s, removeKeys(s, K))
<1> DEFINE t == removeKeys(s, K)
<1>1. /\ \A k \in Keys : t.metas[k] = IF k \in K THEN None ELSE s.metas[k]
      /\ \A r \in Roots, k \in Keys : t.blob[r][k] = IF k \in K THEN None ELSE s.blob[r][k]
  BY Removes DEF Kept
<1> HIDE DEF t
<1>2. CASE Track \in K
  <2>1. GoneRow(t)
    BY <1>1, <1>2, LengthNat DEF GoneRow, MetaOf, newMeta
  <2> QED
    BY <1>2, <2>1 DEF Harmless, t
<1>3. CASE Track \notin K
  <2>1. SameRow(s, t)
    BY <1>1, <1>3, LengthNat DEF SameRow, MetaOf
  <2> QED
    BY <2>1 DEF Harmless, t
<1> QED
  BY <1>2, <1>3

\* An eviction that spares the track leaves its row.
LEMMA EvictRow ==
    ASSUME NEW s, Kept(s), NEW K, NEW n
    PROVE  /\ Harmless(s, evictTo(s, K, n))
           /\ Track \in K => SameRow(s, evictTo(s, K, n))
<1>1. SameRow(s, s)
  BY DEF SameRow
<1>2. \/ evictTo(s, K, n) = s
      \/ \E G : G \subseteq Entries(s, FALSE) \ K /\ evictTo(s, K, n) = removeKeys(s, G)
  BY DEF evictTo, Evicted, Oldest, Evictable
<1>3. CASE evictTo(s, K, n) = s
  BY <1>1, <1>3 DEF Harmless
<1>4. ASSUME NEW G, G \subseteq Entries(s, FALSE) \ K, evictTo(s, K, n) = removeKeys(s, G)
      PROVE  /\ Harmless(s, evictTo(s, K, n))
             /\ Track \in K => SameRow(s, evictTo(s, K, n))
  <2>1. Track \in K => Track \notin G
    BY <1>4
  <2> QED
    BY <1>4, <2>1, RemoveRow
<1> QED
  BY <1>2, <1>3, <1>4

-----------------------------------------------------------------------------
(* The calls, on the row of the track *)

LEMMA RootOf ==
    ASSUME NEW s, Kept(s)
    PROVE  /\ RootFor(s.metas[Track]) = IF MetaOf(s, Track).durable THEN "durable" ELSE "evictable"
           /\ MetaOf(s, Track) \in Records
  BY RecordOf, LengthNat DEF RootFor, MetaOf, newMeta

LEMMA TouchRow ==
    ASSUME NEW s, Kept(s), NEW k \in Keys
    PROVE  SameRow(s, touch(s, k))
<1>1. CASE s.metas[k] = None
  BY <1>1 DEF touch, SameRow
<1>2. CASE s.metas[k] # None
  <2> DEFINE u == Accessed(s, k)
             t == persistMeta(u, k, s.metas[k])
  <2>1. Kept(u) /\ MetaOf(u, Track) = MetaOf(s, Track) /\ u.blob = s.blob
    BY KeepsAccess, AccessRow
  <2>2. s.metas[k] \in Records /\ MetaOf(s, k) = s.metas[k]
    BY <1>2, RecordOf
  <2>3. touch(s, k) = t
    BY <1>2 DEF touch
  <2> HIDE DEF u
  <2>4. MetaOf(t, Track) = (IF k = Track THEN s.metas[k] ELSE MetaOf(u, Track)) /\ t.blob = u.blob
    BY <2>1, <2>2, PersistRow
  <2> HIDE DEF t
  <2> QED
    BY <2>1, <2>2, <2>3, <2>4 DEF SameRow
<1> QED
  BY <1>1, <1>2

LEMMA DerivedRow ==
    ASSUME NEW s, Kept(s), NEW k \in Keys
    PROVE  Harmless(s, recordDerivedBytes(s, k))
<1>1. CASE s.metas[k] = None
  BY <1>1 DEF recordDerivedBytes, Harmless, SameRow
<1>2. CASE s.metas[k] # None
  <2> DEFINE u == Accessed(s, k)
             m == [s.metas[k] EXCEPT !.derived = 1]
             t == persistMeta(u, k, m)
  <2>1. Kept(u) /\ MetaOf(u, Track) = MetaOf(s, Track) /\ u.blob = s.blob
    BY KeepsAccess, AccessRow
  <2>2. s.metas[k] \in Records /\ MetaOf(s, k) = s.metas[k]
    BY <1>2, RecordOf
  <2>3. /\ m \in Records /\ m.ranges = s.metas[k].ranges /\ m.total = s.metas[k].total
        /\ m.complete = s.metas[k].complete /\ m.durable = s.metas[k].durable
    BY <2>2 DEF Records, Meta
  <2>4. recordDerivedBytes(s, k) = evictTo(t, {k}, limitBytes)
    BY <1>2 DEF recordDerivedBytes, evictToFit
  <2>5. Kept(t)
    BY <1>2, <2>3, KeepsUpdate
  <2> HIDE DEF u, m
  <2>6. MetaOf(t, Track) = (IF k = Track THEN m ELSE MetaOf(u, Track)) /\ t.blob = u.blob
    BY <2>1, <2>3, PersistRow
  <2> HIDE DEF t
  <2>7. SameRow(s, t)
    BY <2>1, <2>2, <2>3, <2>6 DEF SameRow
  <2> QED
    BY <2>4, <2>5, <2>7, EvictRow, HarmlessChain DEF Harmless
<1> QED
  BY <1>1, <1>2

\* A call that persists a record of another key, on a file put for that key.
LEMMA OtherRow ==
    ASSUME NEW s, Kept(s), NEW k \in Others, NEW r \in Roots, NEW f \in Files, NEW m \in Records
    PROVE  LET u == [s EXCEPT !.blob[r][k] = f]
           IN  SameRow(s, persistMeta(Accessed(u, k), k, m))
<1> DEFINE u == [s EXCEPT !.blob[r][k] = f]
           a == Accessed(u, k)
           t == persistMeta(a, k, m)
<1>1. k \in Keys /\ k # Track
  BY DEF Others
<1>2. Kept(u) /\ MetaOf(u, Track) = MetaOf(s, Track)
      /\ \A q \in Roots : u.blob[q][Track] = s.blob[q][Track]
  BY <1>1, KeepsPut, PutRow
<1> HIDE DEF u
<1>3. Kept(a) /\ MetaOf(a, Track) = MetaOf(u, Track) /\ a.blob = u.blob
  BY <1>1, <1>2, KeepsAccess, AccessRow
<1> HIDE DEF a
<1>4. MetaOf(t, Track) = MetaOf(a, Track) /\ t.blob = a.blob
  BY <1>1, <1>3, PersistRow
<1> HIDE DEF t
<1>5. SameRow(s, t)
  BY <1>2, <1>3, <1>4 DEF SameRow
<1> QED
  BY <1>5 DEF u, a, t

\* A pin or an unpin of another key.
LEMMA OtherDurableRow ==
    ASSUME NEW s, Kept(s), NEW k \in Others, NEW d \in BOOLEAN
    PROVE  SameRow(s, setDurable(s, k, d))
<1>1. CASE s.metas[k] = None \/ s.metas[k].durable = d
  BY <1>1 DEF setDurable, SameRow
<1>2. CASE ~(s.metas[k] = None \/ s.metas[k].durable = d)
  <2> DEFINE m == s.metas[k]
             from == RootFor(m)
             to == OtherRoot(from)
             u == moveFile(s, k, from, to)
             v == [u EXCEPT !.metaFile[from][k] = None]
             w == [m EXCEPT !.durable = d]
             t == persistMeta(v, k, w)
  <2>0. k \in Keys /\ k # Track
    BY DEF Others
  <2>1. w \in Records
    BY <1>2, <2>0, RecordOf, OneField
  <2>2. from \in Roots /\ to \in Roots
    BY DEF RootFor, OtherRoot, Roots
  <2>3. Kept(u) /\ StoreState(u) /\ StoreState(s)
    BY <2>0, <2>2, KeepsMove DEF Kept
  <2>4. SameRow(s, u)
    <3>1. s.blob[from][k] \in Files /\ None \in Files
      BY <2>0, <2>2, <2>3 DEF StoreState, Files
    <3> DEFINE a == [s EXCEPT !.blob[from][k] = None]
               b == [s EXCEPT !.blob[to][k] = s.blob[from][k]]
               c == [b EXCEPT !.blob[from][k] = None]
    <3>2. SameRow(s, a)
      BY <2>0, <2>2, <3>1, PutRow DEF SameRow
    <3>3. Kept(b) /\ SameRow(s, b)
      BY <2>0, <2>2, <3>1, KeepsPut, PutRow DEF SameRow
    <3>4. SameRow(b, c)
      <4> HIDE DEF b
      <4> QED
        BY <2>0, <2>2, <3>1, <3>3, PutRow DEF SameRow
    <3>5. SameRow(s, c)
      BY <3>3, <3>4 DEF SameRow
    <3>6. u = s \/ u = a \/ u = c
      BY DEF moveFile
    <3>7. SameRow(s, s)
      BY DEF SameRow
    <3> QED
      BY <3>2, <3>5, <3>6, <3>7
  <2> HIDE DEF u, w
  <2>5. StoreState(v) /\ v.metas = u.metas /\ v.blob = u.blob
    BY <2>0, <2>2, <2>3, Unfiles
  <2> HIDE DEF v
  <2>6. /\ t.metas = [v.metas EXCEPT ![k] = w] /\ t.blob = v.blob
        /\ t.metaFile = [v.metaFile EXCEPT ![RootFor(w)] = [@ EXCEPT ![k] = w]]
    BY <2>0, <2>1, <2>5, Persists
  <2>7. setDurable(s, k, d) = t
    BY <1>2 DEF setDurable, setDurableCuts, t, v, u, w
  <2> HIDE DEF t
  <2>8. MetaOf(t, Track) = MetaOf(u, Track)
    BY <2>0, <2>5, <2>6, LengthNat DEF MetaOf, StoreState
  <2> QED
    BY <2>4, <2>5, <2>6, <2>7, <2>8 DEF SameRow
<1> QED
  BY <1>1, <1>2

LEMMA OtherCalls ==
    ASSUME NEW s, Kept(s), NEW k \in Others, NEW d \in BOOLEAN
    PROVE  /\ Harmless(s, adoptCompleteFile(s, k, d))
           /\ Harmless(s, registerComplete(s, k))
           /\ Harmless(s, ingestCompleteFile(s, k))
<1>1. k \in Keys /\ WholeFile(k) \in Files /\ SizeOf(k) \in Nat /\ MetaOf(s, k) \in Records
  BY Whole, StoreAssumption, RecordOf DEF Others
<1>2. RootFor(s.metas[k]) \in Roots /\ "evictable" \in Roots /\ "durable" \in Roots
  BY DEF RootFor, Roots
<1>3. Harmless(s, adoptCompleteFile(s, k, d))
  <2> DEFINE u == [s EXCEPT !.blob[RootFor(s.metas[k])][k] = WholeFile(k)]
             m == Complete(MetaOf(s, k), SizeOf(k))
             w == persistMeta(Accessed(u, k), k, m)
             t == IF d THEN setDurable(w, k, TRUE) ELSE w
  <2>1. m \in Records /\ m.durable = MetaOf(s, k).durable
    BY <1>1, CompleteRecord
  <2>2. SameRow(s, w)
    BY <1>1, <1>2, <2>1, OtherRow
  <2>3. Kept(w)
    <3> HIDE DEF m
    <3>1. Kept(u) /\ u.metaFile = s.metaFile
      <4>1. Kept(u)
        BY <1>1, <1>2, KeepsPut
      <4>2. u.metaFile = s.metaFile
        BY <1>1, <1>2, Puts DEF Kept
      <4> QED
        BY <4>1, <4>2
    <3>2. Kept(Accessed(u, k)) /\ Accessed(u, k).metaFile = s.metaFile
      BY <1>1, <3>1, KeepsAccess, Accesses DEF Kept
    <3>3. m.durable \/ Accessed(u, k).metaFile["durable"][k] = None
      BY <1>1, <2>1, <3>2, RecordOf
    <3> QED
      BY <1>1, <2>1, <3>2, <3>3, KeepsPersist
  <2>4. adoptCompleteFile(s, k, d) = evictTo(t, {k}, limitBytes)
    BY DEF adoptCompleteFile, evictToFit
  <2> HIDE DEF w
  <2>5. Kept(t) /\ SameRow(s, t)
    <3>1. Kept(setDurable(w, k, TRUE)) /\ SameRow(w, setDurable(w, k, TRUE))
      BY <1>1, <2>3, KeepsDurable, OtherDurableRow
    <3>2. SameRow(s, setDurable(w, k, TRUE))
      BY <2>2, <3>1 DEF SameRow
    <3> QED
      BY <2>2, <2>3, <3>1, <3>2
  <2> QED
    BY <2>4, <2>5, EvictRow, HarmlessChain DEF Harmless
<1>4. Harmless(s, registerComplete(s, k))
  <2> DEFINE u == [s EXCEPT !.blob["evictable"][k] = WholeFile(k)]
             m == [MetaOf(s, k) EXCEPT !.complete = TRUE, !.cached = SizeOf(k), !.total = SizeOf(k)]
             t == persistMeta(Accessed(u, k), k, m)
  <2>1. m \in Records /\ m.durable = MetaOf(s, k).durable
    BY <1>1, RegisteredRecord
  <2>2. SameRow(s, t)
    BY <1>1, <1>2, <2>1, OtherRow
  <2>3. Kept(t)
    <3> HIDE DEF m
    <3>1. Kept(u) /\ u.metaFile = s.metaFile
      <4>1. Kept(u)
        BY <1>1, <1>2, KeepsPut
      <4>2. u.metaFile = s.metaFile
        BY <1>1, <1>2, Puts DEF Kept
      <4> QED
        BY <4>1, <4>2
    <3>2. Kept(Accessed(u, k)) /\ Accessed(u, k).metaFile = s.metaFile
      BY <1>1, <3>1, KeepsAccess, Accesses DEF Kept
    <3>3. m.durable \/ Accessed(u, k).metaFile["durable"][k] = None
      BY <1>1, <2>1, <3>2, RecordOf
    <3> QED
      BY <1>1, <2>1, <3>2, <3>3, KeepsPersist
  <2>4. registerComplete(s, k) = evictTo(t, {}, limitBytes)
    BY DEF registerComplete, evictToFit
  <2> HIDE DEF t
  <2> QED
    BY <2>2, <2>3, <2>4, EvictRow, HarmlessChain DEF Harmless
<1>5. Harmless(s, ingestCompleteFile(s, k))
  <2> DEFINE m == [Complete(MetaOf(s, k), SizeOf(k)) EXCEPT !.durable = TRUE]
  <2>1. m \in Records
    BY <1>1, CompleteRecord, OneField
  <2>2. ingestCompleteFile(s, k)
            = persistMeta(Accessed([s EXCEPT !.blob["durable"][k] = WholeFile(k)], k), k, m)
    BY DEF ingestCompleteFile
  <2> HIDE DEF m
  <2> QED
    BY <1>1, <1>2, <2>1, <2>2, OtherRow DEF Harmless
<1> QED
  BY <1>3, <1>4, <1>5

\* A repair or a discard of another key's record.
LEMMA OtherCompleteRow ==
    ASSUME NEW s, Kept(s), NEW k \in Others, s.metas[k] # None
    PROVE  Harmless(s, completeFileURL(s, k))
<1> DEFINE r == RootFor(s.metas[k])
           n == FileSize(s.blob[r][k])
           u == [s EXCEPT !.blob[r][k] = None]
           m == [s.metas[k] EXCEPT !.cached = 0, !.complete = FALSE, !.ranges = {}]
           c == Complete(s.metas[k], n)
           t == persistMeta(s, k, c)
<1>1. k \in Keys /\ k # Track /\ r \in Roots /\ None \in Files /\ s.metas[k] \in Records
  BY RecordOf DEF Others, RootFor, Roots, Files
<1>2. n \in Nat
  BY <1>1, SizeNat DEF Kept, StoreState
<1>3. SameRow(s, discardCachedBytes(s, k))
  <2>1. m \in Records
    BY <1>1, DiscardedRecord
  <2>2. discardCachedBytes(s, k) = persistMeta(Accessed(u, k), k, m)
    BY DEF discardCachedBytes
  <2> HIDE DEF m
  <2> QED
    BY <1>1, <2>1, <2>2, OtherRow
<1>4. SameRow(s, touch(s, k))
  BY <1>1, TouchRow
<1>5. SameRow(s, touch(t, k))
  <2>1. c \in Records /\ c.durable = s.metas[k].durable
    BY <1>1, <1>2, CompleteRecord
  <2> HIDE DEF c
  <2>2. Kept(t)
    BY <1>1, <2>1, KeepsUpdate
  <2>3. SameRow(s, t)
    BY <1>1, <2>1, PersistRow DEF SameRow
  <2> HIDE DEF t
  <2> QED
    BY <1>1, <2>2, <2>3, TouchRow DEF SameRow
<1> QED
  BY <1>3, <1>4, <1>5 DEF completeFileURL, Harmless

-----------------------------------------------------------------------------
(* The calls for the track itself *)

\* The record is kept in the same root, and so is the file.
Steady(s, t) == /\ MetaOf(t, Track).durable = MetaOf(s, Track).durable
                /\ \A r \in Roots : t.blob[r][Track] = s.blob[r][Track]

\* The file the record of a store names.
FileIn(s) == IF MetaOf(s, Track).durable THEN s.blob["durable"][Track]
             ELSE s.blob["evictable"][Track]

LEMMA SameSteady ==
    ASSUME NEW s, NEW t, SameRow(s, t)
    PROVE  Steady(s, t)
  BY DEF SameRow, Steady

\* A new record that claims only what the file holds.
LEMMA SteadyHonest ==
    ASSUME NEW s, NEW t, HonestStore(s), Steady(s, t),
           \A o \in MetaOf(t, Track).ranges : Holds(FileIn(s), o),
           MetaOf(t, Track).total \in {0, Length},
           MetaOf(t, Track).complete => /\ MetaOf(t, Track).total = Length
                                        /\ Chunks \subseteq MetaOf(t, Track).ranges
    PROVE  HonestStore(t)
  BY DEF HonestStore, Honest, Steady, FileIn, Roots

LEMMA LengthRow ==
    ASSUME NEW s, Kept(s), HonestStore(s)
    PROVE  /\ HonestStore(setContentLength(s, Track, Length))
           /\ Steady(s, setContentLength(s, Track, Length))
<1> DEFINE b == MetaOf(s, Track)
           u == IF s.metas[Track] = None THEN Accessed(s, Track) ELSE s
           m == [b EXCEPT !.total = Length]
           t == persistMeta(u, Track, m)
<1>1. b \in Records /\ Length \in Nat /\ Track \in Keys
  BY RootOf, LengthNat
<1>2. Kept(u) /\ u.blob = s.blob
  BY <1>1, KeepsAccess, AccessRow
<1>3. setContentLength(s, Track, Length) = t
  BY DEF setContentLength
<1> HIDE DEF u, b
<1>4. /\ m \in Records /\ m.ranges = b.ranges /\ m.total = Length
      /\ m.complete = b.complete /\ m.durable = b.durable
  BY <1>1 DEF Records, Meta
<1> HIDE DEF m
<1>5. MetaOf(t, Track) = m /\ t.blob = u.blob
  BY <1>1, <1>2, <1>4, PersistRow
<1> HIDE DEF t
<1>6. Steady(s, t)
  BY <1>2, <1>4, <1>5 DEF Steady, b
<1>7. /\ \A o \in b.ranges : Holds(FileIn(s), o)
      /\ b.complete => Chunks \subseteq b.ranges
  BY DEF HonestStore, Honest, FileIn, b
<1>8. HonestStore(t)
  BY <1>4, <1>5, <1>6, <1>7, SteadyHonest
<1> QED
  BY <1>3, <1>6, <1>8

LEMMA WriteRow ==
    ASSUME NEW s, Kept(s), HonestStore(s), NEW R \in SUBSET Nat, IsFiniteSet(R),
           \A o \in R : Holds(FileIn(s), o)
    PROVE  /\ HonestStore(recordWrite(s, Track, R))
           /\ Steady(s, recordWrite(s, Track, R))
<1> DEFINE b == MetaOf(s, Track)
           all == b.ranges \union R
           m == [b EXCEPT !.ranges = all, !.cached = Cardinality(all),
                          !.complete = @ \/ covers(all, b.total)]
           u == Accessed(s, Track)
           t == persistMeta(u, Track, m)
<1>1. b \in Records /\ Track \in Keys
  BY RootOf, LengthNat
<1>2. Kept(u) /\ u.blob = s.blob /\ u.metaFile = s.metaFile
  BY <1>1, KeepsAccess, AccessRow, Accesses DEF Kept
<1>3. recordWrite(s, Track, R) = evictTo(t, {Track}, limitBytes)
  BY DEF recordWrite, evictToFit
<1>4. all \in SUBSET Nat /\ IsFiniteSet(all) /\ Cardinality(all) \in Nat
  <2>1. b.ranges \in SUBSET Nat /\ IsFiniteSet(b.ranges)
    BY <1>1 DEF Records, Meta
  <2> QED
    BY <2>1, FS_Union, FS_CardinalityType
<1>5. covers(all, b.total) => Chunks \subseteq all /\ b.total = Length
  <2>1. b.total \in {0, Length}
    BY DEF HonestStore, Honest
  <2>2. contiguousBytes(all, 0) \in Nat /\ 0..(0 + contiguousBytes(all, 0) - 1) \subseteq all
    BY <1>4, Contiguous
  <2> HIDE DEF all
  <2>3. SUFFICES ASSUME b.total > 0, contiguousBytes(all, 0) >= b.total
                 PROVE  Chunks \subseteq all /\ b.total = Length
    BY DEF covers
  <2> QED
    BY <2>1, <2>2, <2>3, LengthNat DEF Chunks
<1>6. /\ \A o \in all : Holds(FileIn(s), o)
      /\ b.total \in {0, Length}
      /\ b.complete => b.total = Length /\ Chunks \subseteq all
  BY DEF HonestStore, Honest, FileIn
<1>7. (b.complete \/ covers(all, b.total)) \in BOOLEAN
  OBVIOUS
<1>8. b.durable \/ u.metaFile["durable"][Track] = None
  BY <1>1, <1>2, RecordOf
<1> HIDE DEF all, u, b
<1>9. /\ m \in Records /\ m.ranges = all /\ m.total = b.total /\ m.durable = b.durable
      /\ m.complete = (b.complete \/ covers(all, b.total))
  BY <1>1, <1>4, <1>7 DEF Records, Meta
<1> HIDE DEF m
<1>10. MetaOf(t, Track) = m /\ t.blob = u.blob
  BY <1>1, <1>2, <1>9, PersistRow
<1>11. Kept(t)
  BY <1>1, <1>2, <1>8, <1>9, KeepsPersist
<1> HIDE DEF t
<1>12. Steady(s, t)
  BY <1>2, <1>9, <1>10 DEF Steady, b
<1>13. HonestStore(t)
  BY <1>5, <1>6, <1>9, <1>10, <1>12, SteadyHonest
<1>14. SameRow(t, evictTo(t, {Track}, limitBytes))
  BY <1>11, EvictRow
<1> QED
  BY <1>3, <1>12, <1>13, <1>14, HarmlessHonest DEF Harmless, SameRow, Steady

\* A lookup finds only chunks that are there, and discards nothing.
LEMMA LookupRow ==
    ASSUME NEW s, Kept(s), HonestStore(s), NEW o \in Nat
    PROVE  LET hit == cachedContiguousBytes(s, Track, o)
           IN  /\ hit.n \in Nat
               /\ SameRow(s, hit.s)
               /\ \A i \in o..(o + hit.n - 1) : Holds(FileIn(s), i)
<1> DEFINE n == contiguousBytes(MetaOf(s, Track).ranges, o)
           f == s.blob[RootFor(s.metas[Track])][Track]
<1>1. MetaOf(s, Track).ranges \in SUBSET Nat /\ IsFiniteSet(MetaOf(s, Track).ranges)
  BY RootOf DEF Records, Meta
<1>2. n \in Nat /\ o..(o + n - 1) \subseteq MetaOf(s, Track).ranges
  BY <1>1, Contiguous
<1>3. f = FileIn(s)
  BY RootOf DEF FileIn
<1>4. \A i \in MetaOf(s, Track).ranges : Holds(f, i)
  BY <1>3 DEF HonestStore, Honest, FileIn
<1>5. FileSize(f) \in Nat
  BY LengthNat, SizeNat DEF Kept, StoreState, RootFor, Roots
<1>6. n > 0 => FileSize(f) >= o + n
  <2>1. SUFFICES ASSUME n > 0 PROVE FileSize(f) >= o + n
    OBVIOUS
  <2>2. o + n - 1 \in o..(o + n - 1)
    BY <1>2, <2>1
  <2>3. Holds(f, o + n - 1)
    BY <1>2, <1>4, <2>2
  <2> HIDE DEF f
  <2> QED
    BY <1>2, <1>5, <2>3 DEF Holds
<1> DEFINE hit == cachedContiguousBytes(s, Track, o)
<1>7. hit.n = n /\ (hit.s = s \/ hit.s = touch(s, Track))
  <2>1. CASE n = 0
    BY <2>1 DEF cachedContiguousBytes
  <2>2. CASE n > 0
    BY <1>6, <2>2 DEF cachedContiguousBytes
  <2> QED
    BY <1>2, <2>1, <2>2
<1>8. SameRow(s, hit.s)
  <2>1. SameRow(s, s) /\ SameRow(s, touch(s, Track))
    BY LengthNat, TouchRow DEF SameRow
  <2> QED
    BY <1>7, <2>1
<1> HIDE DEF hit, n, f
<1> QED
  BY <1>2, <1>3, <1>4, <1>7, <1>8 DEF hit

\* A complete file is as long as the track, so a repair of its record claims
\* what is there.
LEMMA CompleteURLRow ==
    ASSUME NEW s, Kept(s), HonestStore(s), s.metas[Track] # None, s.metas[Track].complete
    PROVE  HonestStore(completeFileURL(s, Track)) /\ Steady(s, completeFileURL(s, Track))
<1> DEFINE m == s.metas[Track]
           f == s.blob[RootFor(m)][Track]
           c == Complete(m, Length)
           t == persistMeta(s, Track, c)
<1>1. m = MetaOf(s, Track) /\ m \in Records /\ f = FileIn(s) /\ Track \in Keys
  BY RootOf, LengthNat DEF FileIn, MetaOf
<1>2. /\ \A o \in Chunks : Holds(FileIn(s), o)
      /\ FileSize(FileIn(s)) <= Length
  BY <1>1 DEF HonestStore, Honest, FileIn
<1>3. FileSize(f) \in Nat
  BY LengthNat, SizeNat DEF Kept, StoreState, RootFor, Roots
<1>4. FileSize(f) = Length
  <2>1. Length - 1 \in Chunks
    BY LengthNat DEF Chunks
  <2>2. Length - 1 < FileSize(f)
    BY <1>1, <1>2, <2>1 DEF Holds
  <2> HIDE DEF f
  <2> QED
    BY <1>1, <1>2, <1>3, <2>2, LengthNat
<1>5. \/ completeFileURL(s, Track) = touch(s, Track)
      \/ completeFileURL(s, Track) = touch(t, Track)
  BY <1>4, LengthNat DEF completeFileURL
<1>6. HonestStore(touch(s, Track)) /\ Steady(s, touch(s, Track))
  BY <1>1, TouchRow, SameSteady, HarmlessHonest DEF Harmless
<1>7. /\ c \in Records /\ c.ranges = Chunks /\ c.total = Length /\ c.durable = m.durable
      /\ c.complete
  <2> HIDE DEF m
  <2>1. c \in Records /\ c.durable = m.durable
    BY <1>1, LengthNat, CompleteRecord
  <2>2. c.ranges = Chunks /\ c.total = Length /\ c.complete
    BY <1>1 DEF Complete, Records, Meta, Chunks
  <2> QED
    BY <2>1, <2>2
<1>8. Kept(t)
  BY <1>1, <1>7, KeepsUpdate
<1> HIDE DEF c, m
<1>9. MetaOf(t, Track) = c /\ t.blob = s.blob
  BY <1>1, <1>7, PersistRow
<1> HIDE DEF t
<1>10. Steady(s, t)
  BY <1>1, <1>7, <1>9 DEF Steady
<1>11. HonestStore(t)
  BY <1>2, <1>7, <1>9, <1>10, SteadyHonest
<1>12. HonestStore(touch(t, Track)) /\ Steady(s, touch(t, Track))
  BY <1>1, <1>8, <1>10, <1>11, TouchRow, HarmlessHonest DEF Harmless, SameRow, Steady
<1> QED
  BY <1>5, <1>6, <1>12

\* A pin or an unpin of the track takes the file along, unless an older copy
\* is in the way of an unpin.
LEMMA DurableRow ==
    ASSUME NEW s, Kept(s), HonestStore(s), NEW d \in BOOLEAN,
           ~(MetaOf(s, Track).durable /\ ~d /\ s.blob["evictable"][Track] # None)
    PROVE  LET t == setDurable(s, Track, d)
           IN  /\ HonestStore(t)
               /\ \/ t = s
                  \/ /\ t.metas[Track] # None /\ t.metas[Track].durable = d
                     /\ MetaOf(s, Track).durable = ~d
<1>1. CASE s.metas[Track] = None \/ s.metas[Track].durable = d
  BY <1>1 DEF setDurable
<1>2. CASE ~(s.metas[Track] = None \/ s.metas[Track].durable = d)
  <2> DEFINE m == s.metas[Track]
             from == RootFor(m)
             to == OtherRoot(from)
             u == moveFile(s, Track, from, to)
             v == [u EXCEPT !.metaFile[from][Track] = None]
             w == [m EXCEPT !.durable = d]
             t == persistMeta(v, Track, w)
  <2>1. Track \in Keys /\ m \in Records /\ MetaOf(s, Track) = m
    BY <1>2, RecordOf, LengthNat
  <2>2. m.durable = ~d /\ m.durable \in BOOLEAN
    BY <1>2, <2>1 DEF Records, Meta
  <2>3. /\ from = (IF d THEN "evictable" ELSE "durable") /\ to = (IF d THEN "durable" ELSE "evictable")
        /\ from \in Roots /\ to \in Roots /\ from # to
    BY <1>2, <2>2 DEF RootFor, OtherRoot, Roots
  <2>4. s.blob[to][Track] = None
    BY <2>1, <2>2, <2>3 DEF HonestStore, Honest
  <2>5. s.blob[from][Track] \in Files /\ None \in Files /\ StoreState(s)
    BY <2>1, <2>3 DEF Kept, StoreState, Files
  <2>6. Kept(u)
    BY <2>1, <2>3, KeepsMove
  <2>7. u.blob[to][Track] = s.blob[from][Track] /\ u.blob[from][Track] = None
    <3> DEFINE b == [s EXCEPT !.blob[to][Track] = s.blob[from][Track]]
               c == [b EXCEPT !.blob[from][Track] = None]
    <3>1. Kept(b) /\ b.blob[to][Track] = s.blob[from][Track]
      BY <2>1, <2>3, <2>5, KeepsPut, PutRow
    <3>2. c.blob[to][Track] = b.blob[to][Track] /\ c.blob[from][Track] = None
      <4> HIDE DEF b, from, to, m, u, v, w, t
      <4>1. b.blob \in [Roots -> [Keys -> Files]]
        BY <3>1 DEF Kept, StoreState
      <4>2. c.blob = [b.blob EXCEPT ![from] = [@ EXCEPT ![Track] = None]]
        BY <2>1, <2>3, <2>5, <3>1, Puts DEF Kept
      <4> HIDE DEF c
      <4> QED
        BY <2>1, <2>3, <4>1, <4>2
    <3>3. CASE s.blob[from][Track] = None
      BY <2>4, <3>3 DEF moveFile
    <3>4. CASE s.blob[from][Track] # None
      <4>1. u = c
        BY <2>4, <3>4 DEF moveFile
      <4> HIDE DEF u, c, b
      <4> QED
        BY <3>1, <3>2, <4>1
    <3> QED
      BY <3>3, <3>4
  <2>8. setDurable(s, Track, d) = t
    BY <1>2 DEF setDurable, setDurableCuts
  <2> HIDE DEF u, from, to, m
  <2>9. StoreState(u) /\ v.blob = u.blob /\ StoreState(v)
    BY <2>1, <2>3, <2>6, Unfiles DEF Kept
  <2> HIDE DEF v
  <2>10. /\ w \in Records /\ w.durable = d /\ w.ranges = m.ranges /\ w.total = m.total
         /\ w.complete = m.complete
    BY <2>1 DEF Records, Meta
  <2> HIDE DEF w
  <2>11. /\ t.metas = [v.metas EXCEPT ![Track] = w] /\ t.blob = v.blob
         /\ t.metaFile = [v.metaFile EXCEPT ![RootFor(w)] = [@ EXCEPT ![Track] = w]]
    BY <2>1, <2>9, <2>10, Persists
  <2> HIDE DEF t
  <2>12. t.metas[Track] = w /\ w # None
    BY <2>1, <2>9, <2>10, <2>11, StoreAssumption DEF StoreState, Records
  <2>13. MetaOf(t, Track) = w
    BY <2>12 DEF MetaOf
  <2>14. t.blob[to][Track] = s.blob[from][Track] /\ t.blob[from][Track] = None
    BY <2>7, <2>9, <2>11
  <2>15. HonestStore(t)
    BY <2>1, <2>2, <2>3, <2>10, <2>13, <2>14 DEF HonestStore, Honest
  <2> QED
    BY <2>1, <2>2, <2>8, <2>10, <2>12, <2>15
<1> QED
  BY <1>1, <1>2

\* A download ingested while the track is not in use.
LEMMA IngestRow ==
    ASSUME NEW s, Kept(s)
    PROVE  HonestStore(ingestCompleteFile(s, Track))
<1> DEFINE u == [s EXCEPT !.blob["durable"][Track] = WholeFile(Track)]
           a == Accessed(u, Track)
           c == Complete(MetaOf(s, Track), Length)
           m == [c EXCEPT !.durable = TRUE]
           t == persistMeta(a, Track, m)
<1>1. Track \in Keys /\ "durable" \in Roots /\ WholeFile(Track) \in Files
  BY LengthNat, Whole DEF Roots
<1>2. Kept(u) /\ u.blob["durable"][Track] = WholeFile(Track)
  BY <1>1, KeepsPut, PutRow
<1> HIDE DEF u
<1>3. Kept(a) /\ a.blob = u.blob
  BY <1>1, <1>2, KeepsAccess, AccessRow
<1> HIDE DEF a
<1>4. c \in Records /\ c.ranges = Chunks /\ c.total = Length
  <2> DEFINE b == MetaOf(s, Track)
  <2>1. b \in Records
    BY RootOf
  <2> HIDE DEF b
  <2>2. Complete(b, Length) \in Records
    BY <2>1, LengthNat, CompleteRecord
  <2>3. Complete(b, Length).ranges = Chunks /\ Complete(b, Length).total = Length
    BY <2>1 DEF Complete, Records, Meta, Chunks
  <2> QED
    BY <2>2, <2>3 DEF b
<1>5. ingestCompleteFile(s, Track) = t
  BY DEF ingestCompleteFile, Length, u, a
<1> HIDE DEF c
<1>6. m \in Records /\ m.durable /\ m.ranges = Chunks /\ m.total = Length
  BY <1>4 DEF Records, Meta
<1> HIDE DEF m
<1>7. MetaOf(t, Track) = m /\ t.blob = a.blob
  BY <1>1, <1>3, <1>6, PersistRow
<1> HIDE DEF t
<1>8. t.blob["durable"][Track] = WholeFile(Track) /\ FileSize(WholeFile(Track)) = Length
      /\ \A o \in Chunks : Holds(WholeFile(Track), o)
  <2>1. FileSize(WholeFile(Track)) = Length /\ \A i \in 1..Length : WholeFile(Track)[i]
    BY LengthNat, Whole DEF Length
  <2>2. \A o \in Chunks : o < Length /\ o + 1 \in 1..Length
    BY LengthNat DEF Chunks
  <2> QED
    BY <1>2, <1>3, <1>7, <2>1, <2>2 DEF Holds
<1>9. HonestStore(t)
  BY <1>6, <1>7, <1>8, LengthNat DEF HonestStore, Honest
<1> QED
  BY <1>5, <1>9

-----------------------------------------------------------------------------
(* The calls of the app *)

\* The store as an action leaves it.
LEMMA Arrives ==
    ASSUME NEW s, Becomes(s)
    PROVE  /\ HonestStore(s) => HonestStore(Now)'
           /\ metas' = s.metas /\ blob' = s.blob
  BY DEF Becomes, HonestStore, MetaOf, Now

SteadyFile == \A r \in Roots : blob'[r][Track] = blob[r][Track]

LEMMA HarmlessArrives ==
    ASSUME Kept(Now), NEW s, Becomes(s), HonestStore(Now), Harmless(Now, s)
    PROVE  HonestStore(Now)' /\ (~Displaced => SteadyFile)
<1>1. HonestStore(Now)'
  BY HarmlessHonest, Arrives
<1>2. ASSUME ~Displaced PROVE SteadyFile
  <2>1. CASE SameRow(Now, s)
    BY <2>1, Arrives DEF SameRow, SteadyFile, Now
  <2>2. CASE GoneRow(s)
    BY <1>2, <2>2, Arrives DEF GoneRow, SteadyFile, Displaced
  <2> QED
    BY <2>1, <2>2 DEF Harmless
<1> QED
  BY <1>1, <1>2

LEMMA SteadyArrives ==
    ASSUME NEW s, Becomes(s), HonestStore(s), Steady(Now, s)
    PROVE  HonestStore(Now)' /\ SteadyFile
  BY Arrives DEF Steady, SteadyFile, Now

\* No call of the app makes the metadata claim what is not there, and one that
\* does not displace the file leaves it alone.
LEMMA AppHonest ==
    ASSUME Kept(Now), HonestStore(Now), AppCall, ~UnpinsOntoCopy
    PROVE  HonestStore(Now)' /\ (~Displaced => SteadyFile)
<1> DEFINE Goal == HonestStore(Now)' /\ (~Displaced => SteadyFile)
<1>1. ASSUME NEW k \in Others, NEW d \in BOOLEAN, Call(setDurable(Now, k, d)) PROVE Goal
  BY <1>1, OtherDurableRow, HarmlessArrives DEF Harmless, Call
<1>2. ASSUME NEW d \in BOOLEAN, Call(setDurable(Now, Track, d)) PROVE Goal
  <2> DEFINE t == setDurable(Now, Track, d)
  <2>1. Becomes(t) /\ metas' = t.metas /\ blob' = t.blob
    BY <1>2, Arrives DEF Call
  <2>2. Now.metas = metas /\ Now.blob = blob
    BY DEF Now
  <2>3. RootFor(metas[Track]) = IF MetaOf(Now, Track).durable THEN "durable" ELSE "evictable"
    BY <2>2, RootOf
  <2>4. CASE MetaOf(Now, Track).durable /\ ~d /\ blob["evictable"][Track] # None
    <3>1. t.metas[Track] # None /\ ~t.metas[Track].durable
      <4> DEFINE m == metas[Track]
                 w == [m EXCEPT !.durable = d]
      <4>1. m \in Records /\ m # None /\ m.durable
        BY <2>2, <2>4, RecordOf, LengthNat DEF MetaOf, newMeta
      <4>2. w \in Records /\ w # None /\ w.durable = d
        BY <4>1, StoreAssumption DEF Records, Meta
      <4>3. t = persistMeta(setDurableCuts(Now, Track)[2], Track, w)
        BY <2>2, <2>4, <4>1 DEF setDurable
      <4>4. Kept(t) /\ StoreState(setDurableCuts(Now, Track)[2])
        BY <2>2, <4>1, LengthNat, KeepsDurable, Cuts
      <4> HIDE DEF w, t
      <4>5. t.metas[Track] = w
        <5> DEFINE q == setDurableCuts(Now, Track)[2]
        <5> HIDE DEF q
        <5>1. /\ StoreState(persistMeta(q, Track, w))
              /\ persistMeta(q, Track, w).metas = [q.metas EXCEPT ![Track] = w]
              /\ persistMeta(q, Track, w).blob = q.blob
              /\ persistMeta(q, Track, w).metaFile
                    = [q.metaFile EXCEPT ![RootFor(w)] = [@ EXCEPT ![Track] = w]]
          BY <4>2, <4>4, LengthNat, Persists DEF q
        <5>2. Track \in DOMAIN q.metas
          BY <4>4, LengthNat DEF StoreState, q
        <5> QED
          BY <4>3, <5>1, <5>2 DEF q
      <4> QED
        BY <2>4, <4>2, <4>5
    <3>2. UnpinsOntoCopy
      BY <2>1, <2>3, <2>4, <3>1 DEF UnpinsOntoCopy, RootFor
    <3> QED
      BY <3>2
  <2>5. CASE ~(MetaOf(Now, Track).durable /\ ~d /\ blob["evictable"][Track] # None)
    <3>1. /\ HonestStore(t)
          /\ \/ t = Now
             \/ /\ t.metas[Track] # None /\ t.metas[Track].durable = d
                /\ MetaOf(Now, Track).durable = ~d
      BY <2>2, <2>5, DurableRow
    <3>2. HonestStore(Now)'
      BY <2>1, <3>1, Arrives
    <3>3. CASE t = Now
      BY <2>1, <2>2, <3>2, <3>3 DEF SteadyFile
    <3>4. CASE t.metas[Track] # None /\ t.metas[Track].durable = d /\ MetaOf(Now, Track).durable = ~d
      <4>1. Displaced
        BY <2>1, <2>3, <3>4 DEF Displaced, RootFor
      <4> QED
        BY <3>2, <4>1
    <3> QED
      BY <3>1, <3>3, <3>4
  <2> QED
    BY <2>4, <2>5
<1>3. ASSUME NEW k \in Keys, Touch(k) PROVE Goal
  BY <1>3, TouchRow, HarmlessArrives DEF Harmless, Touch, Call
<1>4. ASSUME NEW k \in Keys, RecordDerived(k) PROVE Goal
  BY <1>4, DerivedRow, HarmlessArrives DEF RecordDerived, Call
<1>5. ASSUME NEW K, Drop(K) PROVE Goal
  BY <1>5, RemoveRow, HarmlessArrives DEF Drop, Call
<1>6. ASSUME NEW k \in Others, Adopt(k) \/ Register(k) \/ Ingest(k) PROVE Goal
  BY <1>6, OtherCalls, HarmlessArrives DEF Adopt, Register, Ingest, Call
<1>7. ASSUME NEW k \in Others, CompleteURL(k) PROVE Goal
  BY <1>7, HarmlessArrives, OtherCompleteRow DEF CompleteURL, Call, Now
<1>8. CASE CompleteURL(Track)
  <2>1. Now.metas[Track] # None /\ Now.metas[Track].complete /\ Becomes(completeFileURL(Now, Track))
    BY <1>8 DEF CompleteURL, Call, Now
  <2> QED
    BY <2>1, CompleteURLRow, SteadyArrives
<1>9. CASE clearEvictable \/ clearDurable \/ clearAll \/ garbageCollectStalePartials
  BY <1>9, <1>5 DEF clearEvictable, clearDurable, clearAll, garbageCollectStalePartials
<1>10. CASE setLimit
  BY <1>10, EvictRow, HarmlessArrives DEF setLimit
<1>11. CASE setProtectedKeys
  BY <1>11 DEF setProtectedKeys, Now, HonestStore, MetaOf, SteadyFile
<1>12. ASSUME NEW k \in Keys, Pin(k) \/ Unpin(k) PROVE Goal
  BY <1>1, <1>2, <1>12 DEF Pin, Unpin, Others
<1>13. CASE \E k \in Keys : Pin(k) \/ Unpin(k) \/ Touch(k) \/ RecordDerived(k) \/ CompleteURL(k)
                           \/ Drop({k})
  <2>1. PICK k \in Keys : Pin(k) \/ Unpin(k) \/ Touch(k) \/ RecordDerived(k) \/ CompleteURL(k)
                          \/ Drop({k})
    BY <1>13
  <2>2. CompleteURL(k) => Goal
    BY <1>7, <1>8 DEF Others
  <2> QED
    BY <1>3, <1>4, <1>5, <1>12, <2>1, <2>2
<1> QED
  BY <1>6, <1>9, <1>10, <1>11, <1>13 DEF AppCall

-----------------------------------------------------------------------------
(* What is written grows the file, and what grows it keeps every promise *)

Grows(f, g) == /\ f # None => g # None
               /\ \A o \in Nat : Holds(f, o) => Holds(g, o)

LEMMA TaskGrows ==
    ASSUME NEW v \in TaskState, NEW r, NEW f, NEW g, NEW h, HonestTask(v, r, f, h), Grows(f, g)
    PROVE  HonestTask(v, r, g, h)
<1>1. \A o \in v.cursor..(v.n - 1) : o \in Nat
  BY DEF TaskState
<1>2. \A o \in v.from..(v.cursor - 1) : o \in Nat
  BY DEF TaskState
<1> QED
  BY <1>1, <1>2 DEF HonestTask, Grows

LEMMA WarmupGrows ==
    ASSUME NEW w \in WarmState, NEW r, NEW f, NEW g, HonestWarmup(w, r, f), Grows(f, g)
    PROVE  HonestWarmup(w, r, g)
<1>1. \A o \in w.from..(w.to - 1) : o \in Nat
  BY DEF WarmState
<1> QED
  BY <1>1 DEF HonestWarmup, Grows

\* A call that keeps the record in its root and grows the file leaves every
\* request, the warm-up and the handle where they are.
LEMMA CallHonest ==
    ASSUME Safe, AllHonest, NEW s, Kept(s), Call(s), Follow, HonestStore(s),
           MetaOf(s, Track).durable = MetaOf(Now, Track).durable,
           NEW f, f = s.blob[TrackRoot][Track], Grows(TrackFile, f)
    PROVE  /\ HonestStore(Now)' /\ TrackRoot' = TrackRoot /\ TrackFile' = f /\ handle' = handle
           /\ \A u \in Tasks : HonestTask(task[u], TrackRoot, f, handle)
           /\ HonestWarmup(warming, TrackRoot, f) /\ HonestHandle(handle, TrackRoot, f)
<1>1. metas' = s.metas /\ blob' = s.blob /\ HonestStore(Now)'
  BY Arrives DEF Call
<1>2. TrackRoot' = TrackRoot /\ TrackFile' = f
  <2>1. RootFor(s.metas[Track]) = RootFor(metas[Track])
    <3>1. RootFor(s.metas[Track]) = RootFor(Now.metas[Track])
      BY RootOf DEF Safe
    <3> QED
      BY <3>1 DEF Now
  <2>2. TrackRoot' = TrackRoot
    BY <1>1, <2>1 DEF TrackRoot, fileURL
  <2> QED
    BY <1>1, <2>2 DEF TrackFile
<1>3. HonestHandle(handle, TrackRoot, f)
  BY DEF AllHonest, HonestHandle, Grows
<1>4. handle' = handle
  <2>1. CASE handle = None
    BY <2>1, LoaderAssumption DEF Follow
  <2>2. CASE handle # None
    BY <1>1, <1>3, <2>2 DEF HonestHandle, Follow
  <2> QED
    BY <2>1, <2>2
<1>5. \A u \in Tasks : HonestTask(task[u], TrackRoot, f, handle)
  BY TaskGrows DEF Safe, Tasked, AllHonest
<1>6. HonestWarmup(warming, TrackRoot, f)
  BY WarmupGrows DEF Safe, AllHonest
<1> QED
  BY <1>1, <1>2, <1>3, <1>4, <1>5, <1>6

LEMMA AwaitHonest ==
    ASSUME Safe, AllHonest, NEW t \in Tasks, NEW v, NEW s, Kept(s), Await(t, v, s), HonestStore(s),
           MetaOf(s, Track).durable = MetaOf(Now, Track).durable,
           NEW f, f = s.blob[TrackRoot][Track], Grows(TrackFile, f),
           HonestTask(v, TrackRoot, f, handle)
    PROVE  AllHonest'
<1>1. /\ HonestStore(Now)' /\ TrackRoot' = TrackRoot /\ TrackFile' = f /\ handle' = handle
      /\ \A u \in Tasks : HonestTask(task[u], TrackRoot, f, handle)
      /\ HonestWarmup(warming, TrackRoot, f) /\ HonestHandle(handle, TrackRoot, f)
  BY CallHonest DEF Await
<1>2. task' = [task EXCEPT ![t] = v] /\ warming' = warming
  BY DEF Await, Set
<1>3. \A u \in Tasks : HonestTask(task'[u], TrackRoot, f, handle)
  BY <1>1, <1>2 DEF Safe, Tasked
<1> QED
  BY <1>1, <1>2, <1>3 DEF AllHonest

LEMMA WarmedHonest ==
    ASSUME Safe, AllHonest, NEW w, NEW s, Kept(s), Warmed(w, s), HonestStore(s),
           MetaOf(s, Track).durable = MetaOf(Now, Track).durable,
           NEW f, f = s.blob[TrackRoot][Track], Grows(TrackFile, f),
           HonestWarmup(w, TrackRoot, f)
    PROVE  AllHonest'
<1>1. /\ HonestStore(Now)' /\ TrackRoot' = TrackRoot /\ TrackFile' = f /\ handle' = handle
      /\ \A u \in Tasks : HonestTask(task[u], TrackRoot, f, handle)
      /\ HonestWarmup(warming, TrackRoot, f) /\ HonestHandle(handle, TrackRoot, f)
  BY CallHonest DEF Warmed
<1>2. task' = task /\ warming' = w
  BY DEF Warmed
<1> QED
  BY <1>1, <1>2 DEF AllHonest

LEMMA SteadyGrows ==
    ASSUME Safe, NEW s, Steady(Now, s)
    PROVE  /\ MetaOf(s, Track).durable = MetaOf(Now, Track).durable
           /\ s.blob[TrackRoot][Track] = TrackFile
           /\ Grows(TrackFile, TrackFile)
  BY DEF Steady, TrackFile, TrackRoot, fileURL, RootFor, Roots, Now, Grows

\* The same of a call that changes no file.
LEMMA AwaitSteady ==
    ASSUME Safe, AllHonest, NEW t \in Tasks, NEW v, NEW s, Kept(s), Await(t, v, s), HonestStore(s),
           Steady(Now, s), HonestTask(v, TrackRoot, TrackFile, handle)
    PROVE  AllHonest'
  BY SteadyGrows, AwaitHonest

LEMMA WarmedSteady ==
    ASSUME Safe, AllHonest, NEW w, NEW s, Kept(s), Warmed(w, s), HonestStore(s),
           Steady(Now, s), HonestWarmup(w, TrackRoot, TrackFile)
    PROVE  AllHonest'
  BY SteadyGrows, WarmedHonest

LEMMA StoreSame == Steady(Now, Now)
  BY DEF Steady

\* A step that changes only its request.
LEMMA SetHonest ==
    ASSUME Safe, AllHonest, NEW t \in Tasks, NEW v, Set(t, v), UNCHANGED <<storeVars, handle>>,
           HonestTask(v, TrackRoot, TrackFile, handle)
    PROVE  AllHonest'
<1>1. /\ task' = [task EXCEPT ![t] = v] /\ warming' = warming /\ handle' = handle
      /\ metas' = metas /\ blob' = blob
  BY DEF Set, storeVars
<1>2. TrackRoot' = TrackRoot /\ TrackFile' = TrackFile
  BY <1>1 DEF TrackRoot, TrackFile, fileURL
<1>3. HonestStore(Now)'
  BY <1>1 DEF AllHonest, HonestStore, MetaOf, Now
<1>4. \A u \in Tasks : HonestTask(task'[u], TrackRoot, TrackFile, handle)
  BY <1>1 DEF Safe, Tasked, AllHonest
<1> QED
  BY <1>1, <1>2, <1>3, <1>4 DEF AllHonest

-----------------------------------------------------------------------------
(* The steps of a request *)

LEMMA IdleHonest ==
    ASSUME NEW r, NEW f, NEW h
    PROVE  HonestTask(Idle, r, f, h)
  BY DEF HonestTask, Idle, InBody

LEMMA CacheTotalHonest ==
    ASSUME AllHonest
    PROVE  CacheTotal \in {0, Length}
  BY DEF AllHonest, HonestStore, Honest, CacheTotal

LEMMA BoundedHonest ==
    ASSUME NEW v \in TaskState, ~v.chunked, NEW n \in {0, Length}, NEW r, NEW f, NEW h
    PROVE  HonestTask(Bounded(v, n), r, f, h)
<1> DEFINE end == IF n > 0 THEN Min({n, v.end}) ELSE v.end
           w   == [v EXCEPT !.pc = "path", !.total = n, !.end = end]
<1>1. Bounded(v, n) = IF v.cursor < end THEN w ELSE Idle
  BY DEF Bounded
<1> HIDE DEF end
<1>2. w.pc = "path" /\ w.total = n /\ w.chunked = v.chunked
  BY DEF TaskState
<1> HIDE DEF w
<1>3. HonestTask(w, r, f, h)
  BY <1>2 DEF HonestTask, InBody
<1> QED
  BY <1>1, <1>3, IdleHonest

LEMMA RequestHonest ==
    ASSUME Safe, AllHonest, NEW t \in Tasks, Request(t)
    PROVE  AllHonest'
<1>1. PICK start \in Chunks, end \in Chunks \union {ToTheEnd} :
          LET v == [Idle EXCEPT !.pc = "probe", !.cursor = start, !.expected = start, !.end = end]
          IN  start < end /\ Set(t, IF CacheTotal > 0 THEN Bounded(v, CacheTotal) ELSE v)
  BY DEF Request
<1> DEFINE v == [Idle EXCEPT !.pc = "probe", !.cursor = start, !.expected = start, !.end = end]
           w == IF CacheTotal > 0 THEN Bounded(v, CacheTotal) ELSE v
<1>2. Set(t, w) /\ UNCHANGED <<storeVars, handle>>
  BY <1>1 DEF Request
<1>3. start \in Nat /\ end \in Nat
  BY LengthNat DEF Chunks, ToTheEnd
<1>4. v \in TaskState /\ ~v.chunked /\ v.pc = "probe" /\ v.total = 0
  BY <1>3 DEF Idle, TaskState, Roots
<1> HIDE DEF v
<1>5. HonestTask(v, TrackRoot, TrackFile, handle)
  BY <1>4 DEF HonestTask, InBody
<1>6. HonestTask(w, TrackRoot, TrackFile, handle)
  BY <1>4, <1>5, BoundedHonest, CacheTotalHonest
<1> HIDE DEF w
<1> QED
  BY <1>2, <1>6, SetHonest

LEMMA ProbeHonest ==
    ASSUME Safe, AllHonest, NEW t \in Tasks, Probe(t)
    PROVE  AllHonest'
<1>1. task[t] \in TaskState /\ task[t].pc = "probe"
  BY DEF Safe, Tasked, Probe
<1>2. ~task[t].chunked
  BY <1>1 DEF AllHonest, HonestTask, InBody
<1>3. \A n \in {0, Length} : HonestTask(Bounded(task[t], n), TrackRoot, TrackFile, handle)
  BY <1>1, <1>2, BoundedHonest
<1>4. /\ Kept(setContentLength(Now, Track, Length)) /\ Kept(Now)
      /\ HonestStore(setContentLength(Now, Track, Length)) /\ HonestStore(Now)
      /\ Steady(Now, setContentLength(Now, Track, Length))
  BY LengthNat, KeepsLength, LengthRow DEF Safe, AllHonest
<1> QED
  BY <1>3, <1>4, StoreSame, AwaitSteady DEF Probe

LEMMA PathHonest ==
    ASSUME Safe, AllHonest, NEW t \in Tasks, Path(t)
    PROVE  AllHonest'
<1> DEFINE v == task[t]
           w == [v EXCEPT !.pc = "create", !.root = fileURL(Track)]
<1>1. v \in TaskState /\ v.pc = "path" /\ Local(t, w) /\ HonestTask(v, TrackRoot, TrackFile, handle)
  BY DEF Safe, Tasked, Path, AllHonest
<1> HIDE DEF v
<1>2. w.pc = "create" /\ w.root = TrackRoot /\ w.total = v.total /\ w.chunked = v.chunked
  BY <1>1 DEF TaskState, TrackRoot
<1> HIDE DEF w
<1>3. HonestTask(w, TrackRoot, TrackFile, handle)
  BY <1>1, <1>2 DEF HonestTask, InBody
<1> QED
  BY <1>1, <1>3, SetHonest DEF Local

\* The file is there once it has been created.
LEMMA CreatedHonest ==
    ASSUME Safe, AllHonest
    PROVE  LET s == Created(TrackRoot)
               f == s.blob[TrackRoot][Track]
           IN  /\ Kept(s) /\ HonestStore(s)
               /\ MetaOf(s, Track).durable = MetaOf(Now, Track).durable
               /\ f # None /\ Grows(TrackFile, f)
<1> DEFINE s == Created(TrackRoot)
           f == s.blob[TrackRoot][Track]
<1>1. TrackRoot \in Roots /\ <<>> \in Files /\ <<>> # None /\ FileSize(<<>>) = 0
  BY EmptySeq, StoreAssumption DEF TrackRoot, fileURL, RootFor, Roots, Files, FileSize
<1>2. Kept(s) /\ Kept(Now) /\ HonestStore(Now)
  BY <1>1, KeepsCreated DEF Safe, AllHonest
<1>3. CASE TrackFile # None
  <2>1. s = Now /\ f = TrackFile
    BY <1>3 DEF Created, TrackFile, Now
  <2> HIDE DEF s, f
  <2> QED
    BY <1>2, <1>3, <2>1 DEF Grows, s, f
<1>4. CASE TrackFile = None
  <2>1. s = [Now EXCEPT !.blob[TrackRoot][Track] = <<>>]
    BY <1>4 DEF Created, TrackFile
  <2> HIDE DEF s
  <2>2. /\ MetaOf(s, Track) = MetaOf(Now, Track)
        /\ \A q \in Roots : s.blob[q][Track] = IF q = TrackRoot /\ Track = Track THEN <<>>
                                              ELSE Now.blob[q][Track]
    <3>1. /\ s.metas = Now.metas
          /\ s.blob = [Now.blob EXCEPT ![TrackRoot] = [@ EXCEPT ![Track] = <<>>]]
      BY <1>1, <1>2, <2>1, LengthNat, Puts DEF Kept
    <3>2. Now.blob \in [Roots -> [Keys -> Files]]
      BY <1>2 DEF Kept, StoreState
    <3> QED
      BY <1>1, <3>1, <3>2, LengthNat DEF MetaOf
  <2>3. f = <<>>
    BY <1>1, <2>2
  <2>4. \A o \in Nat : ~Holds(TrackFile, o)
    BY <1>4 DEF Holds, FileSize
  <2>5. TrackRoot = (IF MetaOf(Now, Track).durable THEN "durable" ELSE "evictable")
        /\ MetaOf(Now, Track) \in Records
    BY <1>2, RootOf DEF TrackRoot, fileURL, Now
  <2>6. TrackFile = Now.blob[TrackRoot][Track]
    BY DEF TrackFile, Now
  <2>7. MetaOf(Now, Track).ranges = {}
    BY <1>2, <2>4, <2>5, <2>6 DEF HonestStore, Honest, Records, Meta
  <2>8. HonestStore(s)
    BY <1>1, <1>2, <2>2, <2>5, <2>7, LengthNat DEF HonestStore, Honest, Roots
  <2>9. Grows(TrackFile, f)
    BY <1>1, <2>3, <2>4 DEF Grows
  <2> QED
    BY <1>1, <1>2, <2>2, <2>3, <2>8, <2>9 DEF s
<1> QED
  BY <1>3, <1>4

LEMMA CreateHonest ==
    ASSUME Safe, AllHonest, NEW t \in Tasks, Create(t)
    PROVE  AllHonest'
<1> DEFINE v == task[t]
           w == [v EXCEPT !.pc = "loop"]
           s == Created(TrackRoot)
           f == s.blob[TrackRoot][Track]
<1>1. v \in TaskState /\ v.pc = "create" /\ Await(t, w, Created(v.root))
      /\ HonestTask(v, TrackRoot, TrackFile, handle)
  BY DEF Safe, Tasked, Create, AllHonest
<1>2. /\ Kept(s) /\ HonestStore(s)
      /\ MetaOf(s, Track).durable = MetaOf(Now, Track).durable
      /\ f # None /\ Grows(TrackFile, f)
  BY CreatedHonest
<1>3. v.root = TrackRoot
  BY <1>1 DEF HonestTask
<1>4. Await(t, w, s)
  BY <1>1, <1>3
<1> HIDE DEF v, s
<1>5. w.pc = "loop" /\ w.root = v.root /\ w.total = v.total /\ w.chunked = v.chunked
  BY <1>1 DEF TaskState
<1> HIDE DEF w
<1>6. HonestTask(w, TrackRoot, f, handle)
  BY <1>1, <1>2, <1>3, <1>5 DEF HonestTask, InBody
<1> QED
  BY <1>2, <1>4, <1>6, AwaitHonest

\* The file of the track, as the store and as the requests see it.
LEMMA FileInNow ==
    ASSUME Safe
    PROVE  FileIn(Now) = TrackFile /\ TrackFile \in Files
<1>1. TrackRoot = (IF MetaOf(Now, Track).durable THEN "durable" ELSE "evictable")
  BY RootOf DEF Safe, TrackRoot, fileURL, Now
<1>2. TrackFile \in Files
  BY <1>1, FileOf DEF TrackFile, Safe, Roots
<1> QED
  BY <1>1, <1>2 DEF FileIn, TrackFile, Now

LEMMA LookupHonest ==
    ASSUME Safe, AllHonest, NEW t \in Tasks, Lookup(t)
    PROVE  AllHonest'
<1> DEFINE v   == task[t]
           hit == cachedContiguousBytes(Now, Track, v.cursor)
           end == Min({v.cursor + hit.n, v.end})
           w   == [v EXCEPT !.pc = IF hit.n > 0 THEN "read" ELSE "ask",
                            !.n = IF hit.n > 0 THEN end ELSE 0]
<1>1. v \in TaskState /\ v.pc = "loop" /\ HonestTask(v, TrackRoot, TrackFile, handle)
  BY DEF Safe, Tasked, Lookup, AllHonest
<1>2. v.cursor \in Nat /\ v.end \in Nat /\ HonestStore(Now) /\ Kept(Now)
  BY <1>1 DEF TaskState, AllHonest, Safe
<1>3. CASE didShutdown
  BY <1>2, <1>3, IdleHonest, StoreSame, AwaitSteady DEF Lookup
<1>4. CASE ~didShutdown
  <2>1. Await(t, w, hit.s)
    BY <1>4 DEF Lookup
  <2>2. /\ hit.n \in Nat /\ SameRow(Now, hit.s)
        /\ \A i \in v.cursor..(v.cursor + hit.n - 1) : Holds(TrackFile, i)
    BY <1>2, LookupRow, FileInNow
  <2>3. Kept(hit.s)
    BY <1>2, LengthNat, KeepsLookup
  <2> HIDE DEF hit
  <2>4. HonestStore(hit.s) /\ Steady(Now, hit.s)
    BY <1>2, <2>2, HarmlessHonest, SameSteady DEF Harmless
  <2>5. end \in Nat /\ end <= v.cursor + hit.n
    BY <1>2, <2>2, MinOfTwo
  <2> HIDE DEF end, v
  <2>6. /\ w.pc = (IF hit.n > 0 THEN "read" ELSE "ask") /\ (hit.n > 0 => w.n = end)
        /\ w.cursor = v.cursor /\ w.root = v.root /\ w.total = v.total /\ w.chunked = v.chunked
    BY <1>1, <2>5 DEF TaskState
  <2> HIDE DEF w
  <2>7. w.pc = "read" => \A o \in w.cursor..(w.n - 1) : Holds(TrackFile, o)
    BY <1>2, <2>2, <2>5, <2>6
  <2>8. HonestTask(w, TrackRoot, TrackFile, handle)
    BY <1>1, <2>6, <2>7 DEF HonestTask, InBody
  <2> QED
    BY <2>1, <2>3, <2>4, <2>8, AwaitSteady
<1> QED
  BY <1>3, <1>4

LEMMA ContinueHonest ==
    ASSUME NEW v \in TaskState, NEW r, NEW f, NEW h,
           ~v.chunked, v.total \in {0, Length}, v.root = r, f # None
    PROVE  HonestTask(Continue(v), r, f, h)
<1> DEFINE w == [v EXCEPT !.pc = "loop", !.n = 0, !.from = 0, !.bodyEnd = 0]
<1>1. w.pc = "loop" /\ w.root = v.root /\ w.total = v.total /\ w.chunked = v.chunked
  BY DEF TaskState
<1>2. Continue(v) = IF v.cursor < v.end THEN w ELSE Idle
  BY DEF Continue
<1> HIDE DEF w
<1>3. HonestTask(w, r, f, h)
  BY <1>1 DEF HonestTask, InBody
<1> QED
  BY <1>2, <1>3, IdleHonest

\* What a request takes from the cache is the origin's.
LEMMA ReadHonest ==
    ASSUME Safe, AllHonest, history \in Hist, NEW t \in Tasks, Read(t)
    PROVE  AllHonest' /\ history' = history
<1> DEFINE v    == task[t]
           file == blob[v.root][Track]
           stop == Min({v.n, FileSize(file)})
           more == stop - v.cursor
           u    == [v EXCEPT !.cursor = stop, !.expected = @ + more]
           w    == [v EXCEPT !.pc = "ask", !.n = 0]
<1>1. v \in TaskState /\ v.pc = "read" /\ HonestTask(v, TrackRoot, TrackFile, handle)
  BY DEF Safe, Tasked, Read, AllHonest
<1>2. /\ v.cursor \in Nat /\ v.n \in Nat /\ v.expected \in Nat /\ v.root = TrackRoot
      /\ ~v.chunked /\ v.total \in {0, Length} /\ TrackFile # None
      /\ \A o \in v.cursor..(v.n - 1) : Holds(TrackFile, o)
  BY <1>1 DEF TaskState, HonestTask, InBody
<1>3. file = TrackFile /\ FileSize(file) \in Nat
  BY <1>2, FileInNow, SizeNat DEF TrackFile
<1>4. stop \in Nat /\ stop <= v.n
  BY <1>2, <1>3, MinOfTwo
<1>5. CASE more <= 0
  <2>1. Local(t, w)
    BY <1>5 DEF Read
  <2> HIDE DEF v
  <2>2. w.pc = "ask" /\ w.root = v.root /\ w.total = v.total /\ w.chunked = v.chunked
    BY <1>1 DEF TaskState
  <2> HIDE DEF w
  <2>3. HonestTask(w, TrackRoot, TrackFile, handle)
    BY <1>2, <2>2 DEF HonestTask, InBody
  <2> QED
    BY <2>1, <2>3, SetHonest DEF Local
<1>6. CASE ~(more <= 0)
  <2>1. /\ Set(t, Continue(u)) /\ UNCHANGED <<storeVars, handle>>
        /\ history' = [history EXCEPT !.falseServed = @ \/ \E i \in (v.cursor + 1)..stop : ~file[i]]
    BY <1>6 DEF Read
  <2> HIDE DEF v, file, stop
  <2>2. \A i \in (v.cursor + 1)..stop : file[i]
    <3>1. TAKE i \in (v.cursor + 1)..stop
    <3>2. Holds(file, i - 1) /\ (i - 1) + 1 = i
      BY <1>2, <1>3, <1>4
    <3> QED
      BY <3>2 DEF Holds
  <2>3. ~\E i \in (v.cursor + 1)..stop : ~file[i]
    BY <2>2
  <2>4. history' = history
    BY <2>1, <2>3 DEF Hist
  <2>5. v.expected + more \in Nat
    BY <1>2, <1>4, <1>6
  <2> HIDE DEF more
  <2>6. u \in TaskState /\ u.root = v.root /\ u.total = v.total /\ u.chunked = v.chunked
    BY <1>1, <1>4, <2>5 DEF TaskState
  <2> HIDE DEF u
  <2>7. HonestTask(Continue(u), TrackRoot, TrackFile, handle)
    BY <1>2, <2>6, ContinueHonest
  <2> QED
    BY <2>1, <2>4, <2>7, SetHonest
<1> QED
  BY <1>5, <1>6

\* A body that is on its way has written nothing yet.
LEMMA BodyHonest ==
    ASSUME NEW v \in TaskState, NEW r, NEW f, NEW h, HonestTask(v, r, f, h), v.pc = "ask",
           NEW e \in Nat, e <= Length,
           NEW w, w = [v EXCEPT !.pc = "body", !.from = v.cursor, !.bodyEnd = e]
    PROVE  HonestTask(w, r, f, h)
<1>1. /\ w.pc = "body" /\ w.root = v.root /\ w.total = v.total /\ w.chunked = v.chunked
      /\ w.from = v.cursor /\ w.cursor = v.cursor /\ w.bodyEnd = e /\ v.cursor \in Nat
  BY DEF TaskState
<1>2. \A o \in w.from..(w.cursor - 1) : Holds(f, o)
  BY <1>1
<1> QED
  BY <1>1, <1>2 DEF HonestTask, InBody

LEMMA AskHonest ==
    ASSUME Safe, AllHonest, NEW t \in Tasks, Ask(t)
    PROVE  AllHonest'
<1> DEFINE v     == task[t]
           known == IF CacheTotal > 0 THEN CacheTotal ELSE v.total
           Body(end) == [v EXCEPT !.pc = "body", !.from = v.cursor, !.bodyEnd = end]
           e     == IF v.total > 0 THEN Min({v.end, Length}) ELSE Length
           w     == [Body(Length) EXCEPT !.chunked = TRUE, !.end = ToTheEnd]
<1>1. v \in TaskState /\ v.pc = "ask" /\ HonestTask(v, TrackRoot, TrackFile, handle)
  BY DEF Safe, Tasked, Ask, AllHonest
<1>2. /\ v.cursor \in Nat /\ v.end \in Nat /\ v.total \in {0, Length}
      /\ v.root = TrackRoot /\ TrackFile # None
  BY <1>1 DEF TaskState, HonestTask
<1>3. Length \in Nat /\ HonestTask(Body(Length), TrackRoot, TrackFile, handle)
  <2> DEFINE b == Body(Length)
  <2>1. Length \in Nat /\ Length <= Length
    BY LengthNat
  <2>2. b = [v EXCEPT !.pc = "body", !.from = v.cursor, !.bodyEnd = Length]
    OBVIOUS
  <2> HIDE DEF v, b
  <2>3. HonestTask(b, TrackRoot, TrackFile, handle)
    BY <1>1, <2>1, <2>2, BodyHonest
  <2> QED
    BY <2>1, <2>3 DEF b
<1>4. CASE Local(t, Body(e))
  <2>1. e \in Nat /\ e <= Length
    <3>1. Min({v.end, Length}) = IF v.end <= Length THEN v.end ELSE Length
      BY <1>2, <1>3, MinOfTwo
    <3> HIDE DEF v
    <3> QED
      BY <1>2, <1>3, <3>1
  <2> HIDE DEF e
  <2>2. HonestTask(Body(e), TrackRoot, TrackFile, handle)
    <3> DEFINE b == Body(e)
    <3>1. b = [v EXCEPT !.pc = "body", !.from = v.cursor, !.bodyEnd = e]
      OBVIOUS
    <3> HIDE DEF v, b
    <3>2. HonestTask(b, TrackRoot, TrackFile, handle)
      BY <1>1, <2>1, <3>1, BodyHonest
    <3> QED
      BY <3>2 DEF b
  <2> QED
    BY <1>4, <2>2, SetHonest DEF Local
<1>5. CASE \E n \in {Length, known} \ {0} :
                 Await(t, Body(Length), setContentLength(Now, Track, n))
  <2>1. PICK n \in {Length, known} \ {0} :
                 Await(t, Body(Length), setContentLength(Now, Track, n))
    BY <1>5
  <2>2. n = Length
    BY <1>2, <2>1, CacheTotalHonest
  <2>3. /\ Kept(setContentLength(Now, Track, n)) /\ HonestStore(setContentLength(Now, Track, n))
        /\ Steady(Now, setContentLength(Now, Track, n))
    BY <2>2, LengthNat, KeepsLength, LengthRow DEF Safe, AllHonest
  <2> HIDE DEF Body
  <2> QED
    BY <1>3, <2>1, <2>3, AwaitSteady
<1>6. CASE v.cursor = 0 /\ Await(t, w, Now)
  <2>1. ToTheEnd \in Nat
    BY <1>3 DEF ToTheEnd
  <2> HIDE DEF v
  <2>2. /\ w.pc = "body" /\ w.root = v.root /\ w.total = v.total /\ w.chunked
        /\ w.from = v.cursor /\ w.cursor = v.cursor /\ w.bodyEnd = Length
    BY <1>1, <1>3, <2>1 DEF TaskState
  <2> HIDE DEF w
  <2>3. \A o \in w.from..(w.cursor - 1) : Holds(TrackFile, o)
    BY <1>2, <2>2
  <2>4. HonestTask(w, TrackRoot, TrackFile, handle)
    BY <1>2, <1>3, <1>6, <2>2, <2>3 DEF HonestTask, InBody
  <2> QED
    BY <1>6, <2>4, StoreSame, AwaitSteady DEF Safe, AllHonest
<1> QED
  BY <1>4, <1>5, <1>6 DEF Ask

LEMMA SeekHonest ==
    ASSUME Safe, AllHonest, NEW t \in Tasks, Seek(t)
    PROVE  AllHonest'
<1> DEFINE v == task[t]
           w == [v EXCEPT !.pc = "write"]
<1>1. /\ v \in TaskState /\ v.pc = "body" /\ v.cursor < v.bodyEnd
      /\ HonestTask(v, TrackRoot, TrackFile, handle)
  BY DEF Safe, Tasked, Seek, AllHonest
<1>2. v.root = TrackRoot /\ TrackFile # None
  BY <1>1 DEF HonestTask
<1>3. /\ task' = [task EXCEPT ![t] = w] /\ warming' = warming /\ metas' = metas /\ blob' = blob
      /\ handle' = IF handle = None /\ TrackFile # None THEN TrackRoot ELSE handle
  BY <1>2 DEF Seek, Set, storeVars, TrackFile
<1>4. handle' = TrackRoot
  BY <1>2, <1>3 DEF AllHonest, HonestHandle
<1>5. TrackRoot' = TrackRoot /\ TrackFile' = TrackFile
  BY <1>3 DEF TrackRoot, TrackFile, fileURL
<1>6. HonestStore(Now)'
  BY <1>3 DEF AllHonest, HonestStore, MetaOf, Now
<1>7. \A u \in Tasks : HonestTask(task[u], TrackRoot, TrackFile, TrackRoot)
  BY DEF AllHonest, HonestTask
<1>8. HonestTask(w, TrackRoot, TrackFile, TrackRoot)
  <2> HIDE DEF v
  <2>1. /\ w.pc = "write" /\ w.root = v.root /\ w.total = v.total /\ w.chunked = v.chunked
        /\ w.from = v.from /\ w.cursor = v.cursor /\ w.bodyEnd = v.bodyEnd
    BY <1>1 DEF TaskState
  <2> HIDE DEF w
  <2> QED
    BY <1>1, <1>2, <2>1 DEF HonestTask, InBody
<1> HIDE DEF w
<1>9. \A u \in Tasks : HonestTask(task'[u], TrackRoot, TrackFile, TrackRoot)
  BY <1>3, <1>7, <1>8 DEF Safe, Tasked
<1>10. HonestHandle(TrackRoot, TrackRoot, TrackFile)
  BY <1>2 DEF HonestHandle
<1> QED
  BY <1>3, <1>4, <1>5, <1>6, <1>9, <1>10 DEF AllHonest

\* A write of the origin's bytes grows the file, and they are there.
LEMMA WrittenGrows ==
    ASSUME NEW f \in Files, NEW a \in Nat, NEW b \in Nat
    PROVE  LET w == Written(f, a, b, TRUE)
           IN  /\ w \in Files /\ w # None /\ Grows(f, w)
               /\ FileSize(w) = IF FileSize(f) >= b THEN FileSize(f) ELSE b
               /\ \A o \in a..(b - 1) : Holds(w, o)
<1> DEFINE w == Written(f, a, b, TRUE)
<1>1. /\ w \in Files /\ w # None
      /\ FileSize(w) = IF FileSize(f) >= b THEN FileSize(f) ELSE b
      /\ \A i \in 1..FileSize(w) : w[i] = IF a < i /\ i <= b THEN TRUE ELSE i <= FileSize(f) /\ f[i]
  BY WrittenFile
<1> HIDE DEF w
<1>2. FileSize(f) \in Nat /\ FileSize(w) \in Nat
  BY <1>1, SizeNat
<1>3. ASSUME NEW o \in Nat, Holds(f, o) PROVE Holds(w, o)
  <2>1. o < FileSize(f) /\ f[o + 1] /\ o + 1 \in 1..FileSize(w) /\ o + 1 <= FileSize(f)
    BY <1>1, <1>2, <1>3 DEF Holds
  <2>2. w[o + 1]
    BY <1>1, <2>1
  <2> QED
    BY <1>2, <2>1, <2>2 DEF Holds
<1>4. ASSUME NEW o \in a..(b - 1) PROVE Holds(w, o)
  <2>1. o < FileSize(w) /\ o + 1 \in 1..FileSize(w) /\ a < o + 1 /\ o + 1 <= b
    BY <1>1, <1>2
  <2>2. w[o + 1]
    BY <1>1, <2>1
  <2> QED
    BY <2>1, <2>2 DEF Holds
<1> QED
  BY <1>1, <1>3, <1>4 DEF Grows, w

\* The file of the track replaced by one that has grown.
LEMMA FilePut ==
    ASSUME Safe, AllHonest, NEW f \in Files, f # None, Grows(TrackFile, f), FileSize(f) <= Length,
           NEW s, s = [Now EXCEPT !.blob[TrackRoot][Track] = f]
    PROVE  /\ Kept(s) /\ HonestStore(s)
           /\ MetaOf(s, Track).durable = MetaOf(Now, Track).durable
           /\ s.blob[TrackRoot][Track] = f
<1>1. Kept(Now) /\ HonestStore(Now) /\ TrackRoot \in Roots
  BY DEF Safe, AllHonest, TrackRoot, fileURL, RootFor, Roots
<1>2. Kept(s)
  BY <1>1, LengthNat, KeepsPut
<1>3. /\ MetaOf(s, Track) = MetaOf(Now, Track)
      /\ \A q \in Roots : s.blob[q][Track] = IF q = TrackRoot /\ Track = Track THEN f
                                            ELSE Now.blob[q][Track]
  BY <1>1, LengthNat, PutRow
<1>4. TrackRoot = (IF MetaOf(Now, Track).durable THEN "durable" ELSE "evictable")
      /\ MetaOf(Now, Track) \in Records
  BY <1>1, RootOf DEF TrackRoot, fileURL, Now
<1>5. TrackFile = Now.blob[TrackRoot][Track]
  BY DEF TrackFile, Now
<1>6. \A o \in MetaOf(Now, Track).ranges : o \in Nat
  BY <1>4 DEF Records, Meta
<1>7. \A o \in MetaOf(Now, Track).ranges : Holds(f, o)
  BY <1>1, <1>4, <1>5, <1>6 DEF HonestStore, Honest, Grows
<1>8. HonestStore(s)
  BY <1>1, <1>3, <1>4, <1>7 DEF HonestStore, Honest, Roots
<1> QED
  BY <1>1, <1>2, <1>3, <1>8

\* A chunk that lands at the offset the request sought.
LEMMA WriteHonest ==
    ASSUME Safe, AllHonest, history \in Hist, NEW t \in Tasks, Write(t), ~history'.disturbed
    PROVE  AllHonest'
<1> DEFINE v == task[t]
           f == Written(TrackFile, offset, offset + 1, TRUE)
           s == [Now EXCEPT !.blob[TrackRoot][Track] = f]
           y == v.cursor + 1
           x == IF v.cursor < v.end THEN v.expected + 1 ELSE v.expected
           w == [v EXCEPT !.pc = "body", !.cursor = y, !.expected = x]
<1>1. /\ v \in TaskState /\ v.pc = "write" /\ Placed(v) /\ Set(t, w)
      /\ HonestTask(v, TrackRoot, TrackFile, handle)
  BY DEF Safe, Tasked, Write, AllHonest
<1>2. /\ v.cursor \in Nat /\ v.from \in Nat /\ v.bodyEnd \in Nat /\ v.expected \in Nat
      /\ v.from <= v.cursor /\ v.cursor < v.bodyEnd /\ v.bodyEnd <= Length
      /\ v.root = TrackRoot /\ handle = TrackRoot /\ TrackFile # None /\ TrackRoot \in Roots
      /\ v.total \in {0, Length}
      /\ v.chunked => v.from = 0 /\ v.bodyEnd = Length
      /\ \A o \in v.from..(v.cursor - 1) : Holds(TrackFile, o)
  BY <1>1 DEF TaskState, Placed, HonestTask, InBody, TrackRoot, fileURL, RootFor, Roots
<1>3. offset = v.cursor
  BY <1>2 DEF Write, Hist
<1>4. /\ blob' = [blob EXCEPT ![TrackRoot][Track] = Written(@, offset, offset + 1, TRUE)]
      /\ UNCHANGED <<metas, metaFile, used, limitBytes, protectedKeys>> /\ handle' = handle
  BY <1>2, <1>3 DEF Write
<1>5. blob[TrackRoot][Track] = TrackFile
  BY DEF TrackFile
<1> HIDE DEF v
<1>6. /\ f \in Files /\ f # None /\ Grows(TrackFile, f)
      /\ FileSize(f) = IF FileSize(TrackFile) >= offset + 1 THEN FileSize(TrackFile) ELSE offset + 1
      /\ Holds(f, offset)
  <2>1. offset \in Nat /\ offset + 1 \in Nat /\ TrackFile \in Files
    BY <1>2, <1>3, FileInNow
  <2> DEFINE b == offset + 1
  <2> HIDE DEF b
  <2>2. LET g == Written(TrackFile, offset, b, TRUE)
        IN  /\ g \in Files /\ g # None /\ Grows(TrackFile, g)
            /\ FileSize(g) = IF FileSize(TrackFile) >= b THEN FileSize(TrackFile) ELSE b
            /\ \A o \in offset..(b - 1) : Holds(g, o)
    BY <2>1, WrittenGrows DEF b
  <2>3. offset \in offset..(b - 1)
    BY <2>1 DEF b
  <2> QED
    BY <2>2, <2>3 DEF b
<1>7. Call(s)
  <2>1. blob' = [blob EXCEPT ![TrackRoot][Track] = f]
    BY <1>4, <1>5
  <2> HIDE DEF f
  <2> QED
    BY <1>4, <2>1 DEF Call, Becomes, Now
<1> HIDE DEF f
<1>8. FileSize(f) <= Length
  <2>1. FileSize(TrackFile) <= Length
    <3>1. TrackRoot = (IF MetaOf(Now, Track).durable THEN "durable" ELSE "evictable")
      BY RootOf DEF Safe, TrackRoot, fileURL, Now
    <3> QED
      BY <3>1 DEF AllHonest, HonestStore, Honest, TrackFile, Now
  <2> QED
    BY <1>2, <1>3, <1>6, <2>1, LengthNat
<1>9. /\ Kept(s) /\ HonestStore(s)
      /\ MetaOf(s, Track).durable = MetaOf(Now, Track).durable
      /\ s.blob[TrackRoot][Track] = f
  BY <1>6, <1>8, FilePut
<1> HIDE DEF s
<1>10. Follow
  BY <1>2, <1>4, <1>6, <1>7, <1>9 DEF Follow, Call, Becomes
<1>11. /\ HonestStore(Now)' /\ TrackRoot' = TrackRoot /\ TrackFile' = f /\ handle' = handle
       /\ \A u \in Tasks : HonestTask(task[u], TrackRoot, f, handle)
       /\ HonestWarmup(warming, TrackRoot, f) /\ HonestHandle(handle, TrackRoot, f)
  BY <1>6, <1>7, <1>9, <1>10, CallHonest
<1>12. HonestTask(w, TrackRoot, f, handle)
  <2>1. y \in Nat /\ x \in Nat
    BY <1>2
  <2>2. \A o \in v.from..(y - 1) : Holds(f, o)
    <3>1. TAKE o \in v.from..(y - 1)
    <3>2. CASE o = v.cursor
      BY <1>2, <1>3, <1>6, <3>2
    <3>3. CASE o # v.cursor
      <4>1. o \in v.from..(v.cursor - 1) /\ o \in Nat
        BY <1>2, <3>3
      <4> QED
        BY <1>2, <1>6, <4>1 DEF Grows
    <3> QED
      BY <3>2, <3>3
  <2> HIDE DEF x, y
  <2>3. /\ w.pc = "body" /\ w.root = v.root /\ w.total = v.total /\ w.chunked = v.chunked
        /\ w.from = v.from /\ w.cursor = y /\ w.bodyEnd = v.bodyEnd
    BY <1>1, <2>1 DEF TaskState
  <2> HIDE DEF w
  <2> QED
    BY <1>2, <1>6, <2>2, <2>3 DEF HonestTask, InBody
<1> HIDE DEF w
<1>13. task' = [task EXCEPT ![t] = w] /\ warming' = warming
  BY <1>1 DEF Set
<1>14. \A u \in Tasks : HonestTask(task'[u], TrackRoot, f, handle)
  BY <1>11, <1>12, <1>13 DEF Safe, Tasked
<1> QED
  BY <1>11, <1>13, <1>14 DEF AllHonest

LEMMA RecordHonest ==
    ASSUME Safe, AllHonest, NEW t \in Tasks, Record(t)
    PROVE  AllHonest'
<1> DEFINE v   == task[t]
           top == IF v.pc = "body" THEN v.cursor - 1 ELSE v.n - 1
           w   == [v EXCEPT !.pc = "record", !.n = top]
           x   == [w EXCEPT !.pc = "length"]
           s   == recordWrite(Now, Track, {top})
<1>1. /\ v \in TaskState /\ Placed(v) /\ HonestTask(v, TrackRoot, TrackFile, handle)
      /\ (v.pc = "body" /\ v.cursor = v.bodyEnd) \/ v.pc = "record"
  BY DEF Safe, Tasked, Record, AllHonest
<1>2. /\ v.cursor \in Nat /\ v.from \in Nat /\ v.bodyEnd \in Nat /\ v.n \in Nat
      /\ v.cursor = v.bodyEnd /\ v.bodyEnd <= Length
      /\ v.root = TrackRoot /\ TrackFile # None /\ v.total \in {0, Length}
      /\ v.chunked => v.from = 0 /\ v.bodyEnd = Length
      /\ \A o \in v.from..(v.cursor - 1) : Holds(TrackFile, o)
  BY <1>1 DEF TaskState, HonestTask, InBody
<1>3. top \in Nat /\ top \in v.from..(v.cursor - 1)
  BY <1>1, <1>2 DEF Placed
<1>4. Await(t, IF top > v.from THEN w ELSE IF v.chunked THEN x ELSE Continue(v), s)
  BY DEF Record
<1> HIDE DEF v, top
<1>5. Kept(s) /\ HonestStore(s) /\ Steady(Now, s)
  <2>1. {top} \in SUBSET Nat /\ IsFiniteSet({top})
    BY <1>3, FS_Singleton
  <2>2. \A o \in {top} : Holds(FileIn(Now), o)
    BY <1>2, <1>3, FileInNow
  <2> QED
    BY <2>1, <2>2, LengthNat, KeepsWrite, WriteRow DEF Safe, AllHonest
<1> HIDE DEF s
<1>6. /\ w \in TaskState /\ w.pc = "record" /\ w.cursor = v.cursor /\ w.from = v.from
      /\ w.bodyEnd = v.bodyEnd /\ w.root = v.root /\ w.total = v.total /\ w.chunked = v.chunked
  BY <1>1, <1>3 DEF TaskState
<1>7. CASE top > v.from
  <2> HIDE DEF w
  <2>1. HonestTask(w, TrackRoot, TrackFile, handle)
    BY <1>2, <1>6 DEF HonestTask, InBody
  <2> QED
    BY <1>4, <1>5, <1>7, <2>1, AwaitSteady
<1>8. CASE ~(top > v.from) /\ v.chunked
  <2> HIDE DEF w
  <2>1. /\ x.pc = "length" /\ x.cursor = v.cursor /\ x.from = v.from
        /\ x.bodyEnd = v.bodyEnd /\ x.root = v.root /\ x.total = v.total /\ x.chunked = v.chunked
    BY <1>6 DEF TaskState
  <2> HIDE DEF x
  <2>2. HonestTask(x, TrackRoot, TrackFile, handle)
    BY <1>2, <1>8, <2>1 DEF HonestTask, InBody
  <2>3. Await(t, x, s)
    BY <1>4, <1>8
  <2> QED
    BY <1>5, <2>2, <2>3, AwaitSteady
<1>9. CASE ~(top > v.from) /\ ~v.chunked
  <2>1. HonestTask(Continue(v), TrackRoot, TrackFile, handle)
    BY <1>1, <1>2, <1>9, ContinueHonest
  <2>2. Await(t, Continue(v), s)
    BY <1>4, <1>9
  <2> QED
    BY <1>5, <2>1, <2>2, AwaitSteady
<1> QED
  BY <1>7, <1>8, <1>9

LEMMA RecordWholeHonest ==
    ASSUME Safe, AllHonest, NEW t \in Tasks, RecordWhole(t)
    PROVE  AllHonest'
<1> DEFINE v == task[t]
           w == [v EXCEPT !.pc = "whole"]
           R == 0..(v.cursor - 1)
<1>1. /\ v \in TaskState /\ HonestTask(v, TrackRoot, TrackFile, handle)
      /\ v.pc \in {"length", "whole"}
  BY DEF Safe, Tasked, RecordWhole, AllHonest
<1>2. /\ v.cursor = Length /\ v.cursor = v.bodyEnd /\ v.chunked /\ v.from = 0
      /\ v.root = TrackRoot /\ TrackFile # None /\ v.total \in {0, Length}
      /\ \A o \in R : Holds(TrackFile, o)
  BY <1>1 DEF HonestTask, InBody
<1>3. CASE v.pc = "length" /\ Await(t, w, setContentLength(Now, Track, v.cursor))
  <2>1. /\ Kept(setContentLength(Now, Track, Length)) /\ HonestStore(setContentLength(Now, Track, Length))
        /\ Steady(Now, setContentLength(Now, Track, Length))
    BY LengthNat, KeepsLength, LengthRow DEF Safe, AllHonest
  <2>2. Await(t, w, setContentLength(Now, Track, Length))
    BY <1>2, <1>3
  <2> HIDE DEF v
  <2>3. /\ w.pc = "whole" /\ w.cursor = v.cursor /\ w.from = v.from
        /\ w.bodyEnd = v.bodyEnd /\ w.root = v.root /\ w.total = v.total /\ w.chunked = v.chunked
    BY <1>1 DEF TaskState
  <2> HIDE DEF w
  <2>4. HonestTask(w, TrackRoot, TrackFile, handle)
    BY <1>2, <2>3, LengthNat DEF HonestTask, InBody
  <2> QED
    BY <2>1, <2>2, <2>4, AwaitSteady
<1>4. CASE Await(t, Idle, recordWrite(Now, Track, R))
  <2>1. R \in SUBSET Nat /\ IsFiniteSet(R)
    <3> HIDE DEF v
    <3>1. v.cursor - 1 \in Int /\ \A x \in R : x \in Nat
      BY <1>2, LengthNat
    <3> QED
      BY <3>1, FS_Interval
  <2>2. \A o \in R : Holds(FileIn(Now), o)
    BY <1>2, FileInNow
  <2> HIDE DEF R
  <2>3. /\ Kept(recordWrite(Now, Track, R)) /\ HonestStore(recordWrite(Now, Track, R))
        /\ Steady(Now, recordWrite(Now, Track, R))
    BY <2>1, <2>2, LengthNat, KeepsWrite, WriteRow DEF Safe, AllHonest
  <2> QED
    BY <1>4, <2>3, IdleHonest, AwaitSteady
<1> QED
  BY <1>3, <1>4 DEF RecordWhole

-----------------------------------------------------------------------------
(* The warm-up, the app, the system and the process *)

LEMMA FileFits ==
    ASSUME Safe, AllHonest
    PROVE  FileSize(TrackFile) <= Length
<1>1. TrackRoot = (IF MetaOf(Now, Track).durable THEN "durable" ELSE "evictable")
  BY RootOf DEF Safe, TrackRoot, fileURL, Now
<1> QED
  BY <1>1 DEF AllHonest, HonestStore, Honest, TrackFile, Now

LEMMA WarmHonest ==
    ASSUME Safe, AllHonest, WarmStep
    PROVE  AllHonest'
<1> USE DEF WarmStep
<1> DEFINE v == warming
<1>1. /\ v \in WarmState /\ v.from \in Nat /\ v.to \in Nat /\ v.root \in Roots
      /\ Kept(Now) /\ HonestStore(Now) /\ HonestWarmup(v, TrackRoot, TrackFile)
  BY DEF Safe, WarmState, AllHonest
<1>2. \A f : HonestWarmup(NoWarmup, TrackRoot, f)
  BY DEF NoWarmup, HonestWarmup
<1>3. CASE WarmStart
  <2>1. PICK bytes \in 1..Length :
            warming' = [pc |-> "create", root |-> fileURL(Track), from |-> 0, to |-> bytes]
    BY <1>3 DEF WarmStart
  <2>2. /\ metas' = metas /\ blob' = blob /\ task' = task /\ handle' = handle
    BY <1>3 DEF WarmStart, storeVars
  <2>3. TrackRoot' = TrackRoot /\ TrackFile' = TrackFile
    BY <2>2 DEF TrackRoot, TrackFile, fileURL
  <2>4. HonestStore(Now)'
    BY <1>1, <2>2 DEF HonestStore, MetaOf, Now
  <2>5. HonestWarmup(warming', TrackRoot, TrackFile)
    BY <2>1, LengthNat DEF HonestWarmup, TrackRoot
  <2> QED
    BY <2>2, <2>3, <2>4, <2>5 DEF AllHonest
<1>4. CASE WarmCreate
  <2> DEFINE w == [v EXCEPT !.pc = "already"]
             s == Created(TrackRoot)
             f == s.blob[TrackRoot][Track]
  <2>1. v.pc = "create" /\ Warmed(w, Created(v.root)) /\ v.root = TrackRoot /\ v.to <= Length
    BY <1>1, <1>4 DEF WarmCreate, HonestWarmup
  <2>2. /\ Kept(s) /\ HonestStore(s)
        /\ MetaOf(s, Track).durable = MetaOf(Now, Track).durable
        /\ f # None /\ Grows(TrackFile, f)
    BY CreatedHonest
  <2>3. Warmed(w, s)
    BY <2>1
  <2> HIDE DEF s
  <2>4. w.pc = "already" /\ w.root = v.root /\ w.to = v.to
    BY <1>1 DEF WarmState
  <2> HIDE DEF w
  <2>5. HonestWarmup(w, TrackRoot, f)
    BY <2>1, <2>2, <2>4 DEF HonestWarmup
  <2> QED
    BY <2>2, <2>3, <2>5, WarmedHonest
<1>5. CASE WarmAlready
  <2> DEFINE already == contiguousBytes(MetaOf(Now, Track).ranges, 0)
             w == [v EXCEPT !.pc = "ask", !.from = already]
  <2>1. v.pc = "already" /\ Warmed(IF already < v.to THEN w ELSE NoWarmup, Now)
    BY <1>5 DEF WarmAlready
  <2>2. already \in Nat
    BY <1>1, TotalNat, Contiguous
  <2> HIDE DEF already
  <2>3. w.pc = "ask" /\ w.root = v.root /\ w.to = v.to
    BY <1>1, <2>2 DEF WarmState
  <2> HIDE DEF w
  <2>4. HonestWarmup(w, TrackRoot, TrackFile)
    BY <1>1, <2>1, <2>3 DEF HonestWarmup
  <2> QED
    BY <1>1, <1>2, <2>1, <2>4, StoreSame, WarmedSteady
<1>6. CASE WarmAnswer
  <2> DEFINE w == [v EXCEPT !.pc = "write"]
             x == [v EXCEPT !.pc = "write", !.to = Length]
  <2>1. v.pc = "ask" /\ v.root = TrackRoot /\ v.to <= Length /\ TrackFile # None
    BY <1>1, <1>6 DEF WarmAnswer, HonestWarmup
  <2>2. HonestWarmup(w, TrackRoot, TrackFile)
    <3>1. w.pc = "write" /\ w.root = v.root /\ w.to = v.to
      BY <1>1 DEF WarmState
    <3> HIDE DEF w
    <3> QED
      BY <2>1, <3>1 DEF HonestWarmup
  <2>3. HonestWarmup(x, TrackRoot, TrackFile)
    <3>1. x.pc = "write" /\ x.root = v.root /\ x.to = Length
      BY <1>1, LengthNat DEF WarmState
    <3> HIDE DEF x
    <3> QED
      BY <2>1, <3>1, LengthNat DEF HonestWarmup
  <2>4. CASE Warmed(w, Now) \/ Warmed(NoWarmup, Now)
    BY <1>1, <1>2, <2>2, <2>4, StoreSame, WarmedSteady
  <2>5. ASSUME NEW n \in {Length, CacheTotal} \ {0}, Warmed(x, setContentLength(Now, Track, n))
        PROVE  AllHonest'
    <3>1. n = Length
      BY CacheTotalHonest
    <3>2. /\ Kept(setContentLength(Now, Track, n)) /\ HonestStore(setContentLength(Now, Track, n))
          /\ Steady(Now, setContentLength(Now, Track, n))
      BY <1>1, <3>1, LengthNat, KeepsLength, LengthRow
    <3> HIDE DEF x
    <3> QED
      BY <2>3, <2>5, <3>2, WarmedSteady
  <2> QED
    BY <1>6, <2>4, <2>5 DEF WarmAnswer
<1>7. CASE WarmWrite
  <2> DEFINE f == Written(TrackFile, v.from, v.to, TRUE)
             s == [Now EXCEPT !.blob[TrackRoot][Track] = f]
             w == [v EXCEPT !.pc = "record"]
  <2>1. v.pc = "write" /\ v.root = TrackRoot /\ v.to <= Length /\ TrackFile # None
    BY <1>1, <1>7 DEF WarmWrite, HonestWarmup
  <2>2. Warmed(w, s)
    <3>1. blob[v.root][Track] = TrackFile
      BY <2>1 DEF TrackFile
    <3>2. Warmed(w, [Now EXCEPT !.blob[v.root][Track] = Written(@, v.from, v.to, TRUE)])
      BY <1>7, <2>1, <3>1 DEF WarmWrite
    <3> QED
      BY <2>1, <3>1, <3>2 DEF Now
  <2>3. /\ f \in Files /\ f # None /\ Grows(TrackFile, f)
        /\ FileSize(f) = IF FileSize(TrackFile) >= v.to THEN FileSize(TrackFile) ELSE v.to
        /\ \A o \in v.from..(v.to - 1) : Holds(f, o)
    BY <1>1, FileInNow, WrittenGrows
  <2> HIDE DEF f
  <2>4. FileSize(f) <= Length
    BY <2>1, <2>3, FileFits
  <2>5. /\ Kept(s) /\ HonestStore(s)
        /\ MetaOf(s, Track).durable = MetaOf(Now, Track).durable
        /\ s.blob[TrackRoot][Track] = f
    BY <2>3, <2>4, FilePut
  <2> HIDE DEF s
  <2>6. w.pc = "record" /\ w.root = v.root /\ w.to = v.to /\ w.from = v.from
    BY <1>1 DEF WarmState
  <2> HIDE DEF w
  <2>7. HonestWarmup(w, TrackRoot, f)
    BY <2>1, <2>3, <2>6 DEF HonestWarmup
  <2> QED
    BY <2>2, <2>3, <2>5, <2>7, WarmedHonest
<1>8. CASE WarmRecord
  <2> DEFINE R == v.from..(v.to - 1)
  <2>1. Warmed(NoWarmup, recordWrite(Now, Track, R)) /\ \A o \in R : Holds(TrackFile, o)
    BY <1>1, <1>8 DEF WarmRecord, HonestWarmup
  <2>2. R \in SUBSET Nat /\ IsFiniteSet(R)
    <3>1. v.to - 1 \in Int /\ v.from \in Int /\ \A x \in R : x \in Nat
      BY <1>1
    <3> QED
      BY <3>1, FS_Interval
  <2> HIDE DEF R
  <2>3. \A o \in R : Holds(FileIn(Now), o)
    BY <2>1, FileInNow
  <2>4. /\ Kept(recordWrite(Now, Track, R)) /\ HonestStore(recordWrite(Now, Track, R))
        /\ Steady(Now, recordWrite(Now, Track, R))
    BY <1>1, <2>2, <2>3, LengthNat, KeepsWrite, WriteRow
  <2> QED
    BY <1>2, <2>1, <2>4, WarmedSteady
<1> QED
  BY <1>3, <1>4, <1>5, <1>6, <1>7, <1>8

\* What is not in use is honest whatever the file.
LEMMA Unused ==
    ASSUME ~InUse
    PROVE  /\ \A t \in Tasks : task[t].pc = "idle"
           /\ warming.pc = "idle" /\ handle = None
  BY DEF InUse

LEMMA AppHonestStep ==
    ASSUME Safe, AllHonest, AppCall, Follow, UNCHANGED <<task, warming>>,
           ~(InUse /\ Displaced), ~UnpinsOntoCopy
    PROVE  AllHonest'
<1>1. HonestStore(Now)' /\ (~Displaced => SteadyFile)
  BY AppHonest DEF Safe, AllHonest
<1>2. CASE InUse
  <2>1. ~Displaced /\ SteadyFile
    BY <1>1, <1>2
  <2>2. TrackRoot' = TrackRoot
    BY <2>1 DEF Displaced, TrackRoot, fileURL
  <2>3. TrackFile' = TrackFile
    BY <2>1, <2>2 DEF SteadyFile, TrackFile, TrackRoot, fileURL, RootFor, Roots
  <2>4. handle' = handle
    <3>1. CASE handle = None
      BY <3>1, LoaderAssumption DEF Follow
    <3>2. CASE handle # None
      BY <2>1, <3>2 DEF AllHonest, HonestHandle, Follow, SteadyFile, TrackFile
    <3> QED
      BY <3>1, <3>2
  <2> QED
    BY <1>1, <2>2, <2>3, <2>4 DEF AllHonest
<1>3. CASE ~InUse
  <2>1. handle' = None
    BY <1>3, Unused, LoaderAssumption DEF Follow
  <2>2. \A t \in Tasks : HonestTask(task'[t], TrackRoot', TrackFile', handle')
    BY <1>3, Unused DEF AllHonest, HonestTask, InBody
  <2>3. HonestWarmup(warming', TrackRoot', TrackFile')
    BY <1>3, Unused DEF HonestWarmup
  <2>4. HonestHandle(handle', TrackRoot', TrackFile')
    BY <2>1 DEF HonestHandle
  <2> QED
    BY <1>1, <2>2, <2>3, <2>4 DEF AllHonest
<1> QED
  BY <1>2, <1>3

LEMMA IngestHonest ==
    ASSUME Safe, AllHonest, IngestTrack, ~InUse
    PROVE  AllHonest'
<1>1. Call(ingestCompleteFile(Now, Track)) /\ UNCHANGED <<task, warming>>
  BY DEF IngestTrack, Ingest
<1>2. HonestStore(Now)'
  BY <1>1, IngestRow, Arrives DEF Call, Safe
<1>3. handle' = None
  BY Unused, LoaderAssumption DEF IngestTrack, Roots
<1>4. \A t \in Tasks : HonestTask(task'[t], TrackRoot', TrackFile', handle')
  BY <1>1, Unused DEF AllHonest, HonestTask, InBody
<1>5. HonestWarmup(warming', TrackRoot', TrackFile')
  BY <1>1, Unused DEF HonestWarmup
<1>6. HonestHandle(handle', TrackRoot', TrackFile')
  BY <1>3 DEF HonestHandle
<1> QED
  BY <1>2, <1>4, <1>5, <1>6 DEF AllHonest

\* A crash at rest: the new process loads what the old one held.
LEMMA CrashHonest ==
    ASSUME Safe, AllHonest, Crash
    PROVE  AllHonest'
<1>1. loadMetas(Now) = metas
  BY DEF Safe, loadMetas, Kept, StoreState, Agrees, Now
<1>2. metas' = metas /\ blob' = blob
  BY <1>1 DEF Crash, Restart, Becomes, Now
<1>3. HonestStore(Now)'
  BY <1>2 DEF AllHonest, HonestStore, MetaOf, Now
<1>4. task' = [t \in Tasks |-> Idle] /\ warming' = NoWarmup /\ handle' = None
  BY DEF Crash, NewProcess
<1>5. \A t \in Tasks : HonestTask(task'[t], TrackRoot', TrackFile', handle')
  BY <1>4, IdleHonest
<1>6. HonestWarmup(warming', TrackRoot', TrackFile')
  BY <1>4 DEF NoWarmup, HonestWarmup
<1>7. HonestHandle(handle', TrackRoot', TrackFile')
  BY <1>4 DEF HonestHandle
<1> QED
  BY <1>3, <1>5, <1>6, <1>7 DEF AllHonest

\* The handle is closed when no request is between its seek and its write.
LEMMA ClosedHonest ==
    ASSUME AllHonest, handle' = None, UNCHANGED <<storeVars, task, warming>>,
           \A t \in Tasks : task[t].pc # "write"
    PROVE  AllHonest'
<1>1. metas' = metas /\ blob' = blob /\ task' = task /\ warming' = warming
  BY DEF storeVars
<1>2. TrackRoot' = TrackRoot /\ TrackFile' = TrackFile
  BY <1>1 DEF TrackRoot, TrackFile, fileURL
<1>3. HonestStore(Now)'
  BY <1>1 DEF AllHonest, HonestStore, MetaOf, Now
<1>4. \A t \in Tasks : HonestTask(task[t], TrackRoot, TrackFile, None)
  BY DEF AllHonest, HonestTask
<1>5. HonestHandle(None, TrackRoot, TrackFile)
  BY DEF HonestHandle
<1> QED
  BY <1>1, <1>2, <1>3, <1>4, <1>5 DEF AllHonest

LEMMA UnchangedHonest ==
    ASSUME AllHonest, UNCHANGED <<metas, blob, task, warming, handle>>
    PROVE  AllHonest'
<1>1. TrackRoot' = TrackRoot /\ TrackFile' = TrackFile
  BY DEF TrackRoot, TrackFile, fileURL
<1>2. HonestStore(Now)'
  BY DEF AllHonest, HonestStore, MetaOf, Now
<1> QED
  BY <1>1, <1>2 DEF AllHonest

-----------------------------------------------------------------------------
(* The history *)

LEMMA NotedHist ==
    ASSUME history \in Hist, NEW c \in BOOLEAN
    PROVE  /\ Noted(c) \in Hist
           /\ Noted(c).falseServed = history.falseServed
           /\ history.disturbed \/ c => Noted(c).disturbed
           /\ ~Noted(c).disturbed => ~(InUse /\ Displaced) /\ ~UnpinsOntoCopy
  BY DEF Noted, Hist

LEMMA CountedHist ==
    ASSUME NEW h \in Hist
    PROVE  /\ Counted(h) \in Hist /\ Requested(h) \in Hist
           /\ Counted(h).falseServed = h.falseServed /\ Counted(h).disturbed = h.disturbed
           /\ Requested(h).falseServed = h.falseServed /\ Requested(h).disturbed = h.disturbed
  BY DEF Counted, Requested, Hist

\* What a step may do to the history: a disturbance is remembered, and only a
\* read can serve something false.
Remembers == /\ history' \in Hist
             /\ history.disturbed => history'.disturbed
             /\ (\A t \in Tasks : ~Read(t)) => history'.falseServed = history.falseServed

LEMMA NotedRemembers ==
    ASSUME history \in Hist, NEW c \in BOOLEAN, history' = Noted(c) \/ history' = Counted(Noted(c))
    PROVE  Remembers
<1> DEFINE n == Noted(c)
<1>1. n \in Hist /\ n.falseServed = history.falseServed /\ (history.disturbed => n.disturbed)
  BY NotedHist
<1>2. history' = n \/ history' = Counted(n)
  OBVIOUS
<1> HIDE DEF n
<1> QED
  BY <1>1, <1>2, CountedHist DEF Remembers

LEMMA StepRemembers ==
    ASSUME history \in Hist, NEW t \in Tasks, Step(t)
    PROVE  Remembers
<1>1. ASSUME NEW v, NEW s, Await(t, v, s) PROVE Remembers
  BY <1>1, NotedRemembers DEF Await
<1>2. ASSUME NEW v, Local(t, v) PROVE Remembers
  BY <1>2 DEF Local, Remembers
<1>3. CASE Request(t)
  BY <1>3, CountedHist DEF Request, Remembers
<1>4. CASE Seek(t)
  BY <1>4 DEF Seek, Remembers
<1>5. CASE Write(t)
  <2>1. PICK c : history' = [history EXCEPT !.disturbed = @ \/ c]
    BY <1>5 DEF Write
  <2> QED
    BY <2>1 DEF Hist, Remembers
<1>6. CASE Read(t)
  <2>1. CASE history' = history
    BY <2>1 DEF Remembers
  <2>2. CASE ~(history' = history)
    <3>1. PICK c : history' = [history EXCEPT !.falseServed = @ \/ c]
      BY <1>2, <1>6, <2>2 DEF Read, Local
    <3>2. history' \in Hist /\ history'.disturbed = history.disturbed
      BY <3>1 DEF Hist
    <3> QED
      BY <1>6, <3>2 DEF Remembers
  <2> QED
    BY <2>1, <2>2
<1>7. CASE Probe(t)
  BY <1>1, <1>7 DEF Probe
<1>8. CASE Path(t)
  BY <1>2, <1>8 DEF Path
<1>9. CASE Create(t)
  BY <1>1, <1>9 DEF Create
<1>10. CASE Lookup(t)
  BY <1>1, <1>10 DEF Lookup
<1>11. CASE Ask(t)
  BY <1>1, <1>2, <1>11 DEF Ask
<1>12. CASE Record(t)
  BY <1>1, <1>12 DEF Record
<1>13. CASE RecordWhole(t)
  BY <1>1, <1>13 DEF RecordWhole
<1>14. CASE Fail(t)
  BY <1>2, <1>14 DEF Fail
<1> QED
  BY <1>3, <1>4, <1>5, <1>6, <1>7, <1>8, <1>9, <1>10, <1>11, <1>12, <1>13, <1>14 DEF Step

LEMMA NextRemembers ==
    ASSUME history \in Hist, [Next]_vars
    PROVE  Remembers
<1> USE DEF Next
<1>1. ASSUME history' = history PROVE Remembers
  BY <1>1 DEF Remembers
<1>2. ASSUME NEW t \in Tasks, Step(t) PROVE Remembers
  BY <1>2, StepRemembers
<1>3. CASE WarmStep
  <2>1. ASSUME NEW w, NEW s, Warmed(w, s) PROVE Remembers
    BY <2>1, NotedRemembers DEF Warmed
  <2>2. CASE WarmStart
    BY <2>2, CountedHist DEF WarmStart, Remembers
  <2>3. CASE WarmCreate \/ WarmAlready
    BY <2>1, <2>3 DEF WarmCreate, WarmAlready
  <2>4. CASE WarmAnswer
    BY <2>1, <2>4 DEF WarmAnswer
  <2>5. CASE WarmWrite \/ WarmRecord
    BY <2>1, <2>5 DEF WarmWrite, WarmRecord
  <2> QED
    BY <1>3, <2>2, <2>3, <2>4, <2>5 DEF WarmStep
<1>4. CASE App
  BY <1>4, NotedRemembers DEF App
<1>5. CASE IngestTrack
  BY <1>5, NotedRemembers DEF IngestTrack, InUse
<1>6. CASE PurgeBlob
  BY <1>6, NotedRemembers DEF PurgeBlob
<1>7. CASE Crash \/ CrashInCall
  BY <1>7, NotedRemembers DEF Crash, CrashInCall, NewProcess
<1>8. CASE shutdown
  <2>1. PICK c : history' = [history EXCEPT !.disturbed = @ \/ c]
    BY <1>8 DEF shutdown
  <2> QED
    BY <2>1 DEF Hist, Remembers
<1>9. CASE NewLoader
  BY <1>1, <1>9 DEF NewLoader
<1>10. CASE UNCHANGED vars
  BY <1>1, <1>10 DEF vars, loaderVars
<1> QED
  BY <1>2, <1>3, <1>4, <1>5, <1>6, <1>7, <1>8, <1>9, <1>10

\* A step that disturbs nothing keeps every promise.
LEMMA StepHonest ==
    ASSUME Safe, AllHonest, history \in Hist, [Next]_vars, ~history'.disturbed
    PROVE  AllHonest'
<1> USE DEF Next
<1>1. ASSUME NEW t \in Tasks, Step(t) PROVE AllHonest'
  <2>1. CASE Fail(t)
    BY <2>1, IdleHonest, SetHonest DEF Fail, Local
  <2> QED
    BY <1>1, <2>1, RequestHonest, ProbeHonest, PathHonest, CreateHonest, LookupHonest, ReadHonest,
       AskHonest, SeekHonest, WriteHonest, RecordHonest, RecordWholeHonest DEF Step
<1>2. CASE WarmStep
  BY <1>2, WarmHonest
<1>3. CASE App
  <2>1. ~(InUse /\ Displaced) /\ ~UnpinsOntoCopy
    BY <1>3, NotedHist, CountedHist DEF App
  <2> QED
    BY <1>3, <2>1, AppHonestStep DEF App
<1>4. CASE IngestTrack
  <2>1. ~InUse
    <3>1. InUse \in BOOLEAN
      BY DEF InUse
    <3>2. ~Noted(InUse).disturbed
      BY <1>4, <3>1, NotedHist, CountedHist DEF IngestTrack
    <3> QED
      BY <3>1, <3>2, NotedHist
  <2> QED
    BY <1>4, <2>1, IngestHonest
<1>5. CASE PurgeBlob
  BY <1>5, NotedHist, CountedHist DEF PurgeBlob
<1>6. CASE Crash
  BY <1>6, CrashHonest
<1>7. CASE CrashInCall
  BY <1>7, NotedHist, CountedHist DEF CrashInCall, NewProcess
<1>8. CASE shutdown
  <2>1. \A t \in Tasks : task[t].pc # "write"
    BY <1>8 DEF shutdown, Hist
  <2> QED
    BY <1>8, <2>1, ClosedHonest DEF shutdown
<1>9. CASE NewLoader
  BY <1>9, ClosedHonest DEF NewLoader
<1>10. CASE UNCHANGED vars
  BY <1>10, UnchangedHonest DEF vars, loaderVars, storeVars
<1> QED
  BY <1>1, <1>2, <1>3, <1>4, <1>5, <1>6, <1>7, <1>8, <1>9, <1>10

LEMMA InitUndisturbed == Init => Undisturbed
<1> SUFFICES ASSUME Init PROVE Undisturbed
  OBVIOUS
<1>1. Safe
  BY InitSafe
<1>2. history \in Hist /\ ~history.falseServed
  BY DEF Init, Hist
<1>3. HonestStore(Now)
  BY LengthNat DEF Init, StoreInit, HonestStore, Honest, MetaOf, newMeta, Now, FileSize, Roots
<1>4. /\ \A t \in Tasks : HonestTask(task[t], TrackRoot, TrackFile, handle)
      /\ HonestWarmup(warming, TrackRoot, TrackFile)
      /\ HonestHandle(handle, TrackRoot, TrackFile)
  BY IdleHonest DEF Init, NoWarmup, HonestWarmup, HonestHandle
<1> QED
  BY <1>1, <1>2, <1>3, <1>4 DEF Undisturbed, AllHonest

LEMMA StepUndisturbed ==
    ASSUME Undisturbed, [Next]_vars
    PROVE  Undisturbed'
<1>1. Safe' /\ Remembers
  BY StepSafe, NextRemembers DEF Undisturbed
<1>2. ~history'.disturbed => AllHonest'
  BY <1>1, StepHonest DEF Undisturbed, Remembers
<1>3. history'.falseServed => history'.disturbed
  <2>1. SUFFICES ASSUME ~history'.disturbed PROVE ~history'.falseServed
    OBVIOUS
  <2>2. ~history.disturbed /\ ~history.falseServed /\ AllHonest
    BY <1>1, <2>1 DEF Undisturbed, Remembers
  <2>3. CASE \A t \in Tasks : ~Read(t)
    BY <1>1, <2>2, <2>3 DEF Remembers
  <2>4. CASE ~\A t \in Tasks : ~Read(t)
    BY <2>2, <2>4, ReadHonest DEF Undisturbed
  <2> QED
    BY <2>3, <2>4
<1> QED
  BY <1>1, <1>2, <1>3 DEF Undisturbed, Remembers

\* While nothing has disturbed the store, metadata, requests, warm-up, handle
\* and file agree on the track.
THEOREM LoaderUndisturbed == Spec => []Undisturbed
<1>1. Undisturbed /\ [Next]_vars => Undisturbed'
  BY StepUndisturbed
<1> QED
  BY <1>1, InitUndisturbed, PTL DEF Spec

\* Nothing but the origin's bytes reaches the player from the cache, until the
\* file is unlinked, moved or lost under a request, a handle or the metadata,
\* or two writes of one handle collide.
THEOREM LoaderServesReal == Spec => []ServedReal
<1>1. Undisturbed => ServedReal
  BY DEF Undisturbed, ServedReal
<1> QED
  BY <1>1, LoaderUndisturbed, PTL

\* Until then the metadata claims nothing beyond the end of the file.
THEOREM LoaderOverclaims == Spec => []OverclaimHasCause
<1>1. ASSUME Undisturbed PROVE OverclaimHasCause
  <2>1. SUFFICES ASSUME AllHonest, NEW o \in MetaOf(Now, Track).ranges, Safe
                 PROVE  ~(o >= FileSize(blob[fileURL(Track)][Track]))
    BY <1>1 DEF Undisturbed, OverclaimHasCause, Overclaims
  <2>2. TrackFile = FileIn(Now) /\ FileSize(TrackFile) \in Nat
    BY <2>1, FileInNow, SizeNat
  <2>3. Holds(TrackFile, o)
    BY <2>1, <2>2 DEF AllHonest, HonestStore, Honest, FileIn
  <2>4. o \in Nat
    BY <2>1, RootOf DEF Safe, Records, Meta
  <2> QED
    BY <2>2, <2>3, <2>4 DEF Holds, TrackFile, TrackRoot
<1> QED
  BY <1>1, LoaderUndisturbed, PTL
=============================================================================
