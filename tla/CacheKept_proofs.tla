-------------------------- MODULE CacheKept_proofs ---------------------------
(***************************************************************************)
(* What the cache keeps.  While no request has written into a file another *)
(* call replaced, a complete pinned track stays served from disk, and the  *)
(* evictable cache stays within its budget: the records on disk and in     *)
(* memory count what the files hold, the order of use covers every entry,  *)
(* so eviction takes as many as it must.  A sum over entries is the number *)
(* of cells of a finite set, one cell for each byte that counts.           *)
(***************************************************************************)
EXTENDS ServedReal_proofs

\* The entry is pinned, and its whole file is in the durable root.
Pinned(s, k) == s.metas[k] # None /\ s.metas[k].durable

OfflineIn(s, k) == /\ Pinned(s, k) /\ s.metas[k].complete
                   /\ HasAll(s.blob["durable"][k], s.metas[k].total)

\* Another key than the track has a whole file or none.
WholeBlobs(s) == \A k \in Others, r \in Roots : s.blob[r][k] \in {None, WholeFile(k)}

\* From s to t the pinned entry of k and its file stay where they are.
Sure(s, t, k) ==
    /\ WholeBlobs(s) => WholeBlobs(t)
    /\ Pinned(s, k) => Pinned(t, k) /\ t.blob["durable"][k] = s.blob["durable"][k]

\* Or they move to the other root, or are replaced by another whole file.
Lasts(s, t, k) ==
    /\ WholeBlobs(s) => WholeBlobs(t)
    /\ OfflineIn(s, k) => \E r \in Roots : HasAll(t.blob[r][k], s.metas[k].total)

LEMMA SureSame == \A s, k : Sure(s, s, k)
  BY DEF Sure

LEMMA SureChain ==
    ASSUME NEW s, NEW t, NEW u, NEW k, Sure(s, t, k), Sure(t, u, k)
    PROVE  Sure(s, u, k)
  BY DEF Sure

LEMMA SureLasts ==
    ASSUME NEW s, NEW t, NEW k, Sure(s, t, k)
    PROVE  Lasts(s, t, k)
  BY DEF Sure, Lasts, OfflineIn, Roots

-----------------------------------------------------------------------------
(* The writes *)

LEMMA SureAccess ==
    ASSUME NEW s, Kept(s), NEW j \in Keys, NEW k \in Keys
    PROVE  Sure(s, Accessed(s, j), k)
<1>1. Accessed(s, j).metas = s.metas /\ Accessed(s, j).blob = s.blob
  BY Accesses DEF Kept
<1> QED
  BY <1>1 DEF Sure, Pinned, WholeBlobs

LEMMA SurePersist ==
    ASSUME NEW s, StoreState(s), NEW j \in Keys, NEW k \in Keys, NEW m \in Records,
           j = k /\ Pinned(s, k) => m.durable
    PROVE  Sure(s, persistMeta(s, j, m), k)
<1> DEFINE t == persistMeta(s, j, m)
<1>1. /\ t.metas = [s.metas EXCEPT ![j] = m] /\ t.blob = s.blob
      /\ t.metaFile = [s.metaFile EXCEPT ![RootFor(m)] = [@ EXCEPT ![j] = m]]
  BY Persists
<1>2. m # None /\ s.metas \in [Keys -> Known]
  BY StoreAssumption DEF Records, StoreState
<1> HIDE DEF t
<1>3. Sure(s, t, k)
  BY <1>1, <1>2 DEF Sure, Pinned, WholeBlobs
<1> QED
  BY <1>3 DEF t

LEMMA SurePut ==
    ASSUME NEW s, StoreState(s), NEW j \in Keys, NEW k \in Keys, NEW r \in Roots, NEW f \in Files,
           j = Track \/ (WholeBlobs(s) => f \in {None, WholeFile(j)}), j # k \/ r # "durable"
    PROVE  Sure(s, [s EXCEPT !.blob[r][j] = f], k)
<1> DEFINE t == [s EXCEPT !.blob[r][j] = f]
<1>1. t.metas = s.metas /\ t.blob = [s.blob EXCEPT ![r] = [@ EXCEPT ![j] = f]]
  BY Puts
<1>2. s.blob \in [Roots -> [Keys -> Files]]
  BY DEF StoreState
<1> HIDE DEF t
<1>3. \A q \in Roots, i \in Keys : t.blob[q][i] = IF q = r /\ i = j THEN f ELSE s.blob[q][i]
  BY <1>1, <1>2
<1>4. WholeBlobs(s) => WholeBlobs(t)
  BY <1>3 DEF WholeBlobs, Others
<1>5. t.blob["durable"][k] = s.blob["durable"][k]
  BY <1>3 DEF Roots
<1>6. Sure(s, t, k)
  BY <1>1, <1>4, <1>5 DEF Sure, Pinned
<1> QED
  BY <1>6 DEF t

LEMMA SureRemove ==
    ASSUME NEW s, StoreState(s), NEW k \in Keys, NEW K, Pinned(s, k) => k \notin K
    PROVE  Sure(s, removeKeys(s, K), k)
<1> DEFINE t == removeKeys(s, K)
<1>1. /\ \A i \in Keys : t.metas[i] = IF i \in K THEN None ELSE s.metas[i]
      /\ \A r \in Roots, i \in Keys : t.blob[r][i] = IF i \in K THEN None ELSE s.blob[r][i]
  BY Removes
<1> HIDE DEF t
<1>2. WholeBlobs(s) => WholeBlobs(t)
  BY <1>1 DEF WholeBlobs, Others
<1>3. Pinned(s, k) => Pinned(t, k) /\ t.blob["durable"][k] = s.blob["durable"][k]
  BY <1>1 DEF Pinned, Roots
<1> QED
  BY <1>2, <1>3 DEF Sure, t

\* An eviction takes no pinned entry.
LEMMA SureEvict ==
    ASSUME NEW s, Kept(s), NEW k \in Keys, NEW K, NEW n
    PROVE  Sure(s, evictTo(s, K, n), k)
<1>1. \/ evictTo(s, K, n) = s
      \/ \E G : G \subseteq Entries(s, FALSE) \ K /\ evictTo(s, K, n) = removeKeys(s, G)
  BY DEF evictTo, Evicted, Oldest, Evictable
<1>2. \A G : G \subseteq Entries(s, FALSE) \ K => Sure(s, removeKeys(s, G), k)
  BY SureRemove DEF Entries, Pinned, Kept
<1> QED
  BY <1>1, <1>2, SureSame

\* A record changed in place.
LEMMA SureUpdate ==
    ASSUME NEW s, Kept(s), NEW j \in Keys, NEW k \in Keys, NEW m \in Records,
           Pinned(s, j) => m.durable
    PROVE  Sure(s, persistMeta(s, j, m), k) /\ Sure(s, persistMeta(Accessed(s, j), j, m), k)
<1>1. Sure(s, Accessed(s, j), k) /\ Kept(Accessed(s, j)) /\ Accessed(s, j).metas = s.metas
  BY SureAccess, KeepsAccess, Accesses DEF Kept
<1>2. StoreState(s) /\ StoreState(Accessed(s, j))
  BY <1>1 DEF Kept
<1>3. Sure(s, persistMeta(s, j, m), k)
  BY <1>2, SurePersist
<1> DEFINE u == Accessed(s, j)
<1> HIDE DEF u
<1>4. Sure(u, persistMeta(u, j, m), k)
  BY <1>1, <1>2, SurePersist DEF u, Pinned
<1> QED
  BY <1>1, <1>3, <1>4, SureChain DEF u

-----------------------------------------------------------------------------
(* The calls *)

LEMMA SureLength ==
    ASSUME NEW s, Kept(s), NEW j \in Keys, NEW k \in Keys, NEW n \in Nat
    PROVE  Sure(s, setContentLength(s, j, n), k)
<1> DEFINE m == [MetaOf(s, j) EXCEPT !.total = n]
<1>1. m \in Records /\ m.durable = MetaOf(s, j).durable
  BY RecordOf, OneField DEF Records, Meta
<1>2. Pinned(s, j) => m.durable
  BY <1>1, RecordOf DEF Pinned
<1> HIDE DEF m
<1>3. Sure(s, persistMeta(s, j, m), k) /\ Sure(s, persistMeta(Accessed(s, j), j, m), k)
  BY <1>1, <1>2, SureUpdate
<1> QED
  BY <1>3 DEF setContentLength, m

LEMMA SureWrite ==
    ASSUME NEW s, Kept(s), NEW j \in Keys, NEW k \in Keys, NEW R \in SUBSET Nat, IsFiniteSet(R)
    PROVE  Sure(s, recordWrite(s, j, R), k)
<1> DEFINE m == MetaOf(s, j)
           all == m.ranges \union R
           w == [m EXCEPT !.ranges = all, !.cached = Cardinality(all),
                          !.complete = @ \/ covers(all, m.total)]
           t == persistMeta(Accessed(s, j), j, w)
<1>1. w \in Records /\ w.durable = m.durable
  <2>1. m \in Records
    BY RecordOf
  <2>2. all \in SUBSET Nat /\ IsFiniteSet(all) /\ Cardinality(all) \in Nat
    BY <2>1, FS_Union, FS_CardinalityType DEF Records, Meta
  <2>3. (m.complete \/ covers(all, m.total)) \in BOOLEAN
    BY <2>1 DEF Records, Meta
  <2> HIDE DEF m, all
  <2> QED
    BY <2>1, <2>2, <2>3 DEF Records, Meta
<1>2. recordWrite(s, j, R) = evictTo(t, {j}, limitBytes)
  BY DEF recordWrite, evictToFit
<1>3. Pinned(s, j) => w.durable
  BY <1>1, RecordOf DEF Pinned
<1>4. w.durable \/ Accessed(s, j).metaFile["durable"][j] = None
  <2>1. Accessed(s, j).metaFile = s.metaFile
    BY Accesses DEF Kept
  <2> QED
    BY <1>1, <2>1, RecordOf
<1> HIDE DEF w
<1>5. Sure(s, t, k) /\ Kept(t)
  BY <1>1, <1>3, <1>4, SureUpdate, KeepsAccess, KeepsPersist
<1> HIDE DEF t
<1> QED
  BY <1>2, <1>5, SureEvict, SureChain

LEMMA SureTouch ==
    ASSUME NEW s, Kept(s), NEW j \in Keys, NEW k \in Keys
    PROVE  Sure(s, touch(s, j), k)
<1>1. CASE s.metas[j] = None
  BY <1>1, SureSame DEF touch
<1>2. CASE s.metas[j] # None
  BY <1>2, RecordOf, SureUpdate DEF touch, Pinned
<1> QED
  BY <1>1, <1>2

LEMMA SureDerived ==
    ASSUME NEW s, Kept(s), NEW j \in Keys, NEW k \in Keys
    PROVE  Sure(s, recordDerivedBytes(s, j), k)
<1>1. CASE s.metas[j] = None
  BY <1>1, SureSame DEF recordDerivedBytes
<1>2. CASE s.metas[j] # None
  <2> DEFINE m == [s.metas[j] EXCEPT !.derived = 1]
             t == persistMeta(Accessed(s, j), j, m)
  <2>1. m \in Records /\ m.durable = s.metas[j].durable
    BY <1>2, RecordOf, OneField DEF Records, Meta
  <2>2. recordDerivedBytes(s, j) = evictTo(t, {j}, limitBytes)
    BY <1>2 DEF recordDerivedBytes, evictToFit
  <2> HIDE DEF m
  <2>3. Sure(s, t, k) /\ Kept(t)
    BY <1>2, <2>1, SureUpdate, KeepsUpdate DEF Pinned
  <2> HIDE DEF t
  <2> QED
    BY <2>2, <2>3, SureEvict, SureChain
<1> QED
  BY <1>1, <1>2

\* A whole file put for j, and its record persisted where it was: an adoption
\* and a registration, without the eviction that follows.
LEMMA SurePutUpdate ==
    ASSUME NEW s, Kept(s), NEW j \in Keys, NEW k \in Keys, NEW r \in Roots, j # k \/ r # "durable",
           NEW f \in {None, WholeFile(j)}, NEW m \in Records, Pinned(s, j) => m.durable
    PROVE  Sure(s, persistMeta(Accessed([s EXCEPT !.blob[r][j] = f], j), j, m), k)
<1> DEFINE u == [s EXCEPT !.blob[r][j] = f]
<1>1. f \in Files
  BY Whole DEF Files
<1>2. Kept(u) /\ Sure(s, u, k)
  BY <1>1, KeepsPut, SurePut DEF Kept
<1>3. u.metas = s.metas /\ u.blob = [s.blob EXCEPT ![r] = [@ EXCEPT ![j] = f]]
  BY <1>1, Puts DEF Kept
<1> HIDE DEF u
<1>4. Sure(u, persistMeta(Accessed(u, j), j, m), k)
  BY <1>2, <1>3, SureUpdate DEF Pinned
<1> QED
  BY <1>2, <1>4, SureChain DEF u

LEMMA KeepsPutUpdate ==
    ASSUME NEW s, Kept(s), NEW j \in Keys, NEW r \in Roots, NEW f \in {None, WholeFile(j)},
           NEW m \in Records, m.durable = MetaOf(s, j).durable
    PROVE  Kept(persistMeta(Accessed([s EXCEPT !.blob[r][j] = f], j), j, m))
<1> DEFINE u == [s EXCEPT !.blob[r][j] = f]
<1>1. f \in Files
  BY Whole DEF Files
<1>2. Kept(u)
  BY <1>1, KeepsPut
<1>3. u.metas = s.metas /\ u.metaFile = s.metaFile /\ u.blob = [s.blob EXCEPT ![r] = [@ EXCEPT ![j] = f]]
  BY <1>1, Puts DEF Kept
<1> HIDE DEF u
<1>4. Kept(Accessed(u, j)) /\ Accessed(u, j).metaFile = u.metaFile
  BY <1>2, KeepsAccess, Accesses DEF Kept
<1>5. m.durable \/ Accessed(u, j).metaFile["durable"][j] = None
  BY <1>3, <1>4, RecordOf
<1> QED
  BY <1>4, <1>5, KeepsPersist DEF u

\* What such a call makes of every record and file.
LEMMA PutUpdated ==
    ASSUME NEW s, Kept(s), NEW j \in Keys, NEW r \in Roots, NEW f \in {None, WholeFile(j)},
           NEW m \in Records
    PROVE  LET t == persistMeta(Accessed([s EXCEPT !.blob[r][j] = f], j), j, m)
           IN  /\ \A i \in Keys : t.metas[i] = IF i = j THEN m ELSE s.metas[i]
               /\ \A q \in Roots, i \in Keys :
                     t.blob[q][i] = IF q = r /\ i = j THEN f ELSE s.blob[q][i]
               /\ WholeBlobs(s) => WholeBlobs(t)
<1> DEFINE u == [s EXCEPT !.blob[r][j] = f]
           v == Accessed(u, j)
           t == persistMeta(v, j, m)
<1>1. f \in Files
  BY Whole DEF Files
<1>2. /\ StoreState(u)
      /\ u.metas = s.metas /\ u.metaFile = s.metaFile /\ u.blob = [s.blob EXCEPT ![r] = [@ EXCEPT ![j] = f]]
  BY <1>1, Puts DEF Kept
<1> HIDE DEF u
<1>3. StoreState(v) /\ v.metas = u.metas /\ v.metaFile = u.metaFile /\ v.blob = u.blob
  BY <1>2, Accesses
<1> HIDE DEF v
<1>4. /\ t.metas = [v.metas EXCEPT ![j] = m] /\ t.blob = v.blob
      /\ t.metaFile = [v.metaFile EXCEPT ![RootFor(m)] = [@ EXCEPT ![j] = m]]
  BY <1>3, Persists
<1>5. s.metas \in [Keys -> Known] /\ s.blob \in [Roots -> [Keys -> Files]]
  BY DEF Kept, StoreState
<1> HIDE DEF t
<1>6. \A q \in Roots, i \in Keys : t.blob[q][i] = IF q = r /\ i = j THEN f ELSE s.blob[q][i]
  BY <1>2, <1>3, <1>4, <1>5
<1>7. \A i \in Keys : t.metas[i] = IF i = j THEN m ELSE s.metas[i]
  BY <1>2, <1>3, <1>4, <1>5
<1>8. WholeBlobs(s) => WholeBlobs(t)
  BY <1>6 DEF WholeBlobs, Others
<1> QED
  BY <1>6, <1>7, <1>8 DEF t, u, v

LEMMA SureRegister ==
    ASSUME NEW s, Kept(s), NEW j \in Keys, NEW k \in Keys
    PROVE  Sure(s, registerComplete(s, j), k)
<1> DEFINE m == [MetaOf(s, j) EXCEPT !.complete = TRUE, !.cached = SizeOf(j), !.total = SizeOf(j)]
           t == persistMeta(Accessed([s EXCEPT !.blob["evictable"][j] = WholeFile(j)], j), j, m)
<1>1. m \in Records /\ m.durable = MetaOf(s, j).durable
  BY RecordOf, StoreAssumption, RegisteredRecord
<1>2. Pinned(s, j) => m.durable
  BY <1>1, RecordOf DEF Pinned
<1>3. registerComplete(s, j) = evictTo(t, {}, limitBytes)
  BY DEF registerComplete, evictToFit
<1> HIDE DEF m
<1>4. Sure(s, t, k) /\ Kept(t)
  BY <1>1, <1>2, SurePutUpdate, KeepsPutUpdate DEF Roots
<1> HIDE DEF t
<1> QED
  BY <1>3, <1>4, SureEvict, SureChain

\* What a move makes of every file.
LEMMA Moves ==
    ASSUME NEW s, Kept(s), NEW j \in Keys, NEW from \in Roots, NEW to \in Roots, from # to
    PROVE  LET u == moveFile(s, j, from, to)
           IN  /\ u.metas = s.metas
               /\ \A q \in Roots, i \in Keys : u.blob[q][i] =
                     IF i # j THEN s.blob[q][i]
                     ELSE IF q = from THEN None
                     ELSE IF s.blob[to][j] # None THEN s.blob[to][j] ELSE s.blob[from][j]
<1> DEFINE u == moveFile(s, j, from, to)
           a == [s EXCEPT !.blob[from][j] = None]
           b == [s EXCEPT !.blob[to][j] = s.blob[from][j]]
           c == [b EXCEPT !.blob[from][j] = None]
           Got(t) == \A q \in Roots, i \in Keys : t.blob[q][i] =
                        IF i # j THEN s.blob[q][i]
                        ELSE IF q = from THEN None
                        ELSE IF s.blob[to][j] # None THEN s.blob[to][j] ELSE s.blob[from][j]
<1>0. \A q \in Roots : q \in {from, to}
  BY DEF Roots
<1>1. StoreState(s) /\ s.blob \in [Roots -> [Keys -> Files]] /\ None \in Files
  BY DEF Kept, StoreState, Files
<1>2. u.metas = s.metas
  BY KeepsMove
<1>3. CASE s.blob[from][j] = None
  <2>1. u = s
    BY <1>3 DEF moveFile
  <2> HIDE DEF u
  <2> QED
    BY <1>0, <1>2, <1>3, <2>1 DEF u
<1>4. CASE s.blob[from][j] # None /\ s.blob[to][j] # None
  <2>1. u = a
    BY <1>4 DEF moveFile
  <2>2. a.metas = s.metas /\ a.metaFile = s.metaFile
        /\ a.blob = [s.blob EXCEPT ![from] = [@ EXCEPT ![j] = None]]
    BY <1>1, Puts
  <2> HIDE DEF u, a
  <2>3. Got(u)
    BY <1>0, <1>1, <1>4, <2>1, <2>2
  <2> QED
    BY <1>2, <2>3 DEF u
<1>5. CASE s.blob[from][j] # None /\ s.blob[to][j] = None
  <2>1. u = c
    BY <1>5 DEF moveFile
  <2>2. s.blob[from][j] \in Files
    BY <1>1
  <2>3. StoreState(b) /\ b.metas = s.metas /\ b.metaFile = s.metaFile
        /\ b.blob = [s.blob EXCEPT ![to] = [@ EXCEPT ![j] = s.blob[from][j]]]
    BY <1>1, <2>2, Puts
  <2> HIDE DEF b, u
  <2>4. c.metas = b.metas /\ c.metaFile = b.metaFile
        /\ c.blob = [b.blob EXCEPT ![from] = [@ EXCEPT ![j] = None]]
    BY <1>1, <2>3, Puts
  <2> HIDE DEF c
  <2>5. Got(u)
    BY <1>0, <1>1, <1>5, <2>1, <2>3, <2>4
  <2> QED
    BY <1>2, <2>5 DEF u
<1> QED
  BY <1>3, <1>4, <1>5

\* A pin or an unpin is a move and a new record.
LEMMA Pins ==
    ASSUME NEW s, Kept(s), NEW j \in Keys, NEW d \in BOOLEAN,
           s.metas[j] # None, s.metas[j].durable # d
    PROVE  LET t == setDurable(s, j, d)
               from == RootFor(s.metas[j])
           IN  /\ t.metas[j] # None /\ t.metas[j].durable = d
               /\ \A i \in Keys : i # j => t.metas[i] = s.metas[i]
               /\ t.blob = moveFile(s, j, from, OtherRoot(from)).blob
               /\ setDurableCuts(s, j)[2].blob = t.blob
<1> DEFINE t == setDurable(s, j, d)
           from == RootFor(s.metas[j])
           u == moveFile(s, j, from, OtherRoot(from))
           v == [u EXCEPT !.metaFile[from][j] = None]
           w == [s.metas[j] EXCEPT !.durable = d]
<1>1. w \in Records /\ w # None /\ w.durable = d
  BY RecordOf, OneField, StoreAssumption DEF Records, Meta
<1>2. from \in Roots /\ OtherRoot(from) \in Roots
  BY DEF RootFor, OtherRoot, Roots
<1>3. StoreState(u) /\ u.metas = s.metas
  BY <1>2, KeepsMove DEF Kept
<1>4. t = persistMeta(v, j, w) /\ setDurableCuts(s, j)[2] = v
  BY DEF setDurable, setDurableCuts
<1> HIDE DEF u, w
<1>5. StoreState(v) /\ v.metas = u.metas /\ v.blob = u.blob
  BY <1>2, <1>3, Unfiles
<1> HIDE DEF v, t
<1>6. /\ t.metas = [v.metas EXCEPT ![j] = w] /\ t.blob = v.blob
      /\ t.metaFile = [v.metaFile EXCEPT ![RootFor(w)] = [@ EXCEPT ![j] = w]]
  BY <1>1, <1>4, <1>5, Persists
<1>7. s.metas \in [Keys -> Known]
  BY DEF Kept, StoreState
<1> QED
  BY <1>1, <1>3, <1>4, <1>5, <1>6, <1>7 DEF t, u

LEMMA SureDurable ==
    ASSUME NEW s, Kept(s), NEW j \in Keys, NEW k \in Keys, j # k, NEW d \in BOOLEAN
    PROVE  Sure(s, setDurable(s, j, d), k)
<1>1. CASE s.metas[j] = None \/ s.metas[j].durable = d
  BY <1>1, SureSame DEF setDurable
<1>2. CASE s.metas[j] # None /\ s.metas[j].durable # d
  <2> DEFINE t == setDurable(s, j, d)
             from == RootFor(s.metas[j])
             u == moveFile(s, j, from, OtherRoot(from))
  <2>1. /\ \A i \in Keys : i # j => t.metas[i] = s.metas[i]
        /\ t.blob = u.blob
    BY <1>2, Pins
  <2>2. from \in Roots /\ OtherRoot(from) \in Roots /\ from # OtherRoot(from)
    BY DEF RootFor, OtherRoot, Roots
  <2>3. \A q \in Roots, i \in Keys : u.blob[q][i] =
           IF i # j THEN s.blob[q][i]
           ELSE IF q = from THEN None
           ELSE IF s.blob[OtherRoot(from)][j] # None THEN s.blob[OtherRoot(from)][j] ELSE s.blob[from][j]
    BY <2>2, Moves
  <2> HIDE DEF t, u, from
  <2>4. WholeBlobs(s) => WholeBlobs(t)
    BY <2>1, <2>2, <2>3 DEF WholeBlobs, Others
  <2>5. Pinned(s, k) => Pinned(t, k) /\ t.blob["durable"][k] = s.blob["durable"][k]
    BY <2>1, <2>3 DEF Pinned, Roots
  <2> QED
    BY <2>4, <2>5 DEF Sure, t
<1> QED
  BY <1>1, <1>2

\* An unpin that finds no older copy moves the file along.
LEMMA LastsDurable ==
    ASSUME NEW s, Kept(s), NEW k \in Keys, NEW d \in BOOLEAN
    PROVE  LET t == setDurable(s, k, d)
           IN  /\ WholeBlobs(s) => WholeBlobs(t)
               /\ d \/ s.blob["evictable"][k] = None => Lasts(s, t, k)
<1>1. CASE s.metas[k] = None \/ s.metas[k].durable = d
  <2>1. setDurable(s, k, d) = s
    BY <1>1 DEF setDurable
  <2> QED
    BY <2>1, SureSame, SureLasts
<1>2. CASE s.metas[k] # None /\ s.metas[k].durable # d
  <2> DEFINE t == setDurable(s, k, d)
             from == RootFor(s.metas[k])
             u == moveFile(s, k, from, OtherRoot(from))
  <2>1. t.blob = u.blob
    BY <1>2, Pins
  <2>2. from \in Roots /\ OtherRoot(from) \in Roots /\ from # OtherRoot(from)
    BY DEF RootFor, OtherRoot, Roots
  <2>3. \A q \in Roots, i \in Keys : u.blob[q][i] =
           IF i # k THEN s.blob[q][i]
           ELSE IF q = from THEN None
           ELSE IF s.blob[OtherRoot(from)][k] # None THEN s.blob[OtherRoot(from)][k] ELSE s.blob[from][k]
    BY <2>2, Moves
  <2>4. s.metas[k].durable => from = "durable" /\ OtherRoot(from) = "evictable"
    BY <1>2 DEF RootFor, OtherRoot
  <2> HIDE DEF t, u, from
  <2>5. WholeBlobs(s) => WholeBlobs(t)
    BY <2>1, <2>2, <2>3 DEF WholeBlobs, Others
  <2>6. ASSUME d \/ s.blob["evictable"][k] = None, OfflineIn(s, k)
        PROVE  HasAll(t.blob["evictable"][k], s.metas[k].total)
    <3>1. s.metas[k].durable /\ HasAll(s.blob["durable"][k], s.metas[k].total)
      BY <2>6 DEF OfflineIn, Pinned
    <3>2. s.metas[k].durable \in BOOLEAN
      BY <1>2, RecordOf DEF Records, Meta
    <3>3. t.blob["evictable"][k] = s.blob["durable"][k]
      BY <1>2, <2>1, <2>3, <2>4, <2>6, <3>1, <3>2 DEF Roots
    <3> QED
      BY <3>1, <3>3
  <2> QED
    BY <2>5, <2>6 DEF Lasts, Roots, t
<1> QED
  BY <1>1, <1>2

LEMMA WholeHasAll ==
    ASSUME NEW k \in Keys, NEW n \in Nat, n <= SizeOf(k)
    PROVE  HasAll(WholeFile(k), n)
<1>1. SizeOf(k) \in Nat
  BY StoreAssumption
<1> QED
  BY <1>1, Whole DEF HasAll

\* The length of an offline entry is at most that of its file.
LEMMA OfflineFits ==
    ASSUME NEW s, Kept(s), NEW k \in Others, WholeBlobs(s), OfflineIn(s, k)
    PROVE  s.metas[k].total \in Nat /\ s.metas[k].total <= SizeOf(k)
<1>1. k \in Keys /\ SizeOf(k) \in Nat /\ SizeOf(k) > 0
  BY StoreAssumption DEF Others
<1>2. s.metas[k].total \in Nat
  BY <1>1, RecordOf DEF Records, Meta, OfflineIn, Pinned
<1>3. FileSize(s.blob["durable"][k]) >= s.metas[k].total
  BY DEF OfflineIn, HasAll
<1>4. FileSize(s.blob["durable"][k]) \in {0, SizeOf(k)}
  <2>1. s.blob["durable"][k] \in {None, WholeFile(k)}
    BY DEF WholeBlobs, Roots
  <2> QED
    BY <1>1, <2>1, Whole DEF FileSize
<1> QED
  BY <1>1, <1>2, <1>3, <1>4

LEMMA LastsAdopt ==
    ASSUME NEW s, Kept(s), WholeBlobs(s), NEW j \in Others, NEW k \in Keys, NEW d \in BOOLEAN
    PROVE  Lasts(s, adoptCompleteFile(s, j, d), k)
<1> DEFINE r == RootFor(s.metas[j])
           m == Complete(MetaOf(s, j), SizeOf(j))
           a == persistMeta(Accessed([s EXCEPT !.blob[r][j] = WholeFile(j)], j), j, m)
           b == IF d THEN setDurable(a, j, TRUE) ELSE a
           t == adoptCompleteFile(s, j, d)
<1>1. j \in Keys /\ r \in Roots /\ SizeOf(j) \in Nat
  BY StoreAssumption DEF Others, RootFor, Roots
<1>2. m \in Records /\ m.durable = MetaOf(s, j).durable
  BY <1>1, RecordOf, CompleteRecord
<1>3. t = evictTo(b, {j}, limitBytes)
  BY DEF adoptCompleteFile, evictToFit
<1>4. Pinned(s, j) => m.durable /\ r = "durable"
  BY <1>1, <1>2, RecordOf DEF Pinned, RootFor
<1>5. ~Pinned(s, j) => r = "evictable"
  BY DEF Pinned, RootFor
<1> HIDE DEF m, r
<1>6. Kept(a)
  BY <1>1, <1>2, KeepsPutUpdate
<1>7. /\ \A i \in Keys : a.metas[i] = IF i = j THEN m ELSE s.metas[i]
      /\ \A q \in Roots, i \in Keys :
            a.blob[q][i] = IF q = r /\ i = j THEN WholeFile(j) ELSE s.blob[q][i]
      /\ WholeBlobs(s) => WholeBlobs(a)
  BY <1>1, <1>2, PutUpdated
<1>8. j # k \/ r # "durable" => Sure(s, a, k)
  BY <1>1, <1>2, <1>4, SurePutUpdate
<1> HIDE DEF a
<1>9. Kept(b) /\ WholeBlobs(b) /\ (j # k => Sure(a, b, k))
  BY <1>1, <1>6, <1>7, KeepsDurable, LastsDurable, SureDurable, SureSame
<1>10. Pinned(s, j) => b = a
  <2>1. m # None
    BY <1>2, StoreAssumption DEF Records
  <2>2. m.durable \in BOOLEAN
    BY <1>2 DEF Records, Meta
  <2> QED
    BY <1>1, <1>4, <1>7, <2>1, <2>2 DEF setDurable
<1> HIDE DEF b, t
<1>11. Sure(b, t, k)
  BY <1>3, <1>9, SureEvict
<1>12. CASE j # k
  <2>1. Sure(s, a, k) /\ Sure(a, b, k)
    BY <1>8, <1>9, <1>12
  <2> QED
    BY <1>11, <2>1, SureChain, SureLasts DEF t
<1>13. CASE j = k /\ ~Pinned(s, k)
  <2>1. WholeBlobs(t)
    BY <1>9, <1>11 DEF Sure
  <2> QED
    BY <1>13, <2>1 DEF Lasts, OfflineIn, t
<1>14. CASE j = k /\ Pinned(s, k)
  <2>1. WholeBlobs(t)
    BY <1>9, <1>11 DEF Sure
  <2>2. Pinned(a, k) /\ a.blob["durable"][k] = WholeFile(k)
    <3>1. m # None
      BY <1>2, StoreAssumption DEF Records
    <3> QED
      BY <1>4, <1>7, <1>14, <3>1 DEF Pinned, Roots
  <2>3. t.blob["durable"][k] = WholeFile(k)
    BY <1>10, <1>11, <1>14, <2>2 DEF Sure
  <2>4. OfflineIn(s, k) => HasAll(t.blob["durable"][k], s.metas[k].total)
    BY <1>14, <2>3, OfflineFits, WholeHasAll
  <2> QED
    BY <2>1, <2>4 DEF Lasts, Roots, t
<1> QED
  BY <1>12, <1>13, <1>14

LEMMA LastsIngest ==
    ASSUME NEW s, Kept(s), NEW j \in Keys, NEW k \in Keys,
           j = k /\ OfflineIn(s, k) => s.metas[k].total <= SizeOf(k)
    PROVE  Lasts(s, ingestCompleteFile(s, j), k)
<1> DEFINE m == [Complete(MetaOf(s, j), SizeOf(j)) EXCEPT !.durable = TRUE]
           t == persistMeta(Accessed([s EXCEPT !.blob["durable"][j] = WholeFile(j)], j), j, m)
<1>1. "durable" \in Roots /\ SizeOf(j) \in Nat
  BY StoreAssumption DEF Roots
<1>2. m \in Records /\ m.durable
  <2>1. Complete(MetaOf(s, j), SizeOf(j)) \in Records
    BY <1>1, RecordOf, CompleteRecord
  <2> QED
    BY <2>1, OneField DEF Records, Meta
<1>3. ingestCompleteFile(s, j) = t
  BY DEF ingestCompleteFile
<1> HIDE DEF m
<1>4. /\ \A i \in Keys : t.metas[i] = IF i = j THEN m ELSE s.metas[i]
      /\ \A q \in Roots, i \in Keys :
            t.blob[q][i] = IF q = "durable" /\ i = j THEN WholeFile(j) ELSE s.blob[q][i]
      /\ WholeBlobs(s) => WholeBlobs(t)
  BY <1>1, <1>2, PutUpdated
<1> HIDE DEF t
<1>5. OfflineIn(s, k) => HasAll(t.blob["durable"][k], s.metas[k].total)
  <2>1. SUFFICES ASSUME OfflineIn(s, k), j = k PROVE HasAll(t.blob["durable"][k], s.metas[k].total)
    BY <1>1, <1>4 DEF OfflineIn
  <2>2. s.metas[k].total \in Nat
    BY <2>1, RecordOf DEF Records, Meta, OfflineIn, Pinned
  <2> QED
    BY <1>1, <1>4, <2>1, <2>2, WholeHasAll
<1> QED
  BY <1>3, <1>4, <1>5 DEF Lasts, Roots

\* A file found short is discarded with what the record claims of it.
LEMMA SureDiscard ==
    ASSUME NEW s, Kept(s), NEW j \in Keys, NEW k \in Keys, s.metas[j] # None
    PROVE  LET t == discardCachedBytes(s, j)
           IN  /\ WholeBlobs(s) => WholeBlobs(t)
               /\ j # k => Sure(s, t, k)
               /\ \A q \in Roots : t.blob[q][j] \in Files
<1> DEFINE r == RootFor(s.metas[j])
           m == [s.metas[j] EXCEPT !.cached = 0, !.complete = FALSE, !.ranges = {}]
           t == persistMeta(Accessed([s EXCEPT !.blob[r][j] = None], j), j, m)
<1>1. r \in Roots /\ s.metas[j] \in Records /\ None \in Files
  BY RecordOf DEF RootFor, Roots, Files
<1>2. m \in Records /\ m.durable = s.metas[j].durable
  BY <1>1, DiscardedRecord
<1>3. discardCachedBytes(s, j) = t
  BY DEF discardCachedBytes
<1> HIDE DEF r, m
<1>4. /\ \A i \in Keys : t.metas[i] = IF i = j THEN m ELSE s.metas[i]
      /\ \A q \in Roots, i \in Keys : t.blob[q][i] = IF q = r /\ i = j THEN None ELSE s.blob[q][i]
      /\ WholeBlobs(s) => WholeBlobs(t)
  BY <1>1, <1>2, PutUpdated
<1>5. j # k => Sure(s, t, k)
  BY <1>1, <1>2, SurePutUpdate DEF Pinned
<1>6. s.blob \in [Roots -> [Keys -> Files]]
  BY DEF Kept, StoreState
<1> HIDE DEF t
<1>7. \A q \in Roots : t.blob[q][j] \in Files
  BY <1>1, <1>4, <1>6
<1> QED
  BY <1>3, <1>4, <1>5, <1>7

\* The repair of a complete entry discards only an empty file.
LEMMA LastsComplete ==
    ASSUME NEW s, Kept(s), NEW j \in Keys, NEW k \in Keys, s.metas[j] # None
    PROVE  Lasts(s, completeFileURL(s, j), k)
<1> DEFINE size == FileSize(s.blob[RootFor(s.metas[j])][j])
           c == Complete(s.metas[j], size)
           u == persistMeta(s, j, c)
<1>1. size \in Nat /\ s.metas[j] \in Records
  BY RecordOf, SizeNat DEF Kept, StoreState, RootFor, Roots
<1>2. CASE size = 0
  <2> DEFINE t == discardCachedBytes(s, j)
  <2>1. completeFileURL(s, j) = t
    BY <1>2 DEF completeFileURL
  <2>2. /\ WholeBlobs(s) => WholeBlobs(t)
        /\ j # k => Sure(s, t, k)
        /\ \A q \in Roots : t.blob[q][j] \in Files
    BY SureDiscard
  <2> HIDE DEF t
  <2>3. ASSUME j = k, OfflineIn(s, k) PROVE HasAll(t.blob["durable"][k], s.metas[k].total)
    <3>1. s.metas[k].total \in Nat
      BY <1>1, <2>3 DEF Records, Meta
    <3>2. s.metas[k].total = 0
      BY <1>2, <2>3, <3>1 DEF OfflineIn, Pinned, RootFor, HasAll
    <3>3. FileSize(t.blob["durable"][k]) \in Nat
      BY <2>2, <2>3, SizeNat DEF Roots
    <3> QED
      BY <3>2, <3>3 DEF HasAll
  <2>4. j # k => Lasts(s, t, k)
    BY <2>2, SureLasts
  <2>5. Lasts(s, t, k)
    BY <2>2, <2>3, <2>4 DEF Lasts, Roots
  <2> QED
    BY <2>1, <2>5
<1>3. Sure(s, touch(s, j), k)
  BY SureTouch
<1>4. Sure(s, touch(u, j), k)
  <2>1. c \in Records /\ c.durable = s.metas[j].durable
    BY <1>1, CompleteRecord
  <2> HIDE DEF c
  <2>2. Kept(u) /\ Sure(s, u, k)
    BY <2>1, KeepsUpdate, SureUpdate DEF Pinned
  <2> HIDE DEF u
  <2>3. Sure(u, touch(u, j), k)
    BY <2>2, SureTouch
  <2> QED
    BY <2>2, <2>3, SureChain
<1>5. CASE size > 0
  <2>1. completeFileURL(s, j) = touch(u, j) \/ completeFileURL(s, j) = touch(s, j)
    BY <1>5 DEF completeFileURL
  <2> QED
    BY <1>3, <1>4, <2>1, SureLasts
<1> QED
  BY <1>1, <1>2, <1>5

\* A lookup by the loader.
LEMMA LastsLookup ==
    ASSUME NEW s, Kept(s), NEW k \in Keys, NEW o \in Nat
    PROVE  LET t == cachedContiguousBytes(s, Track, o).s
           IN  /\ WholeBlobs(s) => WholeBlobs(t)
               /\ k # Track \/ HonestStore(s) => Lasts(s, t, k)
<1> DEFINE n == contiguousBytes(MetaOf(s, Track).ranges, o)
           hit == cachedContiguousBytes(s, Track, o)
           t == hit.s
<1>1. Track \in Keys
  BY LengthNat
<1>2. MetaOf(s, Track).ranges \in SUBSET Nat /\ IsFiniteSet(MetaOf(s, Track).ranges)
  BY <1>1, RecordOf DEF Records, Meta
<1>3. n \in Nat /\ o..(o + n - 1) \subseteq MetaOf(s, Track).ranges
  BY <1>2, Contiguous
<1>4. t = s \/ t = touch(s, Track) \/ (s.metas[Track] # None /\ t = discardCachedBytes(s, Track))
  <2>1. CASE n = 0
    BY <2>1 DEF cachedContiguousBytes
  <2>2. CASE n > 0
    <3>1. o \in MetaOf(s, Track).ranges
      BY <1>3, <2>2
    <3>2. s.metas[Track] # None
      BY <3>1 DEF MetaOf, newMeta
    <3> QED
      BY <2>2, <3>2 DEF cachedContiguousBytes
  <2> QED
    BY <1>3, <2>1, <2>2
<1>5. HonestStore(s) => SameRow(s, t)
  BY LookupRow
<1> HIDE DEF hit
<1>6. (WholeBlobs(s) => WholeBlobs(t)) /\ (k # Track => Sure(s, t, k))
  <2>1. CASE t = s
    BY <2>1, SureSame
  <2>2. CASE t = touch(s, Track)
    <3>1. Sure(s, touch(s, Track), k)
      BY <1>1, SureTouch
    <3> QED
      BY <2>2, <3>1 DEF Sure
  <2>3. CASE s.metas[Track] # None /\ t = discardCachedBytes(s, Track)
    BY <1>1, <2>3, SureDiscard
  <2> QED
    BY <1>4, <2>1, <2>2, <2>3
<1>7. k = Track /\ HonestStore(s) => Lasts(s, t, k)
  BY <1>5, <1>6 DEF SameRow, Lasts, OfflineIn, Roots
<1>8. k # Track => Lasts(s, t, k)
  BY <1>6, SureLasts
<1> QED
  BY <1>6, <1>7, <1>8 DEF hit

-----------------------------------------------------------------------------
(* The steps *)

Stays(k) == Offline(k) => \E r \in Roots : HasAll(blob'[r][k], metas[k].total)

LEMMA OfflineNow == \A k : Offline(k) <=> OfflineIn(Now, k)
  BY DEF Offline, OfflineIn, Pinned, Tier, Now

LEMMA LastsArrives ==
    ASSUME NEW s, Becomes(s), NEW k, Lasts(Now, s, k), WholeBlobs(Now)
    PROVE  WholeBlobs(Now)' /\ Stays(k)
<1>1. WholeBlobs(s) /\ (OfflineIn(Now, k) => \E r \in Roots : HasAll(s.blob[r][k], metas[k].total))
  BY DEF Lasts, Now
<1>2. blob' = s.blob
  BY DEF Becomes
<1> QED
  BY <1>1, <1>2, OfflineNow DEF WholeBlobs, Now, Stays

LEMMA SureArrives ==
    ASSUME NEW s, Becomes(s), NEW k, Sure(Now, s, k), WholeBlobs(Now)
    PROVE  WholeBlobs(Now)' /\ Stays(k)
  BY SureLasts, LastsArrives

LEMMA SameArrives ==
    ASSUME WholeBlobs(Now), blob' = blob, NEW k
    PROVE  WholeBlobs(Now)' /\ Stays(k)
  BY DEF WholeBlobs, Now, Stays, Offline, Roots

\* A file of the track that grows.
LEMMA GrowsArrives ==
    ASSUME Safe, WholeBlobs(Now), NEW k \in Keys, NEW r \in Roots, NEW f \in Files,
           NEW c \in BOOLEAN, k = Track /\ c => Grows(blob[r][Track], f),
           blob' = [blob EXCEPT ![r] = [@ EXCEPT ![Track] = f]]
    PROVE  WholeBlobs(Now)' /\ (k # Track \/ c => Stays(k))
<1>1. blob \in [Roots -> [Keys -> Files]] /\ Track \in Keys
  BY LengthNat DEF Safe, Kept, StoreState, Now
<1>2. \A q \in Roots, i \in Keys : blob'[q][i] = IF q = r /\ i = Track THEN f ELSE blob[q][i]
  BY <1>1
<1>3. WholeBlobs(Now)'
  BY <1>2 DEF WholeBlobs, Others, Now
<1>4. k # Track => Stays(k)
  BY <1>2 DEF Stays, Offline, Roots
<1>5. k = Track /\ c => Stays(k)
  <2>1. SUFFICES ASSUME k = Track, c, Offline(k), r = "durable"
                 PROVE  HasAll(blob'["durable"][k], metas[k].total)
    BY <1>2 DEF Stays, Offline, Roots
  <2> DEFINE g == blob["durable"][Track]
             n == metas[Track].total
  <2>2. n \in Nat
    <3>1. Now.metas[Track] # None /\ Now.metas = metas
      BY <2>1 DEF Offline, Tier, Now
    <3> QED
      BY <1>1, <3>1, RecordOf DEF Safe, Records, Meta
  <2>3. Grows(g, f) /\ HasAll(g, n) /\ g \in Files
    BY <1>1, <2>1 DEF Offline, Roots
  <2>4. FileSize(g) \in Nat /\ FileSize(f) \in Nat /\ FileSize(g) >= n
    BY <2>3, SizeNat DEF HasAll
  <2>5. \A o \in Nat : o < n => Holds(f, o)
    BY <2>2, <2>3, <2>4 DEF HasAll, Holds, Grows
  <2>6. FileSize(f) >= n
    <3>1. CASE n = 0
      BY <2>4, <3>1
    <3>2. CASE n > 0
      <4>1. n - 1 \in Nat /\ n - 1 < n
        BY <2>2, <3>2
      <4> QED
        BY <2>2, <2>4, <2>5, <4>1 DEF Holds
    <3> QED
      BY <2>2, <3>1, <3>2
  <2>7. \A i \in 1..n : f[i]
    <3> SUFFICES ASSUME NEW i \in 1..n PROVE f[i]
      OBVIOUS
    <3>1. i - 1 \in Nat /\ i - 1 < n /\ (i - 1) + 1 = i
      BY <2>2
    <3> QED
      BY <2>5, <3>1 DEF Holds
  <2>8. blob'["durable"][k] = f
    BY <1>1, <1>2, <2>1 DEF Roots
  <2> QED
    BY <2>1, <2>6, <2>7, <2>8 DEF HasAll
<1> QED
  BY <1>3, <1>4, <1>5

\* The file of the track is created where it is missing.
LEMMA CreatedArrives ==
    ASSUME Safe, WholeBlobs(Now), NEW k \in Keys, NEW r \in Roots, Becomes(Created(r))
    PROVE  WholeBlobs(Now)' /\ Stays(k)
<1>1. CASE blob[r][Track] # None
  <2>1. blob' = blob
    BY <1>1 DEF Created, Becomes, Now
  <2> QED
    BY <2>1, SameArrives
<1>2. CASE blob[r][Track] = None
  <2>1. <<>> \in Files /\ Grows(blob[r][Track], <<>>)
    BY <1>2 DEF Files, Grows, Holds, FileSize
  <2>2. [Now EXCEPT !.blob[r][Track] = <<>>].blob = [blob EXCEPT ![r] = [@ EXCEPT ![Track] = <<>>]]
    BY Puts, <2>1, LengthNat DEF Safe, Kept, Now
  <2>3. blob' = [blob EXCEPT ![r] = [@ EXCEPT ![Track] = <<>>]]
    BY <1>2, <2>2 DEF Created, Becomes
  <2> QED
    BY <2>1, <2>3, GrowsArrives
<1> QED
  BY <1>1, <1>2

\* What a step leaves of the whole files, and of those of the pinned entries.
Leaves == /\ WholeBlobs(Now)'
          /\ \A k \in Keys : ~history.disturbed => Stays(k)

LEMMA LookupArrives ==
    ASSUME Undisturbed, WholeBlobs(Now), NEW o \in Nat, Becomes(cachedContiguousBytes(Now, Track, o).s)
    PROVE  Leaves
<1> DEFINE s == cachedContiguousBytes(Now, Track, o).s
<1>1. Kept(Now) /\ (~history.disturbed => HonestStore(Now))
  BY DEF Undisturbed, Safe, AllHonest
<1>2. \A k \in Keys : (k # Track \/ HonestStore(Now)) => Lasts(Now, s, k)
  BY <1>1, LastsLookup
<1>3. WholeBlobs(s)
  BY <1>1, LastsLookup, LengthNat
<1> HIDE DEF s
<1>4. WholeBlobs(Now)'
  BY <1>3 DEF Becomes, WholeBlobs, Now, s
<1>5. \A k \in Keys : ~history.disturbed => Stays(k)
  BY <1>1, <1>2, LastsArrives DEF s
<1> QED
  BY <1>4, <1>5 DEF Leaves

LEMMA WriteLeaves ==
    ASSUME Undisturbed, WholeBlobs(Now), NEW t \in Tasks, Write(t)
    PROVE  WholeBlobs(Now)' /\ (offset = task[t].cursor => Leaves)
<1>1. Safe /\ offset \in Nat /\ task[t].cursor \in Nat
  BY DEF Undisturbed, Safe, Tasked, TaskState
<1>2. CASE handle \notin Roots
  <2>1. blob' = blob
    BY <1>2 DEF Write
  <2> QED
    BY <2>1, SameArrives DEF Leaves
<1>3. CASE handle \in Roots
  <2> DEFINE g == (offset = task[t].cursor)
             f == Written(blob[handle][Track], offset, offset + 1, g)
  <2>0. blob[handle][Track] \in Files
    BY <1>1, <1>3, FileOf DEF Safe
  <2>1. f \in Files
    <3>1. g \in BOOLEAN /\ offset + 1 \in Nat
      BY <1>1
    <3> HIDE DEF g
    <3> QED
      BY <1>1, <2>0, <3>1, WrittenFile
  <2>2. g => Grows(blob[handle][Track], f)
    <3>1. offset + 1 \in Nat
      BY <1>1
    <3>2. Grows(blob[handle][Track], Written(blob[handle][Track], offset, offset + 1, TRUE))
      BY <1>1, <2>0, <3>1, WrittenGrows
    <3> QED
      BY <3>2
  <2>3. blob' = [blob EXCEPT ![handle] = [@ EXCEPT ![Track] = f]]
    BY <1>3 DEF Write
  <2> DEFINE c == g
  <2>4. c \in BOOLEAN
    OBVIOUS
  <2> HIDE DEF f, c
  <2>5. \A k \in Keys : WholeBlobs(Now)' /\ (k # Track \/ c => Stays(k))
    BY <1>1, <1>3, <2>1, <2>2, <2>3, <2>4, GrowsArrives DEF c
  <2> QED
    BY <2>5, LengthNat DEF Leaves, c
<1> QED
  BY <1>2, <1>3

LEMMA StepLeaves ==
    ASSUME Undisturbed, WholeBlobs(Now), NEW t \in Tasks, Step(t), ~Write(t)
    PROVE  Leaves
<1>0. Safe /\ Kept(Now) /\ Track \in Keys
  BY LengthNat DEF Undisturbed, Safe
<1>1. ASSUME UNCHANGED storeVars PROVE Leaves
  BY <1>1, SameArrives DEF storeVars, Leaves
<1>2. ASSUME Becomes(Now) PROVE Leaves
  <2>1. blob' = blob
    BY <1>2 DEF Becomes, Now
  <2> QED
    BY <2>1, SameArrives DEF Leaves
<1>3. ASSUME NEW n \in Nat, Becomes(setContentLength(Now, Track, n)) PROVE Leaves
  BY <1>0, <1>3, SureLength, SureArrives DEF Leaves
<1>4. ASSUME NEW R \in SUBSET Nat, IsFiniteSet(R), Becomes(recordWrite(Now, Track, R)) PROVE Leaves
  BY <1>0, <1>4, SureWrite, SureArrives DEF Leaves
<1>5. task[t].cursor \in Nat /\ task[t].n \in Nat /\ task[t].total \in Nat /\ task[t].root \in Roots
  BY <1>0 DEF Safe, Tasked, TaskState
<1>6. CASE Request(t) \/ Path(t) \/ Fail(t) \/ Read(t) \/ Seek(t)
  BY <1>1, <1>6 DEF Request, Path, Fail, Read, Seek, Local
<1>7. CASE Probe(t)
  BY <1>2, <1>3, <1>7, LengthNat DEF Probe, Await, Call
<1>8. CASE Create(t)
  BY <1>0, <1>5, <1>8, CreatedArrives DEF Create, Await, Call, Leaves
<1>9. CASE Lookup(t)
  BY <1>2, <1>5, <1>9, LookupArrives DEF Lookup, Await, Call
<1>10. CASE Ask(t)
  <2>1. CacheTotal \in Nat /\ Length \in Nat
    BY <1>0, TotalNat, LengthNat
  <2> QED
    BY <1>1, <1>2, <1>3, <1>5, <1>10, <2>1 DEF Ask, Await, Call, Local
<1>11. CASE Record(t)
  <2> DEFINE top == IF task[t].pc = "body" THEN task[t].cursor - 1 ELSE task[t].n - 1
  <2>1. top \in Nat
    <3>1. Placed(task[t]) /\ task[t].from \in Nat /\ task[t].bodyEnd \in Nat
      BY <1>0 DEF Safe, Tasked, TaskState
    <3>2. (task[t].pc = "body" /\ task[t].cursor = task[t].bodyEnd) \/ task[t].pc = "record"
      BY <1>11 DEF Record
    <3> QED
      BY <1>5, <3>1, <3>2 DEF Placed
  <2>2. Becomes(recordWrite(Now, Track, {top}))
    BY <1>11 DEF Record, Await, Call
  <2> HIDE DEF top
  <2>3. {top} \in SUBSET Nat /\ IsFiniteSet({top})
    BY <2>1, FS_Singleton
  <2> QED
    BY <1>4, <2>2, <2>3
<1>12. CASE RecordWhole(t)
  <2>1. 0..(task[t].cursor - 1) \in SUBSET Nat /\ IsFiniteSet(0..(task[t].cursor - 1))
    <3>1. task[t].cursor - 1 \in Int /\ \A x \in 0..(task[t].cursor - 1) : x \in Nat
      BY <1>5
    <3> QED
      BY <3>1, FS_Interval
  <2> QED
    BY <1>3, <1>4, <1>5, <1>12, <2>1 DEF RecordWhole, Await, Call
<1> QED
  BY <1>6, <1>7, <1>8, <1>9, <1>10, <1>11, <1>12 DEF Step

LEMMA WarmLeaves ==
    ASSUME Undisturbed, WholeBlobs(Now), WarmStep
    PROVE  Leaves
<1>0. Safe /\ Kept(Now) /\ Track \in Keys
  BY LengthNat DEF Undisturbed, Safe
<1>1. ASSUME Becomes(Now) PROVE Leaves
  <2>1. blob' = blob
    BY <1>1 DEF Becomes, Now
  <2> QED
    BY <2>1, SameArrives DEF Leaves
<1>2. warming.root \in Roots /\ warming.from \in Nat /\ warming.to \in Nat
  BY <1>0 DEF Safe, WarmState
<1>3. CASE WarmStart
  BY <1>3, SameArrives DEF WarmStart, storeVars, Leaves
<1>4. CASE WarmCreate
  BY <1>0, <1>2, <1>4, CreatedArrives DEF WarmCreate, Warmed, Call, Leaves
<1>5. CASE WarmAlready
  BY <1>1, <1>5 DEF WarmAlready, Warmed, Call
<1>6. CASE WarmAnswer
  <2>1. CacheTotal \in Nat /\ Length \in Nat
    BY <1>0, TotalNat, LengthNat
  <2>2. ASSUME NEW n \in Nat, Becomes(setContentLength(Now, Track, n)) PROVE Leaves
    BY <1>0, <2>2, SureLength, SureArrives DEF Leaves
  <2> QED
    BY <1>1, <1>6, <2>1, <2>2 DEF WarmAnswer, Warmed, Call
<1>7. CASE WarmWrite
  <2> DEFINE file == blob[warming.root][Track]
             f == Written(file, warming.from, warming.to, TRUE)
  <2>1. file \in Files
    BY <1>0, <1>2, FileOf
  <2>2. f \in Files /\ Grows(file, f)
    BY <1>2, <2>1, WrittenGrows
  <2>3. CASE file = None
    BY <1>1, <1>7, <2>3 DEF WarmWrite, Warmed, Call
  <2>4. CASE file # None
    <3>1. Becomes([Now EXCEPT !.blob[warming.root][Track] = f])
      <4>1. Becomes([Now EXCEPT !.blob[warming.root][Track] =
                                   Written(@, warming.from, warming.to, TRUE)])
        BY <1>7, <2>4 DEF WarmWrite, Warmed, Call
      <4> QED
        BY <4>1 DEF Now
    <3> HIDE DEF f
    <3>2. StoreState(Now) /\ Now.blob = blob
      BY <1>0 DEF Kept, Now
    <3> DEFINE u == [Now EXCEPT !.blob[warming.root][Track] = f]
    <3>3. u.blob = [Now.blob EXCEPT ![warming.root] = [@ EXCEPT ![Track] = f]]
      BY <1>0, <1>2, <2>2, <3>2, Puts
    <3>4. blob' = [blob EXCEPT ![warming.root] = [@ EXCEPT ![Track] = f]]
      BY <3>1, <3>2, <3>3 DEF Becomes
    <3>5. TRUE \in BOOLEAN
      OBVIOUS
    <3> QED
      BY <1>0, <1>2, <2>2, <3>4, <3>5, GrowsArrives DEF Leaves
  <2> QED
    BY <2>3, <2>4
<1>8. CASE WarmRecord
  <2> DEFINE R == warming.from..(warming.to - 1)
  <2>1. R \in SUBSET Nat /\ IsFiniteSet(R)
    <3>1. warming.to - 1 \in Int /\ warming.from \in Int /\ \A x \in R : x \in Nat
      BY <1>2
    <3> QED
      BY <3>1, FS_Interval
  <2>2. Becomes(recordWrite(Now, Track, R))
    BY <1>8 DEF WarmRecord, Warmed, Call
  <2> HIDE DEF R
  <2> QED
    BY <1>0, <2>1, <2>2, SureWrite, SureArrives DEF Leaves
<1> QED
  BY <1>3, <1>4, <1>5, <1>6, <1>7, <1>8 DEF WarmStep

\* The entry of k stays on disk, or the call takes it away in its own name.
Excused(k) ==
    \/ \E r \in Roots : HasAll(blob'[r][k], metas[k].total)
    \/ Drop({k}) \/ clearDurable \/ clearAll \/ CrashInRemove(k) \/ CrashInIngest(k)
    \/ blob["evictable"][k] # None /\ (Unpin(k) \/ CrashInPin(k))
    \/ \E t \in Tasks : Write(t) /\ offset # task[t].cursor

Excuses == /\ WholeBlobs(Now)'
           /\ \A k \in Keys : ~history.disturbed /\ Offline(k) => Excused(k)

LEMMA LeavesExcuses == Leaves => Excuses
  BY DEF Leaves, Excuses, Excused, Stays

LEMMA DropExcuses ==
    ASSUME Safe, WholeBlobs(Now), NEW K, Drop(K),
           \A k \in K : k \in Keys /\ Offline(k) => Excused(k)
    PROVE  Excuses
<1>1. Kept(Now) /\ StoreState(Now)
  BY DEF Safe, Kept
<1>2. Becomes(removeKeys(Now, K))
  BY DEF Drop, Call
<1> DEFINE u == removeKeys(Now, K)
<1>3. \A r \in Roots, k \in Keys : u.blob[r][k] = IF k \in K THEN None ELSE Now.blob[r][k]
  BY <1>1, Removes
<1> HIDE DEF u
<1>4. \A r \in Roots, k \in Keys : blob'[r][k] = IF k \in K THEN None ELSE blob[r][k]
  BY <1>2, <1>3 DEF Becomes, Now, u
<1>5. WholeBlobs(Now)'
  BY <1>4 DEF WholeBlobs, Others, Now
<1>6. \A k \in Keys : k \notin K /\ Offline(k) => Excused(k)
  BY <1>4 DEF Offline, Excused, Roots
<1> QED
  BY <1>5, <1>6 DEF Excuses

LEMMA AppExcuses ==
    ASSUME Undisturbed, WholeBlobs(Now), AppCall
    PROVE  Excuses
<1>0. Safe /\ Kept(Now)
  BY DEF Undisturbed, Safe
<1>1. ASSUME NEW s, Becomes(s), \A k \in Keys : Lasts(Now, s, k) PROVE Excuses
  <2>1. \A k \in Keys : WholeBlobs(Now)' /\ Stays(k)
    BY <1>1, LastsArrives
  <2> QED
    BY <2>1, LengthNat, LeavesExcuses DEF Leaves
<1>2. ASSUME NEW j \in Keys, Pin(j) PROVE Excuses
  <2> DEFINE s == setDurable(Now, j, TRUE)
  <2>1. \A k \in Keys : Lasts(Now, s, k)
    BY <1>0, LastsDurable, SureDurable, SureLasts
  <2>2. Becomes(s)
    BY <1>2 DEF Pin, Call
  <2> QED
    BY <1>1, <2>1, <2>2
<1>3. ASSUME NEW j \in Keys, Unpin(j) PROVE Excuses
  <2> DEFINE s == setDurable(Now, j, FALSE)
  <2>1. \A k \in Keys : j # k \/ Now.blob["evictable"][k] = None => Lasts(Now, s, k)
    BY <1>0, LastsDurable, SureDurable, SureLasts
  <2>2. WholeBlobs(s)
    BY <1>0, LastsDurable
  <2>3. Becomes(s)
    BY <1>3 DEF Unpin, Call
  <2> HIDE DEF s
  <2>4. WholeBlobs(Now)'
    BY <2>2, <2>3 DEF WholeBlobs, Becomes, Now
  <2>5. ASSUME NEW k \in Keys, Offline(k) PROVE Excused(k)
    <3>1. CASE j # k \/ blob["evictable"][k] = None
      <4>1. Stays(k)
        BY <2>1, <2>3, <3>1, LastsArrives DEF Now
      <4> QED
        BY <2>5, <4>1 DEF Stays, Excused
    <3>2. CASE j = k /\ blob["evictable"][k] # None
      BY <1>3, <3>2 DEF Excused
    <3> QED
      BY <3>1, <3>2
  <2> QED
    BY <2>4, <2>5 DEF Excuses
<1>4. ASSUME NEW j \in Keys, Touch(j) PROVE Excuses
  BY <1>0, <1>1, <1>4, SureTouch, SureLasts DEF Touch, Call
<1>5. ASSUME NEW j \in Keys, RecordDerived(j) PROVE Excuses
  BY <1>0, <1>1, <1>5, SureDerived, SureLasts DEF RecordDerived, Call
<1>6. ASSUME NEW j \in Keys, CompleteURL(j) PROVE Excuses
  <2>1. Now.metas[j] # None /\ Becomes(completeFileURL(Now, j))
    BY <1>6 DEF CompleteURL, Call, Now
  <2> QED
    BY <1>0, <1>1, <2>1, LastsComplete
<1>7. ASSUME NEW j \in Keys, Drop({j}) PROVE Excuses
  BY <1>0, <1>7, DropExcuses DEF Excused
<1>8. ASSUME NEW j \in Others, Adopt(j) PROVE Excuses
  BY <1>0, <1>1, <1>8, LastsAdopt DEF Adopt, Call
<1>9. ASSUME NEW j \in Others, Register(j) PROVE Excuses
  BY <1>0, <1>1, <1>9, SureRegister, SureLasts DEF Register, Call, Others
<1>10. ASSUME NEW j \in Others, Ingest(j) PROVE Excuses
  BY <1>0, <1>1, <1>10, LastsIngest, OfflineFits DEF Ingest, Call, Others
<1>11. CASE clearEvictable
  <2>1. \A k \in Entries(Now, FALSE) : ~Offline(k)
    BY DEF Entries, Offline, Tier, Now
  <2> QED
    BY <1>0, <1>11, <2>1, DropExcuses DEF clearEvictable
<1>12. CASE clearDurable
  <2>1. \A k \in Keys : Excused(k)
    BY <1>12 DEF Excused
  <2> QED
    BY <1>0, <1>12, <2>1, DropExcuses DEF clearDurable
<1>13. CASE clearAll
  <2>1. \A k \in Keys : Excused(k)
    BY <1>13 DEF Excused
  <2> QED
    BY <1>0, <1>13, <2>1, DropExcuses DEF clearAll
<1>14. CASE garbageCollectStalePartials
  <2>1. PICK K : K \subseteq Entries(Now, FALSE) /\ Drop(K)
    BY <1>14 DEF garbageCollectStalePartials
  <2>2. \A k \in K : ~Offline(k)
    BY <2>1 DEF Entries, Offline, Tier, Now
  <2> QED
    BY <1>0, <2>1, <2>2, DropExcuses
<1>15. CASE setLimit
  <2>1. PICK n \in Limits : Becomes(evictTo(Now, {}, n))
    BY <1>15 DEF setLimit
  <2> QED
    BY <1>0, <1>1, <2>1, SureEvict, SureLasts
<1>16. CASE setProtectedKeys
  BY <1>16, SameArrives, LeavesExcuses DEF setProtectedKeys, Leaves
<1> QED
  BY <1>2, <1>3, <1>4, <1>5, <1>6, <1>7, <1>8, <1>9, <1>10, <1>11, <1>12, <1>13, <1>14, <1>15, <1>16
     DEF AppCall

\* A new download of the track takes the place of the file that was pinned.
LEMMA IngestExcuses ==
    ASSUME Undisturbed, WholeBlobs(Now), Ingest(Track)
    PROVE  Excuses
<1>1. Kept(Now) /\ Track \in Keys /\ Length \in Nat
  BY LengthNat DEF Undisturbed, Safe
<1> DEFINE s == ingestCompleteFile(Now, Track)
<1>2. Becomes(s)
  BY DEF Ingest, Call
<1>3. ASSUME NEW k \in Keys, k # Track PROVE Lasts(Now, s, k)
  BY <1>1, <1>3, LastsIngest
<1>4. ASSUME ~history.disturbed PROVE Lasts(Now, s, Track)
  <2>1. OfflineIn(Now, Track) => Now.metas[Track].total <= SizeOf(Track)
    <3>1. HonestStore(Now)
      BY <1>4 DEF Undisturbed, AllHonest
    <3>2. SUFFICES ASSUME Now.metas[Track] # None PROVE Now.metas[Track].total <= SizeOf(Track)
      BY DEF OfflineIn, Pinned
    <3> QED
      BY <1>1, <3>1, <3>2 DEF HonestStore, Honest, MetaOf, Length
  <2> QED
    BY <1>1, <2>1, LastsIngest
<1>5. WholeBlobs(Now)'
  <2> DEFINE m == [Complete(MetaOf(Now, Track), SizeOf(Track)) EXCEPT !.durable = TRUE]
             t == persistMeta(Accessed([Now EXCEPT !.blob["durable"][Track] = WholeFile(Track)], Track), Track, m)
  <2>1. m \in Records /\ "durable" \in Roots
    <3>1. Complete(MetaOf(Now, Track), SizeOf(Track)) \in Records
      BY <1>1, RecordOf, CompleteRecord DEF Length
    <3> QED
      BY <3>1, OneField DEF Roots
  <2>2. s = t
    BY DEF ingestCompleteFile
  <2> HIDE DEF m
  <2>3. WholeBlobs(t)
    BY <1>1, <2>1, PutUpdated
  <2> HIDE DEF s, t
  <2> QED
    BY <1>2, <2>2, <2>3 DEF WholeBlobs, Becomes, Now
<1> HIDE DEF s
<1>6. \A k \in Keys : ~history.disturbed => Stays(k)
  BY <1>2, <1>3, <1>4, LastsArrives
<1> QED
  BY <1>5, <1>6, LeavesExcuses DEF Leaves

\* A new process finds the files a crash has left.
LEMMA RestartExcuses ==
    ASSUME NEW s, Restart(s), WholeBlobs(s), 
           \A k \in Keys : ~history.disturbed /\ Offline(k) =>
               Excused(k) \/ \E r \in Roots : HasAll(s.blob[r][k], metas[k].total)
    PROVE  Excuses
<1>1. blob' = s.blob
  BY DEF Restart, Becomes
<1> QED
  BY <1>1 DEF WholeBlobs, Now, Excuses, Excused

LEMMA CrashPinExcuses ==
    ASSUME Undisturbed, WholeBlobs(Now), NEW j \in Keys, CrashInPin(j)
    PROVE  Excuses
<1>1. Kept(Now)
  BY DEF Undisturbed, Safe
<1>2. PICK i \in 1..2 : metas[j] # None /\ Restart(setDurableCuts(Now, j)[i])
  BY DEF CrashInPin
<1> DEFINE d == ~metas[j].durable
           s == setDurableCuts(Now, j)[i]
           t == setDurable(Now, j, d)
<1>3. Now.metas[j] # None /\ Now.metas[j].durable # d /\ d \in BOOLEAN /\ Now.metas = metas
  <2>1. Now.metas[j] # None /\ Now.metas = metas
    BY <1>2 DEF Now
  <2>2. metas[j].durable \in BOOLEAN
    BY <1>1, <2>1, RecordOf DEF Records, Meta
  <2> QED
    BY <2>1, <2>2
<1>4. s.blob = t.blob
  <2>1. t.blob = moveFile(Now, j, RootFor(Now.metas[j]), OtherRoot(RootFor(Now.metas[j]))).blob
        /\ setDurableCuts(Now, j)[2].blob = t.blob
    BY <1>1, <1>3, Pins
  <2>2. setDurableCuts(Now, j)[1] = moveFile(Now, j, RootFor(Now.metas[j]), OtherRoot(RootFor(Now.metas[j])))
    BY DEF setDurableCuts
  <2>3. i = 1 \/ i = 2
    BY <1>2
  <2> QED
    BY <2>1, <2>2, <2>3
<1> HIDE DEF s, d
<1>5. WholeBlobs(t)
  BY <1>1, <1>3, LastsDurable
<1>6. \A k \in Keys : j # k \/ d \/ Now.blob["evictable"][k] = None => Lasts(Now, t, k)
  BY <1>1, <1>3, LastsDurable, SureDurable, SureLasts
<1> HIDE DEF t
<1>7. WholeBlobs(s)
  BY <1>4, <1>5 DEF WholeBlobs
<1>8. ASSUME NEW k \in Keys, Offline(k)
      PROVE  Excused(k) \/ \E r \in Roots : HasAll(s.blob[r][k], metas[k].total)
  <2>1. CASE j # k \/ d \/ blob["evictable"][k] = None
    BY <1>3, <1>4, <1>6, <1>8, <2>1, OfflineNow DEF Lasts, Now
  <2>2. CASE j = k /\ blob["evictable"][k] # None
    BY <2>2 DEF Excused
  <2> QED
    BY <2>1, <2>2
<1> QED
  BY <1>2, <1>7, <1>8, RestartExcuses DEF s

\* The disks a removal and an ingest pass through differ at their own key only.
LEMMA CutFiles ==
    ASSUME NEW s, StoreState(s), WholeBlobs(s), NEW j \in Keys
    PROVE  /\ \A i \in 1..3 : LET t == removeCuts(s, j)[i]
                              IN  WholeBlobs(t) /\ \A k \in Keys : k # j =>
                                     t.blob["durable"][k] = s.blob["durable"][k]
           /\ \A i \in 1..2 : LET t == ingestCuts(s, j)[i]
                              IN  WholeBlobs(t) /\ \A k \in Keys : k # j =>
                                     t.blob["durable"][k] = s.blob["durable"][k]
<1> DEFINE Cut(t) == /\ WholeBlobs(t)
                     /\ \A k \in Keys : k # j => t.blob["durable"][k] = s.blob["durable"][k]
<1>1. ASSUME NEW u, StoreState(u), Cut(u), NEW r \in Roots, NEW f \in {None, WholeFile(j)}
      PROVE  /\ StoreState([u EXCEPT !.blob[r][j] = f]) /\ Cut([u EXCEPT !.blob[r][j] = f])
  <2> DEFINE v == [u EXCEPT !.blob[r][j] = f]
  <2>1. f \in Files
    BY Whole DEF Files
  <2>2. /\ StoreState(v)
        /\ v.metas = u.metas /\ v.metaFile = u.metaFile /\ v.blob = [u.blob EXCEPT ![r] = [@ EXCEPT ![j] = f]]
    BY <1>1, <2>1, Puts
  <2>3. u.blob \in [Roots -> [Keys -> Files]]
    BY <1>1 DEF StoreState
  <2> HIDE DEF v
  <2>4. \A q \in Roots, i \in Keys : v.blob[q][i] = IF q = r /\ i = j THEN f ELSE u.blob[q][i]
    BY <2>2, <2>3
  <2>5. Cut(v)
    BY <1>1, <2>4 DEF WholeBlobs, Others, Roots
  <2> QED
    BY <2>2, <2>5 DEF v
<1>2. Cut(s) /\ "evictable" \in Roots /\ "durable" \in Roots
  BY DEF Roots
<1> DEFINE a == [s EXCEPT !.blob["evictable"][j] = None]
           b == [a EXCEPT !.metaFile["evictable"][j] = None]
           c == [b EXCEPT !.blob["durable"][j] = None]
           x == [s EXCEPT !.blob["durable"][j] = None]
           y == [s EXCEPT !.blob["durable"][j] = WholeFile(j)]
<1>3. StoreState(a) /\ Cut(a)
  BY <1>1, <1>2
<1>4. Cut(x) /\ Cut(y)
  BY <1>1, <1>2
<1>5. removeCuts(s, j) = <<a, b, c>> /\ ingestCuts(s, j) = <<x, y>>
  BY DEF removeCuts, ingestCuts
<1> HIDE DEF a, x, y
<1>6. StoreState(b) /\ Cut(b)
  <2>1. StoreState(b) /\ b.metas = a.metas /\ b.blob = a.blob
    BY <1>2, <1>3, Unfiles
  <2> QED
    BY <1>3, <2>1 DEF WholeBlobs
<1> HIDE DEF b
<1>7. Cut(c)
  BY <1>1, <1>2, <1>6
<1> HIDE DEF c, Cut
<1>8. \A i \in 1..3 : Cut(removeCuts(s, j)[i])
  <2>1. \A i \in 1..3 : i = 1 \/ i = 2 \/ i = 3
    OBVIOUS
  <2>2. <<a, b, c>>[1] = a /\ <<a, b, c>>[2] = b /\ <<a, b, c>>[3] = c
    OBVIOUS
  <2> QED
    BY <1>3, <1>5, <1>6, <1>7, <2>1, <2>2
<1>9. \A i \in 1..2 : Cut(ingestCuts(s, j)[i])
  <2>1. \A i \in 1..2 : i = 1 \/ i = 2
    OBVIOUS
  <2> QED
    BY <1>4, <1>5, <2>1
<1> QED
  BY <1>8, <1>9 DEF Cut

LEMMA CrashCutExcuses ==
    ASSUME Undisturbed, WholeBlobs(Now), NEW j \in Keys, CrashInRemove(j) \/ CrashInIngest(j)
    PROVE  Excuses
<1>1. StoreState(Now)
  BY DEF Undisturbed, Safe, Kept
<1>2. ASSUME NEW s, Restart(s), WholeBlobs(s),
             \A k \in Keys : k # j => s.blob["durable"][k] = Now.blob["durable"][k]
      PROVE  Excuses
  <2>1. \A k \in Keys : Offline(k) =>
            Excused(k) \/ \E r \in Roots : HasAll(s.blob[r][k], metas[k].total)
    BY <1>2 DEF Excused, Offline, Now, Roots
  <2> QED
    BY <1>2, <2>1, RestartExcuses
<1>3. CASE CrashInRemove(j)
  <2>1. PICK i \in 1..3 : Restart(removeCuts(Now, j)[i])
    BY <1>3 DEF CrashInRemove
  <2> QED
    BY <1>1, <1>2, <2>1, CutFiles
<1>4. CASE CrashInIngest(j)
  <2>1. PICK i \in 1..2 : Restart(ingestCuts(Now, j)[i])
    BY <1>4 DEF CrashInIngest
  <2> QED
    BY <1>1, <1>2, <2>1, CutFiles
<1> QED
  BY <1>3, <1>4

LEMMA NextExcuses ==
    ASSUME Undisturbed, WholeBlobs(Now), [Next]_vars
    PROVE  Excuses
<1> USE DEF Next
<1>1. ASSUME blob' = blob PROVE Excuses
  BY <1>1, SameArrives, LeavesExcuses DEF Leaves
<1>2. ASSUME NEW t \in Tasks, Step(t) PROVE Excuses
  <2>1. CASE Write(t)
    <3>1. WholeBlobs(Now)' /\ (offset = task[t].cursor => Leaves)
      BY <2>1, WriteLeaves
    <3>2. offset # task[t].cursor => \A k \in Keys : Excused(k)
      BY <2>1 DEF Excused
    <3> QED
      BY <3>1, <3>2, LeavesExcuses DEF Excuses
  <2>2. CASE ~Write(t)
    BY <1>2, <2>2, StepLeaves, LeavesExcuses
  <2> QED
    BY <2>1, <2>2
<1>3. CASE WarmStep
  BY <1>3, WarmLeaves, LeavesExcuses
<1>4. CASE App
  BY <1>4, AppExcuses DEF App
<1>5. CASE IngestTrack
  BY <1>5, IngestExcuses DEF IngestTrack
<1>6. CASE PurgeBlob
  <2>1. PICK j \in Keys : Becomes([Now EXCEPT !.blob["evictable"][j] = None])
    BY <1>6 DEF PurgeBlob, Purge, Call
  <2>2. StoreState(Now) /\ "evictable" \in Roots /\ None \in Files
    BY DEF Undisturbed, Safe, Kept, Roots, Files
  <2>3. \A k \in Keys : Sure(Now, [Now EXCEPT !.blob["evictable"][j] = None], k)
    BY <2>2, SurePut
  <2> QED
    BY <2>1, <2>3, SureArrives, LengthNat, LeavesExcuses DEF Leaves
<1>7. CASE Crash
  <2>1. blob' = blob
    BY <1>7 DEF Crash, Restart, Becomes, Now
  <2> QED
    BY <1>1, <2>1
<1>8. CASE CrashInCall
  BY <1>8, CrashPinExcuses, CrashCutExcuses DEF CrashInCall
<1>9. CASE shutdown \/ NewLoader \/ UNCHANGED vars
  BY <1>1, <1>9 DEF shutdown, NewLoader, vars, storeVars
<1> QED
  BY <1>2, <1>3, <1>4, <1>5, <1>6, <1>7, <1>8, <1>9

LEMMA InitWhole == Init => WholeBlobs(Now)
  BY DEF Init, StoreInit, WholeBlobs, Now, Others, Roots

\* The whole file of a pinned entry stays on disk until a call takes it away in
\* its own name, for any number of keys, requests and bytes.
THEOREM PinnedKept == Spec => DurableKept
<1>1. ASSUME Undisturbed, WholeBlobs(Now), [Next]_vars
      PROVE  \A k \in Keys : ~history.disturbed /\ Offline(k) => Excused(k)
  BY <1>1, NextExcuses DEF Excuses
<1>2. Undisturbed /\ WholeBlobs(Now) /\ [Next]_vars => WholeBlobs(Now)'
  BY NextExcuses DEF Excuses
<1> QED
  BY <1>1, <1>2, InitWhole, LoaderUndisturbed, PTL DEF Spec, DurableKept, Excused

-----------------------------------------------------------------------------
(* The streaming total: a fold over the entries that may be evicted.  It is *)
(* the number of cells when an entry has one for each byte it counts for.   *)

\* What an entry counts for.
Weight(m) == IF m # None /\ m.durable = FALSE THEN m.cached + m.derived ELSE 0

Cells(s, T) == {c \in T \X Nat : c[2] < Weight(s.metas[c[1]])}

\* A family of subsets that has the empty set, and a set whenever it has the
\* set less any of its elements, has them all.
LEMMA Subsets ==
    ASSUME NEW S, IsFiniteSet(S), NEW Q \in SUBSET (SUBSET S), {} \in Q,
           \A T \in SUBSET S : (T # {} /\ \A x \in T : T \ {x} \in Q) => T \in Q
    PROVE  \A T \in SUBSET S : T \in Q
<1> DEFINE B == {n \in Nat : \E T \in SUBSET S : T \notin Q /\ Cardinality(T) = n}
<1>1. SUFFICES ASSUME B # {} PROVE FALSE
  <2>1. \A T \in SUBSET S : Cardinality(T) \in Nat
    BY FS_Subset, FS_CardinalityType
  <2> QED
    BY <2>1
<1>2. PICK n \in B : \A m \in B : n <= m
  BY <1>1, LeastOf
<1>3. PICK T \in SUBSET S : T \notin Q /\ Cardinality(T) = n
  BY <1>2
<1>4. IsFiniteSet(T) /\ T # {}
  BY <1>3, FS_Subset
<1>5. ASSUME NEW x \in T PROVE T \ {x} \in Q
  <2>1. Cardinality(T \ {x}) = n - 1 /\ Cardinality(T \ {x}) \in Nat
    BY <1>3, <1>4, FS_RemoveElement, FS_CardinalityType
  <2>2. T \ {x} \in SUBSET S
    BY <1>3
  <2> QED
    BY <1>2, <2>1, <2>2
<1> QED
  BY <1>3, <1>4, <1>5

LEMMA WeightNat ==
    ASSUME NEW s, Kept(s), NEW k \in Keys
    PROVE  Weight(s.metas[k]) \in Nat
<1>1. s.metas[k] \in Known
  BY RecordOf
<1> QED
  BY <1>1 DEF Weight, Known, Records, Meta

\* One more key has as many more cells as it counts for.
LEMMA CellsSplit ==
    ASSUME NEW s, Kept(s), NEW T \in SUBSET Keys, NEW x \in T, IsFiniteSet(Cells(s, T \ {x}))
    PROVE  /\ IsFiniteSet(Cells(s, T))
           /\ Cardinality(Cells(s, T)) = Weight(s.metas[x]) + Cardinality(Cells(s, T \ {x}))
<1> DEFINE w == Weight(s.metas[x])
           X == {c \in {x} \X Nat : c[2] < w}
           Y == Cells(s, T \ {x})
<1>1. w \in Nat
  BY WeightNat
<1>2. IsFiniteSet(X) /\ Cardinality(X) = w
  <2> DEFINE f == [i \in 1..w |-> <<x, i - 1>>]
  <2>1. f \in Bijection(1..w, X)
    <3>1. f \in [1..w -> X]
      BY <1>1
    <3>2. \A i, j \in 1..w : f[i] = f[j] => i = j
      <4>1. ASSUME NEW i \in 1..w, NEW j \in 1..w, f[i] = f[j] PROVE i = j
        <5>1. <<x, i - 1>> = <<x, j - 1>>
          BY <4>1
        <5>2. i - 1 = j - 1 /\ i \in Int /\ j \in Int
          BY <1>1, <5>1
        <5> QED
          BY <5>2
      <4> QED
        BY <4>1
    <3>3. ASSUME NEW c \in X PROVE \E i \in 1..w : f[i] = c
      <4>1. c[2] + 1 \in 1..w /\ c = <<x, c[2]>>
        BY <1>1
      <4> QED
        BY <4>1
    <3>4. \A i, j \in DOMAIN f : f[i] = f[j] => i = j
      BY <3>2
    <3> HIDE DEF f, X
    <3> QED
      BY <3>1, <3>3, <3>4 DEF Bijection, Injection, Surjection, IsInjective
  <2>2. IsFiniteSet(1..w) /\ Cardinality(1..w) = w
    BY <1>1, FS_Interval
  <2>3. ExistsBijection(1..w, X)
    BY <2>1 DEF ExistsBijection
  <2> HIDE DEF X
  <2> QED
    BY <2>2, <2>3, FS_Bijection
<1>3. Cells(s, T) = X \union Y /\ X \intersect Y = {}
  BY DEF Cells
<1>4. IsFiniteSet(Y) /\ Cardinality(Y) \in Nat
  BY FS_CardinalityType
<1> HIDE DEF X, Y, w
<1>5. IsFiniteSet(X \union Y) /\ Cardinality(X \union Y) = Cardinality(X) + Cardinality(Y) - Cardinality(X \intersect Y)
  BY <1>2, <1>4, FS_Union
<1>6. Cardinality(X \intersect Y) = 0
  BY <1>3, FS_EmptySet
<1> QED
  BY <1>1, <1>2, <1>3, <1>4, <1>5, <1>6 DEF w, Y

LEMMA CellsFinite ==
    ASSUME NEW s, Kept(s)
    PROVE  \A T \in SUBSET Keys : IsFiniteSet(Cells(s, T)) /\ Cardinality(Cells(s, T)) \in Nat
<1> DEFINE Q == {T \in SUBSET Keys : IsFiniteSet(Cells(s, T))}
<1>1. {} \in Q
  <2>1. Cells(s, {}) = {}
    BY DEF Cells
  <2> QED
    BY <2>1, FS_EmptySet
<1>2. ASSUME NEW T \in SUBSET Keys, T # {}, \A x \in T : T \ {x} \in Q PROVE T \in Q
  BY <1>2, CellsSplit
<1>3. Q \in SUBSET (SUBSET Keys)
  OBVIOUS
<1> HIDE DEF Q
<1>4. \A T \in SUBSET Keys : T \in Q
  BY <1>1, <1>2, <1>3, KeysAssumption, Subsets
<1> QED
  BY <1>4, FS_CardinalityType DEF Q

LEMMA Heaviest ==
    ASSUME NEW s, Kept(s), NEW k \in Entries(s, FALSE)
    PROVE  k \in Keys /\ s.metas[k].cached + s.metas[k].derived = Weight(s.metas[k])
  BY DEF Entries, Weight

\* The total is the number of cells of the entries it is taken over.
LEMMA TotalCells ==
    ASSUME NEW s, Kept(s)
    PROVE  CachedTotal(s) = Cardinality(Cells(s, Entries(s, FALSE)))
<1> DEFINE E == Entries(s, FALSE)
           W(k) == s.metas[k].cached + s.metas[k].derived
           One(T) == CHOOSE x \in T : TRUE
           D(g) == g = [T \in SUBSET E |-> IF T = {} THEN 0 ELSE W(One(T)) + g[T \ {One(T)}]]
           h == [T \in SUBSET E |-> Cardinality(Cells(s, T))]
           g0 == CHOOSE g : D(g)
<1>1. CachedTotal(s) = g0[E]
  BY DEF CachedTotal, MapThenSumSet, MapThenFoldSet
<1>2. E \in SUBSET Keys /\ IsFiniteSet(E)
  <2>1. E \in SUBSET Keys
    BY DEF Entries
  <2> QED
    BY <2>1, KeysAssumption, FS_Subset
<1>3. Cardinality(Cells(s, {})) = 0
  <2>1. Cells(s, {}) = {}
    BY DEF Cells
  <2> QED
    BY <2>1, FS_EmptySet
<1>4. ASSUME NEW T \in SUBSET E, T # {}
      PROVE  /\ One(T) \in T /\ T \ {One(T)} \in SUBSET E
             /\ Cardinality(Cells(s, T)) = W(One(T)) + Cardinality(Cells(s, T \ {One(T)}))
  <2> DEFINE x == One(T)
  <2>1. x \in T
    BY <1>4
  <2> HIDE DEF x
  <2>2. T \in SUBSET Keys /\ T \ {x} \in SUBSET Keys /\ x \in E /\ T \ {x} \in SUBSET E
    BY <1>2, <2>1
  <2>3. IsFiniteSet(Cells(s, T \ {x}))
    BY <2>2, CellsFinite
  <2>4. Cardinality(Cells(s, T)) = Weight(s.metas[x]) + Cardinality(Cells(s, T \ {x}))
    BY <2>1, <2>2, <2>3, CellsSplit
  <2>5. W(x) = Weight(s.metas[x])
    BY <2>2, Heaviest
  <2> QED
    BY <2>1, <2>2, <2>4, <2>5 DEF x
<1> HIDE DEF E, W, One
<1>5. D(h)
  <2>1. ASSUME NEW T \in SUBSET E
        PROVE  h[T] = IF T = {} THEN 0 ELSE W(One(T)) + h[T \ {One(T)}]
    <3>1. CASE T = {}
      BY <1>3, <3>1
    <3>2. CASE T # {}
      BY <1>4, <3>2
    <3> QED
      BY <3>1, <3>2
  <2> DEFINE G == [T \in SUBSET E |-> IF T = {} THEN 0 ELSE W(One(T)) + h[T \ {One(T)}]]
  <2>2. \A T \in SUBSET E : h[T] = G[T]
    BY <2>1
  <2>3. h = G
    BY <2>2
  <2> QED
    BY <2>3
<1> HIDE DEF h
<1>6. D(g0)
  BY <1>5, Zenon
<1> HIDE DEF g0
<1>7. ASSUME NEW T \in SUBSET E
      PROVE  g0[T] = IF T = {} THEN 0 ELSE W(One(T)) + g0[T \ {One(T)}]
  <2> DEFINE G == [U \in SUBSET E |-> IF U = {} THEN 0 ELSE W(One(U)) + g0[U \ {One(U)}]]
  <2>1. g0 = G
    BY <1>6
  <2>2. G[T] = IF T = {} THEN 0 ELSE W(One(T)) + g0[T \ {One(T)}]
    OBVIOUS
  <2> HIDE DEF G
  <2> QED
    BY <2>1, <2>2, Zenon
<1> HIDE DEF D
<1> DEFINE Q == {T \in SUBSET E : g0[T] = Cardinality(Cells(s, T))}
<1>8. {} \in Q
  <2>1. {} \in SUBSET E
    OBVIOUS
  <2>2. g0[{}] = 0
    BY <1>7, <2>1
  <2> QED
    BY <1>3, <2>1, <2>2
<1>9. ASSUME NEW T \in SUBSET E, T # {}, \A x \in T : T \ {x} \in Q PROVE T \in Q
  <2>1. One(T) \in T /\ T \ {One(T)} \in Q
    BY <1>4, <1>9
  <2>2. g0[T] = W(One(T)) + g0[T \ {One(T)}]
    BY <1>7, <1>9
  <2>3. g0[T \ {One(T)}] = Cardinality(Cells(s, T \ {One(T)}))
    BY <2>1
  <2>4. Cardinality(Cells(s, T)) = W(One(T)) + Cardinality(Cells(s, T \ {One(T)}))
    BY <1>4, <1>9
  <2> QED
    BY <2>2, <2>3, <2>4
<1>10. Q \in SUBSET (SUBSET E)
  OBVIOUS
<1> HIDE DEF Q
<1>11. \A T \in SUBSET E : T \in Q
  BY <1>2, <1>8, <1>9, <1>10, Subsets
<1>12. E \in Q
  BY <1>11
<1> QED
  BY <1>1, <1>12 DEF Q, E

\* Every entry counts for no more than before.
Lighter(s, t) == \A k \in Keys : Weight(t.metas[k]) <= Weight(s.metas[k])

LEMMA AllCells ==
    ASSUME NEW s, Kept(s)
    PROVE  Cells(s, Entries(s, FALSE)) = Cells(s, Keys)
<1>1. \A k \in Keys : k \notin Entries(s, FALSE) => Weight(s.metas[k]) = 0
  BY DEF Weight, Entries
<1>2. ASSUME NEW c \in Keys \X Nat, c[2] < Weight(s.metas[c[1]]) PROVE c[1] \in Entries(s, FALSE)
  <2>1. c[1] \in Keys /\ c[2] \in Nat
    OBVIOUS
  <2> DEFINE k == c[1]
  <2>2. c[2] < Weight(s.metas[k]) /\ k \in Keys /\ c[2] \in Nat
    BY <1>2, <2>1
  <2> HIDE DEF k
  <2>3. Weight(s.metas[k]) # 0
    BY <2>2
  <2> QED
    BY <1>1, <2>2, <2>3 DEF k
<1>3. Entries(s, FALSE) \subseteq Keys
  BY DEF Entries
<1> QED
  BY <1>2, <1>3 DEF Cells

LEMMA CachedNat ==
    ASSUME NEW s, Kept(s)
    PROVE  CachedTotal(s) \in Nat
<1>1. Entries(s, FALSE) \in SUBSET Keys
  BY DEF Entries
<1>2. Cardinality(Cells(s, Entries(s, FALSE))) \in Nat
  BY <1>1, CellsFinite
<1>3. CachedTotal(s) = Cardinality(Cells(s, Entries(s, FALSE)))
  BY TotalCells
<1> QED
  BY <1>2, <1>3

LEMMA LighterTotal ==
    ASSUME NEW s, Kept(s), NEW t, Kept(t), Lighter(s, t)
    PROVE  CachedTotal(t) <= CachedTotal(s)
<1>1. Cells(t, Keys) \in SUBSET Cells(s, Keys)
  <2>1. ASSUME NEW c \in Keys \X Nat, c[2] < Weight(t.metas[c[1]])
        PROVE  c[2] < Weight(s.metas[c[1]])
    <3>1. c[1] \in Keys /\ c[2] \in Nat
      OBVIOUS
    <3>2. Weight(t.metas[c[1]]) <= Weight(s.metas[c[1]])
      BY <3>1 DEF Lighter
    <3>3. Weight(t.metas[c[1]]) \in Nat /\ Weight(s.metas[c[1]]) \in Nat
      BY <3>1, WeightNat
    <3> QED
      BY <2>1, <3>1, <3>2, <3>3
  <2> QED
    BY <2>1 DEF Cells
<1>2. Keys \in SUBSET Keys
  OBVIOUS
<1>3. IsFiniteSet(Cells(s, Keys))
  BY <1>2, CellsFinite
<1>4. Cardinality(Cells(t, Keys)) <= Cardinality(Cells(s, Keys))
  BY <1>1, <1>3, FS_Subset
<1>5. CachedTotal(s) = Cardinality(Cells(s, Keys)) /\ CachedTotal(t) = Cardinality(Cells(t, Keys))
  BY TotalCells, AllCells
<1> QED
  BY <1>4, <1>5

-----------------------------------------------------------------------------
(* The order of use, and what an entry claims to hold *)

\* Every key is somewhere in the order of use.
Ordered(u) == u \in Seq(Keys) /\ \A k \in Keys : \E i \in 1..Len(u) : u[i] = k

\* What a record counts: for the track what its range map names, for another
\* key, once it is complete, the whole file.
Counts(k, m) ==
    m # None => IF k = Track THEN m.cached = Cardinality(m.ranges)
                ELSE m.complete => m.cached = SizeOf(k)

Books(s) ==
    /\ Ordered(s.used)
    /\ \A k \in Keys : Counts(k, s.metas[k]) /\ \A r \in Roots : Counts(k, s.metaFile[r][k])

LEMMA RecentOrdered ==
    ASSUME NEW u, Ordered(u), NEW k \in Keys
    PROVE  /\ Ordered(Recent(u, k))
           /\ Recent(u, k)[Len(Recent(u, k))] = k
<1> DEFINE at == CHOOSE i \in DOMAIN u : u[i] = k
           a == SubSeq(u, 1, at - 1)
           b == SubSeq(u, at + 1, Len(u))
           n == Len(u)
           v == (a \o b) \o <<k>>
<1>1. u \in Seq(Keys) /\ n \in Nat /\ DOMAIN u = 1..n
  BY DEF Ordered
<1>2. at \in 1..n /\ u[at] = k
  <2>1. \E i \in DOMAIN u : u[i] = k
    BY <1>1 DEF Ordered
  <2> QED
    BY <1>1, <2>1
<1> HIDE DEF at
<1>3. /\ a \in Seq(Keys) /\ Len(a) = at - 1 /\ \A i \in 1..(at - 1) : a[i] = u[i]
  BY <1>1, <1>2
<1>4. /\ b \in Seq(Keys) /\ Len(b) = n - at /\ \A i \in 1..(n - at) : b[i] = u[at + i]
  <2>1. at \in Int /\ at <= n /\ n \in Nat /\ u \in Seq(Keys)
    BY <1>1, <1>2
  <2>2. b \in Seq(Keys) /\ Len(b) = IF at + 1 <= n THEN n - (at + 1) + 1 ELSE 0
    <3>1. \A i \in (at + 1)..n : u[i] \in Keys
      BY <1>1, <1>2
    <3> QED
      BY <2>1, <3>1, SubSeqProperties
  <2>3. Len(b) = n - at
    <3> HIDE DEF b, n
    <3> QED
      BY <2>1, <2>2
  <2>4. \A i \in 1..(n - at) : b[i] = u[at + i]
    <3> SUFFICES ASSUME NEW i \in 1..(n - at) PROVE b[i] = u[at + i]
      OBVIOUS
    <3>1. b[i] = u[(at + 1) + i - 1]
      BY <2>1, <2>3
    <3>2. (at + 1) + i - 1 = at + i
      BY <2>1
    <3> QED
      BY <3>1, <3>2
  <2> QED
    BY <2>2, <2>3, <2>4
<1> HIDE DEF a, b, n
<1>5. /\ a \o b \in Seq(Keys) /\ Len(a \o b) = n - 1
      /\ \A i \in 1..(at - 1) : (a \o b)[i] = u[i]
      /\ \A i \in at..(n - 1) : (a \o b)[i] = u[i + 1]
  <2>1. /\ a \o b \in Seq(Keys) /\ Len(a \o b) = Len(a) + Len(b)
        /\ \A i \in 1..(Len(a) + Len(b)) : (a \o b)[i] = IF i <= Len(a) THEN a[i] ELSE b[i - Len(a)]
    BY <1>3, <1>4, ConcatProperties
  <2>2. Len(a) + Len(b) = n - 1
    BY <1>1, <1>2, <1>3, <1>4
  <2>3. ASSUME NEW i \in 1..(at - 1) PROVE (a \o b)[i] = u[i]
    <3>1. i \in 1..(Len(a) + Len(b)) /\ i <= Len(a)
      BY <1>1, <1>2, <1>3, <2>2
    <3> QED
      BY <1>3, <2>1, <3>1
  <2>4. ASSUME NEW i \in at..(n - 1) PROVE (a \o b)[i] = u[i + 1]
    <3>1. i \in 1..(Len(a) + Len(b)) /\ ~ (i <= Len(a)) /\ i - Len(a) \in 1..(n - at) /\ at + (i - Len(a)) = i + 1
      BY <1>1, <1>2, <1>3, <2>2
    <3>2. b[i - Len(a)] = u[at + (i - Len(a))]
      BY <1>4, <3>1
    <3> QED
      BY <2>1, <3>1, <3>2
  <2> QED
    BY <2>1, <2>2, <2>3, <2>4
<1> DEFINE c == a \o b
<1> HIDE DEF c
<1>6. /\ c \o <<k>> \in Seq(Keys) /\ Len(c \o <<k>>) = n
      /\ \A i \in 1..(n - 1) : (c \o <<k>>)[i] = c[i]
      /\ (c \o <<k>>)[n] = k
  <2>1. <<k>> \in Seq(Keys) /\ Len(<<k>>) = 1 /\ <<k>>[1] = k
    OBVIOUS
  <2>2. c \in Seq(Keys) /\ Len(c) = n - 1
    BY <1>5 DEF c
  <2>3. /\ c \o <<k>> \in Seq(Keys) /\ Len(c \o <<k>>) = Len(c) + Len(<<k>>)
        /\ \A i \in 1..(Len(c) + Len(<<k>>)) :
              (c \o <<k>>)[i] = IF i <= Len(c) THEN c[i] ELSE <<k>>[i - Len(c)]
    BY <2>1, <2>2, ConcatProperties
  <2>4. Len(c) + Len(<<k>>) = n
    BY <1>1, <2>1, <2>2
  <2>5. \A i \in 1..(n - 1) : (c \o <<k>>)[i] = c[i]
    BY <1>1, <1>2, <2>2, <2>3, <2>4
  <2>6. n \in 1..n /\ ~ (n <= Len(c)) /\ n - Len(c) = 1
    BY <1>1, <1>2, <2>2
  <2>7. (c \o <<k>>)[n] = k
    BY <2>1, <2>3, <2>4, <2>6
  <2> QED
    BY <2>3, <2>4, <2>5, <2>7
<1>7. Recent(u, k) = c \o <<k>>
  BY DEF Recent, c, a, b, at, n
<1> DEFINE w == c \o <<k>>
<1> HIDE DEF w
<1>8. ASSUME NEW j \in Keys PROVE \E i \in 1..n : w[i] = j
  <2>1. PICK i \in 1..n : u[i] = j
    BY <1>1 DEF Ordered, n
  <2>2. CASE i = at
    <3>1. n \in 1..n /\ w[n] = j
      BY <1>1, <1>2, <1>6, <2>1, <2>2 DEF w
    <3> QED
      BY <3>1
  <2>3. CASE i < at
    <3>1. i \in 1..(n - 1) /\ i \in 1..(at - 1)
      BY <1>1, <1>2, <2>3
    <3>2. w[i] = j
      BY <1>5, <1>6, <2>1, <3>1 DEF c, w
    <3> QED
      BY <3>2
  <2>4. CASE i > at
    <3>1. i - 1 \in 1..(n - 1) /\ i - 1 \in at..(n - 1) /\ (i - 1) + 1 = i /\ i - 1 \in 1..n
      BY <1>1, <1>2, <2>4
    <3>2. c[i - 1] = u[(i - 1) + 1]
      BY <1>5, <3>1 DEF c
    <3>3. w[i - 1] = j
      BY <1>6, <2>1, <3>1, <3>2 DEF w
    <3> QED
      BY <3>1, <3>3
  <2> QED
    BY <1>1, <1>2, <2>2, <2>3, <2>4
<1> QED
  BY <1>6, <1>7, <1>8 DEF Ordered, w

-----------------------------------------------------------------------------
(* An eviction *)

\* An eviction goes on until the total is within the limit or all that is left
\* is protected or exempt.
LEMMA EvictsEnough ==
    ASSUME NEW s, Kept(s), Ordered(s.used), NEW K, NEW n \in Nat, n > 0
    PROVE  LET t == evictTo(s, K, n)
           IN  CachedTotal(t) <= n \/ Entries(t, FALSE) \subseteq protectedKeys \union K
<1> DEFINE E == Evictable(s, K)
           L == Len(s.used)
           Left(m) == removeKeys(s, Oldest(s, m, E))
           Enough(m) == CachedTotal(Left(m)) <= n \/ m = L
           c == EvictedCount(s, E, n)
           B == {m \in Nat : m <= L /\ Enough(m)}
<1>1. L \in Nat
  BY DEF Ordered
<1>2. PICK m \in B : \A j \in B : m <= j
  <2>1. L \in B
    BY <1>1
  <2> HIDE DEF B
  <2>2. B \in SUBSET Nat
    BY DEF B
  <2> QED
    BY <2>1, <2>2, LeastOf
<1>3. m \in 0..L /\ Enough(m) /\ \A j \in 0..(m - 1) : ~Enough(j)
  <2>1. m \in 0..L /\ Enough(m)
    BY <1>1, <1>2
  <2>2. ASSUME NEW j \in 0..(m - 1), Enough(j) PROVE FALSE
    <3>1. j \in B
      BY <1>1, <2>1, <2>2
    <3>2. m <= j
      BY <1>2, <3>1
    <3> QED
      BY <1>1, <2>1, <3>2
  <2> QED
    BY <2>1, <2>2
<1>4. c = CHOOSE i \in 0..L : Enough(i) /\ \A j \in 0..(i - 1) : ~Enough(j)
  BY DEF EvictedCount
<1>5. c \in 0..L /\ Enough(c)
  <2> HIDE DEF c, Enough, L, B
  <2> QED
    BY <1>3, <1>4
<1>6. evictTo(s, K, n) = Left(c)
  BY DEF evictTo, Evicted
<1>7. c = L => Entries(Left(c), FALSE) \subseteq protectedKeys \union K
  <2>1. SUFFICES ASSUME c = L, NEW k \in Entries(Left(c), FALSE) PROVE k \in protectedKeys \union K
    OBVIOUS
  <2> DEFINE G == Oldest(s, c, E)
             t == removeKeys(s, G)
  <2>2. \A i \in Keys : t.metas[i] = IF i \in G THEN None ELSE s.metas[i]
    BY Removes DEF Kept
  <2>3. k \in Keys /\ t.metas[k] # None /\ t.metas[k].durable = FALSE
    BY DEF Entries
  <2> HIDE DEF t
  <2>4. k \notin G /\ k \in Entries(s, FALSE)
    BY <2>2, <2>3 DEF Entries
  <2>5. \E i \in 1..c : s.used[i] = k
    BY <2>1, <2>3 DEF Ordered
  <2>6. k \notin E
    BY <2>4, <2>5 DEF Oldest
  <2> QED
    BY <2>4, <2>6 DEF Evictable
<1> HIDE DEF c
<1> QED
  BY <1>5, <1>6, <1>7

-----------------------------------------------------------------------------
(* The writes *)

\* A pinned entry comes back to the evictable root.
Returns(s, t) == \E k \in Keys : /\ s.metas[k] # None /\ s.metas[k].durable = TRUE
                                 /\ t.metas[k] # None /\ t.metas[k].durable = FALSE

\* The total does not grow, or it is within the limit, or all that counts for
\* it is protected or has just been written.
Fits(s, t) ==
    \/ Lighter(s, t)
    \/ Returns(s, t)
    \/ limitBytes > 0 => \/ CachedTotal(t) <= limitBytes
                         \/ Entries(t, FALSE) \subseteq protectedKeys \union {t.used[Len(t.used)]}

Settled(s, t) == Kept(t) /\ Books(t) /\ Fits(s, t)

LEMMA CountsOf ==
    ASSUME NEW s, Books(s), NEW k \in Keys
    PROVE  Counts(k, MetaOf(s, k))
<1>1. Cardinality({}) = 0
  BY FS_EmptySet
<1> QED
  BY <1>1 DEF Books, Counts, MetaOf, newMeta

LEMMA BooksAccess ==
    ASSUME NEW s, StoreState(s), Books(s), NEW k \in Keys
    PROVE  LET t == Accessed(s, k)
           IN  /\ StoreState(t) /\ Books(t) /\ t.metas = s.metas
               /\ t.used[Len(t.used)] = k
<1> DEFINE t == Accessed(s, k)
<1>1. StoreState(t) /\ t.metas = s.metas /\ t.metaFile = s.metaFile
  BY Accesses
<1>2. t.used = Recent(s.used, k)
  BY DEF Accessed, StoreState
<1>3. Ordered(t.used) /\ t.used[Len(t.used)] = k
  BY <1>2, RecentOrdered DEF Books
<1> HIDE DEF t
<1>4. Books(t)
  BY <1>1, <1>3 DEF Books
<1> QED
  BY <1>1, <1>3, <1>4 DEF t

LEMMA BooksPersist ==
    ASSUME NEW s, StoreState(s), Books(s), NEW k \in Keys, NEW m \in Records, Counts(k, m)
    PROVE  LET t == persistMeta(s, k, m)
           IN  /\ StoreState(t) /\ Books(t) /\ t.used = s.used
               /\ t.metas = [s.metas EXCEPT ![k] = m]
<1> DEFINE t == persistMeta(s, k, m)
<1>1. /\ StoreState(t)
      /\ t.metas = [s.metas EXCEPT ![k] = m] /\ t.blob = s.blob
      /\ t.metaFile = [s.metaFile EXCEPT ![RootFor(m)] = [@ EXCEPT ![k] = m]]
  BY Persists
<1>2. t.used = s.used
  BY DEF persistMeta, StoreState
<1>3. s.metas \in [Keys -> Known] /\ s.metaFile \in [Roots -> [Keys -> Known]]
  BY DEF StoreState
<1> HIDE DEF t
<1>4. \A j \in Keys : t.metas[j] = IF j = k THEN m ELSE s.metas[j]
  BY <1>1, <1>3
<1>5. \A r \in Roots, j \in Keys : (t.metaFile[r][j] = m /\ j = k) \/ t.metaFile[r][j] = s.metaFile[r][j]
  BY <1>1, <1>3
<1>6. Books(t)
  BY <1>2, <1>4, <1>5 DEF Books
<1> QED
  BY <1>1, <1>2, <1>6 DEF t

LEMMA BooksPut ==
    ASSUME NEW s, StoreState(s), Books(s), NEW k \in Keys, NEW r \in Roots, NEW f \in Files
    PROVE  LET t == [s EXCEPT !.blob[r][k] = f]
           IN  /\ StoreState(t) /\ Books(t) /\ t.used = s.used /\ t.metas = s.metas
<1> DEFINE t == [s EXCEPT !.blob[r][k] = f]
<1>1. /\ StoreState(t)
      /\ t.metas = s.metas /\ t.metaFile = s.metaFile
      /\ t.blob = [s.blob EXCEPT ![r] = [@ EXCEPT ![k] = f]]
  BY Puts
<1>2. t.used = s.used
  BY DEF StoreState
<1> HIDE DEF t
<1>3. Books(t)
  BY <1>1, <1>2 DEF Books
<1> QED
  BY <1>1, <1>2, <1>3 DEF t

LEMMA BooksUnfile ==
    ASSUME NEW s, StoreState(s), Books(s), NEW k \in Keys, NEW r \in Roots
    PROVE  LET t == [s EXCEPT !.metaFile[r][k] = None]
           IN  /\ StoreState(t) /\ Books(t) /\ t.used = s.used /\ t.metas = s.metas
<1> DEFINE t == [s EXCEPT !.metaFile[r][k] = None]
<1>1. /\ StoreState(t)
      /\ t.metas = s.metas /\ t.blob = s.blob
      /\ t.metaFile = [s.metaFile EXCEPT ![r] = [@ EXCEPT ![k] = None]]
  BY Unfiles
<1>2. t.used = s.used /\ s.metaFile \in [Roots -> [Keys -> Known]]
  BY DEF StoreState
<1> HIDE DEF t
<1>3. \A q \in Roots, j \in Keys : t.metaFile[q][j] = None \/ t.metaFile[q][j] = s.metaFile[q][j]
  BY <1>1, <1>2
<1>4. Books(t)
  BY <1>1, <1>2, <1>3 DEF Books, Counts
<1> QED
  BY <1>1, <1>2, <1>4 DEF t

LEMMA BooksRemove ==
    ASSUME NEW s, Kept(s), Books(s), NEW K
    PROVE  LET t == removeKeys(s, K)
           IN  Books(t) /\ t.used = s.used /\ Lighter(s, t)
<1> DEFINE t == removeKeys(s, K)
<1>1. /\ StoreState(t)
      /\ \A k \in Keys : t.metas[k] = IF k \in K THEN None ELSE s.metas[k]
      /\ \A r \in Roots, k \in Keys :
            /\ t.metaFile[r][k] = IF k \in K THEN None ELSE s.metaFile[r][k]
            /\ t.blob[r][k] = IF k \in K THEN None ELSE s.blob[r][k]
  BY Removes DEF Kept
<1>2. t.used = s.used
  BY DEF removeKeys, Kept, StoreState
<1> HIDE DEF t
<1>3. Books(t)
  BY <1>1, <1>2 DEF Books, Counts
<1>4. ASSUME NEW k \in Keys PROVE Weight(t.metas[k]) <= Weight(s.metas[k])
  <2>1. Weight(s.metas[k]) \in Nat /\ Weight(None) = 0
    BY WeightNat DEF Weight
  <2> QED
    BY <1>1, <2>1
<1> QED
  BY <1>2, <1>3, <1>4 DEF Lighter, t

\* After an eviction that spares what was written last, all is settled.
LEMMA SettlesEvict ==
    ASSUME NEW s, NEW w, Kept(w), Books(w), limitBytes \in Nat,
           NEW K, K \subseteq {w.used[Len(w.used)]}
    PROVE  Settled(s, evictTo(w, K, limitBytes))
<1> DEFINE t == evictTo(w, K, limitBytes)
<1>1. Kept(t)
  BY KeepsEvict
<1>2. Books(t) /\ t.used = w.used
  <2>1. \/ t = w
        \/ \E G : G \subseteq Entries(w, FALSE) \ K /\ t = removeKeys(w, G)
    BY DEF evictTo, Evicted, Oldest, Evictable
  <2>2. \A G : Books(removeKeys(w, G)) /\ removeKeys(w, G).used = w.used
    BY BooksRemove
  <2> HIDE DEF t
  <2> QED
    BY <2>1, <2>2
<1>3. limitBytes > 0 => CachedTotal(t) <= limitBytes \/ Entries(t, FALSE) \subseteq protectedKeys \union K
  <2>1. Ordered(w.used)
    BY DEF Books
  <2> QED
    BY <2>1, EvictsEnough
<1> HIDE DEF t
<1>4. Fits(s, t)
  BY <1>2, <1>3 DEF Fits
<1> QED
  BY <1>1, <1>2, <1>4 DEF Settled, t

\* No entry counts for more.
Eases(s, t) == Kept(t) /\ Books(t) /\ Lighter(s, t)

LEMMA EasesSettles ==
    ASSUME NEW s, NEW t, Eases(s, t)
    PROVE  Settled(s, t)
  BY DEF Settled, Fits, Eases

LEMMA EasesSame ==
    ASSUME NEW s, Kept(s), Books(s)
    PROVE  Eases(s, s)
<1>1. \A k \in Keys : Weight(s.metas[k]) \in Nat
  BY WeightNat
<1>2. Lighter(s, s)
  BY <1>1 DEF Lighter
<1> QED
  BY <1>2 DEF Eases

LEMMA EasesChain ==
    ASSUME NEW s, Kept(s), NEW t, NEW u, Eases(s, t), Eases(t, u)
    PROVE  Eases(s, u)
<1>1. \A k \in Keys : Weight(s.metas[k]) \in Nat /\ Weight(t.metas[k]) \in Nat /\ Weight(u.metas[k]) \in Nat
  BY WeightNat DEF Eases
<1>2. \A k \in Keys : Weight(t.metas[k]) <= Weight(s.metas[k]) /\ Weight(u.metas[k]) <= Weight(t.metas[k])
  BY DEF Eases, Lighter
<1>3. \A k \in Keys : Weight(u.metas[k]) <= Weight(s.metas[k])
  BY <1>1, <1>2
<1> QED
  BY <1>3 DEF Eases, Lighter

\* One key's record is another one.
LEMMA LighterOne ==
    ASSUME NEW s, Kept(s), NEW t, NEW k \in Keys, NEW m \in Known,
           t.metas = [s.metas EXCEPT ![k] = m], Weight(m) <= Weight(s.metas[k])
    PROVE  Lighter(s, t)
<1>1. s.metas \in [Keys -> Known]
  BY DEF Kept, StoreState
<1>2. ASSUME NEW j \in Keys PROVE Weight(t.metas[j]) <= Weight(s.metas[j])
  <2>1. Weight(s.metas[j]) \in Nat
    BY WeightNat
  <2>2. t.metas[j] = IF j = k THEN m ELSE s.metas[j]
    BY <1>1
  <2> QED
    BY <2>1, <2>2
<1> QED
  BY <1>2 DEF Lighter

\* A record changed in place, as a call that then evicts leaves it.
LEMMA BooksUpdate ==
    ASSUME NEW s, Kept(s), Books(s), NEW j \in Keys, NEW m \in Records,
           m.durable = MetaOf(s, j).durable, Counts(j, m)
    PROVE  LET t == persistMeta(Accessed(s, j), j, m)
           IN  /\ Kept(t) /\ Books(t) /\ t.used[Len(t.used)] = j
               /\ t.metas = [s.metas EXCEPT ![j] = m]
<1> DEFINE u == Accessed(s, j)
<1>1. StoreState(u) /\ Books(u) /\ u.metas = s.metas /\ u.used[Len(u.used)] = j
  BY BooksAccess DEF Kept
<1>2. Kept(u) /\ u.metaFile = s.metaFile
  BY KeepsAccess, Accesses DEF Kept
<1>3. m.durable \/ u.metaFile["durable"][j] = None
  BY <1>2, RecordOf
<1> HIDE DEF u
<1> DEFINE t == persistMeta(u, j, m)
<1>4. Kept(t)
  BY <1>2, <1>3, KeepsPersist
<1>5. Books(t) /\ t.used = u.used /\ t.metas = [u.metas EXCEPT ![j] = m]
  BY <1>1, BooksPersist
<1> HIDE DEF t
<1>6. t.used[Len(t.used)] = j /\ t.metas = [s.metas EXCEPT ![j] = m]
  BY <1>1, <1>5
<1> QED
  BY <1>4, <1>5, <1>6 DEF t, u

\* A record changed in place that counts for no more than before.
LEMMA EasesUpdate ==
    ASSUME NEW s, Kept(s), Books(s), NEW j \in Keys, NEW m \in Records,
           m.durable = MetaOf(s, j).durable, Counts(j, m), Weight(m) <= Weight(s.metas[j])
    PROVE  Eases(s, persistMeta(s, j, m)) /\ Eases(s, persistMeta(Accessed(s, j), j, m))
<1>0. m \in Known
  BY DEF Known
<1>1. Eases(s, persistMeta(Accessed(s, j), j, m))
  <2> DEFINE t == persistMeta(Accessed(s, j), j, m)
  <2>1. Kept(t) /\ Books(t) /\ t.metas = [s.metas EXCEPT ![j] = m]
    BY BooksUpdate
  <2> HIDE DEF t
  <2>2. Eases(s, t)
    BY <1>0, <2>1, LighterOne DEF Eases
  <2> QED
    BY <2>2 DEF t
<1>2. Eases(s, persistMeta(s, j, m))
  <2> DEFINE t == persistMeta(s, j, m)
  <2>1. m.durable \/ s.metaFile["durable"][j] = None
    BY RecordOf
  <2>2. Kept(t)
    BY <2>1, KeepsPersist
  <2>3. Books(t) /\ t.metas = [s.metas EXCEPT ![j] = m]
    BY BooksPersist DEF Kept
  <2> HIDE DEF t
  <2>4. Eases(s, t)
    BY <1>0, <2>2, <2>3, LighterOne DEF Eases
  <2> QED
    BY <2>4 DEF t
<1> QED
  BY <1>1, <1>2


-----------------------------------------------------------------------------
(* The calls *)

LEMMA EasesPut ==
    ASSUME NEW s, Kept(s), Books(s), NEW k \in Keys, NEW r \in Roots, NEW f \in Files
    PROVE  Eases(s, [s EXCEPT !.blob[r][k] = f])
<1> DEFINE t == [s EXCEPT !.blob[r][k] = f]
<1>1. Books(t) /\ t.metas = s.metas
  BY BooksPut DEF Kept
<1>2. Kept(t)
  BY KeepsPut
<1> HIDE DEF t
<1>3. Lighter(s, s)
  BY EasesSame DEF Eases
<1>4. Lighter(s, t)
  BY <1>1, <1>3 DEF Lighter
<1> QED
  BY <1>1, <1>2, <1>4 DEF Eases, t

LEMMA EasesLength ==
    ASSUME NEW s, Kept(s), Books(s), NEW j \in Keys, NEW n \in Nat
    PROVE  Eases(s, setContentLength(s, j, n))
<1> DEFINE m == [MetaOf(s, j) EXCEPT !.total = n]
<1>1. MetaOf(s, j) \in Records /\ Counts(j, MetaOf(s, j))
  BY RecordOf, CountsOf
<1>2. /\ m \in Records /\ m.durable = MetaOf(s, j).durable /\ m.ranges = MetaOf(s, j).ranges
      /\ m.cached = MetaOf(s, j).cached /\ m.complete = MetaOf(s, j).complete
      /\ m.derived = MetaOf(s, j).derived
  BY <1>1, OneField DEF Records, Meta
<1>3. MetaOf(s, j) # None
  BY <1>1, StoreAssumption DEF Records
<1> HIDE DEF m
<1>4. Counts(j, m)
  BY <1>1, <1>2, <1>3 DEF Counts
<1>5. Weight(m) <= Weight(s.metas[j])
  <2>1. CASE s.metas[j] = None
    <3>1. m.cached = 0 /\ m.derived = 0
      BY <1>2, <2>1 DEF MetaOf, newMeta
    <3> QED
      BY <2>1, <3>1 DEF Weight
  <2>2. CASE s.metas[j] # None
    <3>1. Weight(s.metas[j]) \in Nat
      BY WeightNat
    <3>2. MetaOf(s, j) = s.metas[j]
      BY <2>2 DEF MetaOf
    <3>3. m # None
      BY <1>2, StoreAssumption DEF Records
    <3>4. Weight(m) = Weight(s.metas[j])
      BY <1>2, <2>2, <3>2, <3>3 DEF Weight
    <3> QED
      BY <3>1, <3>4
  <2> QED
    BY <2>1, <2>2
<1>6. Eases(s, persistMeta(s, j, m)) /\ Eases(s, persistMeta(Accessed(s, j), j, m))
  BY <1>2, <1>4, <1>5, EasesUpdate
<1> QED
  BY <1>6 DEF setContentLength, m

LEMMA EasesTouch ==
    ASSUME NEW s, Kept(s), Books(s), NEW j \in Keys
    PROVE  Eases(s, touch(s, j))
<1>1. CASE s.metas[j] = None
  BY <1>1, EasesSame DEF touch
<1>2. CASE s.metas[j] # None
  <2> DEFINE m == s.metas[j]
  <2>1. m \in Records /\ m.durable = MetaOf(s, j).durable /\ Counts(j, m)
    BY <1>2, RecordOf, CountsOf
  <2>2. Weight(m) \in Nat
    BY WeightNat
  <2>3. Weight(m) <= Weight(s.metas[j])
    BY <2>2
  <2>4. touch(s, j) = persistMeta(Accessed(s, j), j, m)
    BY <1>2 DEF touch
  <2> HIDE DEF m
  <2> QED
    BY <2>1, <2>3, <2>4, EasesUpdate
<1> QED
  BY <1>1, <1>2

\* What is written last is spared by the eviction that follows.
LEMMA SettlesRecorded ==
    ASSUME NEW s, Kept(s), Books(s), NEW j \in Keys, NEW m \in Records, limitBytes \in Nat,
           m.durable = MetaOf(s, j).durable, Counts(j, m), NEW K, K \subseteq {j}
    PROVE  Settled(s, evictTo(persistMeta(Accessed(s, j), j, m), K, limitBytes))
<1> DEFINE t == persistMeta(Accessed(s, j), j, m)
<1>1. /\ Kept(t) /\ Books(t) /\ t.used[Len(t.used)] = j
      /\ t.metas = [s.metas EXCEPT ![j] = m]
  BY BooksUpdate
<1> HIDE DEF t
<1>2. K \subseteq {t.used[Len(t.used)]}
  BY <1>1
<1>3. Settled(s, evictTo(t, K, limitBytes))
  BY <1>1, <1>2, SettlesEvict
<1> QED
  BY <1>3 DEF t

LEMMA SettlesWrite ==
    ASSUME NEW s, Kept(s), Books(s), NEW R \in SUBSET Nat, IsFiniteSet(R), limitBytes \in Nat
    PROVE  Settled(s, recordWrite(s, Track, R))
<1> DEFINE m == MetaOf(s, Track)
           all == m.ranges \union R
           w == [m EXCEPT !.ranges = all, !.cached = Cardinality(all),
                          !.complete = @ \/ covers(all, m.total)]
<1>0. Track \in Keys
  BY LengthNat
<1>1. /\ w \in Records /\ w.durable = m.durable
      /\ w.cached = Cardinality(w.ranges)
  <2>1. m \in Records
    BY <1>0, RecordOf
  <2>2. all \in SUBSET Nat /\ IsFiniteSet(all) /\ Cardinality(all) \in Nat
    BY <2>1, FS_Union, FS_CardinalityType DEF Records, Meta
  <2>3. (m.complete \/ covers(all, m.total)) \in BOOLEAN
    BY <2>1 DEF Records, Meta
  <2> HIDE DEF m, all
  <2> QED
    BY <2>1, <2>2, <2>3 DEF Records, Meta
<1>2. recordWrite(s, Track, R) = evictTo(persistMeta(Accessed(s, Track), Track, w), {Track}, limitBytes)
  BY DEF recordWrite, evictToFit
<1> HIDE DEF w
<1>3. Counts(Track, w)
  BY <1>1 DEF Counts
<1> QED
  BY <1>0, <1>1, <1>2, <1>3, SettlesRecorded

LEMMA SettlesDerived ==
    ASSUME NEW s, Kept(s), Books(s), NEW j \in Keys, limitBytes \in Nat
    PROVE  Settled(s, recordDerivedBytes(s, j))
<1>1. CASE s.metas[j] = None
  BY <1>1, EasesSame, EasesSettles DEF recordDerivedBytes
<1>2. CASE s.metas[j] # None
  <2> DEFINE m == [s.metas[j] EXCEPT !.derived = 1]
  <2>0. s.metas[j] \in Records /\ MetaOf(s, j) = s.metas[j] /\ Counts(j, s.metas[j])
    BY <1>2, RecordOf, CountsOf
  <2>1. /\ m \in Records /\ m.durable = s.metas[j].durable /\ m.cached = s.metas[j].cached
        /\ m.ranges = s.metas[j].ranges /\ m.complete = s.metas[j].complete
    BY <2>0, OneField DEF Records, Meta
  <2>2. recordDerivedBytes(s, j) = evictTo(persistMeta(Accessed(s, j), j, m), {j}, limitBytes)
    BY <1>2 DEF recordDerivedBytes, evictToFit
  <2> HIDE DEF m
  <2>3. Counts(j, m)
    BY <1>2, <2>0, <2>1 DEF Counts
  <2> QED
    BY <2>0, <2>1, <2>2, <2>3, SettlesRecorded
<1> QED
  BY <1>1, <1>2

LEMMA EasesDiscard ==
    ASSUME NEW s, Kept(s), Books(s), NEW j \in Keys, s.metas[j] # None
    PROVE  Eases(s, discardCachedBytes(s, j))
<1> DEFINE r == RootFor(s.metas[j])
           m == [s.metas[j] EXCEPT !.cached = 0, !.complete = FALSE, !.ranges = {}]
           u == [s EXCEPT !.blob[r][j] = None]
<1>1. r \in Roots /\ s.metas[j] \in Records /\ None \in Files
  BY RecordOf DEF RootFor, Roots, Files
<1>2. m \in Records /\ m.durable = s.metas[j].durable
  BY <1>1, DiscardedRecord
<1>3. m.cached = 0 /\ m.complete = FALSE /\ m.ranges = {} /\ m.derived = s.metas[j].derived
  BY <1>1 DEF Records, Meta
<1>4. discardCachedBytes(s, j) = persistMeta(Accessed(u, j), j, m)
  BY DEF discardCachedBytes
<1>5. Eases(s, u)
  <2> HIDE DEF r
  <2> QED
    BY <1>1, EasesPut
<1>6. u.metas = s.metas
  <2>1. StoreState(s)
    BY DEF Kept
  <2> QED
    BY <2>1 DEF StoreState
<1> HIDE DEF m, u, r
<1>7. Kept(u) /\ Books(u)
  BY <1>5 DEF Eases
<1>8. Counts(j, m)
  <2>1. Cardinality({}) = 0
    BY FS_EmptySet
  <2> QED
    BY <1>3, <2>1 DEF Counts
<1>9. Weight(m) <= Weight(u.metas[j]) /\ m.durable = MetaOf(u, j).durable
  <2>1. m # None /\ s.metas[j].cached \in Nat /\ s.metas[j].derived \in Nat
    BY <1>1, <1>2, StoreAssumption DEF Records, Meta
  <2>2. m.cached + m.derived <= s.metas[j].cached + s.metas[j].derived
    BY <1>3, <2>1
  <2>3. Weight(m) <= Weight(s.metas[j])
    BY <1>2, <2>1, <2>2 DEF Weight
  <2> QED
    BY <1>2, <1>6, <2>3 DEF MetaOf
<1>10. Eases(u, persistMeta(Accessed(u, j), j, m))
  BY <1>2, <1>7, <1>8, <1>9, EasesUpdate
<1> QED
  BY <1>4, <1>5, <1>10, EasesChain

\* What a read of the track looks up.
LEMMA EasesLookup ==
    ASSUME NEW s, Kept(s), Books(s), NEW k \in Keys, NEW o \in Nat
    PROVE  Eases(s, cachedContiguousBytes(s, k, o).s)
<1> DEFINE n == contiguousBytes(MetaOf(s, k).ranges, o)
<1>1. MetaOf(s, k).ranges \in SUBSET Nat /\ IsFiniteSet(MetaOf(s, k).ranges)
  BY RecordOf DEF Records, Meta
<1>2. n \in Nat /\ o..(o + n - 1) \subseteq MetaOf(s, k).ranges
  BY <1>1, Contiguous
<1>3. CASE n = 0
  BY <1>3, EasesSame DEF cachedContiguousBytes
<1>4. CASE n > 0
  <2>1. s.metas[k] # None
    <3>1. o \in MetaOf(s, k).ranges
      BY <1>2, <1>4
    <3> QED
      BY <3>1 DEF MetaOf, newMeta
  <2>2. Eases(s, discardCachedBytes(s, k)) /\ Eases(s, touch(s, k))
    BY <2>1, EasesDiscard, EasesTouch
  <2> QED
    BY <1>4, <2>2 DEF cachedContiguousBytes
<1> QED
  BY <1>2, <1>3, <1>4

LEMMA BooksMove ==
    ASSUME NEW s, Kept(s), Books(s), NEW k \in Keys, NEW from \in Roots, NEW to \in Roots
    PROVE  LET t == moveFile(s, k, from, to)
           IN  Books(t) /\ t.used = s.used /\ t.metas = s.metas
<1>1. StoreState(s) /\ s.blob[from][k] \in Files /\ None \in Files
  BY DEF Kept, StoreState, Files
<1> DEFINE d == [s EXCEPT !.blob[from][k] = None]
           u == [s EXCEPT !.blob[to][k] = s.blob[from][k]]
           Good(t) == Books(t) /\ t.used = s.used /\ t.metas = s.metas
<1>2. StoreState(d) /\ Books(d) /\ d.used = s.used /\ d.metas = s.metas
  BY <1>1, BooksPut
<1>3. StoreState(u) /\ Books(u) /\ u.used = s.used /\ u.metas = s.metas
  BY <1>1, BooksPut
<1>4. Good([u EXCEPT !.blob[from][k] = None])
  <2> DEFINE v == [u EXCEPT !.blob[from][k] = None]
  <2> HIDE DEF u
  <2>1. StoreState(v) /\ Books(v) /\ v.used = u.used /\ v.metas = u.metas
    BY <1>1, <1>3, BooksPut
  <2> QED
    BY <1>3, <2>1
<1> QED
  BY <1>2, <1>4 DEF moveFile

LEMMA BooksDurable ==
    ASSUME NEW s, Kept(s), Books(s), NEW j \in Keys, NEW d \in BOOLEAN
    PROVE  Books(setDurable(s, j, d)) /\ setDurable(s, j, d).used = s.used
<1>1. CASE s.metas[j] = None \/ s.metas[j].durable = d
  BY <1>1 DEF setDurable
<1>2. CASE s.metas[j] # None /\ s.metas[j].durable # d
  <2> DEFINE t == setDurable(s, j, d)
             from == RootFor(s.metas[j])
             u == moveFile(s, j, from, OtherRoot(from))
             v == [u EXCEPT !.metaFile[from][j] = None]
             w == [s.metas[j] EXCEPT !.durable = d]
  <2>0. s.metas[j] \in Records /\ Counts(j, s.metas[j])
    BY <1>2, RecordOf DEF Books
  <2>1. w \in Records /\ w.cached = s.metas[j].cached /\ w.ranges = s.metas[j].ranges /\ w.complete = s.metas[j].complete
    BY <2>0, OneField DEF Records, Meta
  <2>2. from \in Roots /\ OtherRoot(from) \in Roots
    BY DEF RootFor, OtherRoot, Roots
  <2>3. StoreState(u) /\ Books(u) /\ u.used = s.used /\ u.metas = s.metas
    BY <2>2, KeepsMove, BooksMove DEF Kept
  <2>4. t = persistMeta(v, j, w)
    BY <1>2 DEF setDurable, setDurableCuts
  <2> HIDE DEF u, w, from
  <2>5. StoreState(v) /\ Books(v) /\ v.used = u.used /\ v.metas = u.metas
    BY <2>2, <2>3, BooksUnfile
  <2>6. Counts(j, w)
    BY <1>2, <2>0, <2>1 DEF Counts
  <2> HIDE DEF v
  <2> DEFINE x == persistMeta(v, j, w)
  <2>7. /\ StoreState(x) /\ Books(x) /\ x.used = v.used
        /\ x.metas = [v.metas EXCEPT ![j] = w]
    BY <2>1, <2>5, <2>6, BooksPersist
  <2> HIDE DEF t, x
  <2>8. Books(t) /\ t.used = s.used
    BY <2>3, <2>4, <2>5, <2>7 DEF x
  <2> QED
    BY <2>8 DEF t
<1> QED
  BY <1>1, <1>2

\* A pin makes the total no larger; an unpin brings the entry back.
LEMMA SettlesDurable ==
    ASSUME NEW s, Kept(s), Books(s), NEW j \in Keys, NEW d \in BOOLEAN
    PROVE  Settled(s, setDurable(s, j, d))
<1>1. CASE s.metas[j] = None \/ s.metas[j].durable = d
  BY <1>1, EasesSame, EasesSettles DEF setDurable
<1>2. CASE s.metas[j] # None /\ s.metas[j].durable # d
  <2> DEFINE t == setDurable(s, j, d)
  <2>1. /\ t.metas[j] # None /\ t.metas[j].durable = d
        /\ \A i \in Keys : i # j => t.metas[i] = s.metas[i]
    BY <1>2, Pins
  <2>2. Kept(t) /\ Books(t)
    BY KeepsDurable, BooksDurable
  <2>3. s.metas[j].durable \in BOOLEAN
    BY <1>2, RecordOf DEF Records, Meta
  <2> HIDE DEF t
  <2>4. CASE d = TRUE
    <3>1. ASSUME NEW k \in Keys PROVE Weight(t.metas[k]) <= Weight(s.metas[k])
      <4>1. Weight(s.metas[k]) \in Nat
        BY WeightNat
      <4>2. Weight(t.metas[j]) = 0
        BY <2>1, <2>4 DEF Weight
      <4> QED
        BY <2>1, <4>1, <4>2
    <3>2. Lighter(s, t)
      BY <3>1 DEF Lighter
    <3> QED
      BY <2>2, <3>2 DEF Settled, Fits, t
  <2>5. CASE d = FALSE
    <3>1. Returns(s, t)
      BY <1>2, <2>1, <2>3, <2>5 DEF Returns
    <3> QED
      BY <2>2, <3>1 DEF Settled, Fits, t
  <2> QED
    BY <2>4, <2>5
<1> QED
  BY <1>1, <1>2

\* The record of a whole file.
LEMMA WholeCounts ==
    ASSUME NEW m \in Records, NEW k \in Keys, NEW n \in Nat, k # Track => n = SizeOf(k)
    PROVE  /\ Complete(m, n) \in Records /\ Counts(k, Complete(m, n))
           /\ Complete(m, n).durable = m.durable /\ Complete(m, n).derived = m.derived
           /\ Complete(m, n).cached = n
<1> DEFINE c == Complete(m, n)
<1>1. c \in Records /\ c.durable = m.durable
  BY CompleteRecord
<1>2. c.ranges = 0..(n - 1) /\ c.cached = n /\ c.derived = m.derived
  BY DEF Complete, Records, Meta
<1>3. Cardinality(0..(n - 1)) = n
  <2>1. Cardinality(0..(n - 1)) = IF 0 > n - 1 THEN 0 ELSE (n - 1) - 0 + 1
    BY FS_Interval
  <2> QED
    BY <2>1
<1> HIDE DEF c
<1>4. Counts(k, c)
  BY <1>2, <1>3 DEF Counts
<1> QED
  BY <1>1, <1>2, <1>4 DEF c

\* A whole file put for another key than the track, and its record.
LEMMA PutBooks ==
    ASSUME NEW s, Kept(s), Books(s), NEW k \in Keys, NEW r \in Roots, NEW m \in Records,
           m.durable = MetaOf(s, k).durable, Counts(k, m)
    PROVE  LET t == persistMeta(Accessed([s EXCEPT !.blob[r][k] = WholeFile(k)], k), k, m)
           IN  Kept(t) /\ Books(t) /\ t.used[Len(t.used)] = k
<1> DEFINE u == [s EXCEPT !.blob[r][k] = WholeFile(k)]
<1>1. WholeFile(k) \in Files
  BY Whole
<1>2. StoreState(u) /\ Books(u) /\ u.used = s.used /\ u.metas = s.metas
  <2>1. StoreState(s)
    BY DEF Kept
  <2> QED
    BY <1>1, <2>1, BooksPut
<1>3. Kept(u)
  BY <1>1, KeepsPut
<1> HIDE DEF u
<1>4. m.durable = MetaOf(u, k).durable
  BY <1>2 DEF MetaOf
<1> DEFINE t == persistMeta(Accessed(u, k), k, m)
<1>5. /\ Kept(t) /\ Books(t) /\ t.used[Len(t.used)] = k
      /\ t.metas = [u.metas EXCEPT ![k] = m]
  BY <1>2, <1>3, <1>4, BooksUpdate
<1> QED
  BY <1>5 DEF u

LEMMA SettlesAdopt ==
    ASSUME NEW s, Kept(s), Books(s), NEW k \in Others, NEW d \in BOOLEAN, limitBytes \in Nat
    PROVE  Settled(s, adoptCompleteFile(s, k, d))
<1> DEFINE r == RootFor(s.metas[k])
           m == Complete(MetaOf(s, k), SizeOf(k))
           a == persistMeta(Accessed([s EXCEPT !.blob[r][k] = WholeFile(k)], k), k, m)
           w == IF d THEN setDurable(a, k, TRUE) ELSE a
<1>1. r \in Roots /\ k \in Keys /\ k # Track
  BY DEF RootFor, Roots, Others
<1>2. m \in Records /\ m.durable = MetaOf(s, k).durable /\ Counts(k, m)
  <2>1. MetaOf(s, k) \in Records /\ SizeOf(k) \in Nat
    BY <1>1, RecordOf, StoreAssumption
  <2> QED
    BY <1>1, <2>1, WholeCounts
<1>3. adoptCompleteFile(s, k, d) = evictTo(w, {k}, limitBytes)
  BY DEF adoptCompleteFile, evictToFit
<1> HIDE DEF r, m
<1>4. Kept(a) /\ Books(a) /\ a.used[Len(a.used)] = k
  BY <1>1, <1>2, PutBooks
<1> HIDE DEF a
<1>5. Kept(w) /\ Books(w) /\ w.used[Len(w.used)] = k
  BY <1>1, <1>4, KeepsDurable, BooksDurable
<1> HIDE DEF w
<1>6. {k} \subseteq {w.used[Len(w.used)]}
  BY <1>5
<1> QED
  BY <1>3, <1>5, <1>6, SettlesEvict

LEMMA SettlesRegister ==
    ASSUME NEW s, Kept(s), Books(s), NEW k \in Others, limitBytes \in Nat
    PROVE  Settled(s, registerComplete(s, k))
<1> DEFINE m == [MetaOf(s, k) EXCEPT !.complete = TRUE, !.cached = SizeOf(k), !.total = SizeOf(k)]
           r == "evictable"
           t == persistMeta(Accessed([s EXCEPT !.blob[r][k] = WholeFile(k)], k), k, m)
<1>1. r \in Roots /\ k \in Keys /\ k # Track
  BY DEF Roots, Others
<1>2. m \in Records /\ m.durable = MetaOf(s, k).durable
  BY <1>1, RecordOf, StoreAssumption, RegisteredRecord
<1>3. m.cached = SizeOf(k)
  BY <1>1, RecordOf DEF Records, Meta
<1>4. registerComplete(s, k) = evictTo(t, {}, limitBytes)
  BY DEF registerComplete, evictToFit
<1> HIDE DEF m, r
<1>5. Counts(k, m)
  BY <1>1, <1>3 DEF Counts
<1>6. Kept(t) /\ Books(t) /\ t.used[Len(t.used)] = k
  <2>1. k \in Keys /\ r \in Roots /\ m \in Records
    BY <1>1, <1>2
  <2>2. m.durable = MetaOf(s, k).durable /\ Counts(k, m)
    BY <1>2, <1>5
  <2> QED
    BY <2>1, <2>2, PutBooks, SMTT(30)
<1> HIDE DEF t
<1>7. {} \subseteq {t.used[Len(t.used)]}
  OBVIOUS
<1> QED
  BY <1>4, <1>6, <1>7, SettlesEvict

\* A finished download is pinned: it counts for nothing.
LEMMA SettlesIngest ==
    ASSUME NEW s, Kept(s), Books(s), NEW k \in Keys
    PROVE  Settled(s, ingestCompleteFile(s, k))
<1> DEFINE c == Complete(MetaOf(s, k), SizeOf(k))
           m == [c EXCEPT !.durable = TRUE]
           u == [s EXCEPT !.blob["durable"][k] = WholeFile(k)]
           v == Accessed(u, k)
           t == persistMeta(v, k, m)
<1>1. "durable" \in Roots /\ WholeFile(k) \in Files /\ StoreState(s)
  BY Whole DEF Roots, Kept
<1>2. c \in Records /\ Counts(k, c) /\ c # None
  <2>1. MetaOf(s, k) \in Records /\ SizeOf(k) \in Nat
    BY RecordOf, StoreAssumption
  <2>2. c \in Records /\ Counts(k, c)
    BY <2>1, WholeCounts
  <2> QED
    BY <2>2, StoreAssumption DEF Records
<1>3. /\ m \in Records /\ m.durable = TRUE
      /\ m.cached = c.cached /\ m.ranges = c.ranges /\ m.complete = c.complete
  <2> HIDE DEF c
  <2> QED
    BY <1>2, OneField DEF Records, Meta
<1>4. t = ingestCompleteFile(s, k)
  BY DEF ingestCompleteFile
<1> HIDE DEF c, m
<1>5. Counts(k, m) /\ Weight(m) = 0 /\ m \in Known
  BY <1>2, <1>3 DEF Counts, Weight, Known
<1>6. StoreState(u) /\ Books(u) /\ u.used = s.used /\ u.metas = s.metas
  BY <1>1, BooksPut
<1> HIDE DEF u
<1>7. StoreState(v) /\ Books(v) /\ v.metas = u.metas
  <2>1. /\ StoreState(v) /\ Books(v) /\ v.metas = u.metas
        /\ v.used[Len(v.used)] = k
    BY <1>6, BooksAccess
  <2> QED
    BY <2>1
<1> HIDE DEF v
<1>8. /\ StoreState(t) /\ Books(t) /\ t.used = v.used
      /\ t.metas = [v.metas EXCEPT ![k] = m]
  BY <1>3, <1>5, <1>7, BooksPersist
<1> HIDE DEF t
<1>9. Kept(t)
  BY <1>4, KeepsIngest
<1>10. Weight(m) <= Weight(s.metas[k])
  <2>1. Weight(s.metas[k]) \in Nat
    BY WeightNat
  <2> QED
    BY <1>5, <2>1
<1>11. Lighter(s, t)
  BY <1>5, <1>6, <1>7, <1>8, <1>10, LighterOne
<1> QED
  BY <1>4, <1>8, <1>9, <1>11, EasesSettles DEF Eases

LEMMA EasesRemove ==
    ASSUME NEW s, Kept(s), Books(s), NEW K
    PROVE  Eases(s, removeKeys(s, K))
<1>1. Kept(removeKeys(s, K))
  BY KeepsRemove
<1>2. Books(removeKeys(s, K)) /\ removeKeys(s, K).used = s.used /\ Lighter(s, removeKeys(s, K))
  BY BooksRemove
<1> QED
  BY <1>1, <1>2 DEF Eases

\* The size of a complete file is what its record counts, unless two writes of
\* one handle have made the file of the track longer.
LEMMA CompleteBooks ==
    ASSUME NEW s, Kept(s), Books(s), WholeBlobs(s), NEW j \in Keys,
           s.metas[j] # None, s.metas[j].complete
    PROVE  LET t == completeFileURL(s, j)
           IN  /\ Kept(t) /\ Books(t)
               /\ j # Track \/ HonestStore(s) => Eases(s, t)
<1> DEFINE r == RootFor(s.metas[j])
           size == FileSize(s.blob[r][j])
           c == Complete(s.metas[j], size)
           u == persistMeta(s, j, c)
<1>0. s.metas[j] \in Records /\ MetaOf(s, j) = s.metas[j] /\ Counts(j, s.metas[j]) /\ r \in Roots
  BY RecordOf, CountsOf DEF RootFor, Roots
<1>1. size \in Nat
  BY <1>0, SizeNat DEF Kept, StoreState
<1>2. CASE size = 0
  <2>1. Eases(s, discardCachedBytes(s, j))
    BY EasesDiscard
  <2> QED
    BY <1>2, <2>1 DEF completeFileURL, Eases
<1>3. CASE size > 0 /\ completeFileURL(s, j) = touch(s, j)
  <2>1. Eases(s, touch(s, j))
    BY EasesTouch
  <2> QED
    BY <1>3, <2>1 DEF Eases
<1>4. CASE size > 0 /\ completeFileURL(s, j) = touch(u, j)
  <2>1. j # Track => size = SizeOf(j)
    <3>1. SUFFICES ASSUME j # Track PROVE size = SizeOf(j)
      OBVIOUS
    <3>2. s.blob[r][j] \in {None, WholeFile(j)}
      BY <1>0, <3>1 DEF WholeBlobs, Others
    <3>3. s.blob[r][j] # None
      BY <1>4 DEF FileSize
    <3> QED
      BY <3>2, <3>3, Whole
  <2>2. /\ c \in Records /\ Counts(j, c)
        /\ c.durable = s.metas[j].durable /\ c.derived = s.metas[j].derived
        /\ c.cached = size
    <3> HIDE DEF size
    <3> QED
      BY <1>0, <1>1, <2>1, WholeCounts
  <2>3. completeFileURL(s, j) = touch(u, j)
    BY <1>4
  <2> HIDE DEF c
  <2>4. Kept(u) /\ Books(u)
    <3>1. c.durable \/ s.metaFile["durable"][j] = None
      BY <1>0, <2>2, RecordOf
    <3>2. Kept(u)
      BY <2>2, <3>1, KeepsPersist
    <3>3. /\ StoreState(u) /\ Books(u) /\ u.used = s.used
          /\ u.metas = [s.metas EXCEPT ![j] = c]
      <4>1. StoreState(s)
        BY DEF Kept
      <4> QED
        BY <2>2, <4>1, BooksPersist
    <3> QED
      BY <3>2, <3>3
  <2>5. Eases(u, touch(u, j))
    <3> HIDE DEF u
    <3> QED
      BY <2>4, EasesTouch
  <2>6. j # Track \/ HonestStore(s) => Eases(s, u)
    <3>1. SUFFICES ASSUME j # Track \/ HonestStore(s) PROVE Eases(s, u)
      OBVIOUS
    <3>2. size <= s.metas[j].cached
      <4>1. CASE j # Track
        BY <1>0, <1>1, <2>1, <4>1 DEF Counts
      <4>2. CASE j = Track
        <5>1. FileSize(IF s.metas[j].durable THEN s.blob["durable"][j] ELSE s.blob["evictable"][j]) <= Length
              /\ Chunks \subseteq s.metas[j].ranges
          BY <1>0, <3>1, <4>2 DEF HonestStore, Honest
        <5>2. size <= Length
          BY <5>1 DEF RootFor
        <5>3. IsFiniteSet(s.metas[j].ranges) /\ s.metas[j].cached = Cardinality(s.metas[j].ranges)
          BY <1>0, <4>2 DEF Records, Counts
        <5>4. Cardinality(Chunks) = Length
          <6>1. Length \in Nat /\ 0 \in Int /\ Length - 1 \in Int
            BY LengthNat
          <6>2. Cardinality(0..(Length - 1)) = IF 0 > Length - 1 THEN 0 ELSE (Length - 1) - 0 + 1
            BY <6>1, FS_Interval
          <6> QED
            BY <6>1, <6>2 DEF Chunks
        <5>5. Cardinality(Chunks) <= Cardinality(s.metas[j].ranges)
          BY <5>1, <5>3, FS_Subset
        <5>6. Cardinality(s.metas[j].ranges) \in Nat /\ Length \in Nat
          BY <5>3, FS_CardinalityType, LengthNat
        <5> HIDE DEF size
        <5> QED
          BY <1>1, <5>2, <5>3, <5>4, <5>5, <5>6
      <4> QED
        BY <4>1, <4>2
    <3>3. Weight(c) <= Weight(s.metas[j])
      <4>1. c # None
        BY <2>2, StoreAssumption DEF Records
      <4>2. s.metas[j].cached \in Nat /\ s.metas[j].derived \in Nat
        BY <1>0 DEF Records, Meta
      <4>3. c.cached + c.derived <= s.metas[j].cached + s.metas[j].derived
        <5> HIDE DEF size
        <5> QED
          BY <1>1, <2>2, <3>2, <4>2
      <4>4. s.metas[j] # None
        OBVIOUS
      <4>5. CASE s.metas[j].durable = FALSE
        <5>1. Weight(c) = c.cached + c.derived
          BY <2>2, <4>1, <4>5 DEF Weight
        <5>2. Weight(s.metas[j]) = s.metas[j].cached + s.metas[j].derived
          BY <4>4, <4>5 DEF Weight
        <5> QED
          BY <4>3, <5>1, <5>2
      <4>6. CASE s.metas[j].durable # FALSE
        <5>1. Weight(c) = 0 /\ Weight(s.metas[j]) = 0
          BY <2>2, <4>6 DEF Weight
        <5> QED
          BY <5>1
      <4> QED
        BY <4>5, <4>6
    <3> QED
      BY <1>0, <2>2, <3>3, EasesUpdate
  <2> HIDE DEF u
  <2>7. j # Track \/ HonestStore(s) => Eases(s, touch(u, j))
    BY <2>5, <2>6, EasesChain
  <2> QED
    BY <2>3, <2>5, <2>7 DEF Eases
<1>5. size > 0 => completeFileURL(s, j) = touch(s, j) \/ completeFileURL(s, j) = touch(u, j)
  BY DEF completeFileURL
<1>6. size = 0 \/ size > 0
  <2> HIDE DEF size
  <2> QED
    BY <1>1
<1> QED
  BY <1>2, <1>3, <1>4, <1>5, <1>6

-----------------------------------------------------------------------------
(* The steps *)

Solvent == Books(Now) /\ limitBytes \in Limits

\* What BudgetKept says of one step.
Budget ==
    LET total == CachedTotal(Now)
        spared(k) == k \in protectedKeys' \/ (k = used'[Len(used')] /\ limitBytes' = limitBytes)
    IN  /\ limitBytes' > 0 /\ total' > limitBytes'
        /\ total' > total \/ limitBytes' # limitBytes
        => \/ \E k \in Keys : Tier(k, TRUE) /\ Tier(k, FALSE)'
           \/ \A k \in Entries(Now, FALSE)' : spared(k)
           \/ history.disturbed /\ CompleteURL(Track)

Pays == Solvent' /\ Budget

LEMMA NowIs ==
    ASSUME NEW t, Kept(t), Becomes(t)
    PROVE  Now' = t
  BY DEF Kept, Becomes, StoreState, Now

LEMMA Arrived ==
    ASSUME NEW t, Kept(t), Becomes(t)
    PROVE  /\ CachedTotal(Now)' = CachedTotal(t) /\ Entries(Now, FALSE)' = Entries(t, FALSE)
           /\ Books(Now)' <=> Books(t)
<1>1. Now' = t
  BY NowIs
<1> QED
  BY <1>1

LEMMA ReturnsTier ==
    ASSUME NEW t, Becomes(t), Returns(Now, t)
    PROVE  \E k \in Keys : Tier(k, TRUE) /\ Tier(k, FALSE)'
<1>1. PICK k \in Keys : /\ metas[k] # None /\ metas[k].durable = TRUE
                        /\ t.metas[k] # None /\ t.metas[k].durable = FALSE
  BY DEF Returns, Now
<1>2. metas' = t.metas
  BY DEF Becomes
<1> QED
  BY <1>1, <1>2 DEF Tier

LEMMA Paid ==
    ASSUME Kept(Now), Solvent, NEW t, Settled(Now, t), Becomes(t),
           UNCHANGED <<limitBytes, protectedKeys>>
    PROVE  Pays
<1>1. Kept(t) /\ Books(t)
  BY DEF Settled
<1>2. /\ CachedTotal(Now)' = CachedTotal(t) /\ Entries(Now, FALSE)' = Entries(t, FALSE)
      /\ Books(Now)' <=> Books(t)
  BY <1>1, Arrived
<1>3. Solvent'
  BY <1>1, <1>2 DEF Solvent
<1>4. CachedTotal(Now) \in Nat /\ CachedTotal(t) \in Nat /\ limitBytes \in Nat
  BY <1>1, CachedNat, StoreAssumption DEF Solvent
<1>5. CASE Lighter(Now, t)
  <2>1. CachedTotal(t) <= CachedTotal(Now)
    BY <1>1, <1>5, LighterTotal
  <2>2. ~(CachedTotal(Now)' > CachedTotal(Now) \/ limitBytes' # limitBytes)
    BY <1>2, <1>4, <2>1
  <2> QED
    BY <1>3, <2>2 DEF Pays, Budget
<1>6. CASE Returns(Now, t)
  BY <1>3, <1>6, ReturnsTier DEF Pays, Budget
<1>7. CASE limitBytes > 0 => CachedTotal(t) <= limitBytes
  <2>1. ~(limitBytes' > 0 /\ CachedTotal(Now)' > limitBytes')
    BY <1>2, <1>4, <1>7
  <2> QED
    BY <1>3, <2>1 DEF Pays, Budget
<1>8. CASE Entries(t, FALSE) \subseteq protectedKeys \union {t.used[Len(t.used)]}
  <2>1. used' = t.used /\ limitBytes' = limitBytes /\ protectedKeys' = protectedKeys
    BY DEF Becomes
  <2>2. \A k \in Entries(Now, FALSE)' : k \in protectedKeys' \/ (k = used'[Len(used')] /\ limitBytes' = limitBytes)
    BY <1>2, <1>8, <2>1
  <2> QED
    BY <1>3, <2>2 DEF Pays, Budget
<1> QED
  BY <1>5, <1>6, <1>7, <1>8 DEF Settled, Fits

\* A step that adds nothing to any entry, whatever becomes of the protection.
LEMMA PaidLight ==
    ASSUME Kept(Now), Solvent, NEW t, Kept(t), Books(t), Becomes(t), limitBytes' = limitBytes,
           Lighter(Now, t) \/ Returns(Now, t)
    PROVE  Pays
<1>2. /\ CachedTotal(Now)' = CachedTotal(t) /\ Entries(Now, FALSE)' = Entries(t, FALSE)
      /\ Books(Now)' <=> Books(t)
  BY Arrived
<1>3. Solvent'
  BY <1>2 DEF Solvent
<1>4. CachedTotal(Now) \in Nat /\ CachedTotal(t) \in Nat
  BY CachedNat
<1>5. CASE Lighter(Now, t)
  <2>1. CachedTotal(t) <= CachedTotal(Now)
    BY <1>5, LighterTotal
  <2>2. ~(CachedTotal(Now)' > CachedTotal(Now) \/ limitBytes' # limitBytes)
    BY <1>2, <1>4, <2>1
  <2> QED
    BY <1>3, <2>2 DEF Pays, Budget
<1>6. CASE Returns(Now, t)
  BY <1>3, <1>6, ReturnsTier DEF Pays, Budget
<1> QED
  BY <1>5, <1>6

LEMMA PaidEased ==
    ASSUME Kept(Now), Solvent, NEW t, Eases(Now, t), Becomes(t), limitBytes' = limitBytes
    PROVE  Pays
  BY PaidLight DEF Eases

LEMMA PaidSame ==
    ASSUME Kept(Now), Solvent, UNCHANGED <<metas, metaFile, blob, used>>, limitBytes' = limitBytes
    PROVE  Pays
<1>1. Becomes(Now)
  BY DEF Becomes, Now
<1>2. Eases(Now, Now)
  BY EasesSame DEF Solvent
<1> QED
  BY <1>1, <1>2, PaidEased

\* A new limit evicts down to it, and exempts nothing.
LEMMA LimitPays ==
    ASSUME Kept(Now), Solvent, setLimit
    PROVE  Pays
<1>1. PICK n \in Limits : limitBytes' = n /\ protectedKeys' = protectedKeys /\ Becomes(evictTo(Now, {}, n))
  BY DEF setLimit
<1> DEFINE t == evictTo(Now, {}, n)
<1>2. n \in Nat
  BY <1>1, StoreAssumption
<1>3. Kept(t)
  BY KeepsEvict
<1>4. Books(t)
  <2>1. Books(Now)
    BY DEF Solvent
  <2>2. \/ t = Now
        \/ \E G : t = removeKeys(Now, G)
    BY DEF evictTo, Evicted
  <2>3. \A G : Books(removeKeys(Now, G)) /\ removeKeys(Now, G).used = Now.used /\ Lighter(Now, removeKeys(Now, G))
    BY <2>1, BooksRemove
  <2> HIDE DEF t
  <2> QED
    BY <2>1, <2>2, <2>3
<1>5. n > 0 => CachedTotal(t) <= n \/ Entries(t, FALSE) \subseteq protectedKeys \union {}
  <2>1. Ordered(Now.used)
    BY DEF Solvent, Books
  <2> QED
    BY <1>2, <2>1, EvictsEnough
<1> HIDE DEF t
<1>6. /\ CachedTotal(Now)' = CachedTotal(t) /\ Entries(Now, FALSE)' = Entries(t, FALSE)
      /\ Books(Now)' <=> Books(t)
  BY <1>1, <1>3, Arrived DEF t
<1>7. Solvent'
  BY <1>1, <1>4, <1>6 DEF Solvent
<1>8. CachedTotal(t) \in Nat
  BY <1>3, CachedNat
<1>9. CASE n > 0 => CachedTotal(t) <= n
  <2>1. ~(limitBytes' > 0 /\ CachedTotal(Now)' > limitBytes')
    BY <1>1, <1>2, <1>6, <1>8, <1>9
  <2> QED
    BY <1>7, <2>1 DEF Pays, Budget
<1>10. CASE Entries(t, FALSE) \subseteq protectedKeys
  <2>1. \A k \in Entries(Now, FALSE)' : k \in protectedKeys' \/ (k = used'[Len(used')] /\ limitBytes' = limitBytes)
    BY <1>1, <1>6, <1>10
  <2> QED
    BY <1>7, <2>1 DEF Pays, Budget
<1> QED
  BY <1>5, <1>9, <1>10

-----------------------------------------------------------------------------
(* A crash *)

\* t is a disk that a crash can leave of s: no record is new.
CutOf(s, t) == /\ StoreState(t) /\ t.used = s.used
               /\ \A r \in Roots, k \in Keys : t.metaFile[r][k] \in {None, s.metaFile[r][k]}

LEMMA CutSame ==
    ASSUME NEW s, StoreState(s)
    PROVE  CutOf(s, s)
  BY DEF CutOf

LEMMA CutPut ==
    ASSUME NEW s, NEW t, CutOf(s, t), NEW k \in Keys, NEW r \in Roots, NEW f \in Files
    PROVE  CutOf(s, [t EXCEPT !.blob[r][k] = f])
<1> DEFINE u == [t EXCEPT !.blob[r][k] = f]
<1>1. StoreState(t)
  BY DEF CutOf
<1>2. /\ StoreState(u)
      /\ u.metas = t.metas /\ u.metaFile = t.metaFile
      /\ u.blob = [t.blob EXCEPT ![r] = [@ EXCEPT ![k] = f]]
  BY <1>1, Puts
<1>3. u.used = t.used
  BY <1>1 DEF StoreState
<1> HIDE DEF u
<1>4. CutOf(s, u)
  BY <1>2, <1>3 DEF CutOf
<1> QED
  BY <1>4 DEF u

LEMMA CutUnfile ==
    ASSUME NEW s, NEW t, CutOf(s, t), NEW k \in Keys, NEW r \in Roots
    PROVE  CutOf(s, [t EXCEPT !.metaFile[r][k] = None])
<1> DEFINE u == [t EXCEPT !.metaFile[r][k] = None]
<1>1. StoreState(t)
  BY DEF CutOf
<1>2. /\ StoreState(u)
      /\ u.metas = t.metas /\ u.blob = t.blob
      /\ u.metaFile = [t.metaFile EXCEPT ![r] = [@ EXCEPT ![k] = None]]
  BY <1>1, Unfiles
<1>3. u.used = t.used /\ t.metaFile \in [Roots -> [Keys -> Known]]
  BY <1>1 DEF StoreState
<1> HIDE DEF u
<1>4. \A q \in Roots, j \in Keys : u.metaFile[q][j] = None \/ u.metaFile[q][j] = t.metaFile[q][j]
  BY <1>2, <1>3
<1>5. CutOf(s, u)
  BY <1>2, <1>3, <1>4 DEF CutOf
<1> QED
  BY <1>5 DEF u

LEMMA CutMove ==
    ASSUME NEW s, NEW t, CutOf(s, t), NEW k \in Keys, NEW from \in Roots, NEW to \in Roots
    PROVE  CutOf(s, moveFile(t, k, from, to))
<1>1. StoreState(t) /\ t.blob[from][k] \in Files /\ None \in Files
  BY DEF CutOf, StoreState, Files
<1> DEFINE d == [t EXCEPT !.blob[from][k] = None]
           u == [t EXCEPT !.blob[to][k] = t.blob[from][k]]
<1>2. CutOf(s, d)
  BY <1>1, CutPut
<1>3. CutOf(s, u)
  BY <1>1, CutPut
<1>4. CutOf(s, [u EXCEPT !.blob[from][k] = None])
  <2> HIDE DEF u
  <2> QED
    BY <1>1, <1>3, CutPut
<1> QED
  BY <1>2, <1>4 DEF moveFile

LEMMA CutsOf ==
    ASSUME NEW s, StoreState(s), NEW j \in Keys
    PROVE  /\ \A i \in 1..2 : CutOf(s, setDurableCuts(s, j)[i])
           /\ \A i \in 1..3 : CutOf(s, removeCuts(s, j)[i])
           /\ \A i \in 1..2 : CutOf(s, ingestCuts(s, j)[i])
<1> DEFINE e == "evictable"
           g == "durable"
           a == [s EXCEPT !.blob[e][j] = None]
           b == [a EXCEPT !.metaFile[e][j] = None]
           c == [b EXCEPT !.blob[g][j] = None]
           x == [s EXCEPT !.blob[g][j] = None]
           y == [s EXCEPT !.blob[g][j] = WholeFile(j)]
           from == RootFor(s.metas[j])
           m == moveFile(s, j, from, OtherRoot(from))
           n == [m EXCEPT !.metaFile[from][j] = None]
<1>1. CutOf(s, s) /\ None \in Files /\ WholeFile(j) \in Files
  BY CutSame, Whole DEF Files
<1>2. e \in Roots /\ g \in Roots /\ from \in Roots /\ OtherRoot(from) \in Roots
  BY DEF Roots, RootFor, OtherRoot
<1>3. removeCuts(s, j) = <<a, b, c>> /\ ingestCuts(s, j) = <<x, y>> /\ setDurableCuts(s, j) = <<m, n>>
  BY DEF removeCuts, ingestCuts, setDurableCuts
<1> HIDE DEF e, g, from
<1>4. CutOf(s, a) /\ CutOf(s, x)
  BY <1>1, <1>2, CutPut
<1>5. CutOf(s, y)
  BY <1>1, <1>2, CutPut
<1>6. CutOf(s, m)
  BY <1>1, <1>2, CutMove
<1> HIDE DEF a, x, y, m
<1>7. CutOf(s, b) /\ CutOf(s, n)
  BY <1>2, <1>4, <1>6, CutUnfile
<1> HIDE DEF b, n
<1>8. CutOf(s, c)
  BY <1>1, <1>2, <1>7, CutPut
<1> HIDE DEF c
<1>9. \A i \in 1..3 : CutOf(s, removeCuts(s, j)[i])
  <2>1. \A i \in 1..3 : i = 1 \/ i = 2 \/ i = 3
    OBVIOUS
  <2>2. <<a, b, c>>[1] = a /\ <<a, b, c>>[2] = b /\ <<a, b, c>>[3] = c
    OBVIOUS
  <2> QED
    BY <1>3, <1>4, <1>7, <1>8, <2>1, <2>2
<1>10. (\A i \in 1..2 : CutOf(s, ingestCuts(s, j)[i])) /\ \A i \in 1..2 : CutOf(s, setDurableCuts(s, j)[i])
  <2>1. \A i \in 1..2 : i = 1 \/ i = 2
    OBVIOUS
  <2>2. <<x, y>>[1] = x /\ <<x, y>>[2] = y /\ <<m, n>>[1] = m /\ <<m, n>>[2] = n
    OBVIOUS
  <2> QED
    BY <1>3, <1>4, <1>5, <1>6, <1>7, <2>1, <2>2
<1> QED
  BY <1>9, <1>10

\* A new process that finds no record the old one did not have holds nothing
\* that counts for more, unless a pinned entry has come back.
LEMMA RestartPays ==
    ASSUME Kept(Now), Solvent, NEW s, CutOf(Now, s), \A k \in Keys : Apart(s, k), Restart(s)
    PROVE  Pays
<1> DEFINE t == [s EXCEPT !.metas = loadMetas(s)]
<1>1. Kept(t)
  BY Reloads DEF CutOf
<1>2. StoreState(s) /\ s.used = Now.used
  BY DEF CutOf
<1>3. t.used = Now.used /\ t.metaFile = s.metaFile
  BY <1>2 DEF StoreState
<1>4. t.metas = loadMetas(s)
  BY <1>2 DEF StoreState
<1>5. Becomes(t) /\ limitBytes' = limitBytes
  BY DEF Restart
<1> HIDE DEF t
<1>6. \A r \in Roots, k \in Keys : s.metaFile[r][k] \in {None, Now.metaFile[r][k]}
  BY DEF CutOf
<1>7. \A k \in Keys : t.metas[k] = IF s.metaFile["durable"][k] # None THEN s.metaFile["durable"][k]
                                   ELSE s.metaFile["evictable"][k]
  BY <1>4 DEF loadMetas
<1>8. Books(t)
  <2>1. \A r \in Roots, k \in Keys : Counts(k, Now.metaFile[r][k])
    BY DEF Solvent, Books
  <2>2. \A r \in Roots, k \in Keys : Counts(k, s.metaFile[r][k])
    BY <1>6, <2>1 DEF Counts
  <2>3. \A k \in Keys : Counts(k, t.metas[k])
    BY <1>7, <2>2 DEF Roots
  <2> QED
    BY <1>3, <2>2, <2>3 DEF Books, Solvent
<1>9. ASSUME NEW k \in Keys
      PROVE  \/ Weight(t.metas[k]) <= Weight(Now.metas[k])
             \/ Now.metas[k] # None /\ Now.metas[k].durable = TRUE /\ t.metas[k] # None /\ t.metas[k].durable = FALSE
  <2>1. Agrees(Now, k) /\ Weight(Now.metas[k]) \in Nat
    BY WeightNat DEF Kept
  <2>2. "durable" \in Roots /\ "evictable" \in Roots
    BY DEF Roots
  <2>3. CASE t.metas[k] = Now.metas[k]
    BY <2>1, <2>3
  <2>4. CASE t.metas[k] # Now.metas[k] /\ Now.metaFile["durable"][k] # None
    <3>1. Now.metas[k] # None /\ Now.metas[k].durable
      BY <2>1, <2>4 DEF Agrees, Apart
    <3>2. Now.metas[k].durable = TRUE
      BY <3>1, RecordOf DEF Records, Meta
    <3>3. CASE t.metas[k] # None /\ t.metas[k].durable = FALSE
      BY <3>1, <3>2, <3>3
    <3>4. CASE ~(t.metas[k] # None /\ t.metas[k].durable = FALSE)
      <4>1. Weight(t.metas[k]) = 0
        BY <3>4 DEF Weight
      <4> QED
        BY <2>1, <4>1
    <3> QED
      BY <3>3, <3>4
  <2>5. CASE t.metas[k] # Now.metas[k] /\ Now.metaFile["durable"][k] = None
    <3>1. s.metaFile["durable"][k] = None
      BY <1>6, <2>2, <2>5
    <3>2. t.metas[k] = None
      BY <1>6, <1>7, <2>1, <2>2, <2>5, <3>1 DEF Agrees
    <3>3. Weight(t.metas[k]) = 0
      BY <3>2 DEF Weight
    <3> QED
      BY <2>1, <3>3
  <2> QED
    BY <2>3, <2>4, <2>5
<1>10. Lighter(Now, t) \/ Returns(Now, t)
  BY <1>9 DEF Lighter, Returns
<1> QED
  BY <1>1, <1>5, <1>8, <1>10, PaidLight

-----------------------------------------------------------------------------
(* Every step *)

LEMMA CreatedEases ==
    ASSUME Kept(Now), Books(Now), NEW r \in Roots
    PROVE  Eases(Now, Created(r))
<1>1. Track \in Keys /\ <<>> \in Files
  BY LengthNat DEF Files
<1>2. Eases(Now, [Now EXCEPT !.blob[r][Track] = <<>>]) /\ Eases(Now, Now)
  BY <1>1, EasesPut, EasesSame
<1> QED
  BY <1>2 DEF Created

LEMMA StepPays ==
    ASSUME Safe, Solvent, NEW t \in Tasks, Step(t)
    PROVE  Pays
<1>0. Kept(Now) /\ Books(Now) /\ Track \in Keys /\ limitBytes \in Nat
  BY LengthNat, StoreAssumption DEF Safe, Solvent
<1>1. ASSUME UNCHANGED storeVars PROVE Pays
  BY <1>0, <1>1, PaidSame DEF storeVars
<1>2. ASSUME Call(Now) PROVE Pays
  BY <1>0, <1>2, EasesSame, PaidEased DEF Call
<1>3. ASSUME NEW n \in Nat, Call(setContentLength(Now, Track, n)) PROVE Pays
  BY <1>0, <1>3, EasesLength, PaidEased DEF Call
<1>4. ASSUME NEW R \in SUBSET Nat, IsFiniteSet(R), Call(recordWrite(Now, Track, R)) PROVE Pays
  BY <1>0, <1>4, SettlesWrite, Paid DEF Call
<1>5. task[t].cursor \in Nat /\ task[t].n \in Nat /\ task[t].total \in Nat /\ task[t].root \in Roots
  BY DEF Safe, Tasked, TaskState
<1>6. CASE Request(t) \/ Path(t) \/ Fail(t) \/ Read(t) \/ Seek(t)
  BY <1>1, <1>6 DEF Request, Path, Fail, Read, Seek, Local
<1>7. CASE Probe(t)
  BY <1>2, <1>3, <1>7, LengthNat DEF Probe, Await
<1>8. CASE Create(t)
  BY <1>0, <1>5, <1>8, CreatedEases, PaidEased DEF Create, Await, Call
<1>9. CASE Lookup(t)
  <2>1. ASSUME Call(cachedContiguousBytes(Now, Track, task[t].cursor).s) PROVE Pays
    BY <1>0, <1>5, <2>1, EasesLookup, PaidEased DEF Call
  <2> QED
    BY <1>2, <1>9, <2>1 DEF Lookup, Await
<1>10. CASE Ask(t)
  <2>1. CacheTotal \in Nat /\ Length \in Nat
    BY <1>0, TotalNat, LengthNat
  <2> QED
    BY <1>1, <1>2, <1>3, <1>5, <1>10, <2>1 DEF Ask, Await, Local
<1>11. CASE Record(t)
  <2> DEFINE top == IF task[t].pc = "body" THEN task[t].cursor - 1 ELSE task[t].n - 1
  <2>1. top \in Nat
    <3>1. Placed(task[t]) /\ task[t].from \in Nat /\ task[t].bodyEnd \in Nat
      BY DEF Safe, Tasked, TaskState
    <3>2. (task[t].pc = "body" /\ task[t].cursor = task[t].bodyEnd) \/ task[t].pc = "record"
      BY <1>11 DEF Record
    <3> QED
      BY <1>5, <3>1, <3>2 DEF Placed
  <2>2. Call(recordWrite(Now, Track, {top}))
    BY <1>11 DEF Record, Await
  <2> HIDE DEF top
  <2>3. {top} \in SUBSET Nat /\ IsFiniteSet({top})
    BY <2>1, FS_Singleton
  <2> QED
    BY <1>4, <2>2, <2>3
<1>12. CASE RecordWhole(t)
  <2>1. 0..(task[t].cursor - 1) \in SUBSET Nat /\ IsFiniteSet(0..(task[t].cursor - 1))
    <3>1. task[t].cursor - 1 \in Int /\ \A x \in 0..(task[t].cursor - 1) : x \in Nat
      BY <1>5
    <3> QED
      BY <3>1, FS_Interval
  <2> QED
    BY <1>3, <1>4, <1>5, <1>12, <2>1 DEF RecordWhole, Await
<1>13. CASE Write(t)
  <2>1. CASE handle \notin Roots
    BY <1>0, <1>13, <2>1, PaidSame DEF Write
  <2>2. CASE handle \in Roots
    <3> DEFINE g == (offset = task[t].cursor)
               f == Written(blob[handle][Track], offset, offset + 1, g)
               u == [Now EXCEPT !.blob[handle][Track] = f]
    <3>1. f \in Files
      <4>1. g \in BOOLEAN /\ offset \in Nat /\ offset + 1 \in Nat
        BY DEF Safe
      <4>2. blob[handle][Track] \in Files
        BY <1>0, <2>2, FileOf
      <4> HIDE DEF g
      <4> QED
        BY <4>1, <4>2, WrittenFile
    <3>2. blob' = [blob EXCEPT ![handle] = [@ EXCEPT ![Track] = f]]
      BY <1>13, <2>2 DEF Write
    <3>3. UNCHANGED <<metas, metaFile, used, limitBytes>>
      BY <1>13 DEF Write
    <3> HIDE DEF f
    <3>4. Eases(Now, u)
      BY <1>0, <2>2, <3>1, EasesPut
    <3>5. Becomes(u)
      BY <3>2, <3>3 DEF Becomes, Now
    <3> QED
      BY <1>0, <3>3, <3>4, <3>5, PaidEased
  <2> QED
    BY <2>1, <2>2
<1> QED
  BY <1>6, <1>7, <1>8, <1>9, <1>10, <1>11, <1>12, <1>13 DEF Step

LEMMA WarmPays ==
    ASSUME Safe, Solvent, WarmStep
    PROVE  Pays
<1>0. Kept(Now) /\ Books(Now) /\ Track \in Keys /\ limitBytes \in Nat
  BY LengthNat, StoreAssumption DEF Safe, Solvent
<1>1. ASSUME Call(Now) PROVE Pays
  BY <1>0, <1>1, EasesSame, PaidEased DEF Call
<1>2. warming.root \in Roots /\ warming.from \in Nat /\ warming.to \in Nat
  BY DEF Safe, WarmState
<1>3. CASE WarmStart
  BY <1>0, <1>3, PaidSame DEF WarmStart, storeVars
<1>4. CASE WarmCreate
  BY <1>0, <1>2, <1>4, CreatedEases, PaidEased DEF WarmCreate, Warmed, Call
<1>5. CASE WarmAlready
  BY <1>1, <1>5 DEF WarmAlready, Warmed
<1>6. CASE WarmAnswer
  <2>1. CacheTotal \in Nat /\ Length \in Nat
    BY <1>0, TotalNat, LengthNat
  <2>2. ASSUME NEW n \in Nat, Call(setContentLength(Now, Track, n)) PROVE Pays
    BY <1>0, <2>2, EasesLength, PaidEased DEF Call
  <2> QED
    BY <1>1, <1>6, <2>1, <2>2 DEF WarmAnswer, Warmed
<1>7. CASE WarmWrite
  <2> DEFINE file == blob[warming.root][Track]
             f == Written(file, warming.from, warming.to, TRUE)
             u == [Now EXCEPT !.blob[warming.root][Track] = f]
  <2>1. f \in Files
    <3>1. file \in Files
      BY <1>0, <1>2, FileOf
    <3> QED
      BY <1>2, <3>1, WrittenGrows
  <2>2. CASE file = None
    BY <1>1, <1>7, <2>2 DEF WarmWrite, Warmed
  <2>3. CASE file # None
    <3>1. Call([Now EXCEPT !.blob[warming.root][Track] =
                                 Written(@, warming.from, warming.to, TRUE)])
      BY <1>7, <2>3 DEF WarmWrite, Warmed
    <3>2. Becomes(u) /\ limitBytes' = limitBytes
      BY <3>1 DEF Call, Now
    <3> HIDE DEF f
    <3>3. Eases(Now, u)
      BY <1>0, <1>2, <2>1, EasesPut
    <3> QED
      BY <1>0, <3>2, <3>3, PaidEased
  <2> QED
    BY <2>2, <2>3
<1>8. CASE WarmRecord
  <2> DEFINE R == warming.from..(warming.to - 1)
  <2>1. R \in SUBSET Nat /\ IsFiniteSet(R)
    <3>1. warming.to - 1 \in Int /\ warming.from \in Int /\ \A x \in R : x \in Nat
      BY <1>2
    <3> QED
      BY <3>1, FS_Interval
  <2>2. Call(recordWrite(Now, Track, R))
    BY <1>8 DEF WarmRecord, Warmed
  <2> HIDE DEF R
  <2> QED
    BY <1>0, <2>1, <2>2, SettlesWrite, Paid DEF Call
<1> QED
  BY <1>3, <1>4, <1>5, <1>6, <1>7, <1>8 DEF WarmStep

LEMMA DropPays ==
    ASSUME Safe, Solvent, NEW K, Drop(K)
    PROVE  Pays
<1>1. Kept(Now) /\ Books(Now)
  BY DEF Safe, Solvent
<1> QED
  BY <1>1, EasesRemove, PaidEased DEF Drop, Call

LEMMA AppPays ==
    ASSUME Undisturbed, WholeBlobs(Now), Solvent, AppCall
    PROVE  Pays
<1>0. Safe /\ Kept(Now) /\ Books(Now) /\ limitBytes \in Nat
  BY StoreAssumption DEF Undisturbed, Safe, Solvent
<1>1. ASSUME NEW s, Settled(Now, s), Call(s) PROVE Pays
  BY <1>0, <1>1, Paid DEF Call
<1>2. ASSUME NEW j \in Keys, Pin(j) \/ Unpin(j) PROVE Pays
  BY <1>0, <1>1, <1>2, SettlesDurable DEF Pin, Unpin
<1>3. ASSUME NEW j \in Keys, Touch(j) PROVE Pays
  BY <1>0, <1>1, <1>3, EasesTouch, EasesSettles DEF Touch
<1>4. ASSUME NEW j \in Keys, RecordDerived(j) PROVE Pays
  BY <1>0, <1>1, <1>4, SettlesDerived DEF RecordDerived
<1>5. ASSUME NEW j \in Keys, CompleteURL(j) PROVE Pays
  <2> DEFINE t == completeFileURL(Now, j)
  <2>1. Now.metas[j] # None /\ Now.metas[j].complete /\ Call(t)
    BY <1>5 DEF CompleteURL, Now
  <2>2. /\ Kept(t) /\ Books(t)
        /\ j # Track \/ HonestStore(Now) => Eases(Now, t)
    BY <1>0, <2>1, CompleteBooks
  <2> HIDE DEF t
  <2>3. CASE j # Track \/ HonestStore(Now)
    BY <1>0, <2>1, <2>2, <2>3, PaidEased DEF Call
  <2>4. CASE j = Track /\ ~HonestStore(Now)
    <3>1. history.disturbed
      BY <2>4 DEF Undisturbed, AllHonest
    <3>2. Solvent'
      BY <2>1, <2>2, Arrived DEF Solvent, Call
    <3> QED
      BY <1>5, <2>4, <3>1, <3>2 DEF Pays, Budget
  <2> QED
    BY <2>3, <2>4
<1>6. ASSUME NEW j \in Keys, Drop({j}) PROVE Pays
  BY <1>0, <1>6, DropPays
<1>7. ASSUME NEW j \in Others, Adopt(j) \/ Register(j) \/ Ingest(j) PROVE Pays
  BY <1>0, <1>1, <1>7, SettlesAdopt, SettlesRegister, SettlesIngest DEF Adopt, Register, Ingest, Others
<1>8. CASE clearEvictable \/ clearDurable \/ clearAll \/ garbageCollectStalePartials
  BY <1>0, <1>8, DropPays DEF clearEvictable, clearDurable, clearAll, garbageCollectStalePartials
<1>9. CASE setLimit
  BY <1>0, <1>9, LimitPays
<1>10. CASE setProtectedKeys
  BY <1>0, <1>10, PaidSame DEF setProtectedKeys
<1> QED
  BY <1>2, <1>3, <1>4, <1>5, <1>6, <1>7, <1>8, <1>9, <1>10 DEF AppCall

LEMMA CrashPays ==
    ASSUME Safe, Solvent,
           \/ Restart(Now)
           \/ \E k \in Keys : CrashInPin(k) \/ CrashInRemove(k) \/ CrashInIngest(k)
    PROVE  Pays
<1>1. Kept(Now) /\ StoreState(Now) /\ \A k \in Keys : Apart(Now, k)
  BY DEF Safe, Kept, Agrees
<1>2. CASE Restart(Now)
  BY <1>1, <1>2, CutSame, RestartPays
<1>3. ASSUME NEW j \in Keys, CrashInPin(j) PROVE Pays
  <2>1. PICK i \in 1..2 : metas[j] # None /\ Restart(setDurableCuts(Now, j)[i])
    BY <1>3 DEF CrashInPin
  <2>2. Now.metas[j] # None
    BY <2>1 DEF Now
  <2> DEFINE s == setDurableCuts(Now, j)[i]
  <2>3. \A k \in Keys : Apart(s, k)
    BY <1>1, <2>2, Cuts
  <2>4. CutOf(Now, s)
    BY <1>1, CutsOf
  <2> HIDE DEF s
  <2> QED
    BY <1>1, <2>1, <2>3, <2>4, RestartPays DEF s
<1>4. ASSUME NEW j \in Keys, CrashInRemove(j) PROVE Pays
  <2>1. PICK i \in 1..3 : Restart(removeCuts(Now, j)[i])
    BY <1>4 DEF CrashInRemove
  <2> DEFINE s == removeCuts(Now, j)[i]
  <2>2. \A k \in Keys : Apart(s, k)
    BY <1>1, Cuts
  <2>3. CutOf(Now, s)
    BY <1>1, CutsOf
  <2> HIDE DEF s
  <2> QED
    BY <1>1, <2>1, <2>2, <2>3, RestartPays DEF s
<1>5. ASSUME NEW j \in Keys, CrashInIngest(j) PROVE Pays
  <2>1. PICK i \in 1..2 : Restart(ingestCuts(Now, j)[i])
    BY <1>5 DEF CrashInIngest
  <2> DEFINE s == ingestCuts(Now, j)[i]
  <2>2. \A k \in Keys : Apart(s, k)
    BY <1>1, Cuts
  <2>3. CutOf(Now, s)
    BY <1>1, CutsOf
  <2> HIDE DEF s
  <2> QED
    BY <1>1, <2>1, <2>2, <2>3, RestartPays DEF s
<1> QED
  BY <1>2, <1>3, <1>4, <1>5

LEMMA NextPays ==
    ASSUME Undisturbed, WholeBlobs(Now), Solvent, [Next]_vars
    PROVE  Pays
<1>0. Safe /\ Kept(Now) /\ Books(Now)
  BY DEF Undisturbed, Safe, Solvent
<1> USE DEF Next
<1>1. ASSUME UNCHANGED storeVars PROVE Pays
  BY <1>0, <1>1, PaidSame DEF storeVars
<1>2. ASSUME NEW t \in Tasks, Step(t) PROVE Pays
  BY <1>0, <1>2, StepPays
<1>3. CASE WarmStep
  BY <1>0, <1>3, WarmPays
<1>4. CASE App
  BY <1>4, AppPays DEF App
<1>5. CASE IngestTrack
  <2>1. Call(ingestCompleteFile(Now, Track)) /\ Track \in Keys
    BY <1>5, LengthNat DEF IngestTrack, Ingest
  <2> QED
    BY <1>0, <2>1, SettlesIngest, Paid DEF Call
<1>6. CASE PurgeBlob
  <2>1. PICK j \in Keys : Call([Now EXCEPT !.blob["evictable"][j] = None])
    BY <1>6 DEF PurgeBlob, Purge
  <2>2. "evictable" \in Roots /\ None \in Files
    BY DEF Roots, Files
  <2>3. Eases(Now, [Now EXCEPT !.blob["evictable"][j] = None])
    BY <1>0, <2>2, EasesPut
  <2> QED
    BY <1>0, <2>1, <2>3, PaidEased DEF Call
<1>7. CASE Crash \/ CrashInCall
  BY <1>0, <1>7, CrashPays DEF Crash, CrashInCall
<1>8. CASE shutdown \/ NewLoader \/ UNCHANGED vars
  BY <1>1, <1>8 DEF shutdown, NewLoader, vars
<1> QED
  BY <1>2, <1>3, <1>4, <1>5, <1>6, <1>7, <1>8

LEMMA InitSolvent == Init => Solvent
<1> SUFFICES ASSUME Init PROVE Solvent
  OBVIOUS
<1>1. Cardinality(Keys) \in Nat
  BY KeysAssumption, FS_CardinalityType
<1>2. used \in [1..Cardinality(Keys) -> Keys] /\ {used[i] : i \in DOMAIN used} = Keys
  BY DEF Init, StoreInit
<1>3. used \in Seq(Keys) /\ Len(used) = Cardinality(Keys)
  BY <1>1, <1>2
<1>4. Ordered(used)
  BY <1>2, <1>3 DEF Ordered
<1>5. \A k \in Keys : metas[k] = None /\ \A r \in Roots : metaFile[r][k] = None
  BY DEF Init, StoreInit
<1>6. limitBytes \in Limits
  BY DEF Init, StoreInit
<1> QED
  BY <1>4, <1>5, <1>6 DEF Solvent, Books, Counts, Now

\* The streaming total passes the limit only where the code lets it, for any
\* number of keys, requests, limits and bytes.
THEOREM BudgetHeld == Spec => BudgetKept
<1>1. ASSUME Undisturbed, WholeBlobs(Now), Solvent, [Next]_vars PROVE Budget
  BY <1>1, NextPays DEF Pays
<1>2. Undisturbed /\ WholeBlobs(Now) /\ Solvent /\ [Next]_vars => Solvent'
  BY NextPays DEF Pays
<1>3. Undisturbed /\ WholeBlobs(Now) /\ [Next]_vars => WholeBlobs(Now)'
  BY NextExcuses DEF Excuses
<1> QED
  BY <1>1, <1>2, <1>3, InitWhole, InitSolvent, LoaderUndisturbed, PTL DEF Spec, BudgetKept, Budget
==============================================================================
