-------------------- MODULE CachingResourceLoader_proofs ---------------------
(***************************************************************************)
(* What every call of the sparse cache store keeps, whoever makes it and   *)
(* in whatever order: its state stays well formed, and the records on disk *)
(* stay the ones a new process would load as the actor holds them.  A call *)
(* is a composition of a few writes (a record persisted, a file put or     *)
(* dropped, a set of keys removed), so each write has its lemma, and a     *)
(* call follows from its writes.  Then the loader, whose steps make those  *)
(* calls: where each of its requests is, and that the calls it makes keep  *)
(* this.                                                                   *)
(***************************************************************************)
EXTENDS CachingResourceLoader, FiniteSetTheorems, SequenceTheorems,
        WellFoundedInduction, TLAPS

\* A metadata record whose range map is finite, as a range map is.
Records == {m \in Meta : IsFiniteSet(m.ranges)}
Known   == Records \union {None}
Files   == Seq(BOOLEAN) \union {None}

\* The order of the keys in used is not constrained.
StoreState(s) == s \in [metas: [Keys -> Known], metaFile: [Roots -> [Keys -> Known]],
                        blob: [Roots -> [Keys -> Files]], used: {s.used}]

\* Each root holds records of its own kind only.
Apart(s, k) ==
    /\ s.metaFile["durable"][k] # None => s.metaFile["durable"][k].durable
    /\ s.metaFile["evictable"][k] # None => ~s.metaFile["evictable"][k].durable

\* The actor holds the record that a new process would find.
Agrees(s, k) == /\ Apart(s, k)
                /\ s.metas[k] = IF s.metaFile["durable"][k] # None
                                 THEN s.metaFile["durable"][k]
                                 ELSE s.metaFile["evictable"][k]

Kept(s) == StoreState(s) /\ \A k \in Keys : Agrees(s, k)

-----------------------------------------------------------------------------
(* Numbers and range maps *)

\* The larger and the smaller of two numbers.
LEMMA MaxOfTwo ==
    ASSUME NEW a \in Int, NEW b \in Int
    PROVE  Max({a, b}) = IF a >= b THEN a ELSE b
<1>1. \E x \in {a, b} : \A y \in {a, b} : x >= y
  OBVIOUS
<1>2. Max({a, b}) \in {a, b} /\ \A y \in {a, b} : Max({a, b}) >= y
  BY <1>1, Zenon DEF Max
<1> QED
  BY <1>2

LEMMA MinOfTwo ==
    ASSUME NEW a \in Int, NEW b \in Int
    PROVE  Min({a, b}) = IF a <= b THEN a ELSE b
<1>1. \E x \in {a, b} : \A y \in {a, b} : x =< y
  OBVIOUS
<1>2. Min({a, b}) \in {a, b} /\ \A y \in {a, b} : Min({a, b}) =< y
  BY <1>1, Zenon DEF Min
<1> QED
  BY <1>2

\* Every set of naturals has a least element.
LEMMA LeastOf ==
    ASSUME NEW S \in SUBSET Nat, S # {}
    PROVE  \E n \in S : \A m \in S : n <= m
<1>1. \E n \in S : \A m \in S : ~ (<<m, n>> \in OpToRel(<, Nat))
  BY WFMin, NatLessThanWellFounded, Zenon
<1>2. PICK n \in S : \A m \in S : ~ (<<m, n>> \in OpToRel(<, Nat))
  BY <1>1, Zenon
<1>3. ASSUME NEW m \in S PROVE n <= m
  <2>1. ~ (<<m, n>> \in OpToRel(<, Nat))
    BY <1>2, Zenon
  <2>2. <<m, n>> \in Nat \X Nat /\ ~ (<<m, n>>[1] < <<m, n>>[2])
    BY <2>1 DEF OpToRel
  <2> QED
    BY <2>2
<1> QED
  BY <1>2, <1>3

\* What a lookup finds is a run of chunks of the range map that starts at o
\* and ends where the map has no chunk.
LEMMA Contiguous ==
    ASSUME NEW R \in SUBSET Nat, IsFiniteSet(R), NEW o \in Nat
    PROVE  /\ contiguousBytes(R, o) \in Nat
           /\ o .. (o + contiguousBytes(R, o) - 1) \subseteq R
           /\ o + contiguousBytes(R, o) \notin R
<1> DEFINE S == {n \in Nat : o + n \notin R}
           c == Cardinality(R)
<1>1. c \in Nat
  BY FS_CardinalityType
<1>2. \E n \in 0..c : n \in S
  <2>1. SUFFICES ASSUME \A n \in 0..c : o + n \in R PROVE FALSE
    BY <1>1
  <2>2. o..(o + c) \in SUBSET R
    <3>1. ASSUME NEW x \in o..(o + c) PROVE x \in R
      <4>1. x - o \in 0..c /\ o + (x - o) = x
        BY <1>1
      <4> QED
        BY <4>1, <2>1
    <3> QED
      BY <3>1
  <2>3. Cardinality(o..(o + c)) = c + 1
    BY FS_Interval, <1>1
  <2>4. Cardinality(o..(o + c)) <= c
    BY FS_Subset, <2>2
  <2> QED
    BY <2>3, <2>4, <1>1
<1>3. PICK n \in S : \A m \in S : n <= m
  BY <1>2, LeastOf
<1>4. n \in 0..c
  BY <1>1, <1>2, <1>3
<1>5. o..(o + n - 1) \subseteq R
  <2>1. ASSUME NEW x \in o..(o + n - 1) PROVE x \in R
    <3>1. x - o \in Nat /\ x - o < n /\ o + (x - o) = x
      BY <1>4
    <3> QED
      BY <3>1, <1>3
  <2> QED
    BY <2>1
<1>6. \E k \in 0..c : o..(o + k - 1) \subseteq R /\ o + k \notin R
  BY <1>3, <1>4, <1>5
<1>7. contiguousBytes(R, o) \in 0..c
      /\ o .. (o + contiguousBytes(R, o) - 1) \subseteq R
      /\ o + contiguousBytes(R, o) \notin R
  BY <1>6, Zenon DEF contiguousBytes
<1> QED
  BY <1>7, <1>1

-----------------------------------------------------------------------------
(* The writes a call is made of *)

LEMMA Accesses ==
    ASSUME NEW s, StoreState(s), NEW k \in Keys
    PROVE  LET t == Accessed(s, k)
           IN  /\ StoreState(t)
               /\ t.metas = s.metas /\ t.metaFile = s.metaFile /\ t.blob = s.blob
  BY DEF StoreState, Accessed

\* Fields of a store state replaced by well formed ones.
LEMMA NewBlobs ==
    ASSUME NEW s, StoreState(s), NEW B \in [Roots -> [Keys -> Files]]
    PROVE  LET t == [s EXCEPT !.blob = B]
           IN  /\ StoreState(t)
               /\ t.metas = s.metas /\ t.metaFile = s.metaFile /\ t.blob = B
  BY DEF StoreState

LEMMA NewFiles ==
    ASSUME NEW s, StoreState(s), NEW F \in [Roots -> [Keys -> Known]]
    PROVE  LET t == [s EXCEPT !.metaFile = F]
           IN  /\ StoreState(t)
               /\ t.metas = s.metas /\ t.metaFile = F /\ t.blob = s.blob
  BY DEF StoreState

\* The writes themselves: what each leaves of the three parts.
LEMMA Persists ==
    ASSUME NEW s, StoreState(s), NEW k \in Keys, NEW m \in Records
    PROVE  LET t == persistMeta(s, k, m)
           IN  /\ StoreState(t)
               /\ t.metas = [s.metas EXCEPT ![k] = m] /\ t.blob = s.blob
               /\ t.metaFile = [s.metaFile EXCEPT ![RootFor(m)] = [@ EXCEPT ![k] = m]]
<1> DEFINE M == [s.metas EXCEPT ![k] = m]
           F == [s.metaFile EXCEPT ![RootFor(m)] = [@ EXCEPT ![k] = m]]
<1>1. RootFor(m) \in Roots
  BY DEF RootFor, Roots
<1>2. M \in [Keys -> Known]
  BY DEF StoreState, Known
<1>3. F \in [Roots -> [Keys -> Known]]
  BY <1>1 DEF StoreState, Known
<1>4. persistMeta(s, k, m) = [s EXCEPT !.metas = M, !.metaFile = F]
  BY DEF persistMeta
<1> HIDE DEF M, F
<1>5. LET t == [s EXCEPT !.metas = M, !.metaFile = F]
      IN  StoreState(t) /\ t.metas = M /\ t.metaFile = F /\ t.blob = s.blob
  BY <1>2, <1>3 DEF StoreState
<1> QED
  BY <1>4, <1>5 DEF M, F

LEMMA Puts ==
    ASSUME NEW s, StoreState(s), NEW k \in Keys, NEW r \in Roots, NEW f \in Files
    PROVE  LET t == [s EXCEPT !.blob[r][k] = f]
           IN  /\ StoreState(t)
               /\ t.metas = s.metas /\ t.metaFile = s.metaFile
               /\ t.blob = [s.blob EXCEPT ![r] = [@ EXCEPT ![k] = f]]
<1>1. [s.blob EXCEPT ![r] = [@ EXCEPT ![k] = f]] \in [Roots -> [Keys -> Files]]
  BY DEF StoreState
<1> QED
  BY <1>1, NewBlobs

LEMMA Unfiles ==
    ASSUME NEW s, StoreState(s), NEW k \in Keys, NEW r \in Roots
    PROVE  LET t == [s EXCEPT !.metaFile[r][k] = None]
           IN  /\ StoreState(t)
               /\ t.metas = s.metas /\ t.blob = s.blob
               /\ t.metaFile = [s.metaFile EXCEPT ![r] = [@ EXCEPT ![k] = None]]
<1>1. [s.metaFile EXCEPT ![r] = [@ EXCEPT ![k] = None]] \in [Roots -> [Keys -> Known]]
  BY DEF StoreState, Known
<1> QED
  BY <1>1, NewFiles

LEMMA Removes ==
    ASSUME NEW s, StoreState(s), NEW K
    PROVE  LET t == removeKeys(s, K)
           IN  /\ StoreState(t)
               /\ \A k \in Keys : t.metas[k] = IF k \in K THEN None ELSE s.metas[k]
               /\ \A r \in Roots, k \in Keys :
                     /\ t.metaFile[r][k] = IF k \in K THEN None ELSE s.metaFile[r][k]
                     /\ t.blob[r][k] = IF k \in K THEN None ELSE s.blob[r][k]
<1> DEFINE M == [k \in Keys |-> IF k \in K THEN None ELSE s.metas[k]]
           F == [r \in Roots |-> [k \in Keys |-> IF k \in K THEN None ELSE s.metaFile[r][k]]]
           B == [r \in Roots |-> [k \in Keys |-> IF k \in K THEN None ELSE s.blob[r][k]]]
<1>1. Without(s.metas, K) = M
  BY DEF StoreState, Without
<1>2. [r \in Roots |-> Without(s.metaFile[r], K)] = F
  BY DEF StoreState, Without
<1>3. [r \in Roots |-> Without(s.blob[r], K)] = B
  BY DEF StoreState, Without
<1>4. M \in [Keys -> Known]
  BY DEF StoreState, Known
<1>5. F \in [Roots -> [Keys -> Known]]
  BY DEF StoreState, Known
<1>6. B \in [Roots -> [Keys -> Files]]
  BY DEF StoreState, Files
<1> HIDE DEF M, F, B
<1>7. removeKeys(s, K) = [s EXCEPT !.metas = M, !.metaFile = F, !.blob = B]
  BY <1>1, <1>2, <1>3 DEF removeKeys
<1>8. LET t == [s EXCEPT !.metas = M, !.metaFile = F, !.blob = B]
      IN  StoreState(t) /\ t.metas = M /\ t.metaFile = F /\ t.blob = B
  BY <1>4, <1>5, <1>6 DEF StoreState
<1> QED
  BY <1>7, <1>8 DEF M, F, B

-----------------------------------------------------------------------------
(* Each write keeps the invariant *)

\* A record with one field replaced.
LEMMA OneField ==
    ASSUME NEW m \in Records
    PROVE  /\ \A x \in Nat : [m EXCEPT !.total = x] \in Records
           /\ \A R \in SUBSET Nat : IsFiniteSet(R) => [m EXCEPT !.ranges = R] \in Records
           /\ \A x \in Nat : [m EXCEPT !.cached = x] \in Records
           /\ \A b \in BOOLEAN : [m EXCEPT !.complete = b] \in Records
           /\ \A b \in BOOLEAN : [m EXCEPT !.durable = b] \in Records
           /\ \A x \in {0, 1} : [m EXCEPT !.derived = x] \in Records
<1>1. ASSUME NEW x \in Nat PROVE [m EXCEPT !.total = x] \in Records
  BY DEF Records, Meta
<1>2. ASSUME NEW R \in SUBSET Nat, IsFiniteSet(R) PROVE [m EXCEPT !.ranges = R] \in Records
  BY <1>2 DEF Records, Meta
<1>3. ASSUME NEW x \in Nat PROVE [m EXCEPT !.cached = x] \in Records
  BY DEF Records, Meta
<1>4. ASSUME NEW b \in BOOLEAN PROVE [m EXCEPT !.complete = b] \in Records
  BY DEF Records, Meta
<1>5. ASSUME NEW b \in BOOLEAN PROVE [m EXCEPT !.durable = b] \in Records
  BY DEF Records, Meta
<1>6. ASSUME NEW x \in {0, 1} PROVE [m EXCEPT !.derived = x] \in Records
  BY DEF Records, Meta
<1> QED
  BY <1>1, <1>2, <1>3, <1>4, <1>5, <1>6

LEMMA NewRecord == newMeta \in Records /\ ~newMeta.durable
  BY FS_EmptySet DEF newMeta, Records, Meta

\* The record a call works on, and what is known of the one in the durable root.
LEMMA RecordOf ==
    ASSUME NEW s, Kept(s), NEW k \in Keys
    PROVE  /\ MetaOf(s, k) \in Records /\ s.metas[k] \in Known
           /\ MetaOf(s, k).durable \/ s.metaFile["durable"][k] = None
           /\ s.metas[k] # None => MetaOf(s, k) = s.metas[k]
           /\ s.metas[k] # None => s.metas[k] \in Records
<1>1. s.metas[k] \in Known
  BY DEF Kept, StoreState
<1>2. Agrees(s, k)
  BY DEF Kept
<1> QED
  BY <1>1, <1>2, NewRecord DEF MetaOf, Known, Agrees, Apart

LEMMA KeepsAccess ==
    ASSUME NEW s, Kept(s), NEW k \in Keys
    PROVE  Kept(Accessed(s, k))
  BY Accesses DEF Kept, Agrees, Apart

\* Persisting a record keeps the files apart if it goes to the durable root or
\* the durable root has none.
LEMMA KeepsPersist ==
    ASSUME NEW s, Kept(s), NEW k \in Keys, NEW m \in Records,
           m.durable \/ s.metaFile["durable"][k] = None
    PROVE  Kept(persistMeta(s, k, m))
<1> DEFINE t == persistMeta(s, k, m)
<1>1. /\ StoreState(t)
      /\ t.metas = [s.metas EXCEPT ![k] = m]
      /\ t.metaFile = [s.metaFile EXCEPT ![RootFor(m)] = [@ EXCEPT ![k] = m]]
  BY Persists DEF Kept
<1>2. StoreState(s) /\ \A j \in Keys : Agrees(s, j)
  BY DEF Kept
<1>3. m # None /\ m.durable \in BOOLEAN
  BY StoreAssumption DEF Records, Meta
<1> HIDE DEF t
<1>4. ASSUME NEW j \in Keys PROVE Agrees(t, j)
  <2>1. CASE j # k
    <3>1. t.metas[j] = s.metas[j]
      BY <1>1, <1>2, <2>1 DEF StoreState
    <3>2. \A r \in Roots : t.metaFile[r][j] = s.metaFile[r][j]
      BY <1>1, <1>2, <2>1 DEF StoreState
    <3> QED
      BY <3>1, <3>2, <1>2 DEF Agrees, Apart, Roots
  <2>2. CASE j = k /\ m.durable
    <3>1. t.metas[k] = m
      BY <1>1, <1>2 DEF StoreState
    <3>2. t.metaFile["durable"][k] = m /\ t.metaFile["evictable"][k] = s.metaFile["evictable"][k]
      BY <1>1, <1>2, <1>3, <2>2 DEF StoreState, Roots, RootFor
    <3> QED
      BY <3>1, <3>2, <2>2, <1>2, <1>3 DEF Agrees, Apart
  <2>3. CASE j = k /\ ~m.durable
    <3>1. t.metas[k] = m
      BY <1>1, <1>2 DEF StoreState
    <3>2. t.metaFile["evictable"][k] = m /\ t.metaFile["durable"][k] = s.metaFile["durable"][k]
      BY <1>1, <1>2, <1>3, <2>3 DEF StoreState, Roots, RootFor
    <3> QED
      BY <3>1, <3>2, <2>3, <1>2, <1>3 DEF Agrees, Apart
  <2> QED
    BY <1>3, <2>1, <2>2, <2>3
<1>5. Kept(t)
  BY <1>1, <1>4 DEF Kept
<1> QED
  BY <1>5 DEF t

LEMMA KeepsPut ==
    ASSUME NEW s, Kept(s), NEW k \in Keys, NEW r \in Roots, NEW f \in Files
    PROVE  Kept([s EXCEPT !.blob[r][k] = f])
<1> DEFINE t == [s EXCEPT !.blob[r][k] = f]
<1>1. StoreState(t) /\ t.metas = s.metas /\ t.metaFile = s.metaFile
  BY Puts DEF Kept
<1> HIDE DEF t
<1>2. Kept(t)
  BY <1>1 DEF Kept, Agrees, Apart
<1> QED
  BY <1>2 DEF t

LEMMA KeepsRemove ==
    ASSUME NEW s, Kept(s), NEW K
    PROVE  Kept(removeKeys(s, K))
<1> DEFINE t == removeKeys(s, K)
<1>1. /\ StoreState(t)
      /\ \A k \in Keys : t.metas[k] = IF k \in K THEN None ELSE s.metas[k]
      /\ \A r \in Roots, k \in Keys :
            t.metaFile[r][k] = IF k \in K THEN None ELSE s.metaFile[r][k]
  BY Removes DEF Kept
<1> HIDE DEF t
<1>2. ASSUME NEW k \in Keys PROVE Agrees(t, k)
  BY <1>1 DEF Kept, Agrees, Apart, Roots
<1>3. Kept(t)
  BY <1>1, <1>2 DEF Kept
<1> QED
  BY <1>3 DEF t

\* An eviction removes keys of the evictable root or does nothing.
LEMMA Evicts ==
    ASSUME NEW s, NEW K, NEW n
    PROVE  \/ evictTo(s, K, n) = s
           \/ \E G : G \subseteq Entries(s, FALSE) \ K /\ evictTo(s, K, n) = removeKeys(s, G)
  BY DEF evictTo, Evicted, Oldest, Evictable

LEMMA KeepsEvict ==
    ASSUME NEW s, Kept(s), NEW K, NEW n
    PROVE  Kept(evictTo(s, K, n))
<1>1. CASE evictTo(s, K, n) = s
  BY <1>1
<1>2. ASSUME NEW G, evictTo(s, K, n) = removeKeys(s, G) PROVE Kept(evictTo(s, K, n))
  BY <1>2, KeepsRemove
<1>3. evictTo(s, K, n) = s \/ \E G : evictTo(s, K, n) = removeKeys(s, G)
  BY DEF evictTo, Evicted
<1> QED
  BY <1>1, <1>2, <1>3

-----------------------------------------------------------------------------
(* Each call keeps the invariant *)

LEMMA KeepsLength ==
    ASSUME NEW s, Kept(s), NEW k \in Keys, NEW n \in Nat
    PROVE  Kept(setContentLength(s, k, n))
<1> DEFINE u == IF s.metas[k] = None THEN Accessed(s, k) ELSE s
           m == [MetaOf(s, k) EXCEPT !.total = n]
<1>1. Kept(u) /\ u.metaFile = s.metaFile
  BY KeepsAccess, Accesses DEF Kept
<1>2. m \in Records
  BY RecordOf, OneField
<1>3. m.durable = MetaOf(s, k).durable
  BY RecordOf DEF Records, Meta
<1>4. m.durable \/ u.metaFile["durable"][k] = None
  BY <1>1, <1>3, RecordOf
<1>5. setContentLength(s, k, n) = persistMeta(u, k, m)
  BY DEF setContentLength
<1> HIDE DEF u, m
<1> QED
  BY <1>1, <1>2, <1>4, <1>5, KeepsPersist

LEMMA KeepsWrite ==
    ASSUME NEW s, Kept(s), NEW k \in Keys, NEW R \in SUBSET Nat, IsFiniteSet(R)
    PROVE  Kept(recordWrite(s, k, R))
<1> DEFINE m == MetaOf(s, k)
           all == m.ranges \union R
           w == [m EXCEPT !.ranges = all, !.cached = Cardinality(all),
                          !.complete = @ \/ covers(all, m.total)]
           u == Accessed(s, k)
<1>1. Kept(u) /\ u.metaFile = s.metaFile
  BY KeepsAccess, Accesses DEF Kept
<1>2. m \in Records
  BY RecordOf
<1>3. all \in SUBSET Nat /\ IsFiniteSet(all) /\ Cardinality(all) \in Nat
  <2>1. m.ranges \in SUBSET Nat /\ IsFiniteSet(m.ranges)
    BY <1>2 DEF Records, Meta
  <2> QED
    BY <2>1, FS_Union, FS_CardinalityType
<1>4. (m.complete \/ covers(all, m.total)) \in BOOLEAN
  OBVIOUS
<1>5. m.durable \/ u.metaFile["durable"][k] = None
  BY <1>1, RecordOf
<1>6. recordWrite(s, k, R) = evictTo(persistMeta(u, k, w), {k}, limitBytes)
  BY DEF recordWrite, evictToFit
<1> HIDE DEF m, all, u
<1>7. w \in Records /\ w.durable = m.durable
  BY <1>2, <1>3, <1>4 DEF Records, Meta
<1> HIDE DEF w
<1>8. Kept(persistMeta(u, k, w))
  BY <1>1, <1>5, <1>7, KeepsPersist
<1> QED
  BY <1>6, <1>8, KeepsEvict

LEMMA KeepsTouch ==
    ASSUME NEW s, Kept(s), NEW k \in Keys
    PROVE  Kept(touch(s, k))
<1>1. CASE s.metas[k] = None
  BY <1>1 DEF touch
<1>2. CASE s.metas[k] # None
  <2>1. Kept(Accessed(s, k)) /\ Accessed(s, k).metaFile = s.metaFile
    BY KeepsAccess, Accesses DEF Kept
  <2>2. s.metas[k] \in Records /\ (s.metas[k].durable \/ s.metaFile["durable"][k] = None)
    BY <1>2, RecordOf
  <2>3. touch(s, k) = persistMeta(Accessed(s, k), k, s.metas[k])
    BY <1>2 DEF touch
  <2> QED
    BY <2>1, <2>2, <2>3, KeepsPersist
<1> QED
  BY <1>1, <1>2

LEMMA KeepsMove ==
    ASSUME NEW s, Kept(s), NEW k \in Keys, NEW from \in Roots, NEW to \in Roots
    PROVE  /\ Kept(moveFile(s, k, from, to))
           /\ moveFile(s, k, from, to).metas = s.metas
           /\ moveFile(s, k, from, to).metaFile = s.metaFile
<1>1. StoreState(s) /\ s.blob[from][k] \in Files /\ None \in Files
  BY DEF Kept, StoreState, Files
<1> DEFINE d == [s EXCEPT !.blob[from][k] = None]
           u == [s EXCEPT !.blob[to][k] = s.blob[from][k]]
<1>2. Kept(d) /\ d.metas = s.metas /\ d.metaFile = s.metaFile
  BY <1>1, KeepsPut, Puts
<1>3. Kept(u) /\ StoreState(u) /\ u.metas = s.metas /\ u.metaFile = s.metaFile
  BY <1>1, KeepsPut, Puts DEF Kept
<1>4. Kept([u EXCEPT !.blob[from][k] = None])
      /\ [u EXCEPT !.blob[from][k] = None].metas = s.metas
      /\ [u EXCEPT !.blob[from][k] = None].metaFile = s.metaFile
  <2> HIDE DEF u
  <2> QED
    BY <1>1, <1>3, KeepsPut, Puts
<1> QED
  BY <1>2, <1>4 DEF moveFile

LEMMA KeepsDurable ==
    ASSUME NEW s, Kept(s), NEW k \in Keys, NEW d \in BOOLEAN
    PROVE  Kept(setDurable(s, k, d))
<1>1. CASE s.metas[k] = None \/ s.metas[k].durable = d
  BY <1>1 DEF setDurable
<1>2. CASE ~(s.metas[k] = None \/ s.metas[k].durable = d)
  <2> DEFINE m == s.metas[k]
             from == RootFor(m)
             u == moveFile(s, k, from, OtherRoot(from))
             v == [u EXCEPT !.metaFile[from][k] = None]
             w == [m EXCEPT !.durable = d]
  <2>1. m \in Records /\ m # None
    BY <1>2, RecordOf
  <2>2. w \in Records /\ w.durable = d
    BY <2>1, OneField DEF Records, Meta
  <2>3. from \in Roots /\ OtherRoot(from) \in Roots
    BY DEF RootFor, OtherRoot, Roots
  <2>4. Kept(u) /\ StoreState(u) /\ u.metas = s.metas /\ u.metaFile = s.metaFile
    BY <2>3, KeepsMove DEF Kept
  <2>5. /\ StoreState(v) /\ v.metas = s.metas
        /\ v.metaFile = [s.metaFile EXCEPT ![from] = [@ EXCEPT ![k] = None]]
    <3> HIDE DEF u, from
    <3> QED
      BY <2>3, <2>4, Unfiles
  <2>6. setDurable(s, k, d) = persistMeta(v, k, w)
    BY <1>2 DEF setDurable, setDurableCuts
  <2> DEFINE t == persistMeta(v, k, w)
  <2> HIDE DEF u, v, w, from
  <2>7. /\ StoreState(t) /\ t.metas = [v.metas EXCEPT ![k] = w]
        /\ t.metaFile = [v.metaFile EXCEPT ![RootFor(w)] = [@ EXCEPT ![k] = w]]
    BY <2>2, <2>5, Persists
  <2> HIDE DEF t
  <2>8. RootFor(w) = OtherRoot(from) /\ RootFor(w) # from /\ RootFor(w) \in Roots
        /\ (from = "durable" <=> m.durable) /\ w # None
    BY <1>2, <2>1, <2>2, StoreAssumption DEF RootFor, OtherRoot, Roots, Records, Meta, from
  <2>9. t.metas[k] = w /\ t.metaFile[RootFor(w)][k] = w /\ t.metaFile[from][k] = None
    BY <2>3, <2>4, <2>5, <2>7, <2>8 DEF StoreState
  <2>10. ASSUME NEW j \in Keys PROVE Agrees(t, j)
    <3>1. CASE j = k
      BY <2>2, <2>3, <2>8, <2>9, <3>1 DEF Agrees, Apart, Roots, RootFor
    <3>2. CASE j # k
      <4>1. t.metas[j] = s.metas[j]
        BY <2>5, <2>7, <3>2 DEF StoreState
      <4>2. \A r \in Roots : t.metaFile[r][j] = s.metaFile[r][j]
        <5>1. \A r \in Roots : v.metaFile[r][j] = s.metaFile[r][j]
          BY <2>3, <2>4, <2>5, <3>2 DEF StoreState
        <5>2. \A r \in Roots : t.metaFile[r][j] = v.metaFile[r][j]
          BY <2>5, <2>7, <2>8, <3>2 DEF StoreState
        <5> QED
          BY <5>1, <5>2
      <4>3. Agrees(s, j)
        BY DEF Kept
      <4> QED
        BY <4>1, <4>2, <4>3 DEF Agrees, Apart, Roots
    <3> QED
      BY <3>1, <3>2
  <2>11. Kept(t)
    BY <2>7, <2>10 DEF Kept
  <2> QED
    BY <2>6, <2>11 DEF t
<1> QED
  BY <1>1, <1>2

\* The record of a whole file of n chunks.
LEMMA CompleteRecord ==
    ASSUME NEW m \in Records, NEW n \in Nat
    PROVE  Complete(m, n) \in Records /\ Complete(m, n).durable = m.durable
<1>1. 0..(n - 1) \in SUBSET Nat /\ IsFiniteSet(0..(n - 1))
  BY FS_Interval
<1> QED
  BY <1>1 DEF Complete, Records, Meta

\* The records of a registered and of a discarded entry.
LEMMA RegisteredRecord ==
    ASSUME NEW m \in Records, NEW n \in Nat
    PROVE  LET w == [m EXCEPT !.complete = TRUE, !.cached = n, !.total = n]
           IN  w \in Records /\ w.durable = m.durable
  BY DEF Records, Meta

LEMMA DiscardedRecord ==
    ASSUME NEW m \in Records
    PROVE  LET w == [m EXCEPT !.cached = 0, !.complete = FALSE, !.ranges = {}]
           IN  w \in Records /\ w.durable = m.durable
  BY FS_EmptySet DEF Records, Meta

LEMMA Whole ==
    ASSUME NEW k \in Keys
    PROVE  /\ WholeFile(k) \in Files /\ WholeFile(k) # None
           /\ FileSize(WholeFile(k)) = SizeOf(k)
           /\ \A i \in 1..SizeOf(k) : WholeFile(k)[i]
<1>1. SizeOf(k) \in Nat
  BY StoreAssumption
<1>2. WholeFile(k) \in Seq(BOOLEAN)
  <2>1. WholeFile(k) \in [1..SizeOf(k) -> BOOLEAN]
    BY DEF WholeFile
  <2> QED
    BY <1>1, <2>1, SeqDef
<1>3. Len(WholeFile(k)) = SizeOf(k)
  BY <1>1 DEF WholeFile
<1> QED
  BY <1>1, <1>2, <1>3, StoreAssumption DEF Files, FileSize, WholeFile

LEMMA KeepsAdopt ==
    ASSUME NEW s, Kept(s), NEW k \in Keys, NEW d \in BOOLEAN
    PROVE  Kept(adoptCompleteFile(s, k, d))
<1> DEFINE r == RootFor(s.metas[k])
           u == [s EXCEPT !.blob[r][k] = WholeFile(k)]
           v == Accessed(u, k)
           m == Complete(MetaOf(s, k), SizeOf(k))
           w == persistMeta(v, k, m)
           t == IF d THEN setDurable(w, k, TRUE) ELSE w
<1>1. r \in Roots
  BY DEF RootFor, Roots
<1>2. Kept(u) /\ u.metaFile = s.metaFile
  BY <1>1, KeepsPut, Puts, Whole DEF Kept
<1>3. Kept(v) /\ v.metaFile = s.metaFile
  BY <1>2, KeepsAccess, Accesses DEF Kept
<1>4. m \in Records /\ (m.durable \/ v.metaFile["durable"][k] = None)
  BY <1>3, RecordOf, CompleteRecord, StoreAssumption
<1>5. Kept(w)
  BY <1>3, <1>4, KeepsPersist
<1>6. Kept(t)
  BY <1>5, KeepsDurable
<1>7. adoptCompleteFile(s, k, d) = evictTo(t, {k}, limitBytes)
  BY DEF adoptCompleteFile, evictToFit
<1> QED
  BY <1>6, <1>7, KeepsEvict

LEMMA KeepsIngest ==
    ASSUME NEW s, Kept(s), NEW k \in Keys
    PROVE  Kept(ingestCompleteFile(s, k))
<1> DEFINE u == [s EXCEPT !.blob["durable"][k] = WholeFile(k)]
           v == Accessed(u, k)
           m == [Complete(MetaOf(s, k), SizeOf(k)) EXCEPT !.durable = TRUE]
<1>1. Kept(u)
  BY KeepsPut, Whole DEF Roots
<1>2. Kept(v)
  BY <1>1, KeepsAccess
<1>3. m \in Records /\ m.durable
  <2>1. Complete(MetaOf(s, k), SizeOf(k)) \in Records
    BY RecordOf, CompleteRecord, StoreAssumption
  <2> QED
    BY <2>1, OneField DEF Records, Meta
<1>4. ingestCompleteFile(s, k) = persistMeta(v, k, m)
  BY DEF ingestCompleteFile
<1> HIDE DEF v, m
<1> QED
  BY <1>2, <1>3, <1>4, KeepsPersist

LEMMA KeepsRegister ==
    ASSUME NEW s, Kept(s), NEW k \in Keys
    PROVE  Kept(registerComplete(s, k))
<1> DEFINE u == [s EXCEPT !.blob["evictable"][k] = WholeFile(k)]
           v == Accessed(u, k)
           m == [MetaOf(s, k) EXCEPT !.complete = TRUE, !.cached = SizeOf(k), !.total = SizeOf(k)]
<1>1. Kept(u) /\ u.metaFile = s.metaFile
  BY KeepsPut, Puts, Whole DEF Roots, Kept
<1>2. Kept(v) /\ v.metaFile = s.metaFile
  BY <1>1, KeepsAccess, Accesses DEF Kept
<1>3. m \in Records /\ m.durable = MetaOf(s, k).durable
  BY RecordOf, StoreAssumption, RegisteredRecord
<1>4. m.durable \/ v.metaFile["durable"][k] = None
  BY <1>2, <1>3, RecordOf
<1>5. registerComplete(s, k) = evictTo(persistMeta(v, k, m), {}, limitBytes)
  BY DEF registerComplete, evictToFit
<1> HIDE DEF v, m
<1>6. Kept(persistMeta(v, k, m))
  BY <1>2, <1>3, <1>4, KeepsPersist
<1> QED
  BY <1>5, <1>6, KeepsEvict

\* A record that a call has changed in place, persisted where it was.
LEMMA KeepsUpdate ==
    ASSUME NEW s, Kept(s), NEW k \in Keys, s.metas[k] # None,
           NEW m \in Records, m.durable = s.metas[k].durable
    PROVE  Kept(persistMeta(s, k, m)) /\ Kept(persistMeta(Accessed(s, k), k, m))
<1>1. m.durable \/ s.metaFile["durable"][k] = None
  BY RecordOf
<1>2. Kept(Accessed(s, k)) /\ Accessed(s, k).metaFile = s.metaFile
  BY KeepsAccess, Accesses DEF Kept
<1> QED
  BY <1>1, <1>2, KeepsPersist

LEMMA KeepsDerived ==
    ASSUME NEW s, Kept(s), NEW k \in Keys
    PROVE  Kept(recordDerivedBytes(s, k))
<1>1. CASE s.metas[k] = None
  BY <1>1 DEF recordDerivedBytes
<1>2. CASE s.metas[k] # None
  <2> DEFINE m == [s.metas[k] EXCEPT !.derived = 1]
  <2>1. m \in Records /\ m.durable = s.metas[k].durable
    BY <1>2, RecordOf, OneField DEF Records, Meta
  <2>2. Kept(persistMeta(Accessed(s, k), k, m))
    BY <1>2, <2>1, KeepsUpdate
  <2>3. recordDerivedBytes(s, k) = evictTo(persistMeta(Accessed(s, k), k, m), {k}, limitBytes)
    BY <1>2 DEF recordDerivedBytes, evictToFit
  <2> QED
    BY <2>2, <2>3, KeepsEvict
<1> QED
  BY <1>1, <1>2

LEMMA KeepsDiscard ==
    ASSUME NEW s, Kept(s), NEW k \in Keys, s.metas[k] # None
    PROVE  Kept(discardCachedBytes(s, k))
<1> DEFINE r == RootFor(s.metas[k])
           u == [s EXCEPT !.blob[r][k] = None]
           m == [s.metas[k] EXCEPT !.cached = 0, !.complete = FALSE, !.ranges = {}]
<1>1. r \in Roots /\ None \in Files
  BY DEF RootFor, Roots, Files
<1>2. Kept(u) /\ u.metas = s.metas
  BY <1>1, KeepsPut, Puts DEF Kept
<1>3. m \in Records /\ m.durable = s.metas[k].durable
  BY RecordOf, DiscardedRecord
<1>4. discardCachedBytes(s, k) = persistMeta(Accessed(u, k), k, m)
  BY DEF discardCachedBytes
<1> HIDE DEF u, m
<1> QED
  BY <1>2, <1>3, <1>4, KeepsUpdate

LEMMA SizeNat ==
    ASSUME NEW f \in Files
    PROVE  FileSize(f) \in Nat
  BY DEF Files, FileSize

LEMMA KeepsLookup ==
    ASSUME NEW s, Kept(s), NEW k \in Keys, NEW o \in Nat
    PROVE  Kept(cachedContiguousBytes(s, k, o).s)
<1> DEFINE n == contiguousBytes(MetaOf(s, k).ranges, o)
<1>1. MetaOf(s, k).ranges \in SUBSET Nat /\ IsFiniteSet(MetaOf(s, k).ranges)
  BY RecordOf DEF Records, Meta
<1>2. n \in Nat /\ o..(o + n - 1) \subseteq MetaOf(s, k).ranges
  BY <1>1, Contiguous
<1>3. CASE n = 0
  BY <1>3 DEF cachedContiguousBytes
<1>4. CASE n > 0
  <2>1. s.metas[k] # None
    <3>1. o \in MetaOf(s, k).ranges
      BY <1>2, <1>4
    <3> QED
      BY <3>1 DEF MetaOf, newMeta
  <2>2. Kept(discardCachedBytes(s, k)) /\ Kept(touch(s, k))
    BY <2>1, KeepsDiscard, KeepsTouch
  <2> QED
    BY <1>4, <2>2 DEF cachedContiguousBytes
<1> QED
  BY <1>2, <1>3, <1>4

LEMMA KeepsCompleteURL ==
    ASSUME NEW s, Kept(s), NEW k \in Keys, s.metas[k] # None
    PROVE  Kept(completeFileURL(s, k))
<1> DEFINE m == s.metas[k]
           size == FileSize(s.blob[RootFor(m)][k])
<1>1. size \in Nat
  BY SizeNat DEF Kept, StoreState, RootFor, Roots
<1>2. Kept(discardCachedBytes(s, k)) /\ Kept(touch(s, k))
  BY KeepsDiscard, KeepsTouch
<1>3. Kept(touch(persistMeta(s, k, Complete(m, size)), k))
  BY <1>1, RecordOf, CompleteRecord, KeepsUpdate, KeepsTouch
<1> QED
  BY <1>2, <1>3 DEF completeFileURL

-----------------------------------------------------------------------------
(* A crash between two writes of a call, and the process that follows *)

\* Whatever the actor held, what a new process loads agrees with the disk.
LEMMA Reloads ==
    ASSUME NEW s, StoreState(s), \A k \in Keys : Apart(s, k)
    PROVE  Kept([s EXCEPT !.metas = loadMetas(s)])
<1> DEFINE M == loadMetas(s)
           t == [s EXCEPT !.metas = M]
<1>1. \A k \in Keys : M[k] = IF s.metaFile["durable"][k] # None
                              THEN s.metaFile["durable"][k] ELSE s.metaFile["evictable"][k]
  BY DEF loadMetas
<1>2. M \in [Keys -> Known]
  BY DEF loadMetas, StoreState, Roots
<1> HIDE DEF M
<1>3. StoreState(t) /\ t.metas = M /\ t.metaFile = s.metaFile
  BY <1>2 DEF StoreState
<1> HIDE DEF t
<1>4. Kept(t)
  BY <1>1, <1>3 DEF Kept, Agrees, Apart
<1> QED
  BY <1>4 DEF t, M

\* The disks a pin, a removal and an ingest pass through.
LEMMA Cuts ==
    ASSUME NEW s, Kept(s), NEW k \in Keys
    PROVE  /\ s.metas[k] # None => \A i \in 1..2 :
                  LET t == setDurableCuts(s, k)[i]
                  IN  StoreState(t) /\ \A j \in Keys : Apart(t, j)
           /\ \A i \in 1..3 : LET t == removeCuts(s, k)[i]
                             IN  StoreState(t) /\ \A j \in Keys : Apart(t, j)
           /\ \A i \in 1..2 : LET t == ingestCuts(s, k)[i]
                             IN  StoreState(t) /\ \A j \in Keys : Apart(t, j)
<1>1. ASSUME NEW u, Kept(u), NEW r \in Roots
      PROVE  LET t == [u EXCEPT !.metaFile[r][k] = None]
             IN  StoreState(t) /\ \A j \in Keys : Apart(t, j)
  <2> DEFINE t == [u EXCEPT !.metaFile[r][k] = None]
  <2>1. StoreState(t) /\ t.metaFile = [u.metaFile EXCEPT ![r] = [@ EXCEPT ![k] = None]]
    BY <1>1, Unfiles DEF Kept
  <2>2. StoreState(u) /\ \A j \in Keys : Apart(u, j)
    BY <1>1 DEF Kept, Agrees
  <2> HIDE DEF t
  <2>3. \A j \in Keys, q \in Roots : t.metaFile[q][j] \in {u.metaFile[q][j], None}
    BY <2>1, <2>2 DEF StoreState
  <2>4. \A j \in Keys : Apart(t, j)
    BY <2>2, <2>3 DEF Apart, Roots
  <2> QED
    BY <2>1, <2>4 DEF t
<1>2. ASSUME NEW u, Kept(u) PROVE StoreState(u) /\ \A j \in Keys : Apart(u, j)
  BY <1>2 DEF Kept, Agrees
<1>3. None \in Files /\ "evictable" \in Roots /\ "durable" \in Roots
  BY DEF Files, Roots
<1>4. \A i \in 1..2 : LET t == setDurableCuts(s, k)[i]
                     IN  StoreState(t) /\ \A j \in Keys : Apart(t, j)
  <2> DEFINE from == RootFor(s.metas[k])
             u == moveFile(s, k, from, OtherRoot(from))
  <2>1. from \in Roots /\ OtherRoot(from) \in Roots
    BY DEF RootFor, OtherRoot, Roots
  <2>2. Kept(u)
    BY <2>1, KeepsMove
  <2>3. setDurableCuts(s, k) = <<u, [u EXCEPT !.metaFile[from][k] = None]>>
    BY DEF setDurableCuts
  <2> HIDE DEF u, from
  <2> QED
    BY <1>1, <1>2, <2>1, <2>2, <2>3
<1>5. \A i \in 1..3 : LET t == removeCuts(s, k)[i]
                     IN  StoreState(t) /\ \A j \in Keys : Apart(t, j)
  <2> DEFINE a == [s EXCEPT !.blob["evictable"][k] = None]
             b == [a EXCEPT !.metaFile["evictable"][k] = None]
             c == [b EXCEPT !.blob["durable"][k] = None]
  <2>1. Kept(a)
    BY <1>3, KeepsPut
  <2>2. removeCuts(s, k) = <<a, b, c>>
    BY DEF removeCuts
  <2> HIDE DEF a
  <2>3. StoreState(b) /\ \A j \in Keys : Apart(b, j)
    BY <1>1, <1>3, <2>1
  <2> HIDE DEF b
  <2>4. StoreState(c) /\ c.metaFile = b.metaFile
    BY <1>3, <2>3, Puts
  <2> HIDE DEF c
  <2>5. \A j \in Keys : Apart(c, j)
    BY <2>3, <2>4 DEF Apart
  <2> QED
    BY <1>2, <2>1, <2>2, <2>3, <2>4, <2>5
<1>6. \A i \in 1..2 : LET t == ingestCuts(s, k)[i]
                     IN  StoreState(t) /\ \A j \in Keys : Apart(t, j)
  <2> DEFINE a == [s EXCEPT !.blob["durable"][k] = None]
             b == [s EXCEPT !.blob["durable"][k] = WholeFile(k)]
  <2>1. Kept(a) /\ Kept(b)
    BY <1>3, KeepsPut, Whole
  <2>2. ingestCuts(s, k) = <<a, b>>
    BY DEF ingestCuts
  <2> HIDE DEF a, b
  <2> QED
    BY <1>2, <2>1, <2>2
<1> QED
  BY <1>4, <1>5, <1>6

-----------------------------------------------------------------------------
(* The actions of the store *)

LEMMA BecomesKept ==
    ASSUME NEW s, Kept(s), Becomes(s)
    PROVE  Kept(Now)'
  BY DEF Kept, Becomes, Now, StoreState, Agrees, Apart

-----------------------------------------------------------------------------
TaskState == [pc: {"idle", "probe", "path", "create", "loop", "read", "ask", "body",
                   "write", "record", "length", "whole"},
              root: Roots, cursor: Nat, end: Nat, total: Nat, bodyEnd: Nat,
              from: Nat, n: Nat, chunked: BOOLEAN, expected: Nat]

WarmState == [pc: {"idle", "create", "already", "ask", "write", "record"},
              root: Roots, from: Nat, to: Nat]

\* Where a request is: before its first chunk and between two lookups it has
\* still something to answer, a cached run ends within what it asked for, a
\* body is written chunk by chunk and recorded from its last chunk down.
Placed(v) ==
    /\ v.pc # "idle" => v.expected = Min({v.cursor, v.end})
    /\ v.pc \in {"probe", "path", "create", "loop", "read", "ask"} => v.cursor < v.end
    /\ v.pc = "read" => v.cursor < v.n /\ v.n <= v.end
    /\ v.pc \in {"body", "write"} => v.from <= v.cursor /\ v.cursor <= v.bodyEnd
                                     /\ v.from < v.bodyEnd
    /\ v.pc = "write" => v.cursor < v.bodyEnd
    /\ v.pc = "record" => v.from < v.n /\ v.n < v.cursor

Tasked == task \in [Tasks -> TaskState] /\ \A t \in Tasks : Placed(task[t])

Safe == /\ Kept(Now)
        /\ Tasked
        /\ warming \in WarmState
        /\ handle \in Roots \union {None, Lost}
        /\ offset \in Nat

-----------------------------------------------------------------------------
(* The calls of the app *)

LEMMA Called ==
    ASSUME NEW s, Kept(s), Call(s)
    PROVE  Kept(Now)'
  BY BecomesKept DEF Call

\* Every call of the app keeps the store.
LEMMA AppKeeps ==
    ASSUME Kept(Now), AppCall
    PROVE  Kept(Now)'
<1>1. ASSUME NEW k \in Keys, NEW d \in BOOLEAN, Call(setDurable(Now, k, d)) PROVE Kept(Now)'
  BY <1>1, KeepsDurable, Called
<1>2. ASSUME NEW k \in Keys, Touch(k) PROVE Kept(Now)'
  BY <1>2, KeepsTouch, Called DEF Touch
<1>3. ASSUME NEW k \in Keys, RecordDerived(k) PROVE Kept(Now)'
  BY <1>3, KeepsDerived, Called DEF RecordDerived
<1>4. ASSUME NEW k \in Keys, CompleteURL(k) PROVE Kept(Now)'
  <2>1. Now.metas[k] # None /\ Call(completeFileURL(Now, k))
    BY <1>4 DEF CompleteURL, Now
  <2> QED
    BY <2>1, KeepsCompleteURL, Called
<1>5. ASSUME NEW K, Drop(K) PROVE Kept(Now)'
  BY <1>5, KeepsRemove, Called DEF Drop
<1>6. ASSUME NEW k \in Keys, Adopt(k) PROVE Kept(Now)'
  BY <1>6, KeepsAdopt, Called DEF Adopt
<1>7. ASSUME NEW k \in Keys, Register(k) PROVE Kept(Now)'
  BY <1>7, KeepsRegister, Called DEF Register
<1>8. ASSUME NEW k \in Keys, Ingest(k) PROVE Kept(Now)'
  BY <1>8, KeepsIngest, Called DEF Ingest
<1>9. CASE clearEvictable \/ clearDurable \/ clearAll \/ garbageCollectStalePartials
  BY <1>9, <1>5 DEF clearEvictable, clearDurable, clearAll, garbageCollectStalePartials
<1>10. CASE setLimit
  <2>1. PICK n \in Limits : Becomes(evictTo(Now, {}, n))
    BY <1>10 DEF setLimit
  <2> QED
    BY <2>1, KeepsEvict, BecomesKept
<1>11. CASE setProtectedKeys
  BY <1>11 DEF setProtectedKeys, Now, Kept, StoreState, Agrees, Apart
<1>12. ASSUME NEW k \in Keys, Pin(k) \/ Unpin(k) PROVE Kept(Now)'
  BY <1>1, <1>12 DEF Pin, Unpin
<1>13. CASE \E k \in Keys : Pin(k) \/ Unpin(k) \/ Touch(k) \/ RecordDerived(k) \/ CompleteURL(k)
                           \/ Drop({k})
  BY <1>2, <1>3, <1>4, <1>5, <1>12, <1>13
<1>14. CASE \E k \in Others : Adopt(k) \/ Register(k) \/ Ingest(k)
  BY <1>6, <1>7, <1>8, <1>14 DEF Others
<1> QED
  BY <1>9, <1>10, <1>11, <1>13, <1>14 DEF AppCall

\* What the system, a crash and the new process leave.
LEMMA SystemKeeps ==
    ASSUME Kept(Now),
           \/ \E k \in Keys : Purge(k) \/ Ingest(k)
           \/ Restart(Now)
           \/ \E k \in Keys : CrashInPin(k) \/ CrashInRemove(k) \/ CrashInIngest(k)
    PROVE  Kept(Now)'
<1>1. ASSUME NEW k \in Keys, Purge(k) PROVE Kept(Now)'
  <2>1. "evictable" \in Roots /\ None \in Files
    BY DEF Roots, Files
  <2> QED
    BY <1>1, <2>1, KeepsPut, Called DEF Purge
<1>2. ASSUME NEW k \in Keys, Ingest(k) PROVE Kept(Now)'
  BY <1>2, KeepsIngest, Called DEF Ingest
<1>3. ASSUME NEW s, StoreState(s), \A j \in Keys : Apart(s, j), Restart(s) PROVE Kept(Now)'
  <2>1. Kept([s EXCEPT !.metas = loadMetas(s)])
    BY <1>3, Reloads
  <2> QED
    BY <1>3, <2>1, BecomesKept DEF Restart
<1>4. CASE Restart(Now)
  <2>1. StoreState(Now) /\ \A j \in Keys : Apart(Now, j)
    BY DEF Kept, Agrees
  <2> QED
    BY <1>3, <1>4, <2>1
<1>5. ASSUME NEW k \in Keys, CrashInPin(k) PROVE Kept(Now)'
  <2>1. PICK i \in 1..2 : metas[k] # None /\ Restart(setDurableCuts(Now, k)[i])
    BY <1>5 DEF CrashInPin
  <2>2. Now.metas[k] # None
    BY <2>1 DEF Now
  <2> QED
    BY <1>3, <2>1, <2>2, Cuts
<1>6. ASSUME NEW k \in Keys, CrashInRemove(k) PROVE Kept(Now)'
  BY <1>3, <1>6, Cuts DEF CrashInRemove
<1>7. ASSUME NEW k \in Keys, CrashInIngest(k) PROVE Kept(Now)'
  BY <1>3, <1>7, Cuts DEF CrashInIngest
<1> QED
  BY <1>1, <1>2, <1>4, <1>5, <1>6, <1>7

-----------------------------------------------------------------------------
(* The steps of a request *)

\* The local variables of a request with one of them replaced.
LEMMA OneLocal ==
    ASSUME NEW v \in TaskState
    PROVE  /\ \A p \in {"idle", "probe", "path", "create", "loop", "read", "ask", "body",
                       "write", "record", "length", "whole"} : [v EXCEPT !.pc = p] \in TaskState
           /\ \A r \in Roots : [v EXCEPT !.root = r] \in TaskState
           /\ \A x \in Nat : /\ [v EXCEPT !.cursor = x] \in TaskState
                           /\ [v EXCEPT !.end = x] \in TaskState
                           /\ [v EXCEPT !.total = x] \in TaskState
                           /\ [v EXCEPT !.bodyEnd = x] \in TaskState
                           /\ [v EXCEPT !.from = x] \in TaskState
                           /\ [v EXCEPT !.n = x] \in TaskState
                           /\ [v EXCEPT !.expected = x] \in TaskState
           /\ \A b \in BOOLEAN : [v EXCEPT !.chunked = b] \in TaskState
<1>1. ASSUME NEW p \in {"idle", "probe", "path", "create", "loop", "read", "ask", "body",
                        "write", "record", "length", "whole"}
      PROVE  [v EXCEPT !.pc = p] \in TaskState
  BY DEF TaskState
<1>2. ASSUME NEW r \in Roots PROVE [v EXCEPT !.root = r] \in TaskState
  BY DEF TaskState
<1>3. ASSUME NEW x \in Nat PROVE [v EXCEPT !.cursor = x] \in TaskState
  BY DEF TaskState
<1>4. ASSUME NEW x \in Nat PROVE [v EXCEPT !.end = x] \in TaskState
  BY DEF TaskState
<1>5. ASSUME NEW x \in Nat PROVE [v EXCEPT !.total = x] \in TaskState
  BY DEF TaskState
<1>6. ASSUME NEW x \in Nat PROVE [v EXCEPT !.bodyEnd = x] \in TaskState
  BY DEF TaskState
<1>7. ASSUME NEW x \in Nat PROVE [v EXCEPT !.from = x] \in TaskState
  BY DEF TaskState
<1>8. ASSUME NEW x \in Nat PROVE [v EXCEPT !.n = x] \in TaskState
  BY DEF TaskState
<1>9. ASSUME NEW x \in Nat PROVE [v EXCEPT !.expected = x] \in TaskState
  BY DEF TaskState
<1>10. ASSUME NEW b \in BOOLEAN PROVE [v EXCEPT !.chunked = b] \in TaskState
  BY DEF TaskState
<1> QED
  BY <1>1, <1>2, <1>3, <1>4, <1>5, <1>6, <1>7, <1>8, <1>9, <1>10

LEMMA IdlePlaced == Idle \in TaskState /\ Placed(Idle)
  BY DEF Idle, TaskState, Placed, Roots

LEMMA LengthNat == Length \in Nat /\ Length > 0 /\ Track \in Keys
  BY StoreAssumption, LoaderAssumption DEF Length

\* What a step leaves of a request, and the other requests, stay placed.
LEMMA SetKeeps ==
    ASSUME Tasked, NEW t \in Tasks, NEW v \in TaskState, Placed(v), Set(t, v)
    PROVE  Tasked' /\ warming' = warming
<1>1. task' = [task EXCEPT ![t] = v] /\ warming' = warming
  BY DEF Set
<1>2. task' \in [Tasks -> TaskState]
  BY <1>1 DEF Tasked
<1>3. ASSUME NEW u \in Tasks PROVE Placed(task'[u])
  BY <1>1 DEF Tasked
<1> QED
  BY <1>1, <1>2, <1>3 DEF Tasked

LEMMA HandleKept ==
    ASSUME handle \in Roots \union {None, Lost}, Follow
    PROVE  handle' \in Roots \union {None, Lost}
  BY DEF Follow, OtherRoot, Roots

\* A step that changes nothing but its request, and one that ends with a call.
LEMMA LocalSafe ==
    ASSUME Safe, NEW t \in Tasks, NEW v \in TaskState, Placed(v), Local(t, v)
    PROVE  Safe'
<1>1. Tasked' /\ warming' = warming
  BY SetKeeps DEF Safe, Local
<1>2. Kept(Now)' /\ handle' = handle /\ offset' = offset
  BY DEF Safe, Local, storeVars, Now, Kept, StoreState, Agrees, Apart
<1> QED
  BY <1>1, <1>2 DEF Safe

LEMMA AwaitSafe ==
    ASSUME Safe, NEW t \in Tasks, NEW v \in TaskState, Placed(v),
           NEW s, Kept(s), Await(t, v, s)
    PROVE  Safe'
<1>1. Tasked' /\ warming' = warming
  BY SetKeeps DEF Safe, Await
<1>2. Kept(Now)' /\ offset' = offset
  BY Called DEF Await
<1>3. handle' \in Roots \union {None, Lost}
  BY HandleKept DEF Safe, Await
<1> QED
  BY <1>1, <1>2, <1>3 DEF Safe

\* A request whose bounds are known is placed or over.
LEMMA BoundedPlaced ==
    ASSUME NEW v \in TaskState, v.expected = v.cursor, NEW n \in Nat
    PROVE  Bounded(v, n) \in TaskState /\ Placed(Bounded(v, n))
<1> DEFINE end == IF n > 0 THEN Min({n, v.end}) ELSE v.end
           w == [v EXCEPT !.pc = "path", !.total = n, !.end = end]
<1>1. v.end \in Nat /\ v.cursor \in Nat
  BY DEF TaskState
<1>2. end \in Nat
  BY <1>1, MinOfTwo
<1>3. CASE v.cursor < end
  <2>1. Bounded(v, n) = w
    BY <1>3 DEF Bounded
  <2> HIDE DEF end
  <2>2. w \in TaskState
    BY <1>2 DEF TaskState
  <2>3. w.pc = "path" /\ w.cursor = v.cursor /\ w.end = end /\ w.expected = v.cursor
    BY DEF TaskState
  <2> HIDE DEF w
  <2>4. Min({w.cursor, w.end}) = w.cursor
    BY <1>1, <1>2, <1>3, <2>3, MinOfTwo
  <2> QED
    BY <1>3, <2>1, <2>2, <2>3, <2>4 DEF Placed
<1>4. CASE ~(v.cursor < end)
  BY <1>4, IdlePlaced DEF Bounded
<1> QED
  BY <1>3, <1>4

LEMMA TotalNat ==
    ASSUME Kept(Now)
    PROVE  /\ CacheTotal \in Nat
           /\ MetaOf(Now, Track).ranges \in SUBSET Nat
           /\ IsFiniteSet(MetaOf(Now, Track).ranges)
<1>1. MetaOf(Now, Track) \in Records
  BY RecordOf, LengthNat
<1> QED
  BY <1>1 DEF CacheTotal, Records, Meta

\* Between two lookups a request has something left to answer, or is over.
LEMMA ContinuePlaced ==
    ASSUME NEW v \in TaskState, v.expected = Min({v.cursor, v.end})
    PROVE  Continue(v) \in TaskState /\ Placed(Continue(v))
<1> DEFINE w == [v EXCEPT !.pc = "loop", !.n = 0, !.from = 0, !.bodyEnd = 0]
<1>1. CASE v.cursor < v.end
  <2>1. Continue(v) = w
    BY <1>1 DEF Continue
  <2>2. w \in TaskState
    BY DEF TaskState
  <2>3. w.pc = "loop" /\ w.cursor = v.cursor /\ w.end = v.end /\ w.expected = v.expected
    BY DEF TaskState
  <2> HIDE DEF w
  <2> QED
    BY <1>1, <2>1, <2>2, <2>3 DEF Placed
<1>2. CASE ~(v.cursor < v.end)
  BY <1>2, IdlePlaced DEF Continue
<1> QED
  BY <1>1, <1>2

LEMMA RequestSafe ==
    ASSUME Safe, NEW t \in Tasks, Request(t)
    PROVE  Safe'
<1>1. PICK start \in Chunks, end \in Chunks \union {ToTheEnd} :
          LET v == [Idle EXCEPT !.pc = "probe", !.cursor = start, !.expected = start, !.end = end]
          IN  start < end /\ Set(t, IF CacheTotal > 0 THEN Bounded(v, CacheTotal) ELSE v)
  BY DEF Request
<1> DEFINE v == [Idle EXCEPT !.pc = "probe", !.cursor = start, !.expected = start, !.end = end]
           w == IF CacheTotal > 0 THEN Bounded(v, CacheTotal) ELSE v
<1>2. start \in Nat /\ end \in Nat
  BY LengthNat DEF Chunks, ToTheEnd
<1>3. /\ v \in TaskState /\ v.pc = "probe" /\ v.cursor = start /\ v.expected = start
      /\ v.end = end
  BY <1>2 DEF Idle, TaskState, Roots
<1>4. Set(t, w) /\ start < end
  BY <1>1
<1> HIDE DEF v
<1>5. Placed(v)
  BY <1>2, <1>3, <1>4, MinOfTwo DEF Placed
<1>6. w \in TaskState /\ Placed(w)
  BY <1>3, <1>5, BoundedPlaced, TotalNat DEF Safe
<1> HIDE DEF w
<1>7. Tasked' /\ warming' = warming
  BY <1>4, <1>6, SetKeeps DEF Safe
<1>8. Kept(Now)' /\ handle' = handle /\ offset' = offset
  BY DEF Request, Safe, storeVars, Now, Kept, StoreState, Agrees, Apart
<1> QED
  BY <1>7, <1>8 DEF Safe

LEMMA ProbeSafe ==
    ASSUME Safe, NEW t \in Tasks, Probe(t)
    PROVE  Safe'
<1>1. task[t] \in TaskState /\ Placed(task[t]) /\ task[t].pc = "probe"
  BY DEF Safe, Tasked, Probe
<1>2. task[t].expected = task[t].cursor
  BY <1>1, MinOfTwo DEF Placed, TaskState
<1>3. \A n \in Nat : Bounded(task[t], n) \in TaskState /\ Placed(Bounded(task[t], n))
  BY <1>1, <1>2, BoundedPlaced
<1>4. Kept(setContentLength(Now, Track, Length)) /\ Kept(Now)
  BY LengthNat, KeepsLength DEF Safe
<1> QED
  BY <1>3, <1>4, LengthNat, AwaitSafe DEF Probe

\* A file created where there is none.
LEMMA KeepsCreated ==
    ASSUME Kept(Now), NEW r \in Roots
    PROVE  Kept(Created(r))
<1>1. <<>> \in Files
  BY EmptySeq DEF Files
<1> QED
  BY <1>1, LengthNat, KeepsPut DEF Created

LEMMA PathSafe ==
    ASSUME Safe, NEW t \in Tasks, Path(t)
    PROVE  Safe'
<1> DEFINE v == task[t]
           w == [v EXCEPT !.pc = "create", !.root = fileURL(Track)]
<1>1. v \in TaskState /\ Placed(v) /\ v.pc = "path" /\ Local(t, w)
  BY DEF Safe, Tasked, Path
<1>2. fileURL(Track) \in Roots
  BY DEF fileURL, RootFor, Roots
<1> HIDE DEF v
<1>3. w \in TaskState /\ w.pc = "create" /\ w.cursor = v.cursor /\ w.end = v.end
      /\ w.expected = v.expected
  BY <1>1, <1>2 DEF TaskState
<1> HIDE DEF w
<1>4. Placed(w)
  BY <1>1, <1>3 DEF Placed
<1> QED
  BY <1>1, <1>3, <1>4, LocalSafe

LEMMA CreateSafe ==
    ASSUME Safe, NEW t \in Tasks, Create(t)
    PROVE  Safe'
<1> DEFINE v == task[t]
           w == [v EXCEPT !.pc = "loop"]
<1>1. v \in TaskState /\ Placed(v) /\ v.pc = "create" /\ Await(t, w, Created(v.root))
  BY DEF Safe, Tasked, Create
<1>2. v.root \in Roots
  BY <1>1 DEF TaskState
<1> HIDE DEF v
<1>3. w \in TaskState /\ w.pc = "loop" /\ w.cursor = v.cursor /\ w.end = v.end
      /\ w.expected = v.expected
  BY <1>1 DEF TaskState
<1> HIDE DEF w
<1>4. Placed(w)
  BY <1>1, <1>3 DEF Placed
<1>5. Kept(Created(v.root))
  BY <1>2, KeepsCreated DEF Safe
<1> QED
  BY <1>1, <1>3, <1>4, <1>5, AwaitSafe

LEMMA LookupSafe ==
    ASSUME Safe, NEW t \in Tasks, Lookup(t)
    PROVE  Safe'
<1> DEFINE v   == task[t]
           hit == cachedContiguousBytes(Now, Track, v.cursor)
           end == Min({v.cursor + hit.n, v.end})
           w   == [v EXCEPT !.pc = IF hit.n > 0 THEN "read" ELSE "ask",
                            !.n = IF hit.n > 0 THEN end ELSE 0]
<1>1. v \in TaskState /\ Placed(v) /\ v.pc = "loop"
  BY DEF Safe, Tasked, Lookup
<1>2. v.cursor \in Nat /\ v.end \in Nat /\ v.cursor < v.end
  BY <1>1 DEF TaskState, Placed
<1>3. Kept(Now) /\ Kept(hit.s)
  BY <1>2, LengthNat, KeepsLookup DEF Safe
<1>4. hit.n \in Nat
  <2>1. contiguousBytes(MetaOf(Now, Track).ranges, v.cursor) \in Nat
    BY <1>2, <1>3, TotalNat, Contiguous
  <2> QED
    BY <2>1 DEF cachedContiguousBytes
<1>5. CASE didShutdown
  BY <1>3, <1>5, IdlePlaced, AwaitSafe DEF Lookup
<1>6. CASE ~didShutdown
  <2>1. Await(t, w, hit.s)
    BY <1>6 DEF Lookup
  <2> HIDE DEF hit
  <2>2. end \in Nat /\ (hit.n > 0 => v.cursor < end) /\ end <= v.end
    BY <1>2, <1>4, MinOfTwo
  <2> HIDE DEF end, v
  <2>3. /\ w \in TaskState
        /\ w.pc = (IF hit.n > 0 THEN "read" ELSE "ask") /\ (hit.n > 0 => w.n = end)
        /\ w.cursor = v.cursor /\ w.end = v.end /\ w.expected = v.expected
    BY <1>1, <2>2 DEF TaskState
  <2> HIDE DEF w
  <2>4. Placed(w)
    BY <1>1, <2>2, <2>3 DEF Placed
  <2> QED
    BY <1>3, <2>1, <2>3, <2>4, AwaitSafe
<1> QED
  BY <1>5, <1>6

LEMMA ReadSafe ==
    ASSUME Safe, NEW t \in Tasks, Read(t)
    PROVE  Safe'
<1> DEFINE v    == task[t]
           file == blob[v.root][Track]
           stop == Min({v.n, FileSize(file)})
           more == stop - v.cursor
           u    == [v EXCEPT !.cursor = stop, !.expected = @ + more]
           w    == [v EXCEPT !.pc = "ask", !.n = 0]
<1>1. v \in TaskState /\ Placed(v) /\ v.pc = "read"
  BY DEF Safe, Tasked, Read
<1>2. /\ v.cursor \in Nat /\ v.end \in Nat /\ v.n \in Nat /\ v.root \in Roots
      /\ v.cursor < v.end /\ v.n <= v.end /\ v.expected = Min({v.cursor, v.end})
  BY <1>1 DEF TaskState, Placed
<1>3. FileSize(file) \in Nat
  <2>1. file \in Files
    BY <1>2, LengthNat DEF Safe, Kept, StoreState, Now
  <2> QED
    BY <2>1, SizeNat
<1>4. stop \in Nat /\ stop <= v.n /\ v.expected = v.cursor
  <2> HIDE DEF file, v
  <2>1. stop = IF v.n <= FileSize(file) THEN v.n ELSE FileSize(file)
    BY <1>2, <1>3, MinOfTwo
  <2>2. Min({v.cursor, v.end}) = v.cursor
    BY <1>2, MinOfTwo
  <2> HIDE DEF stop
  <2> QED
    BY <1>2, <1>3, <2>1, <2>2
<1>5. CASE more <= 0
  <2>1. Local(t, w)
    BY <1>5 DEF Read
  <2> HIDE DEF v
  <2>2. w \in TaskState /\ w.pc = "ask" /\ w.cursor = v.cursor /\ w.end = v.end
        /\ w.expected = v.expected
    BY <1>1 DEF TaskState
  <2> HIDE DEF w
  <2>3. Placed(w)
    BY <1>1, <2>2 DEF Placed
  <2> QED
    BY <2>1, <2>2, <2>3, LocalSafe
<1>6. CASE ~(more <= 0)
  <2>1. Set(t, Continue(u)) /\ UNCHANGED <<storeVars, handle, offset>>
    BY <1>6 DEF Read
  <2> HIDE DEF v, stop
  <2>2. v.expected + more = stop
    BY <1>2, <1>4
  <2> HIDE DEF more
  <2>3. u \in TaskState /\ u.cursor = stop /\ u.end = v.end /\ u.expected = stop
    BY <1>1, <1>4, <2>2 DEF TaskState
  <2> HIDE DEF u
  <2>4. Continue(u) \in TaskState /\ Placed(Continue(u))
    <3>1. Min({stop, v.end}) = stop
      BY <1>2, <1>4, MinOfTwo
    <3> QED
      BY <2>3, <3>1, ContinuePlaced
  <2>5. Tasked' /\ warming' = warming
    BY <2>1, <2>4, SetKeeps DEF Safe
  <2>6. Kept(Now)' /\ handle' = handle /\ offset' = offset
    BY <2>1 DEF Safe, storeVars, Now, Kept, StoreState, Agrees, Apart
  <2> QED
    BY <2>5, <2>6 DEF Safe
<1> QED
  BY <1>5, <1>6

\* The local variables of a request whose body is on its way.
LEMMA BodyPlaced ==
    ASSUME NEW v \in TaskState, v.expected = v.cursor, v.cursor < v.end,
           NEW e \in Nat, v.cursor < e
    PROVE  LET w == [v EXCEPT !.pc = "body", !.from = v.cursor, !.bodyEnd = e]
           IN  w \in TaskState /\ Placed(w)
<1> DEFINE w == [v EXCEPT !.pc = "body", !.from = v.cursor, !.bodyEnd = e]
<1>1. /\ w \in TaskState /\ w.pc = "body" /\ w.from = v.cursor /\ w.cursor = v.cursor
      /\ w.bodyEnd = e /\ w.end = v.end /\ w.expected = v.cursor
      /\ v.cursor \in Nat /\ v.end \in Nat
  BY DEF TaskState
<1> HIDE DEF w
<1>2. Min({w.cursor, w.end}) = w.cursor
  BY <1>1, MinOfTwo
<1>3. Placed(w)
  BY <1>1, <1>2 DEF Placed
<1> QED
  BY <1>1, <1>3 DEF w

LEMMA AskSafe ==
    ASSUME Safe, NEW t \in Tasks, Ask(t)
    PROVE  Safe'
<1> DEFINE v     == task[t]
           known == IF CacheTotal > 0 THEN CacheTotal ELSE v.total
           Body(end) == [v EXCEPT !.pc = "body", !.from = v.cursor, !.bodyEnd = end]
           e     == IF v.total > 0 THEN Min({v.end, Length}) ELSE Length
           w     == [Body(Length) EXCEPT !.chunked = TRUE, !.end = ToTheEnd]
<1>1. v \in TaskState /\ Placed(v) /\ v.pc = "ask"
  BY DEF Safe, Tasked, Ask
<1>2. v.cursor \in Nat /\ v.end \in Nat /\ v.total \in Nat /\ v.cursor < v.end
  BY <1>1 DEF TaskState, Placed
<1>3. v.expected = v.cursor
  BY <1>1, <1>2, MinOfTwo DEF Placed
<1>4. CASE ranged /\ v.cursor < Length /\ Local(t, Body(e))
  <2>1. e \in Nat /\ v.cursor < e
    <3>1. Min({v.end, Length}) = IF v.end <= Length THEN v.end ELSE Length
      BY <1>2, LengthNat, MinOfTwo
    <3> HIDE DEF v
    <3> QED
      BY <1>2, <1>4, <3>1, LengthNat
  <2> HIDE DEF e
  <2>2. Body(e) \in TaskState /\ Placed(Body(e))
    BY <1>1, <1>2, <1>3, <2>1, BodyPlaced
  <2> QED
    BY <1>4, <2>2, LocalSafe
<1>5. ASSUME v.cursor = 0 PROVE Body(Length) \in TaskState /\ Placed(Body(Length))
  BY <1>1, <1>2, <1>3, <1>5, LengthNat, BodyPlaced
<1>6. CASE /\ v.cursor = 0
           /\ \E n \in {Length, known} \ {0} :
                 Await(t, Body(Length), setContentLength(Now, Track, n))
  <2>1. PICK n \in {Length, known} : Await(t, Body(Length), setContentLength(Now, Track, n))
    BY <1>6
  <2>2. n \in Nat
    BY <1>2, LengthNat, TotalNat DEF Safe
  <2>3. Kept(setContentLength(Now, Track, n))
    BY <2>2, LengthNat, KeepsLength DEF Safe
  <2>4. Body(Length) \in TaskState /\ Placed(Body(Length))
    BY <1>5, <1>6
  <2> HIDE DEF Body
  <2> QED
    BY <2>1, <2>3, <2>4, AwaitSafe
<1>7. CASE v.cursor = 0 /\ Await(t, w, Now)
  <2>1. ToTheEnd \in Nat /\ Length \in Nat /\ 0 < Length /\ 0 < ToTheEnd
    BY LengthNat DEF ToTheEnd
  <2> HIDE DEF v
  <2>2. /\ w \in TaskState /\ w.pc = "body" /\ w.from = v.cursor /\ w.cursor = v.cursor
        /\ w.bodyEnd = Length /\ w.end = ToTheEnd /\ w.expected = v.cursor
    BY <1>1, <1>3, <2>1 DEF TaskState
  <2> HIDE DEF w
  <2>3. Min({w.cursor, w.end}) = w.cursor
    BY <1>7, <2>1, <2>2, MinOfTwo
  <2>4. Placed(w)
    BY <1>7, <2>1, <2>2, <2>3 DEF Placed
  <2> QED
    BY <1>7, <2>2, <2>4, AwaitSafe DEF Safe
<1> QED
  BY <1>4, <1>6, <1>7 DEF Ask

LEMMA SeekSafe ==
    ASSUME Safe, NEW t \in Tasks, Seek(t)
    PROVE  Safe'
<1> DEFINE v == task[t]
           w == [v EXCEPT !.pc = "write"]
<1>1. v \in TaskState /\ Placed(v) /\ v.pc = "body" /\ v.cursor < v.bodyEnd /\ Set(t, w)
  BY DEF Safe, Tasked, Seek
<1>2. v.cursor \in Nat /\ v.root \in Roots
  BY <1>1 DEF TaskState
<1>3. handle' \in Roots \union {None, Lost} /\ offset' \in Nat
  BY <1>2 DEF Seek, Safe
<1>4. Kept(Now)'
  BY DEF Seek, Safe, storeVars, Now, Kept, StoreState, Agrees, Apart
<1> HIDE DEF v
<1>5. /\ w \in TaskState /\ w.pc = "write" /\ w.cursor = v.cursor /\ w.end = v.end
      /\ w.expected = v.expected /\ w.from = v.from /\ w.bodyEnd = v.bodyEnd
  BY <1>1 DEF TaskState
<1> HIDE DEF w
<1>6. Placed(w)
  BY <1>1, <1>5 DEF Placed
<1>7. Tasked' /\ warming' = warming
  BY <1>1, <1>5, <1>6, SetKeeps DEF Safe
<1> QED
  BY <1>3, <1>4, <1>7 DEF Safe

\* What a file holds after a write of the chunks a..b-1.
LEMMA WrittenFile ==
    ASSUME NEW f \in Files, NEW a \in Nat, NEW b \in Nat, NEW g \in BOOLEAN
    PROVE  LET w == Written(f, a, b, g)
           IN  /\ w \in Files /\ w # None
               /\ FileSize(w) = IF FileSize(f) >= b THEN FileSize(f) ELSE b
               /\ \A i \in 1..FileSize(w) : w[i] = IF a < i /\ i <= b THEN g
                                                 ELSE i <= FileSize(f) /\ f[i]
<1> DEFINE n == IF FileSize(f) >= b THEN FileSize(f) ELSE b
           w == Written(f, a, b, g)
<1>1. FileSize(f) \in Nat
  BY SizeNat
<1>2. n \in Nat /\ Max({FileSize(f), b}) = n
  BY <1>1, MaxOfTwo
<1>3. w = [i \in 1..n |-> IF a < i /\ i <= b THEN g ELSE i <= FileSize(f) /\ f[i]]
  BY <1>2 DEF Written
<1> HIDE DEF n, w
<1>4. w \in [1..n -> BOOLEAN]
  BY <1>3
<1>5. w \in Seq(BOOLEAN)
  BY <1>2, <1>4, SeqDef
<1>6. Len(w) = n
  BY <1>2, <1>4, <1>5
<1>7. w # None /\ w \in Files /\ FileSize(w) = n
  BY <1>5, <1>6, StoreAssumption DEF Files, FileSize
<1>8. \A i \in 1..FileSize(w) : w[i] = IF a < i /\ i <= b THEN g ELSE i <= FileSize(f) /\ f[i]
  BY <1>3, <1>7
<1> QED
  BY <1>7, <1>8 DEF w, n

\* A file of the track replaced under the store.
LEMMA KeepsFile ==
    ASSUME Kept(Now), NEW r \in Roots, NEW f \in Files,
           blob' = [blob EXCEPT ![r][Track] = f],
           UNCHANGED <<metas, metaFile, used>>
    PROVE  Kept(Now)'
<1> DEFINE s == [Now EXCEPT !.blob[r][Track] = f]
<1>1. Kept(s)
  BY LengthNat, KeepsPut
<1>2. Becomes(s)
  BY DEF Becomes, Now
<1> HIDE DEF s
<1> QED
  BY <1>1, <1>2, BecomesKept

LEMMA FileOf ==
    ASSUME Kept(Now), NEW r \in Roots
    PROVE  blob[r][Track] \in Files
  BY LengthNat DEF Kept, StoreState, Now

LEMMA WriteSafe ==
    ASSUME Safe, NEW t \in Tasks, Write(t)
    PROVE  Safe'
<1> DEFINE v == task[t]
           x == IF v.cursor < v.end THEN v.expected + 1 ELSE v.expected
           y == v.cursor + 1
           w == [v EXCEPT !.pc = "body", !.cursor = y, !.expected = x]
           g == offset = v.cursor
<1>1. v \in TaskState /\ Placed(v) /\ v.pc = "write" /\ Set(t, w)
  BY DEF Safe, Tasked, Write
<1>2. /\ v.cursor \in Nat /\ v.end \in Nat /\ v.from \in Nat /\ v.bodyEnd \in Nat
      /\ v.expected = Min({v.cursor, v.end})
      /\ v.from <= v.cursor /\ v.cursor < v.bodyEnd
  BY <1>1 DEF TaskState, Placed
<1>3. x \in Nat /\ y \in Nat /\ Min({y, v.end}) = x
  BY <1>2, MinOfTwo
<1>4. handle' = handle /\ offset' \in Nat
  BY DEF Write, Safe
<1>5. Kept(Now)'
  <2>1. CASE handle \in Roots
    <3> DEFINE f == Written(blob[handle][Track], offset, offset + 1, g)
    <3>1. g \in BOOLEAN /\ offset \in Nat /\ offset + 1 \in Nat
      BY DEF Safe
    <3>2. f \in Files
      BY <2>1, <3>1, FileOf, WrittenFile DEF Safe
    <3>3. blob' = [blob EXCEPT ![handle][Track] = f] /\ UNCHANGED <<metas, metaFile, used>>
      BY <2>1 DEF Write
    <3> HIDE DEF f
    <3> QED
      BY <2>1, <3>2, <3>3, KeepsFile DEF Safe
  <2>2. CASE handle \notin Roots
    <3>1. UNCHANGED <<metas, metaFile, used, blob>>
      BY <2>2 DEF Write
    <3> QED
      BY <3>1 DEF Safe, Now, Kept, StoreState, Agrees, Apart
  <2> QED
    BY <2>1, <2>2
<1> HIDE DEF v, x, y
<1>6. /\ w \in TaskState /\ w.pc = "body" /\ w.cursor = y /\ w.end = v.end
      /\ w.expected = x /\ w.from = v.from /\ w.bodyEnd = v.bodyEnd
  BY <1>1, <1>3 DEF TaskState
<1> HIDE DEF w
<1>7. Placed(w)
  BY <1>2, <1>3, <1>6 DEF Placed, y
<1>8. Tasked' /\ warming' = warming
  BY <1>1, <1>6, <1>7, SetKeeps DEF Safe
<1> QED
  BY <1>4, <1>5, <1>8 DEF Safe

LEMMA RecordSafe ==
    ASSUME Safe, NEW t \in Tasks, Record(t)
    PROVE  Safe'
<1> DEFINE v   == task[t]
           top == IF v.pc = "body" THEN v.cursor - 1 ELSE v.n - 1
           w   == [v EXCEPT !.pc = "record", !.n = top]
           x   == [w EXCEPT !.pc = "length"]
           s   == recordWrite(Now, Track, {top})
<1>1. /\ v \in TaskState /\ Placed(v)
      /\ (v.pc = "body" /\ v.cursor = v.bodyEnd) \/ v.pc = "record"
  BY DEF Safe, Tasked, Record
<1>2. /\ v.cursor \in Nat /\ v.end \in Nat /\ v.from \in Nat /\ v.bodyEnd \in Nat /\ v.n \in Nat
      /\ v.expected = Min({v.cursor, v.end})
  BY <1>1 DEF TaskState, Placed
<1>3. top \in Nat /\ top < v.cursor
  BY <1>1, <1>2 DEF Placed
<1>4. Kept(s)
  <2>1. {top} \in SUBSET Nat /\ IsFiniteSet({top})
    BY <1>3, FS_Singleton
  <2> QED
    BY <2>1, LengthNat, KeepsWrite DEF Safe
<1>5. Await(t, IF top > v.from THEN w ELSE IF v.chunked THEN x ELSE Continue(v), s)
  BY DEF Record
<1> HIDE DEF v, top, s
<1>6. /\ w \in TaskState /\ w.pc = "record" /\ w.n = top /\ w.cursor = v.cursor
      /\ w.end = v.end /\ w.expected = v.expected /\ w.from = v.from
  BY <1>1, <1>3 DEF TaskState
<1>7. CASE top > v.from
  <2> HIDE DEF w
  <2>1. Placed(w)
    BY <1>2, <1>3, <1>6, <1>7 DEF Placed
  <2> QED
    BY <1>4, <1>5, <1>6, <1>7, <2>1, AwaitSafe
<1>8. CASE ~(top > v.from) /\ v.chunked
  <2> HIDE DEF w
  <2>1. /\ x \in TaskState /\ x.pc = "length" /\ x.cursor = v.cursor
        /\ x.end = v.end /\ x.expected = v.expected
    BY <1>6 DEF TaskState
  <2> HIDE DEF x
  <2>2. Placed(x)
    BY <1>2, <2>1 DEF Placed
  <2>3. Await(t, x, s)
    BY <1>5, <1>8
  <2> QED
    BY <1>4, <2>1, <2>2, <2>3, AwaitSafe
<1>9. CASE ~(top > v.from) /\ ~v.chunked
  <2>1. Continue(v) \in TaskState /\ Placed(Continue(v))
    BY <1>1, <1>2, ContinuePlaced
  <2>2. Await(t, Continue(v), s)
    BY <1>5, <1>9
  <2> QED
    BY <1>4, <2>1, <2>2, AwaitSafe
<1> QED
  BY <1>7, <1>8, <1>9

LEMMA RecordWholeSafe ==
    ASSUME Safe, NEW t \in Tasks, RecordWhole(t)
    PROVE  Safe'
<1> DEFINE v == task[t]
           w == [v EXCEPT !.pc = "whole"]
<1>1. v \in TaskState /\ Placed(v)
  BY DEF Safe, Tasked
<1>2. v.cursor \in Nat
  BY <1>1 DEF TaskState
<1>3. CASE v.pc = "length" /\ Await(t, w, setContentLength(Now, Track, v.cursor))
  <2>1. Kept(setContentLength(Now, Track, v.cursor))
    BY <1>2, LengthNat, KeepsLength DEF Safe
  <2> HIDE DEF v
  <2>2. /\ w \in TaskState /\ w.pc = "whole" /\ w.cursor = v.cursor
        /\ w.end = v.end /\ w.expected = v.expected
    BY <1>1 DEF TaskState
  <2> HIDE DEF w
  <2>3. Placed(w)
    BY <1>1, <1>3, <2>2 DEF Placed
  <2> QED
    BY <1>3, <2>1, <2>2, <2>3, AwaitSafe
<1>4. CASE Await(t, Idle, recordWrite(Now, Track, 0..(v.cursor - 1)))
  <2>1. 0..(v.cursor - 1) \in SUBSET Nat /\ IsFiniteSet(0..(v.cursor - 1))
    <3> HIDE DEF v
    <3>1. v.cursor - 1 \in Int /\ \A x \in 0..(v.cursor - 1) : x \in Nat
      BY <1>2
    <3> QED
      BY <3>1, FS_Interval
  <2>2. Kept(recordWrite(Now, Track, 0..(v.cursor - 1)))
    BY <2>1, LengthNat, KeepsWrite DEF Safe
  <2> QED
    BY <1>4, <2>2, IdlePlaced, AwaitSafe
<1> QED
  BY <1>3, <1>4 DEF RecordWhole

-----------------------------------------------------------------------------
(* The warm-up, the app, the system and the process *)

LEMMA WarmedSafe ==
    ASSUME Safe, NEW w \in WarmState, NEW s, Kept(s), Warmed(w, s)
    PROVE  Safe'
<1>1. Kept(Now)'
  BY Called DEF Warmed
<1>2. handle' \in Roots \union {None, Lost}
  BY HandleKept DEF Safe, Warmed
<1> QED
  BY <1>1, <1>2 DEF Safe, Warmed, Tasked

LEMMA WarmSafe ==
    ASSUME Safe, WarmStep
    PROVE  Safe'
<1> USE DEF WarmStep
<1> DEFINE v == warming
<1>1. v \in WarmState /\ v.from \in Nat /\ v.to \in Nat /\ v.root \in Roots /\ Kept(Now)
  BY DEF Safe, WarmState
<1>2. NoWarmup \in WarmState
  BY DEF NoWarmup, WarmState, Roots
<1>3. \A p \in {"idle", "create", "already", "ask", "write", "record"} :
         [v EXCEPT !.pc = p] \in WarmState
  BY <1>1 DEF WarmState
<1>4. CASE WarmStart
  <2>1. PICK bytes \in 1..Length :
            warming' = [pc |-> "create", root |-> fileURL(Track), from |-> 0, to |-> bytes]
    BY <1>4 DEF WarmStart
  <2>2. warming' \in WarmState
    BY <2>1, LengthNat DEF WarmState, fileURL, RootFor, Roots
  <2>3. UNCHANGED <<metas, metaFile, blob, used, task, handle, offset>>
    BY <1>4 DEF WarmStart, storeVars
  <2> QED
    BY <2>2, <2>3 DEF Safe, Tasked, Now, Kept, StoreState, Agrees, Apart
<1>5. CASE WarmCreate
  BY <1>1, <1>3, <1>5, KeepsCreated, WarmedSafe DEF WarmCreate
<1>6. CASE WarmAlready
  <2> DEFINE already == contiguousBytes(MetaOf(Now, Track).ranges, 0)
             w == [v EXCEPT !.pc = "ask", !.from = already]
  <2>1. already \in Nat
    BY <1>1, TotalNat, Contiguous
  <2>2. Warmed(IF already < v.to THEN w ELSE NoWarmup, Now)
    BY <1>6 DEF WarmAlready
  <2> HIDE DEF already
  <2>3. w \in WarmState
    BY <1>1, <2>1 DEF WarmState
  <2> QED
    BY <1>1, <1>2, <2>2, <2>3, WarmedSafe
<1>7. CASE WarmAnswer
  <2>1. CASE Warmed([v EXCEPT !.pc = "write"], Now) \/ Warmed(NoWarmup, Now)
    BY <1>1, <1>2, <1>3, <2>1, WarmedSafe
  <2>2. ASSUME NEW n \in {Length, CacheTotal},
               Warmed([v EXCEPT !.pc = "write", !.to = Length], setContentLength(Now, Track, n))
        PROVE  Safe'
    <3>1. n \in Nat
      BY <1>1, LengthNat, TotalNat
    <3>2. Kept(setContentLength(Now, Track, n))
      BY <1>1, <3>1, LengthNat, KeepsLength
    <3>3. [v EXCEPT !.pc = "write", !.to = Length] \in WarmState
      BY <1>1, LengthNat DEF WarmState
    <3> QED
      BY <2>2, <3>2, <3>3, WarmedSafe
  <2> QED
    BY <1>7, <2>1, <2>2 DEF WarmAnswer
<1>8. CASE WarmWrite
  <2> DEFINE f == Written(blob[v.root][Track], v.from, v.to, TRUE)
             s == [Now EXCEPT !.blob[v.root][Track] = f]
  <2>1. f \in Files
    BY <1>1, FileOf, WrittenFile
  <2>2. Warmed(NoWarmup, Now) \/ Warmed([v EXCEPT !.pc = "record"], s)
    BY <1>8 DEF WarmWrite, Now
  <2> HIDE DEF f
  <2>3. Kept(s)
    BY <1>1, <2>1, LengthNat, KeepsPut
  <2> QED
    BY <1>1, <1>2, <1>3, <2>2, <2>3, WarmedSafe
<1>9. CASE WarmRecord
  <2> DEFINE R == v.from..(v.to - 1)
  <2>1. R \in SUBSET Nat /\ IsFiniteSet(R)
    <3>1. v.to - 1 \in Int /\ v.from \in Int /\ \A x \in R : x \in Nat
      BY <1>1
    <3> QED
      BY <3>1, FS_Interval
  <2>2. Kept(recordWrite(Now, Track, R))
    BY <1>1, <2>1, LengthNat, KeepsWrite
  <2> QED
    BY <1>2, <1>9, <2>2, WarmedSafe DEF WarmRecord
<1> QED
  BY <1>4, <1>5, <1>6, <1>7, <1>8, <1>9

\* Every step of the loader, the app, the system and the process.
LEMMA StepSafe ==
    ASSUME Safe, [Next]_vars
    PROVE  Safe'
<1> USE DEF Next
<1>1. ASSUME NEW t \in Tasks, Step(t) PROVE Safe'
  <2>1. CASE Fail(t)
    BY <2>1, IdlePlaced, LocalSafe DEF Fail
  <2> QED
    BY <1>1, <2>1, RequestSafe, ProbeSafe, PathSafe, CreateSafe, LookupSafe, ReadSafe, AskSafe,
       SeekSafe, WriteSafe, RecordSafe, RecordWholeSafe DEF Step
<1>2. CASE WarmStep
  BY <1>2, WarmSafe
<1>3. CASE App
  <2>1. Kept(Now)'
    BY <1>3, AppKeeps DEF App, Safe
  <2>2. handle' \in Roots \union {None, Lost}
    BY <1>3, HandleKept DEF App, Safe
  <2> QED
    BY <1>3, <2>1, <2>2 DEF App, Safe, Tasked
<1>4. CASE IngestTrack
  <2>1. Kept(Now)'
    BY <1>4, LengthNat, SystemKeeps DEF IngestTrack, Safe
  <2> QED
    BY <1>4, <2>1 DEF IngestTrack, Safe, Tasked
<1>5. CASE PurgeBlob
  <2>1. Kept(Now)'
    BY <1>5, SystemKeeps DEF PurgeBlob, Safe
  <2>2. handle' \in Roots \union {None, Lost}
    BY <1>5, HandleKept DEF PurgeBlob, Safe
  <2> QED
    BY <1>5, <2>1, <2>2 DEF PurgeBlob, Safe, Tasked
<1>6. ASSUME Kept(Now)', NEW cause, NewProcess(cause) PROVE Safe'
  <2>1. NoWarmup \in WarmState
    BY DEF NoWarmup, WarmState, Roots
  <2>2. Tasked'
    BY <1>6, IdlePlaced DEF NewProcess, Tasked
  <2> QED
    BY <1>6, <2>1, <2>2 DEF NewProcess, Safe
<1>7. CASE Crash
  BY <1>6, <1>7, SystemKeeps DEF Crash, Safe
<1>8. CASE CrashInCall
  BY <1>6, <1>8, SystemKeeps DEF CrashInCall, Safe
<1>9. CASE shutdown
  BY <1>9 DEF shutdown, storeVars, Safe, Tasked, Now, Kept, StoreState, Agrees, Apart
<1>10. CASE NewLoader
  BY <1>10 DEF NewLoader, storeVars, Safe, Tasked, Now, Kept, StoreState, Agrees, Apart
<1>11. CASE UNCHANGED vars
  BY <1>11 DEF vars, loaderVars, storeVars, Safe, Tasked, Now, Kept, StoreState, Agrees, Apart
<1> QED
  BY <1>1, <1>2, <1>3, <1>4, <1>5, <1>7, <1>8, <1>9, <1>10, <1>11

LEMMA InitSafe == Init => Safe
<1> SUFFICES ASSUME Init PROVE Safe
  OBVIOUS
<1>1. Kept(Now)
  BY DEF Init, StoreInit, Now, Kept, StoreState, Agrees, Apart, Known, Files, Roots
<1>2. NoWarmup \in WarmState
  BY DEF NoWarmup, WarmState, Roots
<1>3. Tasked
  BY IdlePlaced DEF Init, Tasked
<1> QED
  BY <1>1, <1>2, <1>3 DEF Init, Safe

\* The invariant of the store and of the loader, in every reachable state.
THEOREM LoaderSafe == Spec => []Safe
<1>1. Safe /\ [Next]_vars => Safe'
  BY StepSafe
<1> QED
  BY <1>1, InitSafe, PTL DEF Spec

\* Every record, file and cursor is well formed, whatever the app, the system
\* and the requests do to the store between two awaits.
THEOREM LoaderTyped == Spec => []TypeOK
<1>1. Safe => TypeOK
  BY DEF Safe, TypeOK, Tasked, TaskState, Kept, StoreState, Now, Known, Records, Files
<1> QED
  BY <1>1, LoaderSafe, PTL

\* A request is answered chunk by chunk, with no gap and nothing twice,
\* whatever mix of cache and network answers it.
THEOREM LoaderInOrder == Spec => []InOrder
<1>1. Safe => InOrder
  BY DEF Safe, InOrder, Tasked, Placed
<1> QED
  BY <1>1, LoaderSafe, PTL

\* What the actor holds is what a new process would load, after every call,
\* every crash inside a pin, a removal or an ingest, and every purge.
THEOREM StoreAgrees == Spec => []DiskAgrees
<1>1. Safe => DiskAgrees
  BY DEF Safe, DiskAgrees, loadMetas, Kept, StoreState, Agrees, Now
<1> QED
  BY <1>1, LoaderSafe, PTL
==============================================================================
