-------------------------- MODULE SpscRing_proofs ---------------------------
(***************************************************************************)
(* The ring proved for any capacity, any index width it divides and any    *)
(* elements: no slot is written that is still to be read, and what the two *)
(* threads do step by step is a bounded first-in first-out queue.          *)
(***************************************************************************)
EXTENDS SpscRing, Remainders, SequenceTheorems, TLAPS

\* The capacity divides the range of the indices.
LEMMA WholeLaps == \E m \in Int : Wrap = m * Cap
<1>1. Cap \in Nat \ {0} /\ Wrap \in Int /\ Wrap % Cap = 0
    BY RingAssumption
<1>2. PICK q \in Int : Wrap = q * Cap + (Wrap % Cap)
    BY <1>1, Divide
<1>3. q * Cap \in Int
    BY <1>1, SMT
<1> QED BY <1>1, <1>2, <1>3

\* A lap of the index leads to the same slot.
LEMMA LapSlot ==
    ASSUME NEW a \in Int
    PROVE  (a - Wrap) % Cap = a % Cap
<1>1. PICK m \in Int : Wrap = m * Cap
    BY WholeLaps
<1>2. a - Wrap = a + (-m) * Cap
    BY <1>1, RingAssumption, SMT
<1>3. Cap \in Nat \ {0} /\ -m \in Int
    BY RingAssumption
<1>4. (a + (-m) * Cap) % Cap = a % Cap
    BY <1>3, Remainder
<1> QED BY <1>2, <1>4

(***************************************************************************)
(* Indices                                                                 *)
(***************************************************************************)
LEMMA DistanceIs ==
    ASSUME NEW i \in Index, NEW j \in Index
    PROVE  Distance(i, j) = IF j >= i THEN j - i ELSE j - i + Wrap
BY RingAssumption, SMT DEF Distance, Index

LEMMA DistanceType ==
    ASSUME NEW i \in Index, NEW j \in Index
    PROVE  Distance(i, j) \in Nat /\ Distance(i, j) < Wrap /\ (Distance(i, j) = 0 <=> i = j)
<1>1. Distance(i, j) = IF j >= i THEN j - i ELSE j - i + Wrap
    BY DistanceIs
<1> QED BY <1>1, RingAssumption DEF Index

LEMMA SuccIs ==
    ASSUME NEW i \in Index
    PROVE  Succ(i) = (IF i = Wrap - 1 THEN 0 ELSE i + 1) /\ Succ(i) \in Index
BY RingAssumption, SMT DEF Succ, Index

LEMMA SlotIs ==
    ASSUME NEW a \in Int
    PROVE  a % Cap \in 0..(Cap - 1)
<1>1. Cap \in Nat \ {0}
    BY RingAssumption
<1> QED BY <1>1, Divide

\* The next index is one farther, if it does not close the circle.
LEMMA Farther ==
    ASSUME NEW i \in Index, NEW j \in Index, Distance(i, j) < Wrap - 1
    PROVE  Distance(i, Succ(j)) = Distance(i, j) + 1
<1>1. Distance(i, j) = IF j >= i THEN j - i ELSE j - i + Wrap
    BY DistanceIs
<1>2. Succ(j) = (IF j = Wrap - 1 THEN 0 ELSE j + 1) /\ Succ(j) \in Index
    BY SuccIs
<1>3. Distance(i, Succ(j)) = IF Succ(j) >= i THEN Succ(j) - i ELSE Succ(j) - i + Wrap
    BY <1>2, DistanceIs
<1> QED BY <1>1, <1>2, <1>3, RingAssumption DEF Index

\* Distances add up.
LEMMA Between3 ==
    ASSUME NEW i \in Index, NEW j \in Index, NEW k \in Index, Distance(i, j) <= Distance(i, k)
    PROVE  Distance(j, k) = Distance(i, k) - Distance(i, j)
<1>1. Distance(i, j) = IF j >= i THEN j - i ELSE j - i + Wrap
    BY DistanceIs
<1>2. Distance(i, k) = IF k >= i THEN k - i ELSE k - i + Wrap
    BY DistanceIs
<1>3. Distance(j, k) = IF k >= j THEN k - j ELSE k - j + Wrap
    BY DistanceIs
<1> QED BY <1>1, <1>2, <1>3, RingAssumption DEF Index

\* The slot of an index that lies k past another one.
LEMMA SlotAhead ==
    ASSUME NEW i \in Index, NEW j \in Index, NEW k \in Int, k = Distance(i, j), NEW l \in Int
    PROVE  (j + l) % Cap = (i + k + l) % Cap
<1>1. CASE j >= i
    <2>1. i + k + l = j + l
        BY <1>1, DistanceIs, RingAssumption DEF Index
    <2> QED BY <2>1
<1>2. CASE j < i
    <2>1. j + l = (i + k + l) - Wrap
        BY <1>2, DistanceIs, RingAssumption DEF Index
    <2>2. i + k + l \in Int
        BY DEF Index
    <2> QED BY <2>1, <2>2, LapSlot
<1> QED BY <1>1, <1>2 DEF Index

(***************************************************************************)
(* Types                                                                   *)
(***************************************************************************)
LEMMA RingStarts == Init => TypeOK
<1> SUFFICES ASSUME Init PROVE TypeOK
    OBVIOUS
<1>1. (CHOOSE v \in Values : TRUE) \in Values
    BY RingAssumption
<1> QED BY <1>1, RingAssumption, EmptySeq DEF Init, TypeOK, Index

LEMMA RingTypeKept == TypeOK /\ [Next]_vars => TypeOK'
<1> SUFFICES ASSUME TypeOK, [Next]_vars PROVE TypeOK'
    OBVIOUS
<1> USE DEF TypeOK
<1>1. \A i \in Index : Succ(i) \in Index
    BY SuccIs
<1>2. \A i \in Index : i % Cap \in 0..(Cap - 1)
    BY SlotIs DEF Index
<1>3. CASE UNCHANGED vars
    BY <1>3 DEF vars, shared, producer, consumer
<1>4. ASSUME NEW v \in Values, PushBegin(v) PROVE TypeOK'
    BY <1>4 DEF PushBegin, shared, consumer
<1>5. CASE PushCopy
    BY <1>2, <1>5 DEF PushCopy, consumer
<1>6. CASE PushPublish
    BY <1>1, <1>6 DEF PushPublish, consumer
<1>7. ASSUME NEW n \in 1..Cap, PollBegin(n) PROVE TypeOK'
    BY <1>7, RingAssumption, EmptySeq DEF PollBegin, shared, producer
<1>8. CASE PollCopy
    <2>1. cread' \in Index /\ slot[cread % Cap] \in Values
        BY <1>1, <1>2, <1>8 DEF PollCopy
    <2>2. batch' \in Seq(Values)
        BY <1>8, <2>1, AppendProperties DEF PollCopy
    <2> QED BY <1>8, <2>1, <2>2 DEF PollCopy, shared, producer
<1>9. CASE PollEnd
    BY <1>9, EmptySeq DEF PollEnd, producer
<1> QED BY <1>3, <1>4, <1>5, <1>6, <1>7, <1>8, <1>9 DEF Next, Producer, Consumer

\* Every variable of the ring keeps its type, for any capacity and index width.
THEOREM RingTyped == Spec => []TypeOK
BY RingStarts, RingTypeKept, PTL DEF Spec

(***************************************************************************)
(* The invariant: what each thread knows of the other's index.             *)
(***************************************************************************)
Held == Distance(readIndex, writeIndex)

\* The slot of the k-th element after the consumer's index.
Ahead(k) == (readIndex + k - 1) % Cap

\* The producer has seen room, and fills the slot after the last one published.
ProducerKnows ==
    /\ ppc \in {"copy", "publish"} => pwrite = writeIndex /\ Held < Cap
    /\ ppc = "publish" => slot[pwrite % Cap] = pval

\* The consumer's cursor lies between the two indices, and what it has copied
\* is what the ring begins with.
ConsumerKnows ==
    cpc = "copy" =>
        /\ Distance(readIndex, cread) <= Distance(readIndex, cwrite)
        /\ Distance(readIndex, cwrite) <= Held
        /\ Len(batch) = Distance(readIndex, cread)
        /\ \A k \in 1..Len(batch) : batch[k] = slot[Ahead(k)]

RingInv == TypeOK /\ Held <= Cap /\ ProducerKnows /\ ConsumerKnows

LEMMA HeldType == ASSUME TypeOK PROVE Held \in Nat
BY DistanceType DEF TypeOK, Held

\* The slot the producer fills is that of the element after the last.
LEMMA FilledSlot ==
    ASSUME TypeOK
    PROVE  writeIndex % Cap = Ahead(Held + 1)
<1>1. (writeIndex + 0) % Cap = (readIndex + Held + 0) % Cap
    BY HeldType, SlotAhead DEF TypeOK, Held
<1>2. writeIndex + 0 = writeIndex /\ readIndex + Held + 0 = readIndex + (Held + 1) - 1
    BY HeldType DEF TypeOK, Index
<1> QED BY <1>1, <1>2 DEF Ahead

\* While there is room, it is none of theirs.
LEMMA FilledIsFree ==
    ASSUME TypeOK, Held < Cap, NEW k \in 1..Held
    PROVE  Ahead(k) # writeIndex % Cap
<1> SUFFICES ASSUME Ahead(k) = Ahead(Held + 1) PROVE FALSE
    BY FilledSlot
<1>1. Held \in Nat /\ Cap \in Nat \ {0} /\ readIndex \in Int
    BY HeldType, RingAssumption DEF TypeOK, Index
<1> DEFINE a == readIndex + k - 1
           b == readIndex + (Held + 1) - 1
<1>2. a \in Int /\ b \in Int /\ -Cap < a - b /\ a - b < Cap /\ a # b
    BY <1>1
<1>3. a % Cap = b % Cap
    BY DEF Ahead
<1> HIDE DEF a, b
<1> QED BY <1>1, <1>2, <1>3, SameSlot

\* Filling it leaves them as they are.
LEMMA FilledAlone ==
    ASSUME RingInv, PushCopy, NEW k \in 1..Held
    PROVE  slot'[Ahead(k)] = slot[Ahead(k)]
<1>1. TypeOK /\ pwrite = writeIndex /\ Held < Cap /\ Held \in Nat
    BY HeldType DEF PushCopy, RingInv, ProducerKnows
<1>2. Ahead(k) # pwrite % Cap
    BY <1>1, FilledIsFree
<1>3. readIndex + k - 1 \in Int
    BY <1>1 DEF TypeOK, Index
<1>4. Ahead(k) \in 0..(Cap - 1)
    BY <1>3, SlotIs DEF Ahead
<1> QED BY <1>1, <1>2, <1>4 DEF PushCopy, TypeOK

\* A publication adds one element.
LEMMA OneMore ==
    ASSUME RingInv, PushPublish
    PROVE  pwrite = writeIndex /\ Held < Cap /\ Held' = Held + 1
<1>1. TypeOK /\ pwrite = writeIndex /\ Held < Cap
    BY DEF PushPublish, RingInv, ProducerKnows
<1>2. Held < Wrap - 1
    BY <1>1, HeldType, RingAssumption
<1>3. writeIndex' = Succ(writeIndex) /\ readIndex' = readIndex
    BY <1>1 DEF PushPublish
<1> QED BY <1>1, <1>2, <1>3, Farther DEF Held, TypeOK

\* What a batch leaves.
LEMMA LeftOver ==
    ASSUME RingInv, cpc = "copy"
    PROVE  /\ Len(batch) \in 0..Held
           /\ Distance(cread, writeIndex) = Held - Len(batch)
<1>1. /\ TypeOK /\ Distance(readIndex, cread) <= Distance(readIndex, cwrite)
      /\ Distance(readIndex, cwrite) <= Held /\ Len(batch) = Distance(readIndex, cread)
    BY DEF RingInv, ConsumerKnows
<1>2. /\ Distance(readIndex, cread) \in Nat /\ Distance(readIndex, cwrite) \in Nat
      /\ Held \in Nat
    BY <1>1, DistanceType, HeldType DEF TypeOK
<1>3. Distance(readIndex, cread) <= Distance(readIndex, writeIndex)
    BY <1>1, <1>2 DEF Held
<1>4. Distance(cread, writeIndex) = Held - Distance(readIndex, cread)
    BY <1>1, <1>3, Between3 DEF TypeOK, Held
<1> QED BY <1>1, <1>2, <1>4

LEMMA RingInvStarts == Init => RingInv
<1> SUFFICES ASSUME Init PROVE RingInv
    OBVIOUS
<1>1. TypeOK
    BY RingStarts
<1>2. Held = 0
    BY <1>1, DistanceType DEF Held, Init, TypeOK
<1> QED BY <1>1, <1>2, RingAssumption DEF RingInv, Init, ProducerKnows, ConsumerKnows

LEMMA RingInvKept == RingInv /\ [Next]_vars => RingInv'
<1> SUFFICES ASSUME RingInv, [Next]_vars PROVE RingInv'
    OBVIOUS
<1>1. TypeOK /\ TypeOK'
    BY RingTypeKept DEF RingInv
<1>2. Held \in Nat /\ Held' \in Nat
    <2>1. \A i \in Index, j \in Index : Distance(i, j) \in Nat
        BY DistanceType
    <2> QED BY <1>1, <2>1 DEF Held, TypeOK
<1>3. CASE UNCHANGED vars
    BY <1>1, <1>3 DEF vars, shared, producer, consumer, RingInv, Held, Ahead, ProducerKnows, ConsumerKnows
<1>4. ASSUME NEW v \in Values, PushBegin(v) PROVE RingInv'
    <2>1. UNCHANGED <<shared, consumer>>
        BY <1>4 DEF PushBegin
    <2>2. Held' = Held /\ ConsumerKnows'
        BY <2>1 DEF shared, consumer, Held, Ahead, RingInv, ConsumerKnows
    <2>3. ProducerKnows'
        <3>1. ~Full(writeIndex, readIndex) => Held < Cap
            BY <1>2, RingAssumption DEF Full, Held
        <3> QED BY <1>4, <2>1, <2>2, <3>1 DEF PushBegin, shared, RingInv, ProducerKnows
    <2> QED BY <1>1, <2>2, <2>3 DEF RingInv
<1>5. CASE PushCopy
    <2>1. Held' = Held /\ pwrite = writeIndex /\ Held < Cap
        BY <1>5 DEF PushCopy, Held, RingInv, ProducerKnows
    <2>2. pwrite % Cap \in 0..(Cap - 1)
        BY <1>1, SlotIs DEF TypeOK, Index
    <2>3. ProducerKnows'
        BY <1>1, <1>5, <2>1, <2>2 DEF PushCopy, ProducerKnows, TypeOK
    <2>4. \A k \in 1..Held : slot'[Ahead(k)] = slot[Ahead(k)]
        BY <1>5, FilledAlone
    <2>5. ConsumerKnows'
        <3>1. UNCHANGED <<readIndex, cpc, cread, cwrite, batch>>
            BY <1>5 DEF PushCopy, consumer
        <3>2. ConsumerKnows
            BY DEF RingInv
        <3>3. ASSUME cpc = "copy" PROVE \A k \in 1..Len(batch) : batch[k] = slot'[Ahead(k)]
            <4>1. Len(batch) \in Nat /\ Distance(readIndex, cwrite) \in Nat
                BY <1>1, LenProperties, DistanceType DEF TypeOK
            <4>2. Len(batch) <= Held
                BY <1>2, <3>2, <3>3, <4>1 DEF ConsumerKnows
            <4>3. \A k \in 1..Len(batch) : k \in 1..Held
                BY <1>2, <4>1, <4>2
            <4> QED BY <2>4, <3>2, <3>3, <4>3 DEF ConsumerKnows
        <3> QED BY <2>1, <3>1, <3>2, <3>3 DEF ConsumerKnows, Ahead
    <2> QED BY <1>1, <2>1, <2>3, <2>5 DEF RingInv
<1>6. CASE PushPublish
    <2>1. pwrite = writeIndex /\ Held < Cap
        BY <1>6, OneMore
    <2>2. Held' = Held + 1
        BY <1>6, OneMore
    <2>3. ProducerKnows'
        BY <1>6 DEF PushPublish, ProducerKnows
    <2>4. ConsumerKnows'
        <3>1. UNCHANGED <<slot, readIndex, cpc, cread, cwrite, batch>> /\ ConsumerKnows
            BY <1>6 DEF PushPublish, consumer, RingInv
        <3>2. Distance(readIndex, cwrite) \in Nat
            BY <1>1, DistanceType DEF TypeOK
        <3> QED BY <1>2, <2>2, <3>1, <3>2 DEF ConsumerKnows, Ahead
    <2> QED BY <1>1, <1>2, <2>1, <2>2, <2>3, <2>4, RingAssumption DEF RingInv
<1>7. ASSUME NEW n \in 1..Cap, PollBegin(n) PROVE RingInv'
    <2>1. Held' = Held /\ ProducerKnows'
        BY <1>7 DEF PollBegin, shared, producer, Held, RingInv, ProducerKnows
    <2>2. Distance(readIndex, readIndex) = 0
        BY <1>1, DistanceType DEF TypeOK
    <2>3. /\ UNCHANGED readIndex /\ cread' = readIndex
          /\ Distance(readIndex', cread') = 0 /\ Distance(readIndex', cwrite') = Held /\ batch' = <<>>
        BY <1>7, <2>2 DEF PollBegin, shared, Held
    <2>4. ConsumerKnows'
        BY <1>2, <2>1, <2>3 DEF ConsumerKnows
    <2> QED BY <1>1, <2>1, <2>4 DEF RingInv
<1>8. CASE PollCopy
    <2>1. Held' = Held /\ ProducerKnows'
        BY <1>8 DEF PollCopy, shared, producer, Held, RingInv, ProducerKnows
    <2>2. Distance(readIndex, cread') = Distance(readIndex, cread) + 1
          /\ Distance(readIndex, cread) < Distance(readIndex, cwrite)
        <3>1. /\ cread # cwrite /\ cread' = Succ(cread)
              /\ Distance(readIndex, cread) <= Distance(readIndex, cwrite)
            BY <1>8 DEF PollCopy, RingInv, ConsumerKnows
        <3>2. /\ Distance(readIndex, cread) \in Nat
              /\ Distance(readIndex, cwrite) \in Nat /\ Distance(readIndex, cwrite) < Wrap
              /\ Distance(cread, cwrite) # 0
            BY <1>1, <3>1, DistanceType DEF TypeOK
        <3>3. Distance(cread, cwrite) = Distance(readIndex, cwrite) - Distance(readIndex, cread)
            BY <1>1, <3>1, Between3 DEF TypeOK
        <3>4. Distance(readIndex, cread) < Wrap - 1 /\ Distance(readIndex, cread) < Distance(readIndex, cwrite)
            BY <3>1, <3>2, <3>3, RingAssumption
        <3> QED BY <1>1, <3>1, <3>4, Farther DEF TypeOK
    <2>3. slot[cread % Cap] = slot[Ahead(Len(batch) + 1)] /\ slot[cread % Cap] \in Values
        <3>1. Distance(readIndex, cread) = Len(batch) /\ Len(batch) \in Nat
            BY <1>1, <1>8, LenProperties DEF PollCopy, RingInv, ConsumerKnows, TypeOK
        <3>2. (cread + 0) % Cap = (readIndex + Len(batch) + 0) % Cap
            BY <1>1, <3>1, SlotAhead DEF TypeOK
        <3>3. cread + 0 = cread /\ readIndex + Len(batch) + 0 = readIndex + (Len(batch) + 1) - 1
            BY <1>1, <3>1 DEF TypeOK, Index
        <3>4. cread % Cap = Ahead(Len(batch) + 1)
            BY <3>2, <3>3 DEF Ahead
        <3>5. cread \in Int /\ slot \in [0..(Cap - 1) -> Values]
            BY <1>1 DEF TypeOK, Index
        <3>6. cread % Cap \in 0..(Cap - 1)
            BY <3>5, SlotIs
        <3> QED BY <3>4, <3>5, <3>6
    <2>4. /\ Len(batch') = Len(batch) + 1
          /\ \A k \in 1..Len(batch) : batch'[k] = batch[k]
          /\ batch'[Len(batch) + 1] = slot[cread % Cap]
        BY <1>1, <1>8, <2>3, AppendProperties DEF PollCopy, TypeOK
    <2>5. \A k \in 1..Len(batch') : batch'[k] = slot[Ahead(k)]
        <3>1. Len(batch) \in Nat
            BY <1>1, LenProperties DEF TypeOK
        <3>2. \A k \in 1..Len(batch) : batch[k] = slot[Ahead(k)]
            BY <1>8 DEF PollCopy, RingInv, ConsumerKnows
        <3> QED BY <2>3, <2>4, <3>1, <3>2
    <2>6. UNCHANGED <<readIndex, slot, cwrite, cpc>>
        BY <1>8 DEF PollCopy, shared
    <2>7. \A k : Ahead(k)' = Ahead(k)
        BY <2>6 DEF Ahead
    <2>8. Len(batch) = Distance(readIndex, cread) /\ Distance(readIndex, cwrite) <= Held
        BY <1>8 DEF PollCopy, RingInv, ConsumerKnows
    <2>9. ConsumerKnows'
        <3>1. Distance(readIndex, cread) \in Int /\ Distance(readIndex, cwrite) \in Int
            BY <1>1, DistanceType DEF TypeOK
        <3> QED BY <2>1, <2>2, <2>4, <2>5, <2>6, <2>8, <3>1 DEF ConsumerKnows, Ahead
    <2> QED BY <1>1, <2>1, <2>9 DEF RingInv
<1>9. CASE PollEnd
    <2>1. ConsumerKnows'
        BY <1>9 DEF PollEnd, ConsumerKnows
    <2>2. Held' <= Held
        <3>1. readIndex' = cread /\ writeIndex' = writeIndex /\ cpc = "copy"
            BY <1>9 DEF PollEnd
        <3>2. Len(batch) \in 0..Held /\ Distance(cread, writeIndex) = Held - Len(batch)
            BY <3>1, LeftOver
        <3> QED BY <1>2, <3>1, <3>2 DEF Held
    <2>3. ProducerKnows'
        BY <1>2, <1>9, <2>2, RingAssumption DEF PollEnd, producer, RingInv, ProducerKnows
    <2> QED BY <1>1, <1>2, <2>1, <2>2, <2>3, RingAssumption DEF RingInv
<1> QED BY <1>3, <1>4, <1>5, <1>6, <1>7, <1>8, <1>9 DEF Next, Producer, Consumer

LEMMA RingInvAlways == Spec => []RingInv
BY RingInvStarts, RingInvKept, PTL DEF Spec

(***************************************************************************)
(* Exclusion                                                               *)
(***************************************************************************)
\* The slot being filled is none of those that are published or being copied.
THEOREM RingExclusive == Spec => []SlotExclusive
<1>1. RingInv => SlotExclusive
    <2> SUFFICES ASSUME RingInv, ppc = "copy", NEW i \in Index
                 PROVE  /\ Between(i, readIndex, writeIndex) => i % Cap # pwrite % Cap
                        /\ cpc = "copy" /\ Between(i, cread, cwrite) => i % Cap # pwrite % Cap
        BY DEF SlotExclusive
    <2>1. TypeOK /\ Held < Cap /\ pwrite = writeIndex
        BY DEF RingInv, ProducerKnows
    <2>2. ASSUME Between(i, readIndex, writeIndex) PROVE i % Cap # pwrite % Cap
        <3>1. PICK k \in Nat : k = Distance(readIndex, i) /\ k < Held
            BY <2>1, <2>2, DistanceType DEF Between, Held, TypeOK
        <3>2. (i + 0) % Cap = (readIndex + k + 0) % Cap
            BY <2>1, <3>1, SlotAhead DEF TypeOK
        <3>3. readIndex \in Int /\ i \in Int /\ Held \in Nat
            BY <2>1, HeldType DEF TypeOK, Index
        <3>4. i + 0 = i /\ readIndex + k + 0 = readIndex + (k + 1) - 1 /\ k + 1 \in 1..Held
            BY <3>1, <3>3
        <3>5. i % Cap = Ahead(k + 1)
            BY <3>2, <3>4 DEF Ahead
        <3> QED BY <2>1, <3>4, <3>5, FilledIsFree
    <2>3. ASSUME cpc = "copy", Between(i, cread, cwrite) PROVE Between(i, readIndex, writeIndex)
        <3>0. /\ Distance(cread, i) \in Nat /\ Distance(readIndex, cread) \in Nat
              /\ Distance(cread, cwrite) \in Nat /\ Distance(readIndex, cwrite) \in Nat
              /\ Distance(readIndex, cwrite) < Wrap /\ Held \in Nat
              /\ Distance(cread, i) < Distance(cread, cwrite)
            BY <2>1, <2>3, DistanceType, HeldType DEF Between, TypeOK
        <3>1. /\ Distance(readIndex, cread) <= Distance(readIndex, cwrite)
              /\ Distance(readIndex, cwrite) <= Held
            BY <2>3 DEF RingInv, ConsumerKnows
        <3>2. Distance(cread, cwrite) = Distance(readIndex, cwrite) - Distance(readIndex, cread)
            BY <2>1, <3>1, Between3 DEF TypeOK
        <3>3. Distance(readIndex, i) = Distance(readIndex, cread) + Distance(cread, i)
            <4>1. /\ Distance(readIndex, i) = IF i >= readIndex THEN i - readIndex ELSE i - readIndex + Wrap
                  /\ Distance(readIndex, cread) = IF cread >= readIndex THEN cread - readIndex ELSE cread - readIndex + Wrap
                  /\ Distance(cread, i) = IF i >= cread THEN i - cread ELSE i - cread + Wrap
                BY <2>1, DistanceIs DEF TypeOK
            <4>2. Distance(cread, i) < Wrap - Distance(readIndex, cread)
                BY <3>0, <3>2, RingAssumption
            <4> QED BY <2>1, <4>1, <4>2, RingAssumption DEF TypeOK, Index
        <3>4. Distance(readIndex, i) < Held
            BY <3>0, <3>1, <3>2, <3>3
        <3> QED BY <3>4 DEF Between, Held
    <2> QED BY <2>2, <2>3
<1> QED BY <1>1, RingInvAlways, PTL

(***************************************************************************)
(* Refinement: the two threads' steps are those of a bounded queue.        *)
(***************************************************************************)
LEMMA SameEnd ==
    ASSUME NEW m \in Nat, NEW n \in Nat, 1..m = 1..n
    PROVE  m = n
<1>1. \A k \in Nat \ {0} : k <= m <=> k <= n
    <2> TAKE k \in Nat \ {0}
    <2>1. k \in 1..m <=> k \in 1..n
        OBVIOUS
    <2> QED BY <2>1
<1> QED BY <1>1

\* The elements between the two indices are a sequence.
ContentFacts ==
    /\ Content \in Seq(Values) /\ Len(Content) = Held /\ Held \in Nat
    /\ \A k \in 1..Held : Content[k] = slot[Ahead(k)]

LEMMA ContentIs == TypeOK => ContentFacts
<1> SUFFICES ASSUME TypeOK PROVE ContentFacts
    OBVIOUS
<1>1. Held \in Nat
    BY HeldType
<1>2. Content = [k \in 1..Held |-> slot[Ahead(k)]]
    BY DEF Content, Held, Ahead
<1>3. \A k \in 1..Held : slot[Ahead(k)] \in Values
    <2> TAKE k \in 1..Held
    <2>1. readIndex + k - 1 \in Int
        BY <1>1 DEF TypeOK, Index
    <2> QED BY <2>1, SlotIs DEF Ahead, TypeOK
<1>4. Content \in [1..Held -> Values]
    BY <1>2, <1>3
<1>5. Content \in Seq(Values)
    BY <1>1, <1>4, SeqDef
<1>6. Len(Content) \in Nat /\ DOMAIN Content = 1..Len(Content) /\ DOMAIN Content = 1..Held
    BY <1>4, <1>5, LenProperties
<1>7. Len(Content) = Held
    BY <1>1, <1>6, SameEnd
<1> QED BY <1>1, <1>2, <1>5, <1>7 DEF ContentFacts

\* What is queued does not change while no index moves and no slot in between.
LEMMA ContentKept ==
    ASSUME TypeOK, TypeOK', UNCHANGED <<readIndex, writeIndex>>,
           \A k \in 1..Held : slot'[Ahead(k)] = slot[Ahead(k)]
    PROVE  Content' = Content
<1>1. Held' = Held /\ \A k : Ahead(k)' = Ahead(k)
    BY DEF Held, Ahead
<1>2. ContentFacts /\ ContentFacts'
    BY ContentIs, PTL
<1>3. \A k \in 1..Held : Content'[k] = Content[k]
    BY <1>1, <1>2 DEF ContentFacts
<1> QED BY <1>1, <1>2, <1>3, SeqEqual DEF ContentFacts

LEMMA FifoStarts == Init => Fifo!Init
<1> SUFFICES ASSUME Init PROVE Fifo!Init
    OBVIOUS
<1>1. TypeOK /\ ContentFacts
    BY RingStarts, ContentIs
<1>2. Held = 0
    BY <1>1, DistanceType DEF Held, Init, TypeOK
<1>3. Content = <<>>
    BY <1>1, <1>2, EmptySeq DEF ContentFacts
<1> QED BY <1>3 DEF Init, Fifo!Init

LEMMA FifoStep == RingInv /\ RingInv' /\ [Next]_vars => [Fifo!Next]_Fifo!vars
<1> SUFFICES ASSUME RingInv, RingInv', [Next]_vars PROVE [Fifo!Next]_Fifo!vars
    OBVIOUS
<1>1. TypeOK /\ TypeOK' /\ ContentFacts /\ ContentFacts'
    BY ContentIs, PTL DEF RingInv
<1>2. ASSUME UNCHANGED shared PROVE Content' = Content
    BY <1>1, <1>2, ContentKept DEF shared
<1>3. CASE UNCHANGED vars
    BY <1>2, <1>3 DEF vars, producer, consumer, Fifo!vars
<1>4. ASSUME NEW v \in Values, PushBegin(v) PROVE [Fifo!Next]_Fifo!vars
    <2>1. Content' = Content /\ got' = got
        BY <1>2, <1>4 DEF PushBegin, consumer
    <2>2. CASE Full(writeIndex, readIndex)
        <3>1. Len(Content) = Cap
            BY <1>1, <2>2, RingAssumption DEF Full, Held, RingInv, ContentFacts
        <3>2. answer' = "refused"
            BY <1>4, <2>2 DEF PushBegin
        <3> QED BY <2>1, <3>1, <3>2 DEF Fifo!Refuse, Fifo!Next
    <2>3. CASE ~Full(writeIndex, readIndex)
        BY <1>4, <2>1, <2>3 DEF PushBegin, Fifo!vars
    <2> QED BY <2>2, <2>3
<1>5. CASE PushCopy
    <2>1. UNCHANGED <<readIndex, writeIndex, answer, got>>
        BY <1>5 DEF PushCopy, consumer
    <2>2. \A k \in 1..Held : slot'[Ahead(k)] = slot[Ahead(k)]
        BY <1>5, FilledAlone DEF RingInv
    <2>3. Content' = Content
        BY <1>1, <2>1, <2>2, ContentKept
    <2> QED BY <2>1, <2>3 DEF Fifo!vars
<1>6. CASE PushPublish
    <2>1. pwrite = writeIndex /\ Held < Cap /\ Held' = Held + 1
        BY <1>6, OneMore
    <2>2. /\ UNCHANGED <<slot, readIndex, got>> /\ answer' = "accepted"
          /\ pval \in Values /\ slot[pwrite % Cap] = pval
        BY <1>1, <1>6 DEF PushPublish, consumer, TypeOK, RingInv, ProducerKnows
    <2>3. \A k : Ahead(k)' = Ahead(k)
        BY <2>2 DEF Ahead
    <2>4. Content'[Held + 1] = pval
        BY <1>1, <2>1, <2>2, <2>3, FilledSlot DEF ContentFacts
    <2>5. \A k \in 1..Held : Content'[k] = Content[k]
        BY <1>1, <2>1, <2>2, <2>3 DEF ContentFacts
    <2>6. Content' = Append(Content, pval)
        <3>1. /\ Append(Content, pval) \in Seq(Values)
              /\ Len(Append(Content, pval)) = Held + 1
              /\ \A k \in 1..Held : Append(Content, pval)[k] = Content[k]
              /\ Append(Content, pval)[Held + 1] = pval
            BY <1>1, <2>2, AppendProperties DEF ContentFacts
        <3>2. \A k \in 1..(Held + 1) : Content'[k] = Append(Content, pval)[k]
            BY <1>1, <2>4, <2>5, <3>1 DEF ContentFacts
        <3> QED BY <1>1, <2>1, <3>1, <3>2, SeqEqual DEF ContentFacts
    <2>7. Fifo!Push(pval)
        BY <1>1, <2>1, <2>2, <2>6 DEF Fifo!Push, ContentFacts
    <2> QED BY <2>2, <2>7 DEF Fifo!Next
<1>7. ASSUME NEW n \in 1..Cap, PollBegin(n) PROVE [Fifo!Next]_Fifo!vars
    BY <1>2, <1>7 DEF PollBegin, producer, Fifo!vars
<1>8. CASE PollCopy
    BY <1>2, <1>8 DEF PollCopy, producer, Fifo!vars
<1>9. CASE PollEnd
    <2> DEFINE n == Len(batch)
    <2>1. n \in 0..Held /\ Distance(cread, writeIndex) = Held - n
        BY <1>9, LeftOver DEF PollEnd
    <2>2. UNCHANGED <<slot, writeIndex, answer>> /\ readIndex' = cread /\ got' = batch
        BY <1>9 DEF PollEnd, producer
    <2>3. Held' = Held - n
        BY <2>1, <2>2 DEF Held
    <2>4. /\ batch \in Seq(Values) /\ n = Distance(readIndex, cread)
          /\ \A k \in 1..n : batch[k] = slot[Ahead(k)]
        BY <1>1, <1>9 DEF PollEnd, RingInv, ConsumerKnows, TypeOK
    <2>5. \A k \in 1..Held' : Ahead(k)' = Ahead(n + k)
        <3> TAKE k \in 1..Held'
        <3>1. (cread + (k - 1)) % Cap = (readIndex + n + (k - 1)) % Cap
            BY <1>1, <2>1, <2>3, <2>4, SlotAhead DEF TypeOK, ContentFacts
        <3>2. cread + (k - 1) = cread + k - 1 /\ readIndex + n + (k - 1) = readIndex + (n + k) - 1
            BY <1>1, <2>1, <2>3 DEF TypeOK, Index, ContentFacts
        <3> QED BY <2>2, <3>1, <3>2 DEF Ahead
    <2> HIDE DEF n
    <2>6. batch = SubSeq(Content, 1, n)
        <3>1. \A k \in 1..n : Content[k] \in Values
            BY <1>1, <2>1, ElementOfSeq DEF ContentFacts
        <3>2. /\ SubSeq(Content, 1, n) \in Seq(Values) /\ Len(SubSeq(Content, 1, n)) = n
              /\ \A k \in 1..n : SubSeq(Content, 1, n)[k] = Content[k]
            BY <1>1, <2>1, <3>1, SubSeqProperties DEF ContentFacts
        <3>3. \A k \in 1..n : batch[k] = SubSeq(Content, 1, n)[k]
            BY <1>1, <2>1, <2>4, <3>2 DEF ContentFacts
        <3> QED BY <2>4, <3>2, <3>3, SeqEqual DEF n
    <2>7. Content' = SubSeq(Content, n + 1, Len(Content))
        <3> DEFINE rest == SubSeq(Content, n + 1, Held)
        <3>1. \A k \in (n + 1)..Held : Content[k] \in Values
            BY <1>1, <2>1, ElementOfSeq DEF ContentFacts
        <3>2. /\ rest \in Seq(Values) /\ Len(rest) = Held - n
              /\ \A k \in 1..(Held - n) : rest[k] = Content[n + k]
            BY <1>1, <2>1, <3>1, SubSeqProperties DEF ContentFacts
        <3>3. \A k \in 1..(Held - n) : Content'[k] = Content[n + k]
            BY <1>1, <2>1, <2>2, <2>3, <2>5 DEF ContentFacts
        <3> HIDE DEF rest
        <3>4. Content' = rest
            BY <1>1, <2>3, <3>2, <3>3, SeqEqual DEF ContentFacts
        <3> QED BY <1>1, <3>4 DEF rest, ContentFacts
    <2>8. Fifo!Poll(n) /\ n \in 0..Len(Content)
        BY <1>1, <2>1, <2>2, <2>6, <2>7 DEF Fifo!Poll, ContentFacts
    <2> QED BY <2>8 DEF Fifo!Next
<1> QED BY <1>3, <1>4, <1>5, <1>6, <1>7, <1>8, <1>9 DEF Next, Producer, Consumer

\* Whatever the interleaving of the two threads, and also when the indices
\* wrap, the ring is a first-in first-out queue of at most Cap elements that
\* refuses only when it is full.
THEOREM RingRefines == Spec => RefinesFifo
<1>1. RingInv /\ [Next]_vars => [Fifo!Next]_Fifo!vars
    BY RingInvKept, FifoStep
<1> QED BY <1>1, FifoStarts, RingInvAlways, PTL DEF Spec, RefinesFifo, Fifo!Spec
=============================================================================
