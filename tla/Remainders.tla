----------------------------- MODULE Remainders ------------------------------
(***************************************************************************)
(* Remainders, as the rings need them: an index is reduced modulo the      *)
(* width of its type, a slot modulo the capacity.                          *)
(***************************************************************************)
EXTENDS Integers, TLAPS

\* A remainder, and the multiple it leaves.
LEMMA Divide ==
    ASSUME NEW n \in Nat \ {0}, NEW a \in Int
    PROVE  a % n \in 0..(n - 1) /\ \E q \in Int : a = q * n + (a % n)
<1>1. a \div n \in Int /\ a % n \in 0..(n - 1)
    BY SMT
<1>2. a = (a \div n) * n + (a % n)
    BY SMT
<1> QED BY <1>1, <1>2

\* A multiple of n that is nearer to zero than n is zero.
LEMMA SmallMultiple ==
    ASSUME NEW n \in Nat \ {0}, NEW z \in Int, -n < z * n, z * n < n
    PROVE  z = 0
<1>1. CASE z >= 1
    <2>1. z * n >= n
        BY <1>1, SMT
    <2> QED BY <2>1
<1>2. CASE z <= -1
    <2>1. z * n <= -n
        BY <1>2, SMT
    <2> QED BY <2>1
<1> QED BY <1>1, <1>2

\* Two numbers with one remainder, less than n apart, are equal.
LEMMA SameSlot ==
    ASSUME NEW n \in Nat \ {0}, NEW a \in Int, NEW b \in Int,
           a % n = b % n, -n < a - b, a - b < n
    PROVE  a = b
<1>1. PICK p \in Int : a = p * n + (a % n)
    BY Divide
<1>2. PICK q \in Int : b = q * n + (b % n)
    BY Divide
<1>3. a % n \in Int
    BY Divide
<1>4. a - b = p * n - q * n
    BY <1>1, <1>2, <1>3
<1>5. p * n - q * n = (p - q) * n
    BY SMT
<1>6. p - q = 0
    BY <1>4, <1>5, SmallMultiple
<1> QED BY <1>4, <1>6

\* A multiple of n does not count.
LEMMA Remainder ==
    ASSUME NEW n \in Nat \ {0}, NEW a \in Int, NEW q \in Int
    PROVE  (a + q * n) % n = a % n
<1> DEFINE b == a + q * n
<1>0. q * n \in Int
    BY SMT
<1>1. b \in Int
    BY <1>0
<1>2. PICK d \in Int : a = d * n + (a % n)
    BY Divide
<1>3. PICK e \in Int : b = e * n + (b % n)
    BY <1>1, Divide
<1>4. a % n \in 0..(n - 1) /\ b % n \in 0..(n - 1)
    BY <1>1, Divide
<1>5. d * n \in Int /\ e * n \in Int
    BY SMT
<1>6. (b % n) - (a % n) = q * n + d * n - e * n
    <2>1. b - a = q * n
        BY <1>0
    <2> HIDE DEF b
    <2>2. b % n = b - e * n
        BY <1>1, <1>3, <1>4, <1>5
    <2>3. a % n = a - d * n
        BY <1>2, <1>4, <1>5
    <2> QED BY <1>0, <1>1, <1>5, <2>1, <2>2, <2>3
<1>7. q * n + d * n - e * n = (q + d - e) * n
    BY SMT
<1>8. q + d - e = 0
    BY <1>4, <1>6, <1>7, SmallMultiple
<1>9. (q + d - e) * n = 0
    BY <1>8
<1> QED BY <1>4, <1>6, <1>7, <1>9
=============================================================================
