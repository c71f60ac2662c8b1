----------------------------- MODULE Arithmetic -----------------------------
(***************************************************************************)
(* Facts about numbers that the proofs cite and the provers do not know:   *)
(* the least of some numbers, induction, remainders and powers of two.     *)
(***************************************************************************)
EXTENDS Integers, FiniteSetTheorems, WellFoundedInduction, TLAPS

-----------------------------------------------------------------------------
(* Natural numbers. *)

\* Numbers have a least one.
LEMMA Least ==
  ASSUME NEW S \in SUBSET Nat, S # {}
  PROVE  \E x \in S : \A r \in S : x <= r
<1> DEFINE R == {ss \in Nat \X Nat : ss[1] < ss[2]}
<1>1. IsWellFoundedOn(R, Nat)
  BY NatLessThanWellFounded DEF OpToRel
<1>2. \A y, x \in Nat : y < x => <<y, x>> \in R
  OBVIOUS
<1> HIDE DEF R
<1>3. PICK x \in S : \A y \in S : ~(<<y, x>> \in R)
  BY <1>1, WFMin
<1>4. \A y \in S : x <= y
  <2> TAKE y \in S
  <2>1. ~(y < x)
    BY <1>2, <1>3
  <2>. QED
    BY <2>1
<1>. QED
  BY <1>4

\* What holds of 0 and goes from a number to the next holds of all.
LEMMA CountUp ==
  ASSUME NEW S, 0 \in S, \A n \in Nat : n \in S => n + 1 \in S
  PROVE  \A n \in Nat : n \in S
<1> SUFFICES ASSUME Nat \ S # {} PROVE FALSE
  OBVIOUS
<1>1. PICK n \in Nat \ S : \A r \in Nat \ S : n <= r
  BY Least
<1>2. n - 1 \in Nat /\ n - 1 \notin Nat \ S
  BY <1>1
<1>. QED
  BY <1>1, <1>2

-----------------------------------------------------------------------------
(* Multiples and remainders.                                                *)

\* The next multiple of m is not beyond any greater one.
LEMMA NextMultiple ==
  ASSUME NEW m \in Nat \ {0}, NEW p \in Int, NEW q \in Int, p < q
  PROVE  m * p + m <= m * q
<1>1. m * (p + 1) <= m * q
  OBVIOUS
<1>2. m * (p + 1) = m * p + m
  OBVIOUS
<1>. QED
  BY <1>1, <1>2

\* Division with remainder.
LEMMA Divided ==
  ASSUME NEW m \in Nat \ {0}, NEW a \in Int
  PROVE  a % m \in 0 .. m - 1 /\ a \div m \in Int /\ a = m * (a \div m) + (a % m)
OBVIOUS

\* The remainder is unique.
LEMMA RemainderUnique ==
  ASSUME NEW m \in Nat \ {0}, NEW q \in Int, NEW r \in 0 .. m - 1
  PROVE  (m * q + r) % m = r
<1> DEFINE a == m * q + r
           p == a \div m
<1>1. a \in Int
  OBVIOUS
<1>2. a % m \in 0 .. m - 1 /\ p \in Int /\ a = m * p + (a % m)
  BY <1>1, Divided
<1>3. p = q
  <2>1. m * p \in Int /\ m * q \in Int
    BY <1>2
  <2> HIDE DEF p
  <2>2. CASE p < q
    BY <1>2, <2>1, <2>2, NextMultiple
  <2>3. CASE q < p
    BY <1>2, <2>1, <2>3, NextMultiple
  <2>. QED
    BY <1>2, <2>2, <2>3
<1>. QED
  BY <1>2, <1>3

\* Adding a multiple of the divisor adds to the quotient.
LEMMA DividedShift ==
  ASSUME NEW m \in Nat \ {0}, NEW a \in Int, NEW q \in Int
  PROVE  (a + m * q) \div m = (a \div m) + q
<1> DEFINE p == a \div m
           r == a % m
           b == a + m * q
           c == b \div m
<1>1. r \in 0 .. m - 1 /\ p \in Int /\ a = m * p + r
  BY Divided
<1>2. m * p \in Int /\ m * q \in Int /\ m * p + m * q = m * (p + q) /\ p + q \in Int
  BY <1>1
<1>3. b \in Int
  BY <1>2
<1>4. b % m \in 0 .. m - 1 /\ c \in Int /\ b = m * c + (b % m)
  BY <1>3, Divided
<1>5. b = m * (p + q) + r
  BY <1>1, <1>2
<1>6. b % m = r
  BY <1>1, <1>2, <1>5, RemainderUnique
<1> DEFINE k == p + q
           x == b % m
<1> HIDE DEF k, c, p, b, r, x
<1>7. k \in Int /\ c \in Int /\ m * k + r = m * c + x /\ x = r /\ r \in Int
  BY <1>1, <1>2, <1>4, <1>5, <1>6 DEF k, x
<1>8. m * k \in Int /\ m * c \in Int
  BY <1>7
<1>9. m * k = m * c
  BY <1>7, <1>8
<1>10. ~(c < k) /\ ~(k < c)
  BY <1>7, <1>8, <1>9, NextMultiple
<1>. QED
  BY <1>7, <1>10 DEF c, k, p, b

-----------------------------------------------------------------------------
(* Powers of two.  That a set of n elements has 2^n subsets is what these    *)
(* facts are derived from.                                                  *)

\* A power of 2 is a number of subsets.
LEMMA PowerIsCount ==
  ASSUME NEW n \in Nat
  PROVE  IsFiniteSet(SUBSET (1 .. n)) /\ 2 ^ n = Cardinality(SUBSET (1 .. n))
<1>1. IsFiniteSet(1 .. n) /\ Cardinality(1 .. n) = n
  BY FS_Interval
<1>. QED
  BY <1>1, FS_SUBSET

\* Each power of 2 is twice the one before it.
LEMMA Powers ==
  /\ 2 ^ 0 = 1
  /\ \A n \in Nat : 2 ^ n \in Nat \ {0} /\ 2 ^ (n + 1) = 2 * 2 ^ n
<1>1. 2 ^ 0 = 1
  <2>1. SUBSET (1 .. 0) = {{}}
    OBVIOUS
  <2>. QED
    BY <2>1, PowerIsCount, FS_Singleton
<1>2. ASSUME NEW n \in Nat
      PROVE  2 ^ n \in Nat \ {0} /\ 2 ^ (n + 1) = 2 * 2 ^ n
  <2> DEFINE Old == SUBSET (1 .. n)
             All == SUBSET (1 .. n + 1)
             add == [b \in Old |-> b \cup {n + 1}]
             New == {b \in All : n + 1 \in b}
  <2>1. /\ IsFiniteSet(Old) /\ 2 ^ n = Cardinality(Old)
        /\ IsFiniteSet(All) /\ 2 ^ (n + 1) = Cardinality(All)
    BY PowerIsCount
  <2>2. Cardinality(Old) \in Nat /\ Cardinality(Old) # 0
    <3>1. {} \in Old
      OBVIOUS
    <3>. QED
      BY <2>1, <3>1, FS_CardinalityType, FS_EmptySet
  <2>3. add \in Bijection(Old, New)
    <3>1. add \in [Old -> New]
      OBVIOUS
    <3>2. \A a, b \in Old : add[a] = add[b] => a = b
      OBVIOUS
    <3>3. \A b \in New : b \ {n + 1} \in Old /\ add[b \ {n + 1}] = b
      OBVIOUS
    <3>. QED
      BY <3>1, <3>2, <3>3 DEF Bijection, Injection, Surjection, IsInjective
  <2>4. Old \cup New = All /\ Old \cap New = {}
    OBVIOUS
  <2> HIDE DEF Old, New, All, add
  <2>5. IsFiniteSet(New) /\ Cardinality(New) = Cardinality(Old)
    BY <2>1, <2>3, FS_Bijection DEF ExistsBijection
  <2>6. Cardinality(All) = Cardinality(Old) + Cardinality(New) - Cardinality(Old \cap New)
    BY <2>1, <2>4, <2>5, FS_Union
  <2>. QED
    BY <2>1, <2>2, <2>4, <2>5, <2>6, FS_EmptySet
<1>. QED
  BY <1>1, <1>2

\* Each power of 2 is an even multiple of any smaller one.
LEMMA EvenMultiple ==
  ASSUME NEW m \in Nat, NEW k \in 0 .. m - 1
  PROVE  \E q \in Nat : 2 ^ m = 2 ^ k * (2 * q)
<1> DEFINE Even(n) == \E q \in Nat : 2 ^ (k + 1 + n) = 2 ^ k * (2 * q)
           S       == {n \in Nat : Even(n)}
<1>1. 0 \in S
  <2>1. 2 ^ (k + 1 + 0) = 2 ^ k * (2 * 1)
    BY Powers
  <2>. QED
    BY <2>1
<1>2. ASSUME NEW n \in Nat, n \in S PROVE n + 1 \in S
  <2>1. PICK q \in Nat : 2 ^ (k + 1 + n) = 2 ^ k * (2 * q)
    BY <1>2
  <2>2. 2 ^ (k + 1 + (n + 1)) = 2 * 2 ^ (k + 1 + n)
    BY Powers
  <2> DEFINE p == 2 ^ k
  <2>3. p \in Nat
    BY Powers
  <2> HIDE DEF p
  <2>4. 2 * (p * (2 * q)) = p * (2 * (2 * q)) /\ 2 * q \in Nat
    BY <2>3
  <2>5. 2 ^ (k + 1 + (n + 1)) = p * (2 * (2 * q))
    <3> DEFINE y == 2 ^ (k + 1 + n)
    <3>1. y = p * (2 * q)
      BY <2>1 DEF p
    <3>2. 2 ^ (k + 1 + (n + 1)) = 2 * y
      BY <2>2
    <3> HIDE DEF y
    <3>. QED
      BY <2>4, <3>1, <3>2
  <2>6. \E r \in Nat : 2 ^ (k + 1 + (n + 1)) = p * (2 * r)
    <3>1. 2 * q \in Nat
      BY <2>4
    <3> WITNESS 2 * q \in Nat
    <3>. QED
      BY <2>5
  <2>7. Even(n + 1)
    BY <2>6 DEF p
  <2> HIDE DEF Even
  <2>. QED
    BY <2>7
<1> HIDE DEF S
<1>3. m - k - 1 \in Nat /\ k + 1 + (m - k - 1) = m
  OBVIOUS
<1>4. m - k - 1 \in S
  BY <1>1, <1>2, <1>3, CountUp
<1>. QED
  BY <1>3, <1>4 DEF S
=============================================================================
