---------------------------- MODULE SlotArithmetic ----------------------------
(***************************************************************************)
(* Division with remainder, as the shared memory structures use it: number *)
(* i lives in slot i % n of n, and round again.                            *)
(***************************************************************************)
EXTENDS Integers, TLAPS

\* The laws of \div and %.
LEMMA DivMod ==
  ASSUME NEW n \in Nat \ {0}, NEW a \in Nat
  PROVE  /\ a % n \in 0 .. n - 1 /\ a \div n \in Nat
         /\ a = n * (a \div n) + (a % n)
  OBVIOUS

\* A remainder is determined by any decomposition.
LEMMA ModUnique ==
  ASSUME NEW n \in Nat \ {0}, NEW a \in Nat, NEW q \in Nat, NEW r \in 0 .. n - 1,
         a = n * q + r
  PROVE  a % n = r
  <1> DEFINE p == a \div n
  <1>1. a = n * p + (a % n) /\ a % n \in 0 .. n - 1 /\ p \in Nat
    BY DivMod
  <1>2. n * (p - q) = r - (a % n)
    BY <1>1
  <1> HIDE DEF p
  <1>3. CASE p - q >= 1
    <2>1. n * (p - q) >= n
      BY <1>3, <1>1
    <2>2. QED
      BY <2>1, <1>2, <1>1
  <1>4. CASE p - q <= -1
    <2>1. n * (p - q) <= -n
      BY <1>4, <1>1
    <2>2. QED
      BY <2>1, <1>2, <1>1
  <1>5. CASE p - q = 0
    BY <1>5, <1>2, <1>1
  <1>6. QED
    BY <1>1, <1>3, <1>4, <1>5

\* Counters less than a buffer apart have different slots.
LEMMA SlotsDiffer ==
  ASSUME NEW n \in Nat \ {0}, NEW a \in Nat, NEW b \in Nat, a < b, b - a < n
  PROVE  a % n # b % n
  <1> DEFINE p == a \div n
             q == b \div n
  <1>1. a = n * p + (a % n) /\ b = n * q + (b % n) /\ p \in Nat /\ q \in Nat
        /\ a % n \in Int /\ b % n \in Int
    BY DivMod
  <1> HIDE DEF p, q
  <1> SUFFICES ASSUME a % n = b % n PROVE FALSE
    OBVIOUS
  <1>2. n * (q - p) = b - a
    BY <1>1
  <1>3. CASE q - p >= 1
    <2>1. n * (q - p) >= n
      BY <1>3, <1>1
    <2>2. QED
      BY <2>1, <1>2
  <1>4. CASE q - p <= 0
    <2>1. n * (q - p) <= 0
      BY <1>4, <1>1
    <2>2. QED
      BY <2>1, <1>2
  <1>5. QED
    BY <1>3, <1>4, <1>1
=============================================================================
