----------------------------- MODULE NumberLemmas -----------------------------
(***************************************************************************)
(* What the proofs of several components need to know about numbers.       *)
(***************************************************************************)
EXTENDS Integers, WellFoundedInduction, TLAPS

\* Induction in the form that needs no predicate.
LEMMA LeastNatural ==
  ASSUME NEW T, T \subseteq Nat, T # {}
  PROVE  \E x \in T : \A y \in T : x <= y
<1> DEFINE R == OpToRel(<, Nat)
<1>1. IsWellFoundedOn(R, Nat)
  BY NatLessThanWellFounded
<1>2. \A x, y \in Nat : <<y, x>> \in R <=> y < x
  BY DEF OpToRel
<1> HIDE DEF R
<1>3. PICK x \in T : \A y \in T : ~ (<<y, x>> \in R)
  BY <1>1, WFMin, Zenon
<1>4. \A y \in T : x <= y
  <2> TAKE y \in T
  <2>1. x \in Nat /\ y \in Nat /\ ~ (<<y, x>> \in R)
    BY <1>3
  <2>2. ~(y < x)
    BY <1>2, <2>1, Zenon
  <2> QED
    BY <2>1, <2>2
<1> QED
  BY <1>4

-----------------------------------------------------------------------------
(* Arithmetic of words. *)

LEMMA Division ==
  ASSUME NEW n \in Nat, NEW w \in Nat \ {0}
  PROVE  n % w \in 0 .. w - 1 /\ n \div w \in Nat /\ n = w * (n \div w) + (n % w)
OBVIOUS

LEMMA Remainder ==
  ASSUME NEW w \in Nat \ {0}, NEW q \in Nat, NEW r \in 0 .. w - 1
  PROVE  (w * q + r) % w = r
<1> DEFINE n == w * q + r
<1>1. n \in Nat
  OBVIOUS
<1>2. n % w \in 0 .. w - 1 /\ n \div w \in Nat /\ n = w * (n \div w) + (n % w)
  BY <1>1, Division
<1> HIDE DEF n
<1> DEFINE p == n \div w
           s == n % w
<1>3. p \in Nat /\ s \in 0 .. w - 1 /\ w * p + s = w * q + r
  BY <1>2 DEF n
<1> HIDE DEF p, s
<1>4. p = q
  <2>1. ASSUME p < q PROVE FALSE
    <3>1. w * (q - p) = s - r
      BY <1>3
    <3>2. w * (q - p) >= w * 1
      BY <2>1, <1>3
    <3>3. QED
      BY <3>1, <3>2, <1>3
  <2>2. ASSUME p > q PROVE FALSE
    <3>1. w * (p - q) = r - s
      BY <1>3
    <3>2. w * (p - q) >= w * 1
      BY <2>2, <1>3
    <3>3. QED
      BY <3>1, <3>2, <1>3
  <2>3. QED
    BY <2>1, <2>2, <1>3
<1>5. s = r
  BY <1>3, <1>4
<1>6. QED
  BY <1>5 DEF s, n

\* Counting one more modulo w.
LEMMA NextRemainder ==
  ASSUME NEW w \in Nat \ {0}, NEW n \in Nat
  PROVE  ((n % w) + 1) % w = (n + 1) % w
<1> DEFINE q == n \div w
           r == n % w
<1>1. q \in Nat /\ r \in 0 .. w - 1 /\ n = w * q + r
  BY Division
<1> HIDE DEF q, r
<1>2. CASE r + 1 < w
  <2>1. (r + 1) % w = r + 1
    BY <1>1, <1>2
  <2>2. (w * q + (r + 1)) % w = r + 1
    BY <1>1, <1>2, Remainder
  <2>3. n + 1 = w * q + (r + 1)
    BY <1>1
  <2>4. (r + 1) % w = (n + 1) % w
    BY <2>1, <2>2, <2>3, Zenon
  <2>5. QED
    BY <2>4 DEF r
<1>3. CASE r + 1 = w
  <2>1. (w * 1 + 0) % w = 0 /\ (w * (q + 1) + 0) % w = 0
    BY <1>1, Remainder
  <2>2. n + 1 = w * (q + 1) + 0 /\ r + 1 = w * 1 + 0
    BY <1>1, <1>3
  <2>3. (r + 1) % w = (n + 1) % w
    BY <2>1, <2>2, Zenon
  <2>4. QED
    BY <2>3 DEF r
<1>4. QED
  BY <1>1, <1>2, <1>3

=============================================================================
