--------------------------- MODULE RoundingProofs ---------------------------
(***************************************************************************)
(* What the proofs about the control law, the units and the validation     *)
(* need to know of Python's round().                                       *)
(***************************************************************************)
EXTENDS Rounding, TLAPS

\* Rounding a quotient stays within any integer bounds the quotient has.
LEMMA RoundWithin ==
    ASSUME NEW n \in Int, NEW d \in Nat \ {0}, NEW a \in Int, NEW b \in Int,
           a * d <= n, n <= b * d
    PROVE  /\ RoundHalfEven(n, d) \in Int
           /\ a <= RoundHalfEven(n, d)
           /\ RoundHalfEven(n, d) <= b
<1> DEFINE q == n \div d
           r == n % d
<1>1. q \in Int /\ r \in Int /\ n = q * d + r /\ 0 <= r /\ r < d
  BY SMT
<1>2. a <= q
  BY <1>1, SMT
<1>3. q <= b
  BY <1>1, SMT
<1>4. q = b => r = 0
  BY <1>1, SMT
<1> HIDE DEF q, r
<1>5. RoundHalfEven(n, d) = IF 2 * r > d \/ (2 * r = d /\ q % 2 = 1) THEN q + 1 ELSE q
  BY DEF RoundHalfEven, q, r
<1>6. QED
  BY <1>1, <1>2, <1>3, <1>4, <1>5, SMT

\* A whole number of tenths of ten rounds to itself.
LEMMA RoundExact ==
    ASSUME NEW k \in Int
    PROVE  RoundHalfEven(10 * k, 10) = k
BY SMT DEF RoundHalfEven
=============================================================================
