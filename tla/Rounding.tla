------------------------------ MODULE Rounding ------------------------------
(***************************************************************************)
(* Python's round(): the one numeric operation the control law, the units  *)
(* and the validation share.                                               *)
(***************************************************************************)
EXTENDS Integers

\* Python's round(n / d) for d > 0: to the nearest integer, ties to the even one.
RoundHalfEven(n, d) ==
    LET q == n \div d
        r == n % d
    IN  IF 2 * r > d \/ (2 * r = d /\ q % 2 = 1) THEN q + 1 ELSE q
=============================================================================
