------------------------------ MODULE Rounding ------------------------------
(***************************************************************************)
(* ROUND_HALF_EVEN of the decimal library: the rounding of quantize and of *)
(* every arithmetic result, unless the code names another.                 *)
(***************************************************************************)
EXTENDS Integers

\* n/d to the nearest integer, a tie to the even one.
HalfEven(n, d) ==
    LET low == n \div d
        rest == 2 * (n % d)
    IN  IF rest > d \/ (rest = d /\ low % 2 = 1) THEN low + 1 ELSE low
=============================================================================
