------------------------------ MODULE Rounding ------------------------------
(* ROUND_HALF_UP of Decimal, of n / d: a half goes away from zero.           *)
EXTENDS Integers

HalfUp(n, d) ==
    IF n >= 0 THEN (2 * n + d) \div (2 * d) ELSE -((d - 2 * n) \div (2 * d))
=============================================================================
