------------------------------ MODULE Ordering ------------------------------
(* The elements of a finite set by a strict order of all of them: each after *)
(* as many as come before it.                                                *)
EXTENDS Integers, FiniteSets

Ordered(S, order) ==
    [i \in 1 .. Cardinality(S) |->
        CHOOSE x \in S : Cardinality({y \in S : <<y, x>> \in order}) = i - 1]
=============================================================================
