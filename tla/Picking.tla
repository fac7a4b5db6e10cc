------------------------------ MODULE Picking ------------------------------
(* The subsequence of a sequence at a set of its indices: what a loop that  *)
(* keeps some of its items keeps, in their order.                           *)
EXTENDS Naturals, FiniteSets

\* The item is the k-th that is picked when k of the indices are up to its own.
Pick(s, I) ==
    [k \in 1 .. Cardinality(I) |-> s[CHOOSE i \in I : Cardinality({j \in I : j <= i}) = k]]
=============================================================================
