---------------------------- MODULE Subsequences ----------------------------
(***************************************************************************)
(* The part of a sequence that is at some of its places: SelectSeq by      *)
(* counting instead of by recursion, so that it can be reasoned about; and *)
(* sums, as a recursive function for the same reason.                      *)
(***************************************************************************)
EXTENDS Integers, FiniteSets

\* The n-th of some places, from the first.
Nth(places, n) == CHOOSE i \in places : Cardinality({j \in places : j <= i}) = n

\* The elements of s at some of its places, in their order.
ElementsAt(s, places) == [n \in 1 .. Cardinality(places) |-> s[Nth(places, n)]]

\* The sum of the first n values of f.
SumTo(f, n) ==
    LET sum[i \in 0 .. n] == IF i = 0 THEN 0 ELSE sum[i - 1] + f[i]
    IN  sum[n]
=============================================================================
