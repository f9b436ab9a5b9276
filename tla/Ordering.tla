------------------------------ MODULE Ordering ------------------------------
(***************************************************************************)
(* Sets of places in order: what sorted() and a comprehension with an "if" *)
(* do, written with cardinalities; and what sum() does, as a recursive     *)
(* function.                                                               *)
(***************************************************************************)
EXTENDS Integers, FiniteSets, Sequences

\* The k-th smallest element of S.
Nth(S, k) == CHOOSE i \in S : Cardinality({j \in S : j < i}) = k - 1

\* sorted(S)
Ascending(S) == [k \in 1 .. Cardinality(S) |-> Nth(S, k)]

\* sum(counts)
Summed(counts) ==
  LET sum[i \in 0 .. Len(counts)] == IF i = 0 THEN 0 ELSE sum[i - 1] + counts[i]
  IN  sum[Len(counts)]

\* The elements of s at some places, in the order of s.
Picked(s, places) == [k \in 1 .. Cardinality(places) |-> s[Nth(places, k)]]
=============================================================================
