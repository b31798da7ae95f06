------------------------------- MODULE Positions ------------------------------
(***************************************************************************)
(* What sort does to the numbers of a set, and filter to a sequence: the   *)
(* elements in their order.  Both go by rank, how many of the numbers are  *)
(* no greater, so that what they return can be proved.                     *)
(***************************************************************************)
EXTENDS Naturals, FiniteSets

Rank(S, i) == Cardinality({j \in S : j <= i})

\* The numbers of S, the least first.
Ascending(S) == [k \in 1..Cardinality(S) |-> CHOOSE i \in S : Rank(S, i) = k]

\* The elements of a sequence at some of its places, in their order.
Picked(s, places) == [k \in 1..Cardinality(places) |-> s[Ascending(places)[k]]]
=============================================================================
