------------------------------- MODULE Ordered -------------------------------
(***************************************************************************)
(* Rows that a query orders, and the elements of a list that a condition   *)
(* keeps: Python's sorted, SQL's ORDER BY, a list comprehension with an if. *)
(***************************************************************************)
EXTENDS Naturals, FiniteSets

\* The elements of a finite set, the one with the lowest key first.
Ascending(S, key) ==
  [n \in 1..Cardinality(S) |->
    CHOOSE x \in S : Cardinality({y \in S : key[y] <= key[x]}) = n]

\* The elements of a sequence that are at some of its places.
Picked(s, places) ==
  LET order == Ascending(places, [i \in DOMAIN s |-> i])
  IN  [n \in DOMAIN order |-> s[order[n]]]
=============================================================================
