------------------------------ MODULE Sublists -------------------------------
(* Lists that are left when elements are taken out, as a filter leaves them. *)
EXTENDS Naturals, Sequences, FiniteSets

\* The elements of s at some of its places, in their order.
AtPlaces(s, places) ==
  [k \in 1..Cardinality(places) |->
     s[CHOOSE i \in places : Cardinality({j \in places : j <= i}) = k]]

\* The elements of s that are in S, in their order.
Among(s, S) == AtPlaces(s, {i \in 1..Len(s) : s[i] \in S})
=============================================================================
