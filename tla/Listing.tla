------------------------------ MODULE Listing -------------------------------
(***************************************************************************)
(* The members of a finite set of numbers, listed in increasing order.     *)
(***************************************************************************)
EXTENDS Naturals, FiniteSets

InOrder(S) ==
  [k \in 1 .. Cardinality(S) |-> CHOOSE i \in S : Cardinality({j \in S : j <= i}) = k]

\* What stands at the places K of a sequence, in order.
AtPlaces(s, K) == [n \in DOMAIN InOrder(K) |-> s[InOrder(K)[n]]]
=============================================================================
