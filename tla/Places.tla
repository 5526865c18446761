------------------------------- MODULE Places -------------------------------
(***************************************************************************)
(* Parts of a sequence: what stands at some of its places, what of it is   *)
(* in a set, and each element where it first stands; and a set in an       *)
(* order.  They are said by places and not by recursion, which the proofs  *)
(* could not unfold.                                                       *)
(***************************************************************************)
EXTENDS Naturals, Sequences, FiniteSets

Nth(places, n) == CHOOSE i \in places : Cardinality({j \in places : j <= i}) = n
Picked(s, places) == [n \in 1..Cardinality(places) |-> s[Nth(places, n)]]
Among(s, S) == Picked(s, {i \in DOMAIN s : s[i] \in S})
DistinctInOrder(s) == Picked(s, {i \in DOMAIN s : \A j \in 1..(i - 1) : s[j] # s[i]})

\* A set in the order of some pairs: each element after as many as are before it.
Ranked(S, before) ==
  [n \in 1..Cardinality(S) |-> CHOOSE x \in S : Cardinality({y \in S : <<y, x>> \in before}) = n - 1]
=============================================================================
