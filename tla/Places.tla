------------------------------- MODULE Places --------------------------------
(***************************************************************************)
(* Parts of a sequence by their places, which is what a loop with `if`     *)
(* keeps of a list.                                                        *)
(***************************************************************************)
EXTENDS Naturals, Sequences, FiniteSets

\* The members at these places, in their order.
AtPlaces(s, places) ==
  [k \in 1..Cardinality(places) |->
     s[CHOOSE i \in places : Cardinality({j \in places : j <= i}) = k]]
==============================================================================
