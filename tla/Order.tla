-------------------------------- MODULE Order --------------------------------
(***************************************************************************)
(* The members of a finite set of numbers, from the least to the greatest. *)
(***************************************************************************)
EXTENDS Integers, FiniteSets

InOrder(S) ==
  [n \in 1 .. Cardinality(S) |-> CHOOSE p \in S : Cardinality({q \in S : q < p}) = n - 1]
=============================================================================
