----------------------------- MODULE MCStructs -----------------------------
(***************************************************************************)
(* Three fields, the first two of them optional, in every order in memory, *)
(* unions and gaps included; any of them may be missing.                   *)
(***************************************************************************)
EXTENDS Structs

MCOptional == {1, 2}

MCPlaces  == [offset : 0 .. 3, size : 0 .. 2]
MCLayouts == {l \in [1 .. 3 -> MCPlaces] : InOrder(l) /\ l[3].offset > 0}
MCSymbols == [layout : MCLayouts, absent : SUBSET (1 .. 3)]
=============================================================================
