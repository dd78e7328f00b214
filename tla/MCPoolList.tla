----------------------------- MODULE MCPoolList -----------------------------
(***************************************************************************)
(* Up to two processors, and a DWORD of three values, so that adding one to*)
(* the number of paged pools can wrap.                                     *)
(***************************************************************************)
EXTENDS PoolList

MCMaxProcs   == 2
MCDwordLimit == 3
=============================================================================
