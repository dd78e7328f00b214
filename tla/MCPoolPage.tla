----------------------------- MODULE MCPoolPage -----------------------------
(***************************************************************************)
(* Four blocks of two bytes: a page in miniature, with MaxBlockSize one    *)
(* less than NumBlocks as on both targets (255 of 256, 511 of 512), so that*)
(* chunks can end before, at and beyond the end of the page.               *)
(***************************************************************************)
EXTENDS PoolPage

MCNumBlocks     == 4
MCPoolBlockSize == 2
MCHeaderSize    == 2
MCMaxBlockSize  == 3
=============================================================================
