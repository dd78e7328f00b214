----------------------------- MODULE ChunkLookup ----------------------------
(***************************************************************************)
(* What !poolchunk and !poolpage promise about the pointer they are given: *)
(* the page is read once, and the chunk they name is the chunk of that     *)
(* page the pointer is in, or none when there is no such chunk.            *)
(***************************************************************************)
EXTENDS PoolGeometry

VARIABLES
  kPtr,    \* the pointer asked about
  page,    \* the page as it was read, NULL before
  chunk,   \* the chunk named, NULL for none
  done     \* the command is over

vars == <<kPtr, page, chunk, done>>

Init ==
  /\ kPtr \in Pointers
  /\ page = NULL
  /\ chunk = NULL
  /\ done = FALSE

Read ==
  /\ ~done /\ page = NULL
  /\ page' \in Pages
  /\ UNCHANGED <<kPtr, chunk, done>>

\* The chunk is named, at once with the end of the command or before it.
Name ==
  /\ ~done /\ page # NULL /\ chunk = NULL
  /\ chunk' \in Covering(page, kPtr)
  /\ done' \in BOOLEAN
  /\ UNCHANGED <<kPtr, page>>

\* The command may end without a chunk only if it has none to name.
End ==
  /\ ~done
  /\ page # NULL /\ chunk = NULL => Covering(page, kPtr) = {}
  /\ done' = TRUE
  /\ UNCHANGED <<kPtr, page, chunk>>

Next == Read \/ Name \/ End

Spec == Init /\ [][Next]_vars
=============================================================================
