------------------------------ MODULE PoolPage ------------------------------
(***************************************************************************)
(* EnumPoolPage: the walk over the chunks of one pool page, with the two   *)
(* callbacks the commands give it:                                         *)
(*                                                                         *)
(*   "find"   EnumPoolProcFindHeader, for !poolchunk (FindPoolHeader)      *)
(*   "print"  EnumProcPrintHeader, for !poolpage                           *)
(*                                                                         *)
(* The page is copied into a buffer by one read and walked there, one      *)
(* action per iteration of the loop.  The target may be running (a local   *)
(* kernel session), so each read of it finds any contents or fails.        *)
(***************************************************************************)
EXTENDS PoolGeometry, Sequences

CONSTANT EnumProcs   \* the callbacks of this instance

ASSUME EnumProcsAssumption == EnumProcs \subseteq {"find", "print"}

VARIABLES
  kPtr,      \* the pointer given to the command
  enumProc,  \* the callback
  pc,        \* "probe": !poolpage tries the page; "read": EnumPoolPage reads
             \* it; "walk": in the loop; "done"
  page,      \* the buffer, NULL before it is filled
  offset,    \* the loop's position in the buffer
  kChunk,    \* find->kChunk, the result of FindPoolHeader
  out,       \* the lines printed so far
  diag,      \* the complaint printed at the end of the walk, if any
  ret        \* what EnumPoolPage returned

vars == <<kPtr, enumProc, pc, page, offset, kChunk, out, diag, ret>>

Init ==
  /\ kPtr \in Pointers
  /\ enumProc \in EnumProcs
  /\ pc = IF enumProc = "print" THEN "probe" ELSE "read"
  /\ page = NULL
  /\ offset = 0
  /\ kChunk = NULL
  /\ out = <<>>
  /\ diag = "none"
  /\ ret = FALSE

-----------------------------------------------------------------------------
\* !poolpage reads the page into a buffer of its own, and gives up with
\* "invalid address" when it cannot; EnumPoolPage then reads it once more.
Probe ==
  /\ pc = "probe"
  /\ \/ pc' = "read" /\ UNCHANGED diag
     \/ pc' = "done" /\ diag' = "invalid"
  /\ UNCHANGED <<kPtr, enumProc, page, offset, kChunk, out, ret>>

ReadPage ==
  /\ pc = "read"
  /\ \/ /\ page' \in Pages
        /\ pc' = "walk"
     \/ /\ pc' = "done"
        /\ UNCHANGED page
  /\ UNCHANGED <<kPtr, enumProc, offset, kChunk, out, diag, ret>>

\* The header at the current position, and the position after its chunk.
BlockSize  == page[offset]
NextOffset == offset + Bytes(BlockSize)

\* The test both callbacks make.
IsHereOffByOne(c, n) == kPtr > c /\ kPtr <= c + Bytes(n)
IsHere(c, n) == PtrInChunk(kPtr, c, n)

\* The callback's verdict: EnumPoolProcFindHeader asks the walk to stop.
Stops == enumProc = "find" /\ IsHere(offset, BlockSize)

Line(c, n) == [addr |-> c, size |-> n, star |-> IsHere(c, n)]

PrintLine == IF enumProc = "print" THEN Append(out, Line(offset, BlockSize)) ELSE out

\* find->kChunk is the base of the chunk, not the pointer.
FoundPointer == kPtr
FoundChunk == offset

StopAtFound ==
  /\ pc = "walk" /\ Stops
  /\ kChunk' = FoundChunk
  /\ pc' = "done"
  /\ UNCHANGED <<kPtr, enumProc, page, offset, out, diag, ret>>

\* A header that would keep the walk where it is.
NeverZeroSized == FALSE
ZeroSized == BlockSize = 0

ZeroBlockSize ==
  /\ pc = "walk" /\ ~Stops
  /\ ZeroSized
  /\ out' = PrintLine
  /\ diag' = "zero"
  /\ pc' = "done"
  /\ UNCHANGED <<kPtr, enumProc, page, offset, kChunk, ret>>

\* PAGE_ALIGN(kPtrPage + offset) # kPtrPage
LeavesPageLate(o) == o > PageSize
LeavesPage(o) == o >= PageSize

Advance ==
  /\ pc = "walk" /\ ~Stops
  /\ ~ZeroSized
  /\ ~LeavesPage(NextOffset)
  /\ out' = PrintLine
  /\ offset' = NextOffset
  /\ UNCHANGED <<kPtr, enumProc, pc, page, kChunk, diag, ret>>

\* The end of the page; the last chunk should end exactly there.
EndOfPageUnchecked ==
  /\ pc = "walk" /\ ~Stops
  /\ ~ZeroSized
  /\ LeavesPage(NextOffset)
  /\ out' = PrintLine
  /\ pc' = "done"
  /\ ret' = TRUE
  /\ UNCHANGED <<kPtr, enumProc, page, offset, kChunk, diag>>

EndOfPage ==
  /\ pc = "walk" /\ ~Stops
  /\ ~ZeroSized
  /\ LeavesPage(NextOffset)
  /\ out' = PrintLine
  /\ diag' = IF NextOffset = PageSize THEN "none" ELSE "overrun"
  /\ pc' = "done"
  /\ ret' = TRUE
  /\ UNCHANGED <<kPtr, enumProc, page, offset, kChunk>>

Finished == pc = "done" /\ UNCHANGED vars

Next ==
  \/ Probe \/ ReadPage
  \/ StopAtFound \/ ZeroBlockSize \/ Advance \/ EndOfPage
  \/ Finished

Spec == Init /\ [][Next]_vars

\* A command runs on the debugger's thread to its end: every read of the
\* target returns, with data or with an error.
FairSpec == Spec /\ WF_vars(Next)

-----------------------------------------------------------------------------
Lines == [addr : Offsets, size : BlockSizes, star : BOOLEAN]

TypeOK ==
  /\ kPtr \in Pointers
  /\ enumProc \in {"find", "print"}
  /\ pc \in {"probe", "read", "walk", "done"}
  /\ page \in Pages \cup {NULL}
  /\ offset \in Nat
  /\ kChunk \in Offsets \cup {NULL}
  /\ out \in Seq(Lines)
  /\ diag \in {"none", "invalid", "zero", "overrun"}
  /\ ret \in BOOLEAN

\* Every header the loop reads lies inside the buffer of PAGE_SIZE bytes, for
\* any contents of the page (page + offset, handed to GetBlockSize and to the
\* callback).
HeaderInPage ==
  pc = "walk" => page \in Pages /\ offset \in Offsets /\ offset + HeaderSize <= PageSize

\* The walk never goes back or stays: an iteration that neither stops nor ends
\* the walk moves it forward, so a page of any contents is walked in at most
\* NumBlocks iterations (the check for a BlockSize of zero).
Progress == [][pc = "walk" /\ pc' = "walk" => offset' > offset]_vars

\* A walk that ends without a complaint has printed a partition of the page:
\* each byte of it is in the chunk of exactly one line, and no chunk reaches
\* beyond it.
CleanWalkTilesPage ==
  enumProc = "print" /\ pc = "done" /\ ret /\ diag = "none" =>
    /\ \A p \in Pointers :
         \E i \in DOMAIN out :
           /\ PtrInChunk(p, out[i].addr, out[i].size)
           /\ \A j \in DOMAIN out \ {i} : ~PtrInChunk(p, out[j].addr, out[j].size)
    /\ \A i \in DOMAIN out : out[i].addr + Bytes(out[i].size) <= PageSize

\* The chunks marked with a star.
Starred == {out[i].addr : i \in {j \in DOMAIN out : out[j].star}}

\* The chunk a command names: the one !poolchunk found, or the one !poolpage
\* marked.
Named ==
  IF enumProc = "find" THEN kChunk
  ELSE IF Starred = {} THEN NULL ELSE CHOOSE c \in Starred : TRUE

Lookup == INSTANCE ChunkLookup WITH chunk <- Named, done <- (pc = "done")

\* Either command answers for the pointer as ChunkLookup promises: the chunk
\* of the page it is in, whichever of the two is asked.
ImplementsLookup == Lookup!Spec

\* Every walk ends, on a damaged page too.
Termination == <>(pc = "done")
=============================================================================
