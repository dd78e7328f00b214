------------------------------ MODULE ListWalk ------------------------------
(***************************************************************************)
(* One enumeration by itself, of either kind: ListHeads or Lookasides over *)
(* every memory of the instance.                                           *)
(***************************************************************************)
EXTENDS Target

VARIABLES
  kind,  \* "listHeads" or "lookaside"
  mem, desc, want, enumProc, pc, bucket, cur, count, bRet, find, calls

walk     == <<mem, desc, want, enumProc, pc, bucket, cur, count, bRet, find, calls>>
walkVars == <<kind, walk>>

L == INSTANCE ListHeads WITH kPoolDesc <- desc, Flink <- cur
K == INSTANCE Lookasides WITH kLookasideDesc <- desc, pCur <- cur

WalkInit ==
  \/ kind = "listHeads" /\ L!Init
  \/ kind = "lookaside" /\ K!Init

WalkBegin ==
  /\ \/ kind = "listHeads" /\ L!Begin
     \/ kind = "lookaside" /\ K!Begin
  /\ UNCHANGED kind

\* A step of the walk under way.
WalkStep ==
  /\ \/ kind = "listHeads" /\ L!Step
     \/ kind = "lookaside" /\ K!Step
  /\ UNCHANGED kind

Walk == WalkBegin \/ WalkStep

WalkNext ==
  \/ Walk
  \/ (L!EndlessWalk \/ L!Finished) /\ UNCHANGED kind

WalkSpec == WalkInit /\ [][WalkNext]_walkVars

\* The enumeration runs on the debugger's thread; every read returns.
WalkFairSpec == WalkSpec /\ WF_walkVars(Walk)

-----------------------------------------------------------------------------
\* Type correctness of either walk.
WalkTypeOK ==
  /\ kind \in {"listHeads", "lookaside"}
  /\ kind = "listHeads" => L!TypeOK
  /\ kind = "lookaside" => K!TypeOK

\* What a search reports is in the list, at the place it is reported for: the
\* first chunk that contains the pointer for ListHeads, one that does for a
\* lookaside; see either module.
FoundIsThere ==
  (kind = "listHeads" => L!FoundIsFirst) /\ (kind = "lookaside" => K!FoundIsThere)

\* No chunk that contains the pointer is passed over: a search of ListHeads that
\* returns TRUE has looked everywhere and there is none, one of a lookaside has
\* noted one if there is one; see either module.
NoneIsPassed ==
  (kind = "listHeads" => L!MissIsComplete) /\ (kind = "lookaside" => K!HoldersAreNoted)

HeadOf(b) == ListHead(desc, b)

Asked == IF want = All THEN 0 .. NumBuckets(kind, desc) - 1 ELSE {want}

\* An enumeration that returns TRUE, a listing above all, has shown each bucket
\* asked for, complete, and no other; in ascending order, each in the order of
\* its entries, and nothing twice.
ShowsEveryEntry ==
  pc = "done" /\ bRet =>
    /\ {calls[j].bucket : j \in DOMAIN calls} = Asked
    /\ \A b \in Asked :
         LET h == HeadOf(b) end == EndOf(kind, h)
         IN  /\ Closes(mem, h, end)
             /\ {calls[j] : j \in {k \in DOMAIN calls : calls[k].bucket = b}} = Listing(mem, h, end, b)
    /\ \A j, k \in DOMAIN calls : j < k =>
         \/ calls[j].bucket < calls[k].bucket
         \/ calls[j].bucket = calls[k].bucket /\ calls[j].count < calls[k].count

Abstract == INSTANCE Enumeration WITH
  noted <- [kChunk |-> find.kChunk, bucket |-> find.bucket, count |-> find.count],
  phase <- IF pc = "idle" THEN "idle"
           ELSE IF pc # "done" THEN "run"
           ELSE IF bRet THEN "complete" ELSE "broken"

\* Either walk makes the calls Enumeration promises, no other and in that order.
ImplementsEnumeration == Abstract!Spec

\* An enumeration whose lists end comes to an end, whatever reads fail.
WalkEnds ==
  (\A b \in 0 .. NumBuckets(kind, desc) - 1 : Ends(mem, HeadOf(b), EndOf(kind, HeadOf(b))))
  => <>(pc = "done")
=============================================================================
