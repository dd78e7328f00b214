---------------------------- MODULE Enumeration -----------------------------
(***************************************************************************)
(* What EnumListHeads and EnumLookasides promise about the calls of their  *)
(* callback, without their loops, counters and cursors: the lists of the   *)
(* buckets asked for are shown one after another, each from its head to    *)
(* its end, an entry at a time and numbered from 0, an empty list by one   *)
(* call.  The enumeration may break off at any time, but says that it is   *)
(* complete only if it is.  A search notes no chunk but the one it is      *)
(* called with, and only if that chunk contains the pointer.               *)
(***************************************************************************)
EXTENDS Target

VARIABLES
  mem,    \* the target
  kind,   \* "listHeads" or "lookaside"
  desc,   \* the descriptor
  want,   \* the bucket asked for, or All
  calls,  \* the calls of the callback
  noted,  \* what a search has noted: [kChunk, bucket, count]
  phase   \* "idle", "run", "complete", "broken"

vars == <<mem, kind, desc, want, calls, noted, phase>>

FirstBucket == IF want = All THEN 0 ELSE want
LastBucket  == IF want = All THEN NumBuckets(kind, desc) - 1 ELSE want

Latest(cs) == cs[Len(cs)]

\* The call that shows what cell a of bucket b's list points to, as number n.
Showing(b, a, n) ==
  LET end == mem.link[a] = EndOf(kind, ListHead(desc, b))
  IN  [bucket |-> b, empty |-> end, kChunk |-> IF end THEN NULL ELSE mem.link[a], count |-> n]

\* With call c its list has been shown to its end.
EndsList(c) ==
  c.empty \/ (LinkReadable(mem, c.kChunk) /\ mem.link[c.kChunk] = EndOf(kind, ListHead(desc, c.bucket)))

Whole(cs) == cs # <<>> /\ EndsList(Latest(cs)) /\ Latest(cs).bucket = LastBucket

-----------------------------------------------------------------------------
Init ==
  /\ mem \in Memory
  /\ kind \in {"listHeads", "lookaside"}
  /\ desc \in Descs
  /\ calls = <<>>
  /\ noted = [kChunk |-> NULL, bucket |-> 0, count |-> 0]
  /\ phase = "idle"

Begin ==
  /\ phase = "idle"
  /\ phase' \in {"run", "broken"}
  /\ UNCHANGED <<mem, kind, desc, calls, noted>>

\* Call c is made; it may be noted, and it may be the last.
Visit(c) ==
  /\ phase = "run"
  /\ calls' = Append(calls, c)
  /\ \/ noted' = noted
     \/ c.kChunk \in mem.holds /\ noted' = [kChunk |-> c.kChunk, bucket |-> c.bucket, count |-> c.count]
  /\ phase' \in {"run", "broken", "complete"}
  /\ phase' = "complete" => Whole(calls')
  /\ UNCHANGED <<mem, kind, desc, want>>

\* The first call for a list: the first list asked for, or the one after a
\* list that has been shown to its end.
OpenList ==
  LET b == IF calls = <<>> THEN FirstBucket ELSE Latest(calls).bucket + 1
  IN  /\ calls # <<>> => EndsList(Latest(calls))
      /\ b <= LastBucket
      /\ LinkReadable(mem, ListHead(desc, b))
      /\ Visit(Showing(b, ListHead(desc, b), 0))

\* The next call for a list.
NextEntry ==
  /\ calls # <<>>
  /\ LET c == Latest(calls)
     IN  /\ ~EndsList(c) /\ LinkReadable(mem, c.kChunk)
         /\ Visit(Showing(c.bucket, c.kChunk, c.count + 1))

End ==
  /\ phase = "run"
  /\ phase' \in {"broken", "complete"}
  /\ phase' = "complete" => Whole(calls)
  /\ UNCHANGED <<mem, kind, desc, want, calls, noted>>

Next == Begin \/ OpenList \/ NextEntry \/ End

Spec == Init /\ [][Next]_vars
=============================================================================
