----------------------------- MODULE ListHeads ------------------------------
(***************************************************************************)
(* EnumListHeads and EnumListHeadsBucket: the walk over the doubly linked  *)
(* free lists of a pool descriptor, with the callbacks                     *)
(*                                                                         *)
(*   "find"   EnumListHeadsProcFindChunk, for !poolchunk                   *)
(*   "print"  EnumListHeadsProcPrint, for !poolinfo -f                     *)
(*                                                                         *)
(* Every read of the target is an action.                                  *)
(***************************************************************************)
EXTENDS Target

VARIABLES
  mem,       \* the target
  kPoolDesc, \* the descriptor given to EnumListHeads
  want,      \* its bucket argument
  enumProc,  \* its callback
  pc,        \* "idle", "bucket", "call", "next", "done"
  bucket,    \* the bucket being walked
  Flink,     \* the walk's position
  count,     \* entries of this bucket the callback has been called with
  bRet,      \* the value that will be returned
  find,      \* the FIND_PTR the search callback fills in
  calls      \* history: the calls of the callback

args   == <<mem, kPoolDesc, want, enumProc>>
locals == <<pc, bucket, Flink, count, bRet, find, calls>>
vars   == <<mem, kPoolDesc, want, enumProc, pc, bucket, Flink, count, bRet, find, calls>>

Idle ==
  /\ pc = "idle"
  /\ bucket = 0 /\ Flink = NULL /\ count = 0 /\ bRet = TRUE
  /\ find = NoFind /\ calls = <<>>

-----------------------------------------------------------------------------
Asked(w) == IF w = All THEN 0 .. ListHeadsBuckets - 1 ELSE {w}

\* A call of EnumListHeads(ctx, d, w, &find, proc).
Call(d, w, proc) ==
  /\ pc \in {"idle", "done"}
  /\ kPoolDesc' = d
  /\ want' = w
  /\ enumProc' = proc
  /\ bucket' = IF w = All THEN 0 ELSE w
  /\ pc' = "bucket"
  /\ calls' = <<>>
  /\ UNCHANGED <<mem, Flink, count, bRet, find>>

\* A variant of Return that a plausible slip would give.
ReturnOneTooMany(r) ==
  /\ bRet' = r
  /\ IF r /\ want = All /\ bucket + 1 <= ListHeadsBuckets
     THEN pc' = "bucket" /\ bucket' = bucket + 1
     ELSE pc' = "done"   /\ UNCHANGED bucket

\* EnumListHeadsBucket returns r: the next bucket, unless r is FALSE or there
\* is none.
Return(r) ==
  /\ bRet' = r
  /\ IF r /\ want = All /\ bucket + 1 < ListHeadsBuckets
     THEN pc' = "bucket" /\ bucket' = bucket + 1
     ELSE pc' = "done"   /\ UNCHANGED bucket

CalledWith(empty, cell, n) ==
  Append(calls, [bucket |-> bucket, empty |-> empty, kChunk |-> cell, count |-> n])

head == ListHead(kPoolDesc, bucket)

\* The first read of a bucket fails.
HeadUnreadable ==
  /\ pc = "bucket"
  /\ ~LinkReadable(mem, head)
  /\ Return(FALSE)
  /\ UNCHANGED <<args, Flink, count, find, calls>>

\* An empty bucket: one call of the callback, which answers TRUE.
EmptyBucket ==
  /\ pc = "bucket"
  /\ LinkReadable(mem, head) /\ mem.link[head] = head
  /\ calls' = CalledWith(TRUE, NULL, 0)
  /\ Return(TRUE)
  /\ UNCHANGED <<args, Flink, count, find>>

FirstEntry ==
  /\ pc = "bucket"
  /\ LinkReadable(mem, head) /\ mem.link[head] # head
  /\ Flink' = mem.link[head]
  /\ count' = 0
  /\ pc' = "call"
  /\ UNCHANGED <<args, bucket, bRet, find, calls>>

\* The verdict of the callback on an entry.  The printing callback goes on
\* even if it cannot read the header.
CallbackFails == enumProc = "find" /\ ~HeaderReadable(mem, Flink)
CallbackFinds == enumProc = "find" /\ HeaderReadable(mem, Flink) /\ Flink \in mem.holds

FoundAfterCount == [find EXCEPT !.kChunk = Flink, !.bucket = bucket, !.count = count + 1]
Found == [find EXCEPT !.kChunk = Flink, !.bucket = bucket, !.count = count]

\* The callback returns FALSE: the enumeration breaks off.
CallbackStops ==
  /\ pc = "call" /\ count < MaxCount
  /\ CallbackFails \/ CallbackFinds
  /\ find' = IF CallbackFinds THEN Found ELSE find
  /\ calls' = CalledWith(FALSE, Flink, count)
  /\ count' = count + 1
  /\ Return(FALSE)
  /\ UNCHANGED <<args, Flink>>

CallbackGoesOnCountedFirst ==
  /\ pc = "call" /\ count < MaxCount
  /\ ~CallbackFails /\ ~CallbackFinds
  /\ calls' = CalledWith(FALSE, Flink, count + 1)
  /\ count' = count + 1
  /\ pc' = "next"
  /\ UNCHANGED <<args, bucket, Flink, bRet, find>>

CallbackGoesOn ==
  /\ pc = "call" /\ count < MaxCount
  /\ ~CallbackFails /\ ~CallbackFinds
  /\ calls' = CalledWith(FALSE, Flink, count)
  /\ count' = count + 1
  /\ pc' = "next"
  /\ UNCHANGED <<args, bucket, Flink, bRet, find>>

\* The link to the next entry cannot be read.
NextUnreadable ==
  /\ pc = "next"
  /\ ~LinkReadable(mem, Flink)
  /\ Return(FALSE)
  /\ UNCHANGED <<args, Flink, count, find, calls>>

NextEntryPastHead ==
  /\ pc = "next"
  /\ LinkReadable(mem, Flink)
  /\ Flink' = mem.link[Flink]
  /\ pc' = "call"
  /\ UNCHANGED <<args, bucket, count, bRet, find, calls>>

NextEntry ==
  /\ pc = "next"
  /\ LinkReadable(mem, Flink) /\ mem.link[Flink] # head
  /\ Flink' = mem.link[Flink]
  /\ pc' = "call"
  /\ UNCHANGED <<args, bucket, count, bRet, find, calls>>

\* Back at the head: the bucket is done.
LastEntry ==
  /\ pc = "next"
  /\ LinkReadable(mem, Flink) /\ mem.link[Flink] = head
  /\ Flink' = head
  /\ Return(TRUE)
  /\ UNCHANGED <<args, count, find, calls>>

\* A walk that does not come back to its head has no end; it is followed
\* for MaxCount entries.
EndlessWalk == pc = "call" /\ count = MaxCount /\ UNCHANGED vars

Step ==
  \/ HeadUnreadable \/ EmptyBucket \/ FirstEntry
  \/ CallbackStops \/ CallbackGoesOn
  \/ NextUnreadable \/ NextEntry \/ LastEntry

-----------------------------------------------------------------------------
\* One enumeration by itself, over every memory of the instance.
Init ==
  /\ mem \in Memories
  /\ kPoolDesc \in Descs
  /\ want = All
  /\ enumProc = "find"
  /\ Idle

\* A search asks for every bucket; !poolinfo -f for one or for all.
Begin ==
  /\ pc = "idle"
  /\ \/ Call(kPoolDesc, All, "find")
     \/ \E w \in (0 .. ListHeadsBuckets - 1) \cup {All} : Call(kPoolDesc, w, "print")

Finished == pc = "done" /\ UNCHANGED vars

-----------------------------------------------------------------------------
CallRecords == [bucket : Indexes, empty : BOOLEAN, kChunk : Cells \cup {NULL, Junk}, count : Nat]

TypeOK ==
  /\ mem \in Memory
  /\ kPoolDesc \in Descs
  /\ want \in (0 .. ListHeadsBuckets - 1) \cup {All}
  /\ enumProc \in {"find", "print"}
  /\ pc \in {"idle", "bucket", "call", "next", "done"}
  /\ bucket \in 0 .. ListHeadsBuckets - 1
  /\ Flink \in Cells \cup {NULL, Junk}
  /\ count \in 0 .. MaxCount
  /\ bRet \in BOOLEAN
  /\ find \in FindPtr
  /\ calls \in Seq(CallRecords)

HeadOf(b) == ListHead(kPoolDesc, b)

\* What the search reports is the first chunk of the lists that contains the
\* pointer: it is entry number count of the bucket's list, and neither an
\* earlier entry of it nor any entry of a lower bucket contains the pointer.
FoundIsFirst ==
  find.kChunk # NULL =>
    /\ find.kChunk = At(mem, HeadOf(find.bucket))[find.count]
    /\ FirstHolder(mem, HeadOf(find.bucket), HeadOf(find.bucket), find.count)
    /\ \A b \in 0 .. find.bucket - 1 : NoHolder(mem, HeadOf(b), HeadOf(b))

\* EnumListHeads returns TRUE to a search only after a complete one: every
\* list was followed back to its head and no entry contains the pointer.
MissIsComplete ==
  enumProc = "find" /\ pc = "done" /\ bRet =>
    \A b \in Asked(want) :
      Closes(mem, HeadOf(b), HeadOf(b)) /\ NoHolder(mem, HeadOf(b), HeadOf(b))
=============================================================================
