----------------------------- MODULE Lookasides -----------------------------
(***************************************************************************)
(* EnumLookasides and EnumLookasideBucket: the walk over the singly linked *)
(* lists of a lookaside descriptor, one structure per bucket, with the     *)
(* callbacks                                                               *)
(*                                                                         *)
(*   "find"   EnumLookasideProcFindChunk, for !poolchunk                   *)
(*   "print"  EnumLookasideProcPrint, for !poolinfo -l                     *)
(*                                                                         *)
(* A list ends with NULL.  Unlike the walk over ListHeads, this one does   *)
(* not break off when the callback answers FALSE: the answer for the last  *)
(* entry of a bucket is the answer for the bucket.                         *)
(***************************************************************************)
EXTENDS Target

VARIABLES
  mem,             \* the target
  kLookasideDesc,  \* the descriptor given to EnumLookasides
  want,            \* its bucket argument
  enumProc,        \* its callback
  pc,              \* "idle", "bucket", "call", "next", "done"
  bucket,          \* the bucket being walked
  pCur,            \* the walk's position
  count,           \* entries of this bucket passed
  bRet,            \* the callback's last answer, then the value returned
  find,            \* the FIND_PTR the search callback fills in
  calls            \* history: the calls of the callback

args   == <<mem, kLookasideDesc, want, enumProc>>
locals == <<pc, bucket, pCur, count, bRet, find, calls>>
vars   == <<mem, kLookasideDesc, want, enumProc, pc, bucket, pCur, count, bRet, find, calls>>

Idle ==
  /\ pc = "idle"
  /\ bucket = 0 /\ pCur = NULL /\ count = 0 /\ bRet = TRUE
  /\ find = NoFind /\ calls = <<>>

-----------------------------------------------------------------------------
Asked(d, w) == IF w = All THEN 0 .. LookasideBuckets[d] - 1 ELSE {w}

\* A call of EnumLookasides(ctx, d, w, &find, proc); with no bucket to walk it
\* returns FALSE at once.
Call(d, w, proc) ==
  /\ pc \in {"idle", "done"}
  /\ kLookasideDesc' = d
  /\ want' = w
  /\ enumProc' = proc
  /\ calls' = <<>>
  /\ bucket' = IF w = All THEN 0 ELSE w
  /\ IF bucket' < LookasideBuckets[d]
     THEN pc' = "bucket" /\ UNCHANGED bRet
     ELSE pc' = "done" /\ bRet' = FALSE
  /\ UNCHANGED <<mem, pCur, count, find>>

\* EnumLookasideBucket returns r: the next bucket, unless r is FALSE or there
\* is none.
Return(r) ==
  /\ bRet' = r
  /\ IF r /\ want = All /\ bucket + 1 < LookasideBuckets[kLookasideDesc]
     THEN pc' = "bucket" /\ bucket' = bucket + 1
     ELSE pc' = "done"   /\ UNCHANGED bucket

CalledWith(empty, cell, n) ==
  Append(calls, [bucket |-> bucket, empty |-> empty, kChunk |-> cell, count |-> n])

kLookasideBucket == ListHead(kLookasideDesc, bucket)

\* The list head (an SLIST_HEADER) cannot be read.
HeadUnreadable ==
  /\ pc = "bucket"
  /\ ~LinkReadable(mem, kLookasideBucket)
  /\ Return(FALSE)
  /\ UNCHANGED <<args, pCur, count, find, calls>>

\* An empty bucket: one call of the callback, which answers TRUE.
EmptyBucket ==
  /\ pc = "bucket"
  /\ LinkReadable(mem, kLookasideBucket) /\ mem.link[kLookasideBucket] = NULL
  /\ calls' = CalledWith(TRUE, NULL, 0)
  /\ Return(TRUE)
  /\ UNCHANGED <<args, pCur, count, find>>

FirstEntry ==
  /\ pc = "bucket"
  /\ LinkReadable(mem, kLookasideBucket) /\ mem.link[kLookasideBucket] # NULL
  /\ pCur' = mem.link[kLookasideBucket]
  /\ count' = 0
  /\ pc' = "call"
  /\ UNCHANGED <<args, bucket, bRet, find, calls>>

\* The verdict of the callback on an entry.  The printing callback answers
\* TRUE even if it cannot read the header.
CallbackFails == enumProc = "find" /\ ~HeaderReadable(mem, pCur)
CallbackFinds == enumProc = "find" /\ HeaderReadable(mem, pCur) /\ pCur \in mem.holds

FoundAfterCount == [kChunk |-> pCur, bucket |-> bucket, count |-> count + 1, kDesc |-> kLookasideBucket]
Found == [kChunk |-> pCur, bucket |-> bucket, count |-> count, kDesc |-> kLookasideBucket]

CallbackCalledForgetting ==
  /\ pc = "call" /\ count < MaxCount
  /\ find' = IF CallbackFinds THEN Found ELSE NoFind
  /\ bRet' = ~(CallbackFails \/ CallbackFinds)
  /\ calls' = CalledWith(FALSE, pCur, count)
  /\ pc' = "next"
  /\ UNCHANGED <<args, bucket, pCur, count>>

\* The callback is called; whatever it answers, the walk reads on.
CallbackCalled ==
  /\ pc = "call" /\ count < MaxCount
  /\ find' = IF CallbackFinds THEN Found ELSE find
  /\ bRet' = ~(CallbackFails \/ CallbackFinds)
  /\ calls' = CalledWith(FALSE, pCur, count)
  /\ pc' = "next"
  /\ UNCHANGED <<args, bucket, pCur, count>>

NextUnreadable ==
  /\ pc = "next"
  /\ ~LinkReadable(mem, pCur)
  /\ Return(FALSE)
  /\ UNCHANGED <<args, pCur, count, find, calls>>

NextEntryUncounted ==
  /\ pc = "next"
  /\ LinkReadable(mem, pCur) /\ mem.link[pCur] # NULL
  /\ pCur' = mem.link[pCur]
  /\ pc' = "call"
  /\ UNCHANGED <<args, bucket, count, bRet, find, calls>>

NextEntry ==
  /\ pc = "next"
  /\ LinkReadable(mem, pCur) /\ mem.link[pCur] # NULL
  /\ pCur' = mem.link[pCur]
  /\ count' = count + 1
  /\ pc' = "call"
  /\ UNCHANGED <<args, bucket, bRet, find, calls>>

\* The end of the list: the bucket's answer is that for this entry.
LastEntry ==
  /\ pc = "next"
  /\ LinkReadable(mem, pCur) /\ mem.link[pCur] = NULL
  /\ pCur' = NULL
  /\ count' = count + 1
  /\ Return(bRet)
  /\ UNCHANGED <<args, find, calls>>

\* A walk that does not come to NULL has no end; it is followed for MaxCount
\* entries.
EndlessWalk == pc = "call" /\ count = MaxCount /\ UNCHANGED vars

Step ==
  \/ HeadUnreadable \/ EmptyBucket \/ FirstEntry
  \/ CallbackCalled
  \/ NextUnreadable \/ NextEntry \/ LastEntry

-----------------------------------------------------------------------------
\* One enumeration by itself, over every memory of the instance.
Init ==
  /\ mem \in Memories
  /\ kLookasideDesc \in Descs
  /\ want = All
  /\ enumProc = "find"
  /\ Idle

\* A search asks for every bucket; !poolinfo -l for one or for all, and itself
\* refuses a bucket there is none of.
Begin ==
  /\ pc = "idle"
  /\ \/ Call(kLookasideDesc, All, "find")
     \/ \E w \in Asked(kLookasideDesc, All) \cup {All} : Call(kLookasideDesc, w, "print")

Finished == pc = "done" /\ UNCHANGED vars

-----------------------------------------------------------------------------
CallRecords == [bucket : Indexes, empty : BOOLEAN, kChunk : Cells \cup {NULL, Junk}, count : Nat]

TypeOK ==
  /\ mem \in Memory
  /\ kLookasideDesc \in Descs
  /\ want \in Asked(kLookasideDesc, All) \cup {All}
  /\ enumProc \in {"find", "print"}
  /\ pc \in {"idle", "bucket", "call", "next", "done"}
  /\ bucket \in 0 .. LookasideBuckets[kLookasideDesc] - 1
  /\ pCur \in Cells \cup {NULL, Junk}
  /\ count \in 0 .. MaxCount
  /\ bRet \in BOOLEAN
  /\ find \in FindPtr
  /\ calls \in Seq(CallRecords)

HeadOf(b) == ListHead(kLookasideDesc, b)

\* What the search has noted is a chunk that contains the pointer, with its
\* place: entry number count of the list in the structure kDesc, the one of
\* that bucket of this descriptor.
FoundIsThere ==
  find.kChunk # NULL =>
    /\ find.kDesc = HeadOf(find.bucket)
    /\ IsEntry(mem, find.kDesc, NULL, find.count)
    /\ find.kChunk = At(mem, find.kDesc)[find.count]
    /\ find.kChunk \in mem.holds

\* The walk passes no chunk unseen: if no read fails, a search that has come to
\* its end has noted a chunk exactly if one of the buckets it has walked (those
\* up to the bucket it stopped in) contains the pointer.
HoldersAreNoted ==
  /\ enumProc = "find" /\ pc = "done"
  /\ mem.noLink = {} /\ mem.noHeader = {}
  /\ \A b \in 0 .. bucket : Closes(mem, HeadOf(b), NULL)
  => (find.kChunk # NULL <=> \E b \in 0 .. bucket : ~NoHolder(mem, HeadOf(b), NULL))
=============================================================================
