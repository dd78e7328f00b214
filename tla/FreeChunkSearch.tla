--------------------------- MODULE FreeChunkSearch ---------------------------
(***************************************************************************)
(* FindFreeChunk: where does a chunk that is not allocated lie?  First the *)
(* ListHeads of every pool descriptor are searched, then every lookaside;  *)
(* each search is a walk of ListHeads or Lookasides, read by read, and its *)
(* outcome is taken from the BOOL the enumeration returns alone.           *)
(***************************************************************************)
EXTENDS ListWalk

CONSTANTS
  PoolLists,         \* what GetAllPoolDescriptors may give, <<>> for NULL
  LookasideLists     \* what GetAllLookasides may give, <<>> for NULL

ASSUME FreeChunkSearchAssumption ==
  /\ PoolLists \subseteq Seq(Descs)
  /\ LookasideLists \subseteq Seq(Descs)

VARIABLES
  pPoolDescs,       \* the descriptors found
  pLookasideDescs,  \* the lookasides found
  phase,            \* "pools", "lookasides", "done"
  i,                \* the loop's position in the list of the phase
  report            \* the line printed, NoReport if none

search == <<pPoolDescs, pLookasideDescs, phase, i, report>>
vars   == <<walkVars, search>>

NoReport == [phase |-> "none", desc |-> NULL, find |-> NoFind, link |-> NULL]

Init ==
  /\ kind = "listHeads"
  /\ mem \in Memories
  /\ desc = NULL
  /\ want = All
  /\ enumProc = "find"
  /\ L!Idle
  /\ pPoolDescs \in PoolLists
  /\ pLookasideDescs \in LookasideLists
  /\ phase = "pools"
  /\ i = 1
  /\ report = NoReport

-----------------------------------------------------------------------------
\* The next descriptor of the phase, if there is one, is searched.
SearchPool ==
  /\ phase = "pools" /\ pc = "idle" /\ i <= Len(pPoolDescs)
  /\ L!Call(pPoolDescs[i], All, "find")
  /\ UNCHANGED <<kind, search>>

SearchLookaside ==
  /\ phase = "lookasides" /\ pc = "idle" /\ i <= Len(pLookasideDescs)
  /\ K!Call(pLookasideDescs[i], All, "find")
  /\ UNCHANGED <<kind, search>>

\* A step of the walk under way.
WalkList == phase \in {"pools", "lookasides"} /\ WalkStep /\ UNCHANGED search

NextDescriptorAnyway ==
  /\ phase \in {"pools", "lookasides"} /\ pc = "done"
  /\ pc' = "idle"
  /\ i' = i + 1
  /\ UNCHANGED <<kind, mem, desc, want, enumProc, bucket, cur, count, bRet, find, calls,
                 pPoolDescs, pLookasideDescs, phase, report>>

NextDescriptorAgain ==
  /\ phase \in {"pools", "lookasides"} /\ pc = "done" /\ bRet
  /\ pc' = "idle"
  /\ UNCHANGED <<kind, mem, desc, want, enumProc, bucket, cur, count, bRet, find, calls,
                 pPoolDescs, pLookasideDescs, phase, i, report>>

\* The enumeration returned TRUE: on to the next descriptor.
NextDescriptor ==
  /\ phase \in {"pools", "lookasides"} /\ pc = "done" /\ bRet
  /\ pc' = "idle"
  /\ i' = i + 1
  /\ UNCHANGED <<kind, mem, desc, want, enumProc, bucket, cur, count, bRet, find, calls,
                 pPoolDescs, pLookasideDescs, phase, report>>

\* FALSE: the chunk is reported at the place find holds.
ReportPool ==
  /\ phase = "pools" /\ pc = "done" /\ ~bRet
  /\ report' = [phase |-> "pools", desc |-> pPoolDescs[i], find |-> find, link |-> pPoolDescs[i]]
  /\ phase' = "done"
  /\ UNCHANGED <<walkVars, pPoolDescs, pLookasideDescs, i>>

\* The link to !poolinfo is made from pLookasideDescs->kLookasideDesc, the
\* first descriptor.
ReportLookaside ==
  /\ phase = "lookasides" /\ pc = "done" /\ ~bRet
  /\ report' = [phase |-> "lookasides", desc |-> pLookasideDescs[i], find |-> find,
                link |-> pLookasideDescs[1]]
  /\ phase' = "done"
  /\ UNCHANGED <<walkVars, pPoolDescs, pLookasideDescs, i>>

\* No pool descriptors at all: FindFreeChunk gives up without the lookasides.
NoDescriptors ==
  /\ phase = "pools" /\ pPoolDescs = <<>>
  /\ phase' = "done"
  /\ UNCHANGED <<walkVars, pPoolDescs, pLookasideDescs, i, report>>

\* The ListHeads are done: the lookasides are searched with a FIND_PTR of
\* their own.
StartLookasides ==
  /\ phase = "pools" /\ pPoolDescs # <<>> /\ pc = "idle" /\ i > Len(pPoolDescs)
  /\ phase' = "lookasides"
  /\ i' = 1
  /\ kind' = "lookaside"
  /\ find' = NoFind
  /\ UNCHANGED <<mem, desc, want, enumProc, pc, bucket, cur, count, bRet, calls,
                 pPoolDescs, pLookasideDescs, report>>

NotFound ==
  /\ phase = "lookasides" /\ pc = "idle" /\ i > Len(pLookasideDescs)
  /\ phase' = "done"
  /\ UNCHANGED <<walkVars, pPoolDescs, pLookasideDescs, i, report>>

Finished == phase = "done" /\ UNCHANGED vars

Next ==
  \/ SearchPool \/ SearchLookaside
  \/ WalkList
  \/ NextDescriptor
  \/ ReportPool \/ ReportLookaside
  \/ NoDescriptors \/ StartLookasides \/ NotFound
  \/ Finished

Spec == Init /\ [][Next]_vars

\* !poolchunk runs on the debugger's thread; every read returns.
FairSpec == Spec /\ WF_vars(Next)

-----------------------------------------------------------------------------
TypeOK ==
  /\ kind \in {"listHeads", "lookaside"}
  /\ mem \in Memory
  /\ desc \in Descs \cup {NULL}
  /\ bucket \in Indexes
  /\ pc \in {"idle", "bucket", "call", "next", "done"}
  /\ find \in FindPtr
  /\ pPoolDescs \in PoolLists
  /\ pLookasideDescs \in LookasideLists
  /\ phase \in {"pools", "lookasides", "done"}
  /\ i \in Nat
  /\ report.phase \in {"none", "pools", "lookasides"}
  /\ report.desc \in Descs \cup {NULL}
  /\ report.find \in FindPtr
  /\ report.link \in Descs \cup {NULL}

\* The free lists of the descriptors can be followed to their ends.
PoolListsClose ==
  \A k \in DOMAIN pPoolDescs : \A b \in 0 .. ListHeadsBuckets - 1 :
    LET h == ListHead(pPoolDescs[k], b) IN Closes(mem, h, h)

LookasideListsClose ==
  \A k \in DOMAIN pLookasideDescs : \A b \in 0 .. LookasideBuckets[pLookasideDescs[k]] - 1 :
    Closes(mem, ListHead(pLookasideDescs[k], b), NULL)

\* Nothing keeps the search of the ListHeads from its end.
Healthy == mem.noHeader = {} /\ PoolListsClose

\* The descriptor has the pointer in one of its lists.
PoolHolds(d) ==
  \E b \in 0 .. ListHeadsBuckets - 1 : ~NoHolder(mem, ListHead(d, b), ListHead(d, b))

LookasideHolds(d) ==
  \E b \in 0 .. LookasideBuckets[d] - 1 : ~NoHolder(mem, ListHead(d, b), NULL)

\* If the lists end and the headers can be read, the search of the ListHeads is
\* exact, whatever else the target holds: the chunk is reported there exactly if a descriptor has it, under the first that
\* does, with its bucket and its place in the list.
ListHeadsAnswerIsExact ==
  Healthy /\ phase = "done" =>
    /\ report.phase = "pools" <=> \E k \in DOMAIN pPoolDescs : PoolHolds(pPoolDescs[k])
    /\ report.phase = "pools" =>
         /\ report.desc = pPoolDescs[i]
         /\ \A k \in 1 .. i - 1 : ~PoolHolds(pPoolDescs[k])
         /\ LET h == ListHead(report.desc, report.find.bucket)
            IN  FirstHolder(mem, h, h, report.find.count)

\* If the lists end and the headers can be read, a report from the lookasides is
\* true: it names an entry of a bucket of the lookaside it was found in that contains the
\* pointer, and no pool descriptor has it.  find is shared by all lookasides, so
\* what an earlier one has left there must not be reported for a later one.
LookasideReportIsTrue ==
  Healthy /\ LookasideListsClose /\ report.phase = "lookasides" =>
    /\ report.find.kDesc = ListHead(report.desc, report.find.bucket)
    /\ IsEntry(mem, report.find.kDesc, NULL, report.find.count)
    /\ At(mem, report.find.kDesc)[report.find.count] \in mem.holds
    /\ \A k \in DOMAIN pPoolDescs : ~PoolHolds(pPoolDescs[k])

\* "enum returned false, we found the pointer" (pool.cpp:1032, and "chunk
\* found" in FindChunkInListHeads): a report is about a chunk that was found.
\* The enumerations return FALSE for a failed read as well.
FalseMeansFound == report # NoReport => report.find.kChunk # NULL

\* "if not there, try the lookaside; if not there, ragequit" (pool.cpp:975):
\* the search gives up only on a pointer that is on no list.
GivesUpOnlyIfNotThere ==
  phase = "done" /\ report = NoReport =>
    /\ \A k \in DOMAIN pPoolDescs : ~PoolHolds(pPoolDescs[k])
    /\ \A k \in DOMAIN pLookasideDescs : ~LookasideHolds(pLookasideDescs[k])
=============================================================================
