--------------------------- MODULE PoolChunkProofs ---------------------------
(***************************************************************************)
(* !poolchunk, for every target: whatever the lists of its descriptors and *)
(* lookasides look like, whichever reads fail, and however the target runs *)
(* between two reads of the header.                                        *)
(*                                                                         *)
(* First FindFreeChunk, as a sequence of walks of the kind ListWalkProofs  *)
(* is about; then the command around it.                                   *)
(***************************************************************************)
EXTENDS PoolChunk, ListWalkProofs

SearchType ==
  /\ kind \in WalkKinds /\ mem \in Memory /\ desc \in Descs \cup {NULL}
  /\ want = All /\ enumProc = "find"
  /\ pc \in {"idle", "bucket", "call", "next", "done"}
  /\ bucket \in Indexes /\ cur \in Places /\ count \in 0 .. MaxCount
  /\ bRet \in BOOLEAN /\ find \in FindPtr
  /\ pPoolDescs \in PoolLists /\ pLookasideDescs \in LookasideLists
  /\ phase \in {"pools", "lookasides", "done"}
  /\ i \in Nat \ {0}
  /\ report.phase \in {"none", "pools", "lookasides"}
  /\ report.desc \in Descs \cup {NULL} /\ report.link \in Descs \cup {NULL}
  /\ report.find \in FindPtr

\* The walk under way, or just over, is one of the descriptor the loop is at;
\* among the pools, one that began with nothing noted.
UnderWay ==
  pc # "idle" =>
    /\ phase = "pools" =>
         /\ WalkType /\ Place /\ Fresh /\ Unseen /\ NotedIsHere /\ NotedIsFirst
         /\ i <= Len(pPoolDescs) /\ desc = pPoolDescs[i]
    /\ phase = "lookasides" =>
         /\ WalkType /\ Place /\ Fresh
         /\ i <= Len(pLookasideDescs) /\ desc = pLookasideDescs[i]

\* The pool descriptors the loop has left behind do not have the pointer.
Searched ==
  /\ phase # "done" => report = NoReport
  /\ phase = "pools" =>
       /\ kind = "listHeads" /\ (pc = "idle" => find.kChunk = NULL)
       /\ Healthy => \A k \in DOMAIN pPoolDescs : k < i => ~PoolHolds(pPoolDescs[k])
  /\ phase = "lookasides" =>
       /\ kind = "lookaside"
       /\ Healthy => \A k \in DOMAIN pPoolDescs : ~PoolHolds(pPoolDescs[k])

SearchInv == SearchType /\ UnderWay /\ Searched /\ ListHeadsAnswerIsExact /\ LookasideReportIsTrue

LEMMA DescLists ==
  /\ \A s \in PoolLists \cup LookasideLists :
       /\ s \in Seq(Descs) /\ Len(s) \in Nat /\ DOMAIN s = 1 .. Len(s)
       /\ \A k \in 1 .. Len(s) : s[k] \in Descs
  BY FreeChunkSearchAssumption

\* What the lists are like does not change while they are searched.
LEMMA SameHealth ==
  ASSUME mem' = mem, pPoolDescs' = pPoolDescs, pLookasideDescs' = pLookasideDescs
  PROVE  /\ Healthy' <=> Healthy
         /\ LookasideListsClose' <=> LookasideListsClose
         /\ \A d : PoolHolds(d)' <=> PoolHolds(d)
  BY DEF Healthy, PoolListsClose, LookasideListsClose, PoolHolds

\* The two answers are about the state the search has ended in.
LEMMA SameAnswers ==
  ASSUME mem' = mem, pPoolDescs' = pPoolDescs, pLookasideDescs' = pLookasideDescs,
         phase' = phase, i' = i, report' = report, ListHeadsAnswerIsExact, LookasideReportIsTrue
  PROVE  ListHeadsAnswerIsExact' /\ LookasideReportIsTrue'
  BY SameHealth DEF ListHeadsAnswerIsExact, LookasideReportIsTrue

\* As long as nothing is reported and the search is not over there is nothing
\* to be wrong about.
LEMMA NoAnswerYet == phase # "done" /\ report = NoReport => ListHeadsAnswerIsExact /\ LookasideReportIsTrue
  BY DEF ListHeadsAnswerIsExact, LookasideReportIsTrue, NoReport

LEMMA NoAnswerYetNext ==
  ASSUME phase' # "done", report' = NoReport
  PROVE  ListHeadsAnswerIsExact' /\ LookasideReportIsTrue'
  BY DEF ListHeadsAnswerIsExact, LookasideReportIsTrue, NoReport

LEMMA TheLists ==
  ASSUME kind \in WalkKinds
  PROVE  /\ NumBuckets("listHeads", desc) = ListHeadsBuckets
         /\ NumBuckets("lookaside", desc) = LookasideBuckets[desc]
         /\ \A b : kind = "listHeads" =>
              /\ ListCloses(b) <=> Closes(mem, ListHead(desc, b), ListHead(desc, b))
              /\ HasNone(b) <=> NoHolder(mem, ListHead(desc, b), ListHead(desc, b))
         /\ \A b : kind = "lookaside" =>
              (ListCloses(b) <=> Closes(mem, ListHead(desc, b), NULL))
  BY DEF NumBuckets, ListCloses, HasNone, HeadOf, EndOf, WalkKinds

\* The search of a descriptor of which nothing is noted begins.
LEMMA SearchPoolInv == SearchInv /\ SearchPool => SearchInv'
<1> SUFFICES ASSUME SearchInv, SearchPool PROVE SearchInv'
  OBVIOUS
<1>1. /\ kind = "listHeads" /\ kind' = kind /\ find.kChunk = NULL /\ phase = "pools" /\ i \in 1 .. Len(pPoolDescs)
      /\ pPoolDescs[i] \in Descs /\ report = NoReport
      /\ UNCHANGED <<pPoolDescs, pLookasideDescs, phase, i, report>>
  BY DescLists DEF SearchPool, SearchInv, Searched, SearchType, search
<1>2. Begins(pPoolDescs[i], All, "find")
  BY <1>1, CallBegins DEF SearchPool, WalkKinds
<1>3. WalkType'
  BY <1>1, <1>2, BeginType DEF SearchInv, SearchType
<1>4. Place' /\ Fresh' /\ Unseen' /\ NotedIsHere' /\ NotedIsFirst'
  BY <1>1, <1>2, BeginSearch
<1>5. /\ mem' = mem /\ desc' = pPoolDescs[i] /\ want' = All /\ enumProc' = "find" /\ pc' = "bucket"
      /\ bucket' = 0 /\ 0 \in Indexes /\ UNCHANGED <<cur, count, bRet, find>>
  BY <1>2, TargetAssumption DEF Begins
<1>6. SearchType'
  BY <1>1, <1>5 DEF SearchInv, SearchType
<1>7. UnderWay'
  BY <1>1, <1>3, <1>4, <1>5 DEF UnderWay
<1>8. Searched'
  BY <1>1, <1>5, SameHealth DEF SearchInv, Searched
<1> QED
  BY <1>1, <1>6, <1>7, <1>8, NoAnswerYetNext DEF SearchInv

LEMMA SearchLookasideInv == SearchInv /\ SearchLookaside => SearchInv'
<1> SUFFICES ASSUME SearchInv, SearchLookaside PROVE SearchInv'
  OBVIOUS
<1>1. /\ kind = "lookaside" /\ kind' = kind /\ phase = "lookasides" /\ i \in 1 .. Len(pLookasideDescs)
      /\ pLookasideDescs[i] \in Descs /\ report = NoReport
      /\ UNCHANGED <<pPoolDescs, pLookasideDescs, phase, i, report>>
  BY DescLists DEF SearchLookaside, SearchInv, Searched, SearchType, search
<1>2. Begins(pLookasideDescs[i], All, "find")
  BY <1>1, CallBegins DEF SearchLookaside, WalkKinds
<1>3. WalkType'
  BY <1>1, <1>2, BeginType DEF SearchInv, SearchType
<1>4. Place' /\ Fresh'
  BY <1>1, <1>2, BeginSearch
<1>5. /\ mem' = mem /\ desc' = pLookasideDescs[i] /\ want' = All /\ enumProc' = "find" /\ pc' = "bucket"
      /\ bucket' = 0 /\ 0 \in Indexes /\ UNCHANGED <<cur, count, bRet, find>>
  BY <1>2, TargetAssumption DEF Begins
<1>6. SearchType'
  BY <1>1, <1>5 DEF SearchInv, SearchType
<1>7. UnderWay'
  BY <1>1, <1>3, <1>4, <1>5 DEF UnderWay
<1>8. Searched'
  BY <1>1, <1>5, SameHealth DEF SearchInv, Searched
<1> QED
  BY <1>1, <1>6, <1>7, <1>8, NoAnswerYetNext DEF SearchInv

LEMMA WalkListInv == SearchInv /\ WalkList => SearchInv'
<1> SUFFICES ASSUME SearchInv, WalkList PROVE SearchInv'
  OBVIOUS
<1>1. /\ phase \in {"pools", "lookasides"} /\ report = NoReport /\ WalkStep
      /\ UNCHANGED <<pPoolDescs, pLookasideDescs, phase, i, report>>
  BY DEF WalkList, search, SearchInv, Searched
<1>2. pc # "idle"
  BY <1>1 DEF WalkStep, L!Step, K!Step, L!HeadUnreadable, L!EmptyBucket, L!FirstEntry, L!CallbackStops,
              L!CallbackGoesOn, L!NextUnreadable, L!NextEntry, L!LastEntry, K!HeadUnreadable, K!EmptyBucket,
              K!FirstEntry, K!CallbackCalled, K!NextUnreadable, K!NextEntry, K!LastEntry
<1>3. WalkType /\ Place /\ Fresh
  BY <1>1, <1>2 DEF SearchInv, UnderWay
<1>4. Moves
  BY <1>1, <1>3, StepMoves
<1>5. WalkType' /\ Place' /\ Fresh'
  BY <1>3, <1>4, MovesType, MovesPlace, MovesFresh
<1>6. phase = "pools" => Unseen' /\ NotedIsHere' /\ NotedIsFirst'
  BY <1>2, <1>3, <1>4, <1>5, MovesUnseen, MovesNoted, MovesFirst DEF SearchInv, UnderWay, SearchType
<1>7. /\ kind' = kind /\ mem' = mem /\ desc' = desc /\ want' = want /\ enumProc' = enumProc
  BY <1>4 DEF Moves, Same
<1>8. pc' # "idle"
  BY <1>4 DEF Moves, BreaksOff, ShowsEmpty, Enters, Shows, Advances, Leaves, Returns
<1>9. bucket' \in Indexes
  BY <1>5, <1>7, <1>3, BucketCounts DEF WalkType
<1>10. SearchType'
  BY <1>1, <1>5, <1>7, <1>9 DEF SearchInv, SearchType, WalkType
<1>11. UnderWay'
  BY <1>1, <1>2, <1>5, <1>6, <1>7 DEF SearchInv, UnderWay
<1>12. Searched'
  BY <1>1, <1>7, <1>8, SameHealth DEF SearchInv, Searched
<1> QED
  BY <1>1, <1>10, <1>11, <1>12, NoAnswerYetNext DEF SearchInv

\* A search of a descriptor that returns TRUE has found nothing there, and
\* noted nothing.
LEMMA MissedPool ==
  ASSUME SearchInv, phase = "pools", pc = "done", bRet
  PROVE  find.kChunk = NULL /\ ~PoolHolds(desc)
<1>1. WalkType /\ Unseen /\ NotedIsFirst /\ kind = "listHeads" /\ Searching /\ kind \in WalkKinds
  BY DEF SearchInv, UnderWay, Searched, SearchType, Searching
<1>2. find.kChunk = NULL
  BY <1>1 DEF NotedIsFirst
<1>3. /\ \A b \in 0 .. bucket - 1 : HasNone(b)
      /\ bucket = ListHeadsBuckets - 1 /\ HasNone(bucket) /\ bucket \in Nat
  BY <1>1, <1>2, TheLists, TargetAssumption DEF Unseen
<1>4. \A b \in 0 .. ListHeadsBuckets - 1 : b = bucket \/ b \in 0 .. bucket - 1
  BY <1>3
<1>5. \A b \in 0 .. ListHeadsBuckets - 1 : HasNone(b)
  BY <1>3, <1>4
<1> QED
  BY <1>1, <1>2, <1>5, TheLists DEF PoolHolds

LEMMA NextDescriptorInv == SearchInv /\ NextDescriptor => SearchInv'
<1> SUFFICES ASSUME SearchInv, NextDescriptor PROVE SearchInv'
  OBVIOUS
<1>1. /\ phase \in {"pools", "lookasides"} /\ pc = "done" /\ bRet /\ pc' = "idle" /\ i' = i + 1 /\ i \in Nat
      /\ report = NoReport
      /\ UNCHANGED <<kind, mem, desc, want, enumProc, bucket, cur, count, bRet, find, calls,
                     pPoolDescs, pLookasideDescs, phase, report>>
  BY DEF NextDescriptor, SearchInv, Searched, SearchType
<1>2. SearchType' /\ UnderWay'
  BY <1>1 DEF SearchInv, SearchType, UnderWay
<1>3. CASE phase = "pools"
  <2>1. find.kChunk = NULL /\ ~PoolHolds(pPoolDescs[i])
    BY <1>1, <1>3, MissedPool DEF SearchInv, UnderWay
  <2>2. \A k \in DOMAIN pPoolDescs : k < i' => k < i \/ k = i
    BY <1>1, DescLists DEF SearchInv, SearchType
  <2>3. Healthy' => \A k \in DOMAIN pPoolDescs : k < i' => ~PoolHolds(pPoolDescs[k])'
    BY <1>1, <1>3, <2>1, <2>2, SameHealth DEF SearchInv, Searched
  <2>4. Searched'
    BY <1>1, <1>3, <2>1, <2>3 DEF SearchInv, Searched
  <2> QED
    BY <1>1, <1>2, <2>4, NoAnswerYetNext DEF SearchInv
<1>4. CASE phase = "lookasides"
  <2>1. Searched'
    BY <1>1, <1>4, SameHealth DEF SearchInv, Searched
  <2> QED
    BY <1>1, <1>2, <2>1, NoAnswerYetNext DEF SearchInv
<1> QED
  BY <1>1, <1>3, <1>4

LEMMA ReportPoolInv == SearchInv /\ ReportPool => SearchInv'
<1> SUFFICES ASSUME SearchInv, ReportPool PROVE SearchInv'
  OBVIOUS
<1>1. /\ phase = "pools" /\ pc = "done" /\ ~bRet /\ phase' = "done" /\ kind = "listHeads"
      /\ report' = [phase |-> "pools", desc |-> pPoolDescs[i], find |-> find, link |-> pPoolDescs[i]]
      /\ UNCHANGED <<walkVars, pPoolDescs, pLookasideDescs, i>>
      /\ i \in 1 .. Len(pPoolDescs) /\ desc = pPoolDescs[i] /\ desc \in Descs /\ pPoolDescs[i] \in Descs
  BY DescLists DEF ReportPool, SearchInv, UnderWay, Searched, SearchType
<1>2. /\ report'.phase = "pools" /\ report'.desc = desc /\ report'.find = find /\ report'.link = desc
      /\ report' # NoReport
  BY <1>1 DEF NoReport
<1>3. UNCHANGED <<kind, mem, desc, want, enumProc, pc, bucket, cur, count, bRet, find, calls>>
  BY <1>1 DEF walkVars, walk
<1>4. SearchType' /\ UnderWay' /\ Searched'
  BY <1>1, <1>2, <1>3 DEF SearchInv, SearchType, UnderWay, Searched
<1>5. LookasideReportIsTrue'
  BY <1>2 DEF LookasideReportIsTrue
<1>6. ASSUME Healthy
      PROVE  /\ PoolHolds(desc)
             /\ FirstHolder(mem, ListHead(desc, find.bucket), ListHead(desc, find.bucket), find.count)
  <2>1. /\ WalkType /\ Fresh /\ NotedIsFirst /\ enumProc = "find" /\ find.count \in Nat
        /\ kind \in WalkKinds /\ NumBuckets(kind, desc) = ListHeadsBuckets
    BY <1>1, TheLists DEF SearchInv, UnderWay, SearchType, WalkType, FindPtr, WalkKinds
  <2>2. \A b \in 0 .. ListHeadsBuckets - 1 : ListCloses(b)
    BY <1>1, <1>6, <2>1, TheLists, DescLists DEF Healthy, PoolListsClose, SearchInv, SearchType
  <2>3. find.kChunk # NULL /\ Here
    BY <1>1, <1>6, <2>1, <2>2 DEF Fresh, Healthy
  <2>4. find.bucket \in 0 .. ListHeadsBuckets - 1
    BY <2>1, <2>3, TargetAssumption DEF Here, WalkType
  <2>5. find.count \in Positions(mem, HeadOf(find.bucket), EndOf(kind, HeadOf(find.bucket)))
    BY <2>1, <2>2, <2>3, <2>4, ClosedIsReadable DEF Here, ListCloses
  <2>6. ~HasNone(find.bucket)
    BY <2>3, <2>5 DEF Here, HasNone, NoHolder
  <2>7. FirstHolder(mem, ListHead(desc, find.bucket), ListHead(desc, find.bucket), find.count)
    BY <1>1, <2>1, <2>3 DEF Here, NotedIsFirst, FirstHolder, HeadOf, EndOf
  <2> QED
    BY <1>1, <2>1, <2>4, <2>6, <2>7, TheLists DEF PoolHolds
<1>7. DOMAIN pPoolDescs = 1 .. Len(pPoolDescs) /\ Len(pPoolDescs) \in Nat
  BY DescLists DEF SearchInv, SearchType
<1>8. ASSUME Healthy
      PROVE  /\ \E k \in DOMAIN pPoolDescs : PoolHolds(pPoolDescs[k])
             /\ \A k \in 1 .. i - 1 : ~PoolHolds(pPoolDescs[k])
  <2>1. \A k \in 1 .. i - 1 : k \in DOMAIN pPoolDescs /\ k < i
    BY <1>1, <1>7
  <2> QED
    BY <1>1, <1>6, <1>7, <1>8, <2>1 DEF SearchInv, Searched
<1>9. Healthy' <=> Healthy
  BY <1>1, <1>3, SameHealth
<1>10. \A d : PoolHolds(d)' <=> PoolHolds(d)
  BY <1>1, <1>3, SameHealth
<1>11. ListHeadsAnswerIsExact'
  BY <1>1, <1>2, <1>3, <1>6, <1>8, <1>9, <1>10 DEF ListHeadsAnswerIsExact
<1> QED
  BY <1>4, <1>5, <1>11 DEF SearchInv

LEMMA ReportLookasideInv == SearchInv /\ ReportLookaside => SearchInv'
<1> SUFFICES ASSUME SearchInv, ReportLookaside PROVE SearchInv'
  OBVIOUS
<1>1. /\ phase = "lookasides" /\ pc = "done" /\ ~bRet /\ phase' = "done" /\ kind = "lookaside"
      /\ report' = [phase |-> "lookasides", desc |-> pLookasideDescs[i], find |-> find,
                    link |-> pLookasideDescs[1]]
      /\ UNCHANGED <<walkVars, pPoolDescs, pLookasideDescs, i>>
      /\ i \in 1 .. Len(pLookasideDescs) /\ desc = pLookasideDescs[i]
      /\ pLookasideDescs[i] \in Descs /\ pLookasideDescs[1] \in Descs
  BY DescLists DEF ReportLookaside, SearchInv, UnderWay, Searched, SearchType
<1>2. /\ report'.phase = "lookasides" /\ report'.desc = desc /\ report'.find = find
      /\ report'.link \in Descs /\ report' # NoReport
  BY <1>1 DEF NoReport
<1>3. UNCHANGED <<kind, mem, desc, want, enumProc, pc, bucket, cur, count, bRet, find, calls>>
  BY <1>1 DEF walkVars, walk
<1>4. SearchType' /\ UnderWay' /\ Searched'
  BY <1>1, <1>2, <1>3 DEF SearchInv, SearchType, UnderWay, Searched
<1>5. Healthy => \A k \in DOMAIN pPoolDescs : ~PoolHolds(pPoolDescs[k])
  BY <1>1 DEF SearchInv, Searched
<1>6. ASSUME Healthy, LookasideListsClose
      PROVE  /\ find.kDesc = ListHead(desc, find.bucket)
             /\ IsEntry(mem, find.kDesc, NULL, find.count)
             /\ At(mem, find.kDesc)[find.count] \in mem.holds
  <2>1. /\ WalkType /\ Fresh /\ enumProc = "find"
        /\ kind \in WalkKinds /\ NumBuckets(kind, desc) = LookasideBuckets[desc]
    BY <1>1, TheLists DEF SearchInv, UnderWay, SearchType, WalkKinds
  <2>2. \A b \in 0 .. LookasideBuckets[desc] - 1 : ListCloses(b)
    BY <1>1, <1>6, <2>1, TheLists, DescLists DEF LookasideListsClose, SearchInv, SearchType
  <2>3. find.kChunk # NULL /\ Here
    BY <1>1, <1>6, <2>1, <2>2 DEF Fresh, Healthy
  <2> QED
    BY <1>1, <2>3 DEF Here, HeadOf, EndOf
<1>7. /\ Healthy' <=> Healthy
      /\ LookasideListsClose' <=> LookasideListsClose
      /\ \A d : PoolHolds(d)' <=> PoolHolds(d)
  BY <1>1, <1>3, SameHealth
<1>8. ListHeadsAnswerIsExact'
  BY <1>1, <1>2, <1>5, <1>7 DEF ListHeadsAnswerIsExact
<1>9. LookasideReportIsTrue'
  BY <1>1, <1>2, <1>3, <1>5, <1>6, <1>7 DEF LookasideReportIsTrue
<1> QED
  BY <1>4, <1>8, <1>9 DEF SearchInv

\* The search is over without a report.
LEMMA NothingFound ==
  ASSUME SearchInv, phase' = "done", report' = report, report = NoReport,
         UNCHANGED <<walkVars, pPoolDescs, pLookasideDescs, i>>,
         Healthy => \A k \in DOMAIN pPoolDescs : ~PoolHolds(pPoolDescs[k])
  PROVE  SearchInv'
<1>1. /\ report'.phase = "none"
      /\ UNCHANGED <<kind, mem, desc, want, enumProc, pc, bucket, cur, count, bRet, find, calls>>
  BY DEF NoReport, walkVars, walk
<1>2. SearchType' /\ UnderWay' /\ Searched'
  BY <1>1 DEF SearchInv, SearchType, UnderWay, Searched
<1>3. LookasideReportIsTrue'
  BY <1>1 DEF LookasideReportIsTrue
<1>4. (Healthy' <=> Healthy) /\ \A d : PoolHolds(d)' <=> PoolHolds(d)
  BY <1>1, SameHealth
<1>5. ListHeadsAnswerIsExact'
  BY <1>1, <1>4 DEF ListHeadsAnswerIsExact
<1> QED
  BY <1>2, <1>3, <1>5 DEF SearchInv

LEMMA StartLookasidesInv == SearchInv /\ StartLookasides => SearchInv'
<1> SUFFICES ASSUME SearchInv, StartLookasides PROVE SearchInv'
  OBVIOUS
<1>1. /\ phase = "pools" /\ pc = "idle" /\ i > Len(pPoolDescs) /\ phase' = "lookasides" /\ i' = 1
      /\ kind' = "lookaside" /\ find' = NoFind /\ report = NoReport
      /\ UNCHANGED <<mem, desc, want, enumProc, pc, bucket, cur, count, bRet, calls,
                     pPoolDescs, pLookasideDescs, report>>
  BY DEF StartLookasides, SearchInv, Searched
<1>2. NoFind \in FindPtr
  BY DEF NoFind, FindPtr
<1>3. SearchType' /\ UnderWay'
  BY <1>1, <1>2 DEF SearchInv, SearchType, UnderWay, WalkKinds
<1>4. \A k \in DOMAIN pPoolDescs : k < i
  BY <1>1, DescLists DEF SearchInv, SearchType
<1>5. Searched'
  BY <1>1, <1>4, SameHealth DEF SearchInv, Searched
<1> QED
  BY <1>1, <1>3, <1>5, NoAnswerYetNext DEF SearchInv

LEMMA SearchNext == SearchInv /\ Next => SearchInv'
<1> SUFFICES ASSUME SearchInv, Next PROVE SearchInv'
  OBVIOUS
<1>1. CASE NoDescriptors
  <2>1. pPoolDescs = <<>> /\ phase' = "done" /\ report' = report /\ report = NoReport
        /\ UNCHANGED <<walkVars, pPoolDescs, pLookasideDescs, i>>
    BY <1>1 DEF NoDescriptors, SearchInv, Searched
  <2> QED
    BY <2>1, NothingFound
<1>2. CASE NotFound
  <2>1. phase = "lookasides" /\ phase' = "done" /\ report' = report /\ report = NoReport
        /\ UNCHANGED <<walkVars, pPoolDescs, pLookasideDescs, i>>
    BY <1>2 DEF NotFound, SearchInv, Searched
  <2>2. Healthy => \A k \in DOMAIN pPoolDescs : ~PoolHolds(pPoolDescs[k])
    BY <2>1 DEF SearchInv, Searched
  <2> QED
    BY <2>1, <2>2, NothingFound
<1>3. CASE Finished
  <2>1. /\ UNCHANGED <<kind, mem, desc, want, enumProc, pc, bucket, cur, count, bRet, find, calls>>
        /\ UNCHANGED <<pPoolDescs, pLookasideDescs, phase, i, report>> /\ phase = "done"
    BY <1>3 DEF Finished, vars, search, walkVars, walk
  <2>2. SearchType' /\ UnderWay' /\ Searched'
    BY <2>1 DEF SearchInv, SearchType, UnderWay, Searched
  <2> QED
    BY <2>1, <2>2, SameAnswers DEF SearchInv
<1> QED
  BY <1>1, <1>2, <1>3, SearchPoolInv, SearchLookasideInv, WalkListInv, NextDescriptorInv, ReportPoolInv,
     ReportLookasideInv, StartLookasidesInv DEF Next

-----------------------------------------------------------------------------
(***************************************************************************)
(* The command around the search.                                          *)
(***************************************************************************)

Steps == {"find", "print", "read", "descs", "index", "search", "done"}

CommandType ==
  /\ header \in Headers /\ ran \in BOOLEAN /\ step \in Steps
  /\ printed \in Headers \cup {NULL} /\ seen \in Headers \cup {NULL}
  /\ answer.line \in {"none", "inUse", "tooLarge", "located", "failed"}
  /\ answer.pool \in PoolDescs

\* The array of descriptors has numDescs elements, each NULL or the one of its
\* place; there is no array as long as numDescs is zero from the start.
Array ==
  \/ poolDescs = NULL /\ numDescs = 0
  \/ /\ poolDescs \in Seq(PoolDescs) /\ numDescs = Len(poolDescs) /\ numDescs <= MaxDescs
     /\ seen # NULL /\ seen.inUse /\ step \in {"index", "done"}
     /\ \A k \in 1 .. numDescs : poolDescs[k] # NULL => poolDescs[k] = [kind |-> seen.kind, n |-> k - 1]

\* FindFreeChunk has not been called.
NotSearched ==
  phase = "pools" /\ i = 1 /\ pc = "idle" /\ kind = "listHeads" /\ report = NoReport /\ find.kChunk = NULL

\* What has been read of the header when.
Readings ==
  /\ step \in {"find", "print", "read"} => seen = NULL /\ NotSearched
  /\ step \in {"descs", "index"}        => seen # NULL /\ seen.inUse /\ NotSearched
  /\ step = "search"                    => seen # NULL /\ ~seen.inUse /\ poolDescs = NULL
  /\ step # "done"                      => answer = NoAnswer
  /\ ~ran => printed \in {header, NULL} /\ seen \in {header, NULL}

\* What has been said when the command is over.
Said ==
  step = "done" =>
    /\ answer.line \in {"inUse", "tooLarge"} => seen # NULL /\ seen.inUse /\ NotSearched
    /\ answer.line = "inUse" /\ answer.pool # NULL =>
         answer.pool = [kind |-> seen.kind, n |-> seen.poolIndex]
    /\ answer.line \in {"located", "failed"} =>
         seen # NULL /\ ~seen.inUse /\ poolDescs = NULL /\ phase = "done"
    /\ answer.line = "failed" => report = NoReport

ChunkInv == SearchInv /\ CommandType /\ Array /\ Readings /\ Said

LEMMA ChunkInvInit == ChunkInit => ChunkInv
<1> SUFFICES ASSUME ChunkInit PROVE ChunkInv
  OBVIOUS
<1>1. /\ kind = "listHeads" /\ mem = Unread /\ pPoolDescs = <<>> /\ pLookasideDescs = <<>> /\ desc = NULL
      /\ want = All /\ enumProc = "find" /\ pc = "idle" /\ bucket = 0 /\ cur = NULL /\ count = 0 /\ bRet = TRUE
      /\ find = NoFind /\ phase = "pools" /\ i = 1 /\ report = NoReport
  BY ListHeadsTarget DEF ChunkInit, L!Idle
<1>2. mem \in Memory
  BY <1>1, MemoriesAreMemory, PoolChunkAssumption DEF Unread
<1>3. find \in FindPtr /\ find.kChunk = NULL /\ NoReport.phase = "none" /\ NoReport.desc = NULL
      /\ NoReport.link = NULL /\ NoReport.find = NoFind
  BY <1>1 DEF NoFind, FindPtr, NoReport
<1>4. SearchType
  BY <1>1, <1>2, <1>3, TargetAssumption, PoolChunkAssumption DEF SearchType, WalkKinds, Places
<1>5. UnderWay /\ Searched /\ DOMAIN pPoolDescs = {}
  BY <1>1, <1>3 DEF UnderWay, Searched
<1>6. SearchInv
  BY <1>1, <1>4, <1>5, NoAnswerYet DEF SearchInv
<1>7. CommandType /\ Array /\ Readings /\ Said
  BY <1>1, <1>3 DEF ChunkInit, CommandType, Array, Readings, Said, NotSearched, NoAnswer, Steps, PoolDescs
<1> QED
  BY <1>6, <1>7 DEF ChunkInv

\* A step of the command that is not one of the search leaves the search alone.
LEMMA SearchSame == SearchInv /\ UNCHANGED vars => SearchInv'
<1> SUFFICES ASSUME SearchInv, UNCHANGED vars PROVE SearchInv'
  OBVIOUS
<1>1. /\ UNCHANGED <<kind, mem, desc, want, enumProc, pc, bucket, cur, count, bRet, find, calls>>
      /\ UNCHANGED <<pPoolDescs, pLookasideDescs, phase, i, report>>
  BY DEF vars, search, walkVars, walk
<1>2. SearchType' /\ ListHeadsAnswerIsExact' /\ LookasideReportIsTrue'
  BY <1>1, SameAnswers DEF SearchInv, SearchType
<1>3. Searched'
  BY <1>1, SameHealth DEF SearchInv, Searched
<1>4. /\ WalkType' <=> WalkType
      /\ Place' <=> Place
  BY <1>1 DEF WalkType, Place, Index, Passed, head, end, HeadOf
<1>5. /\ Fresh' <=> Fresh
      /\ Unseen' <=> Unseen
      /\ NotedIsHere' <=> NotedIsHere
      /\ NotedIsFirst' <=> NotedIsFirst
  BY <1>1 DEF Fresh, Unseen, NotedIsHere, NotedIsFirst, Here, Searching, ListCloses, HasNone, Passed, head, HeadOf
<1>6. UnderWay'
  BY <1>1, <1>4, <1>5 DEF SearchInv, UnderWay
<1> QED
  BY <1>2, <1>3, <1>6 DEF SearchInv

LEMMA NotSearchedSame == NotSearched /\ UNCHANGED vars => NotSearched'
  BY DEF NotSearched, vars, search, walkVars, walk

\* FindFreeChunk is called: the lists are any of the instance.
LEMMA ReadFreeInv == ChunkInv /\ ReadFree => ChunkInv'
<1> SUFFICES ASSUME ChunkInv, ReadFree PROVE ChunkInv'
  OBVIOUS
<1>1. /\ step = "read" /\ ~header.inUse /\ seen' = header /\ step' = "search" /\ mem' \in Memory
      /\ pPoolDescs' \in PoolLists /\ pLookasideDescs' \in LookasideLists
      /\ UNCHANGED <<kind, desc, want, enumProc, pc, bucket, cur, count, bRet, find, calls,
                     phase, i, report, header, ran, printed, poolDescs, numDescs, answer>>
  BY MemoriesAreMemory DEF ReadFree
<1>2. NotSearched /\ seen = NULL
  BY <1>1 DEF ChunkInv, Readings
<1>3. SearchType' /\ UnderWay'
  BY <1>1, <1>2 DEF ChunkInv, SearchInv, SearchType, UnderWay, NotSearched
<1>4. \A k \in DOMAIN pPoolDescs' : ~(k < 1)
  BY <1>1, DescLists
<1>5. Searched'
  BY <1>1, <1>2, <1>4 DEF Searched, NotSearched
<1>6. SearchInv'
  BY <1>1, <1>2, <1>3, <1>5, NoAnswerYetNext DEF SearchInv, NotSearched
<1>7. header \in Headers /\ header # NULL
  BY PoolChunkAssumption DEF ChunkInv, CommandType
<1>8. CommandType' /\ Array' /\ Readings' /\ Said'
  BY <1>1, <1>2, <1>7 DEF ChunkInv, CommandType, Array, Readings, Said, Steps
<1> QED
  BY <1>6, <1>8 DEF ChunkInv

\* What an array that is read holds.
LEMMA GotDescsInv ==
  ASSUME ChunkInv, step = "descs", NEW num \in 0 .. MaxDescs, NEW descs, descs \in Seq(PoolDescs),
         Len(descs) = num,
         \A k \in 1 .. num : descs[k] # NULL => descs[k] = [kind |-> seen.kind, n |-> k - 1],
         GotDescs(descs)
  PROVE  ChunkInv'
<1>1. /\ seen # NULL /\ seen.inUse /\ NotSearched /\ SearchInv
  BY DEF ChunkInv, Readings
<1>2. /\ poolDescs' = descs /\ numDescs' = num /\ step' = "index"
      /\ UNCHANGED <<vars, header, ran, printed, seen, answer>>
  BY DEF GotDescs
<1>3. SearchInv' /\ NotSearched'
  BY <1>1, <1>2, SearchSame, NotSearchedSame
<1>4. CommandType' /\ Readings' /\ Said'
  BY <1>1, <1>2, <1>3 DEF ChunkInv, CommandType, Readings, Said, Steps
<1>5. numDescs' = Len(poolDescs') /\ numDescs' <= MaxDescs
  BY <1>2, PoolChunkAssumption
<1>6. \A k \in 1 .. numDescs' : poolDescs'[k] # NULL => poolDescs'[k] = [kind |-> seen'.kind, n |-> k - 1]
  BY <1>2
<1>7. Array'
  BY <1>1, <1>2, <1>5, <1>6 DEF Array
<1> QED
  BY <1>3, <1>4, <1>7 DEF ChunkInv

LEMMA SessionDescInv == ChunkInv /\ SessionDesc => ChunkInv'
<1> SUFFICES ASSUME ChunkInv, SessionDesc PROVE ChunkInv'
  OBVIOUS
<1>1. PICK p \in {[kind |-> "session", n |-> 0], NULL} : GotDescs(<<p>>)
  BY DEF SessionDesc
<1>2. step = "descs" /\ seen.kind = "session" /\ 1 \in 0 .. MaxDescs
  BY PoolChunkAssumption DEF SessionDesc
<1>3. p \in PoolDescs /\ (p # NULL => p = [kind |-> seen.kind, n |-> 1 - 1])
  BY <1>2, PoolChunkAssumption DEF PoolDescs, Kinds
<1>4. <<p>> \in Seq(PoolDescs) /\ Len(<<p>>) = 1 /\ <<p>>[1] = p
  BY <1>3
<1>5. \A k \in 1 .. 1 : k = 1
  OBVIOUS
<1> QED
  BY <1>1, <1>2, <1>3, <1>4, <1>5, GotDescsInv

LEMMA PoolsInv == ChunkInv /\ Pools => ChunkInv'
<1> SUFFICES ASSUME ChunkInv, Pools PROVE ChunkInv'
  OBVIOUS
<1>1. PICK num \in 0 .. MaxDescs : GotDescs(DescsOf(seen.kind, num))
  BY DEF Pools
<1>2. step = "descs" /\ seen \in Headers /\ seen.kind \in Kinds
  BY PoolChunkAssumption DEF Pools, ChunkInv, CommandType, Readings
<1> DEFINE ds == DescsOf(seen.kind, num)
<1>3. num \in Nat /\ MaxDescs \in Nat /\ num <= MaxDescs
  BY PoolChunkAssumption
<1>4. \A k \in 1 .. num : [kind |-> seen.kind, n |-> k - 1] \in PoolDescs
  BY <1>2, <1>3 DEF PoolDescs
<1>5. ds \in Seq(PoolDescs) /\ Len(ds) = num
  BY <1>3, <1>4 DEF DescsOf
<1>6. \A k \in 1 .. num : ds[k] = [kind |-> seen.kind, n |-> k - 1]
  BY DEF DescsOf
<1> HIDE DEF ds
<1>7. GotDescs(ds)
  BY <1>1 DEF ds
<1> QED
  BY <1>2, <1>5, <1>6, <1>7, GotDescsInv

\* The command ends with a line about the chunk.
LEMMA AnswerInv ==
  ASSUME ChunkInv, NEW line \in {"inUse", "tooLarge", "located", "failed"}, NEW pool \in PoolDescs, Answer(line, pool),
         line \in {"inUse", "tooLarge"} => step = "index",
         line = "inUse" /\ pool # NULL => pool = [kind |-> seen.kind, n |-> seen.poolIndex],
         line \in {"located", "failed"} => step = "search" /\ phase = "done",
         line = "failed" => report = NoReport
  PROVE  ChunkInv'
<1>1. /\ answer'.line = line /\ answer'.pool = pool /\ step' = "done"
      /\ UNCHANGED <<vars, header, ran, printed, seen, poolDescs, numDescs>>
  BY DEF Answer
<1>2. UNCHANGED <<phase, report>>
  BY <1>1 DEF vars, search
<1>3. SearchInv'
  BY <1>1, SearchSame DEF ChunkInv
<1>4. step = "index" => NotSearched' /\ seen # NULL /\ seen.inUse
  BY <1>1, NotSearchedSame DEF ChunkInv, Readings
<1>5. step = "search" => seen # NULL /\ ~seen.inUse /\ poolDescs = NULL
  BY DEF ChunkInv, Readings
<1>6. CommandType' /\ Readings' /\ Said'
  BY <1>1, <1>2, <1>4, <1>5 DEF ChunkInv, CommandType, Readings, Said, Steps
<1>7. Array'
  BY <1>1 DEF ChunkInv, Array
<1> QED
  BY <1>3, <1>6, <1>7 DEF ChunkInv

\* An index that passes the test is one of the array.
LEMMA IndexFollows == ChunkInv => IndexIsInArray
<1> SUFFICES ASSUME ChunkInv, step = "index", seen.poolIndex < numDescs
             PROVE  poolDescs # NULL /\ seen.poolIndex + 1 \in DOMAIN poolDescs
  BY DEF IndexIsInArray
<1>1. seen \in Headers /\ seen.poolIndex \in Nat
  BY PoolChunkAssumption DEF ChunkInv, CommandType, Readings
<1>2. poolDescs \in Seq(PoolDescs) /\ numDescs = Len(poolDescs)
  BY <1>1 DEF ChunkInv, Array
<1>3. DOMAIN poolDescs = 1 .. numDescs /\ numDescs \in Nat /\ poolDescs # NULL
  BY <1>2, PoolChunkAssumption
<1> QED
  BY <1>1, <1>3

LEMMA InUseInv == ChunkInv /\ InUse => ChunkInv'
<1> SUFFICES ASSUME ChunkInv, InUse PROVE ChunkInv'
  OBVIOUS
<1>1. step = "index" /\ seen.poolIndex < numDescs /\ Answer("inUse", poolDescs[seen.poolIndex + 1])
  BY DEF InUse
<1>2. seen.poolIndex + 1 \in DOMAIN poolDescs /\ poolDescs # NULL
  BY <1>1, IndexFollows DEF IndexIsInArray
<1>3. seen.poolIndex \in Nat
  BY <1>1, PoolChunkAssumption DEF ChunkInv, CommandType, Readings
<1>4. /\ poolDescs \in Seq(PoolDescs) /\ numDescs = Len(poolDescs)
      /\ \A k \in 1 .. numDescs : poolDescs[k] # NULL => poolDescs[k] = [kind |-> seen.kind, n |-> k - 1]
  BY <1>2 DEF ChunkInv, Array
<1>5. seen.poolIndex + 1 \in 1 .. numDescs /\ (seen.poolIndex + 1) - 1 = seen.poolIndex
  BY <1>2, <1>3, <1>4
<1>6. poolDescs[seen.poolIndex + 1] \in PoolDescs
  BY <1>2, <1>4
<1> QED
  BY <1>1, <1>4, <1>5, <1>6, AnswerInv

LEMMA ChunkInvNext == ChunkInv /\ [ChunkNext]_chunkVars => ChunkInv'
<1> SUFFICES ASSUME ChunkInv, [ChunkNext]_chunkVars PROVE ChunkInv'
  OBVIOUS
<1>1. ASSUME UNCHANGED vars PROVE SearchInv' /\ (NotSearched => NotSearched') /\ UNCHANGED <<phase, report>>
  BY <1>1, SearchSame, NotSearchedSame DEF ChunkInv, vars, search
<1>2. NULL \in PoolDescs /\ header \in Headers /\ header # NULL
  BY PoolChunkAssumption DEF PoolDescs, ChunkInv, CommandType
<1>3. CASE FindPoolHeader
  <2>1. UNCHANGED <<vars, header, ran, printed, seen, poolDescs, numDescs, answer>>
        /\ step = "find" /\ step' \in {"print", "done"}
    BY <1>3 DEF FindPoolHeader, info
  <2>2. answer' = NoAnswer /\ answer'.line = "none"
    BY <2>1 DEF ChunkInv, Readings, NoAnswer
  <2> QED
    BY <1>1, <2>1, <2>2 DEF ChunkInv, CommandType, Array, Readings, Said, Steps
<1>4. CASE PrintPoolHeader
  <2>1. UNCHANGED <<vars, header, ran, seen, poolDescs, numDescs, answer>>
        /\ step = "print" /\ step' = "read" /\ printed' \in {header, NULL}
    BY <1>4 DEF PrintPoolHeader
  <2> QED
    BY <1>1, <1>2, <2>1 DEF ChunkInv, CommandType, Array, Readings, Said, Steps
<1>5. CASE TargetRuns
  <2>1. UNCHANGED <<vars, step, printed, seen, poolDescs, numDescs, answer>>
        /\ header' \in Headers /\ ran' = TRUE
    BY <1>5 DEF TargetRuns, info
  <2> QED
    BY <1>1, <2>1 DEF ChunkInv, CommandType, Array, Readings, Said, Steps
<1>6. CASE ReadAllocated
  <2>1. UNCHANGED <<vars, header, ran, printed, poolDescs, numDescs, answer>>
        /\ step = "read" /\ step' = "descs" /\ header.inUse /\ seen' = header
    BY <1>6 DEF ReadAllocated
  <2> QED
    BY <1>1, <1>2, <2>1 DEF ChunkInv, CommandType, Array, Readings, Said, Steps
<1>7. CASE GiveUp
  <2>1. UNCHANGED <<vars, header, ran, printed, seen, poolDescs, numDescs, answer>>
        /\ step # "done" /\ step' = "done" /\ step \in {"read", "descs"}
    BY <1>7 DEF GiveUp, info
  <2>2. answer' = NoAnswer /\ answer'.line = "none"
    BY <2>1 DEF ChunkInv, Readings, NoAnswer
  <2> QED
    BY <1>1, <2>1, <2>2 DEF ChunkInv, CommandType, Array, Readings, Said, Steps
<1>8. CASE NoPools
  <2>1. UNCHANGED <<vars, header, ran, printed, seen, poolDescs, numDescs, answer>>
        /\ step = "descs" /\ step' = "index"
    BY <1>8 DEF NoPools, info
  <2> QED
    BY <1>1, <2>1 DEF ChunkInv, CommandType, Array, Readings, Said, Steps
<1>9. CASE IndexTooLarge
  BY <1>2, <1>9, AnswerInv DEF IndexTooLarge
<1>10. CASE Search
  <2>1. UNCHANGED <<header, ran, step, printed, seen, poolDescs, numDescs, answer>>
        /\ step = "search" /\ Next
    BY <1>10 DEF Search, command, info
  <2>2. SearchInv'
    BY <2>1, SearchNext DEF ChunkInv
  <2> QED
    BY <2>1, <2>2 DEF ChunkInv, CommandType, Array, Readings, Said, Steps
<1>11. CASE Located \/ FailsToLocate
  BY <1>2, <1>11, AnswerInv DEF Located, FailsToLocate
<1>12. CASE ChunkFinished \/ UNCHANGED chunkVars
  <2>1. UNCHANGED <<vars, header, ran, step, printed, seen, poolDescs, numDescs, answer>>
    BY <1>12 DEF ChunkFinished, chunkVars, command, info
  <2> QED
    BY <1>1, <2>1 DEF ChunkInv, CommandType, Array, Readings, Said, Steps, NotSearched, vars, walkVars, walk, search
<1> QED
  BY <1>3, <1>4, <1>5, <1>6, <1>7, <1>8, <1>9, <1>10, <1>11, <1>12, ReadFreeInv, SessionDescInv, PoolsInv,
     InUseInv DEF ChunkNext, CommandStep

LEMMA ChunkInvariant == ChunkSpec => []ChunkInv
<1>1. ChunkInit => ChunkInv
  BY ChunkInvInit
<1>2. ChunkInv /\ [ChunkNext]_chunkVars => ChunkInv'
  BY ChunkInvNext
<1> QED
  BY <1>1, <1>2, PTL DEF ChunkSpec

-----------------------------------------------------------------------------
\* Type correctness of !poolchunk: the walks it starts and its own variables
\* keep their types on every target.
THEOREM ChunkTypeCorrect == ChunkSpec => []ChunkTypeOK
<1>1. ChunkInv => ChunkTypeOK
  <2> SUFFICES ASSUME ChunkInv PROVE ChunkTypeOK
    OBVIOUS
  <2>1. TypeOK
    BY DEF ChunkInv, SearchInv, SearchType, TypeOK, WalkKinds
  <2>2. (poolDescs = NULL \/ poolDescs \in Seq(PoolDescs)) /\ numDescs \in 0 .. MaxDescs
    BY PoolChunkAssumption DEF ChunkInv, Array
  <2> QED
    BY <2>1, <2>2 DEF ChunkInv, CommandType, ChunkTypeOK, Steps
<1> QED
  BY <1>1, ChunkInvariant, PTL

\* PrintExtendedChunkInfo never indexes an array it has not read, nor beyond
\* the end of one: poolDescs is neither initialised nor tested, numDescs is.
THEOREM IndexStaysInArray == ChunkSpec => []IndexIsInArray
  BY ChunkInvariant, IndexFollows, PTL

\* What !poolchunk says of the chunk follows from one reading of its header,
\* however the target runs: an allocated chunk is not searched for, a free one
\* not reported in use, and the pool is the one kind and index name.
THEOREM AnswerIsOfOneHeader == ChunkSpec => []AnswerFollowsHeader
<1>1. ChunkInv => AnswerFollowsHeader
  <2> SUFFICES ASSUME ChunkInv PROVE AnswerFollowsHeader
    OBVIOUS
  <2>1. step # "done" => answer.line = "none"
    BY DEF ChunkInv, Readings, NoAnswer
  <2> QED
    BY <2>1 DEF ChunkInv, Said, AnswerFollowsHeader, NotSearched
<1> QED
  BY <1>1, ChunkInvariant, PTL

\* FindFreeChunk: if the lists of the pool descriptors end and the headers can
\* be read, the chunk is reported in a pool exactly if a descriptor has it,
\* under the first that does and at its place there.
THEOREM ListHeadsSearchIsExact == ChunkSpec => []ListHeadsAnswerIsExact
<1>1. ChunkInv => ListHeadsAnswerIsExact
  BY DEF ChunkInv, SearchInv
<1> QED
  BY <1>1, ChunkInvariant, PTL

\* FindFreeChunk: under the same condition on the lookasides' lists a report
\* from there is true, whatever an earlier lookaside has left in the FIND_PTR
\* they share.
THEOREM LookasideSearchIsTrue == ChunkSpec => []LookasideReportIsTrue
<1>1. ChunkInv => LookasideReportIsTrue
  BY DEF ChunkInv, SearchInv
<1> QED
  BY <1>1, ChunkInvariant, PTL

\* On a target that stands still the line printed from the header and the line
\* about its pool agree, and a free chunk a descriptor has is located there.
THEOREM OutputAgrees == ChunkSpec => []LinesAgree
<1>1. ChunkInv => LinesAgree
  <2> SUFFICES ASSUME ChunkInv, ~ran, step = "done", printed # NULL, answer.line # "none" PROVE LinesAgree
    BY DEF LinesAgree
  <2>1. /\ printed = header /\ answer.line \in {"inUse", "tooLarge", "located", "failed"}
        /\ seen \in {header, NULL} /\ seen # NULL
    BY DEF ChunkInv, Readings, CommandType, Said
  <2>2. printed = seen
    BY <2>1
  <2>3. ASSUME ~printed.inUse, Healthy, \E k \in DOMAIN pPoolDescs : PoolHolds(pPoolDescs[k])
        PROVE  answer.line = "located" /\ report.phase = "pools"
    <3>1. answer.line \in {"located", "failed"} /\ phase = "done" /\ (answer.line = "failed" => report = NoReport)
      BY <2>1, <2>2, <2>3 DEF ChunkInv, Said
    <3>2. report.phase = "pools"
      BY <2>3, <3>1 DEF ChunkInv, SearchInv, ListHeadsAnswerIsExact
    <3>3. report # NoReport
      BY <3>2 DEF NoReport
    <3> QED
      BY <3>1, <3>2, <3>3
  <2>4. printed.inUse => report = NoReport
    BY <2>1, <2>2 DEF ChunkInv, Said, NotSearched
  <2> QED
    BY <2>2, <2>3, <2>4 DEF LinesAgree
<1> QED
  BY <1>1, ChunkInvariant, PTL
=============================================================================
