------------------------------ MODULE PoolChunk ------------------------------
(***************************************************************************)
(* !poolchunk: the chunk that contains the address is looked up in its     *)
(* page, its header is printed, and PrintExtendedChunkInfo says where the  *)
(* chunk belongs: an allocated chunk to the pool its header names, a free  *)
(* one to the list FreeChunkSearch finds it on.                            *)
(*                                                                         *)
(* The header is read once for each of these; if the target runs, it may   *)
(* be another one each time.                                               *)
(***************************************************************************)
EXTENDS FreeChunkSearch

CONSTANTS
  Headers,  \* what PoolType and PoolIndex of the chunk's header may say
  MaxDescs  \* bound: descriptors of a pool type

Kinds == {"session", "paged", "nonpaged"}

\* An entry of poolDescs: kPoolDesc of the n-th pool of a kind, or NULL.
PoolDescs == [kind : Kinds, n : 0 .. MaxDescs - 1] \cup {NULL}

ASSUME PoolChunkAssumption ==
  /\ MaxDescs \in Nat \ {0}
  /\ Headers \subseteq [inUse : BOOLEAN, kind : Kinds, poolIndex : Nat]
  /\ NULL \notin Headers \cup Seq(PoolDescs)
  /\ Memories # {} /\ <<>> \in PoolLists /\ <<>> \in LookasideLists

DescsOfFromOne(pool, num) == [k \in 1 .. num |-> [kind |-> pool, n |-> k]]

\* The descriptors GetPagedPools or GetNonPagedPools has read.
DescsOf(pool, num) == [k \in 1 .. num |-> [kind |-> pool, n |-> k - 1]]

VARIABLES
  header,     \* the chunk's header in the target
  ran,        \* history: it has changed since the command began
  step,       \* "find", "print", "read", "descs", "index", "search", "done"
  printed,    \* the header PrintPoolHeader printed, or NULL
  seen,       \* the header PrintExtendedChunkInfo read, or NULL
  poolDescs,  \* its array of descriptors; NULL before it has one
  numDescs,   \* its numDescs
  answer      \* what it printed: [line, pool]

info      == <<printed, seen, poolDescs, numDescs, answer>>
command   == <<header, ran, step, info>>
chunkVars == <<vars, command>>

NoAnswer == [line |-> "none", pool |-> NULL]

\* The lists are not read before the search begins: what they are is left open
\* till then, and here stands for anything.
Unread == CHOOSE m \in Memories : TRUE

ChunkInit ==
  /\ kind = "listHeads" /\ mem = Unread /\ pPoolDescs = <<>> /\ pLookasideDescs = <<>>
  /\ desc = NULL /\ want = All /\ enumProc = "find" /\ L!Idle
  /\ phase = "pools" /\ i = 1 /\ report = NoReport
  /\ header \in Headers
  /\ ran = FALSE
  /\ step = "find"
  /\ printed = NULL /\ seen = NULL
  /\ poolDescs = NULL /\ numDescs = 0
  /\ answer = NoAnswer

-----------------------------------------------------------------------------
\* FindPoolHeader finds the chunk in its page, or returns NULL.
FindPoolHeader ==
  /\ step = "find"
  /\ step' \in {"print", "done"}
  /\ UNCHANGED <<vars, header, ran, info>>

\* PrintPoolHeader reads the header; if it cannot, it prints nothing, and
\* !poolchunk goes on all the same.
PrintPoolHeader ==
  /\ step = "print"
  /\ printed' \in {header, NULL}
  /\ step' = "read"
  /\ UNCHANGED <<vars, header, ran, seen, poolDescs, numDescs, answer>>

\* The target runs between two reads of the header.
TargetRuns ==
  /\ step \in {"print", "read"}
  /\ header' \in Headers \ {header}
  /\ ran' = TRUE
  /\ UNCHANGED <<vars, step, info>>

ReadAllocated ==
  /\ step = "read" /\ header.inUse
  /\ seen' = header
  /\ step' = "descs"
  /\ UNCHANGED <<vars, header, ran, printed, poolDescs, numDescs, answer>>

\* FindFreeChunk is called, on lists of any kind.
ReadFree ==
  /\ step = "read" /\ ~header.inUse
  /\ seen' = header
  /\ step' = "search"
  /\ mem' \in Memories
  /\ pPoolDescs' \in PoolLists /\ pLookasideDescs' \in LookasideLists
  /\ UNCHANGED <<kind, desc, want, enumProc, pc, bucket, cur, count, bRet, find, calls,
                 phase, i, report, header, ran, printed, poolDescs, numDescs, answer>>

\* A failed read, or no memory for the session's array: nothing is printed.
GiveUp ==
  /\ \/ step = "read"
     \/ step = "descs" /\ seen.kind = "session"
  /\ step' = "done"
  /\ UNCHANGED <<vars, header, ran, info>>

GotDescs(descs) ==
  /\ poolDescs' = descs
  /\ numDescs' = Len(descs)
  /\ step' = "index"
  /\ UNCHANGED <<vars, header, ran, printed, seen, answer>>

\* One descriptor for the session, NULL if GetSessionPool does not find it.
SessionDesc ==
  /\ step = "descs" /\ seen.kind = "session"
  /\ \E p \in {[kind |-> "session", n |-> 0], NULL} : GotDescs(<<p>>)

\* numPools is set only by a call that returns an array; that of the paged
\* pools is empty if their count has wrapped (see PoolList).
Pools ==
  /\ step = "descs" /\ seen.kind # "session"
  /\ \E num \in 0 .. MaxDescs :
       (num = 0 => seen.kind = "paged") /\ GotDescs(DescsOf(seen.kind, num))

NoPoolsCounted ==
  /\ step = "descs" /\ seen.kind # "session"
  /\ numDescs' \in 0 .. MaxDescs
  /\ step' = "index"
  /\ UNCHANGED <<vars, header, ran, printed, seen, poolDescs, answer>>

NoPools ==
  /\ step = "descs" /\ seen.kind # "session"
  /\ step' = "index"
  /\ UNCHANGED <<vars, header, ran, info>>

Answer(line, pool) ==
  /\ answer' = [line |-> line, pool |-> pool]
  /\ step' = "done"
  /\ UNCHANGED <<vars, header, ran, printed, seen, poolDescs, numDescs>>

IndexTooLarge == step = "index" /\ seen.poolIndex >= numDescs /\ Answer("tooLarge", NULL)

InUseOfPrinted ==
  /\ step = "index" /\ seen.poolIndex < numDescs
  /\ Answer("inUse", poolDescs[(IF printed = NULL THEN seen ELSE printed).poolIndex + 1])

InUse ==
  /\ step = "index" /\ seen.poolIndex < numDescs
  /\ Answer("inUse", poolDescs[seen.poolIndex + 1])

\* A step of FindFreeChunk.
Search ==
  /\ step = "search" /\ phase # "done"
  /\ Next
  /\ UNCHANGED command

\* FindFreeChunk returns TRUE if it has printed a report.
Located       == step = "search" /\ phase = "done" /\ report # NoReport /\ Answer("located", NULL)
FailsToLocate == step = "search" /\ phase = "done" /\ report = NoReport /\ Answer("failed", NULL)

ChunkFinished == step = "done" /\ UNCHANGED chunkVars

CommandStep ==
  \/ FindPoolHeader \/ PrintPoolHeader \/ ReadAllocated \/ ReadFree \/ GiveUp
  \/ SessionDesc \/ Pools \/ NoPools
  \/ IndexTooLarge \/ InUse
  \/ Search \/ Located \/ FailsToLocate

ChunkNext == CommandStep \/ TargetRuns \/ ChunkFinished

ChunkSpec == ChunkInit /\ [][ChunkNext]_chunkVars

\* The command runs on the debugger's thread, and every read returns; the
\* target is free to run or not.
ChunkFairSpec == ChunkSpec /\ WF_chunkVars(CommandStep)

-----------------------------------------------------------------------------
ChunkTypeOK ==
  /\ TypeOK
  /\ header \in Headers
  /\ ran \in BOOLEAN
  /\ step \in {"find", "print", "read", "descs", "index", "search", "done"}
  /\ printed \in Headers \cup {NULL} /\ seen \in Headers \cup {NULL}
  /\ poolDescs = NULL \/ poolDescs \in Seq(PoolDescs)
  /\ numDescs \in 0 .. MaxDescs
  /\ answer.line \in {"none", "inUse", "tooLarge", "located", "failed"}
  /\ answer.pool \in PoolDescs

\* poolDescs is not initialised and is not tested for NULL: only numDescs keeps
\* PrintExtendedChunkInfo from indexing an array that was not read.  Whatever
\* fails, an index that passes the test is one of the array.
IndexIsInArray ==
  step = "index" /\ seen.poolIndex < numDescs =>
    poolDescs # NULL /\ seen.poolIndex + 1 \in DOMAIN poolDescs

\* What is said of the chunk follows from one reading of the header alone, the
\* last, however the target runs: an allocated chunk is never searched for, and
\* its pool is the one its own kind and index name, a free one never reported in
\* use.
AnswerFollowsHeader ==
  /\ answer.line \in {"inUse", "tooLarge"} => seen.inUse /\ phase = "pools" /\ i = 1 /\ pc = "idle"
  /\ answer.line \in {"located", "failed"} => ~seen.inUse /\ poolDescs = NULL
  /\ answer.line = "inUse" /\ answer.pool # NULL =>
       answer.pool = [kind |-> seen.kind, n |-> seen.poolIndex]

\* On a target that stands still the two lines of the output agree: the header
\* printed is the one the rest of the output is about.  And if its lists can be
\* read, a free chunk that a pool descriptor has is located there, in the first
\* that has it, and an allocated one is not looked for.
LinesAgree ==
  ~ran /\ step = "done" /\ printed # NULL /\ answer.line # "none" =>
    /\ printed = seen
    /\ ~printed.inUse /\ Healthy /\ (\E k \in DOMAIN pPoolDescs : PoolHolds(pPoolDescs[k])) =>
         answer.line = "located" /\ report.phase = "pools"
    /\ printed.inUse => report = NoReport

\* All lists lead to their end, or to a link that cannot be read.
ListsEnd ==
  /\ \A k \in DOMAIN pPoolDescs : \A b \in 0 .. ListHeadsBuckets - 1 :
       LET h == ListHead(pPoolDescs[k], b) IN Ends(mem, h, h)
  /\ \A k \in DOMAIN pLookasideDescs : \A b \in 0 .. LookasideBuckets[pLookasideDescs[k]] - 1 :
       Ends(mem, ListHead(pLookasideDescs[k], b), NULL)

SearchBegins == step = "search" /\ phase = "pools" /\ i = 1 /\ pc = "idle"

\* !poolchunk comes to an end, or to a search, however the target runs; and a
\* search of lists that end to an answer, whatever reads fail.
CommandEnds ==
  /\ (step = "find") ~> (step \in {"search", "done"})
  /\ (SearchBegins /\ ListsEnd) ~> (step = "done")
=============================================================================
