------------------------------ MODULE PoolList ------------------------------
(***************************************************************************)
(* !poollist, and the discovery of descriptors it shares with the search:  *)
(* GetAllPoolDescriptors joins the nonpaged, paged and session pools into  *)
(* one list, GetAllLookasides the lookasides of all processors and of the  *)
(* session.  Each part is read and allocated by itself and may be missing. *)
(*                                                                         *)
(* The local pointers are named by part:                                   *)
(*   np  NPDescs    p   PDescs    s  SDesc      (GetAllPoolDescriptors)    *)
(*   nx  pNPNx      lnp pNP       lp pP   ls pS (GetAllLookasides)         *)
(* A pointer is NULL or the contents of its array.                         *)
(***************************************************************************)
EXTENDS Integers, Sequences, SequencesExt

CONSTANTS
  MaxProcs,    \* bound: processors of the target
  DwordLimit,  \* 2^32, the number of values of a DWORD
  NULL

Types   == {"nonpaged", "paged", "session"}
Options == Types \cup {"all", "lookaside"}

PoolParts      == <<"np", "p", "s">>
LookasideParts == <<"nx", "lnp", "lp", "ls">>
Parts          == ToSet(PoolParts) \cup ToSet(LookasideParts)

TypeOf == [np |-> "nonpaged", p |-> "paged", s |-> "session",
           nx |-> "nonpaged", lnp |-> "nonpaged", lp |-> "paged", ls |-> "session"]

Descs == [part : Parts, poolType : Types, n : 0 .. DwordLimit + MaxProcs, processor : 0 .. MaxProcs - 1]

ASSUME PoolListAssumption ==
  /\ MaxProcs \in Nat \ {0} /\ DwordLimit \in Nat \ {0}
  /\ NULL \notin Seq(Descs)

\* What can be read from the target: KeNumberProcessors,
\* ExpNumberOfPagedPools, whether it is Windows 8 or later (osBuild >= 9200),
\* whether its KPRCB has PPNxPagedLookasideList, how many KPRCBs the context
\* lists, and whether the current process has a session.
Targets == [numProcs : 0 .. MaxProcs, paged : 0 .. DwordLimit - 1, win8 : BOOLEAN,
            nx : BOOLEAN, numKprcb : 1 .. MaxProcs, session : BOOLEAN]

VARIABLES
  target,
  poolTypes,        \* the types to list
  bLookaside,       \* whether to list lookasides
  pc,
  local,            \* the parts' pointers
  pPoolDescs,       \* what GetAllPoolDescriptors returned
  pLookasideDescs,  \* what GetAllLookasides returned
  heap,             \* blocks allocated and not freed
  failed,           \* history: the parts and lists a failure has cost
  out               \* the descriptors printed

vars == <<target, poolTypes, bLookaside, pc, local, pPoolDescs, pLookasideDescs,
          heap, failed, out>>
opts == <<target, poolTypes, bLookaside>>

Init ==
  /\ target \in Targets
  /\ poolTypes = {} /\ bLookaside = FALSE
  /\ pc = "options"
  /\ local = [part \in Parts |-> NULL]
  /\ pPoolDescs = NULL /\ pLookasideDescs = NULL
  /\ heap = {} /\ failed = {} /\ out = <<>>

-----------------------------------------------------------------------------
\* The options, in any order and number; types that none asks for default to
\* all.  An option error is passed over.
ParseOptions ==
  /\ pc = "options"
  /\ \E given \in SUBSET Options :
       /\ poolTypes' = IF "all" \in given \/ given \cap Types = {} THEN Types
                                                                  ELSE given \cap Types
       /\ bLookaside' = ("lookaside" \in given)
  /\ pc' = "nonpaged"
  /\ UNCHANGED <<target, local, pPoolDescs, pLookasideDescs, heap, failed, out>>

\* -h, or no memory for the arguments.
GiveUp ==
  /\ pc = "options"
  /\ pc' = "cleanup"
  /\ UNCHANGED <<opts, local, pPoolDescs, pLookasideDescs, heap, failed, out>>

\* The part's function returns its array, in a block of its own.
Got(part, array, next) ==
  /\ local' = [local EXCEPT ![part] = array]
  /\ heap' = heap \cup {part}
  /\ pc' = next
  /\ UNCHANGED <<opts, pPoolDescs, pLookasideDescs, failed, out>>

\* It returns NULL, with nothing allocated: a read or an allocation failed.
Missed(part, next) ==
  /\ failed' = failed \cup {part}
  /\ pc' = next
  /\ UNCHANGED <<opts, local, pPoolDescs, pLookasideDescs, heap, out>>

\* There is no such part.
Absent(next) ==
  /\ pc' = next
  /\ UNCHANGED <<opts, local, pPoolDescs, pLookasideDescs, heap, failed, out>>

\* Element n of a part; a lookaside comes from the KPRCB of a processor.
Desc(part, n, processor) ==
  [part |-> part, poolType |-> TypeOf[part], n |-> n, processor |-> processor]

-----------------------------------------------------------------------------
\* GetNonPagedPools on one processor: PoolVector[0] points to the only
\* descriptor, or the first of two.
NonPagedOfOne ==
  /\ pc = "nonpaged" /\ target.numProcs <= 1
  /\ Got("np", [k \in 1 .. IF target.win8 THEN 2 ELSE 1 |-> Desc("np", k - 1, 0)], "paged")

\* On several: an array of pointers, read one by one.
NonPagedOfMany ==
  /\ pc = "nonpaged" /\ target.numProcs > 1
  /\ Got("np", <<>>, "nonpagedArray")

NonPagedFails == pc = "nonpaged" /\ Missed("np", "paged")

\* GetPagedPools: one more than ExpNumberOfPagedPools, as a DWORD.
NumPaged == (target.paged + 1) % DwordLimit

Paged      == pc = "paged" /\ Got("p", <<>>, "pagedArray")
PagedFails == pc = "paged" /\ Missed("p", "session")

\* The array being read, the entries it will have, and what comes after it.
Reading  == IF pc = "nonpagedArray" THEN "np" ELSE "p"
Wanted   == IF pc = "nonpagedArray" THEN target.numProcs ELSE NumPaged
NextPart == IF pc = "nonpagedArray" THEN "paged" ELSE "session"

ReadEntry ==
  /\ pc \in {"nonpagedArray", "pagedArray"} /\ Len(local[Reading]) < Wanted
  /\ local' = [local EXCEPT ![Reading] = Append(@, Desc(Reading, Len(@), 0))]
  /\ UNCHANGED <<opts, pc, pPoolDescs, pLookasideDescs, heap, failed, out>>

EntryUnreadableReturned ==
  /\ pc \in {"nonpagedArray", "pagedArray"} /\ Len(local[Reading]) < Wanted
  /\ heap' = heap \ {Reading}
  /\ failed' = failed \cup {Reading}
  /\ pc' = NextPart
  /\ UNCHANGED <<opts, local, pPoolDescs, pLookasideDescs, out>>

\* One pointer that cannot be read costs the whole array.
EntryUnreadable ==
  /\ pc \in {"nonpagedArray", "pagedArray"} /\ Len(local[Reading]) < Wanted
  /\ local' = [local EXCEPT ![Reading] = NULL]
  /\ heap' = heap \ {Reading}
  /\ failed' = failed \cup {Reading}
  /\ pc' = NextPart
  /\ UNCHANGED <<opts, pPoolDescs, pLookasideDescs, out>>

ArrayRead ==
  /\ pc \in {"nonpagedArray", "pagedArray"} /\ Len(local[Reading]) = Wanted
  /\ Absent(NextPart)

-----------------------------------------------------------------------------
\* GetSessionPool.  Its two clones are freed on every way out; the buffer of
\* ReadVirtualStruct is not if the EPROCESS cannot be read.
SessionAbsent(next)      == ~target.session /\ Absent(next)
SessionFails(part, next) == target.session /\ Missed(part, next)

EprocessUnreadable(part, buf, next) ==
  /\ failed' = failed \cup {part}
  /\ heap' = heap \cup {buf}
  /\ pc' = next
  /\ UNCHANGED <<opts, local, pPoolDescs, pLookasideDescs, out>>

\* For the pools: SDesc is an address, with no block behind it.
SessionPool ==
  /\ pc = "session" /\ target.session
  /\ local' = [local EXCEPT !["s"] = <<Desc("s", 0, 0)>>]
  /\ pc' = "join"
  /\ UNCHANGED <<opts, pPoolDescs, pLookasideDescs, heap, failed, out>>

NoSessionPool ==
  /\ pc = "session"
  /\ \/ SessionAbsent("join")
     \/ SessionFails("s", "join")
     \/ EprocessUnreadable("s", "eproc", "join")

-----------------------------------------------------------------------------
JoinedMissingAPart(parts) ==
  IF \E k \in DOMAIN parts : local[parts[k]] = NULL THEN <<>>
  ELSE FlattenSeq([k \in DOMAIN parts |-> local[parts[k]]])

\* The parts that were got, one after the other.  (Their count, a ULONG, is
\* taken not to wrap: that would need some 2^32 readable pointers.)
Joined(parts) ==
  FlattenSeq([k \in DOMAIN parts |-> IF local[parts[k]] = NULL THEN <<>> ELSE local[parts[k]]])

\* No descriptor at all: GetAllPoolDescriptors returns at once.
NoPools ==
  /\ pc = "join" /\ Joined(PoolParts) = <<>>
  /\ Absent("printPools")

JoinPoolsKeepingParts ==
  /\ pc = "join" /\ Joined(PoolParts) # <<>>
  /\ pPoolDescs' = Joined(PoolParts)
  /\ heap' = heap \cup {"pools"}
  /\ pc' = "printPools"
  /\ UNCHANGED <<opts, local, pLookasideDescs, failed, out>>

JoinPools ==
  /\ pc = "join" /\ Joined(PoolParts) # <<>>
  /\ pPoolDescs' = Joined(PoolParts)
  /\ heap' = (heap \ {"np", "p"}) \cup {"pools"}
  /\ pc' = "printPools"
  /\ UNCHANGED <<opts, local, pLookasideDescs, failed, out>>

JoinPoolsFails ==
  /\ pc = "join" /\ Joined(PoolParts) # <<>>
  /\ heap' = heap \ {"np", "p"}
  /\ failed' = failed \cup {"pools"}
  /\ pc' = "printPools"
  /\ UNCHANGED <<opts, local, pPoolDescs, pLookasideDescs, out>>

\* The descriptors of the types asked for are printed: of the first k of them.
Shown(descs) ==
  LET shown[k \in 0 .. Len(descs)] ==
        IF k = 0 THEN <<>>
        ELSE IF descs[k].poolType \in poolTypes THEN Append(shown[k - 1], descs[k]) ELSE shown[k - 1]
  IN  shown

Selected(descs) == IF descs = NULL THEN <<>> ELSE Shown(descs)[Len(descs)]

PrintPools ==
  /\ pc = "printPools"
  /\ out' = out \o Selected(pPoolDescs)
  /\ pc' = IF bLookaside THEN "nx" ELSE "cleanup"
  /\ UNCHANGED <<opts, local, pPoolDescs, pLookasideDescs, heap, failed>>

-----------------------------------------------------------------------------
\* GetKPRCBLookasides: one for each KPRCB of the context, at the field's
\* offset in it (CmdContext says which KPRCBs these are).
OfEachKprcbFromOne(part) == [k \in 1 .. target.numKprcb |-> Desc(part, 0, k)]
OfEachKprcb(part) == [k \in 1 .. target.numKprcb |-> Desc(part, 0, k - 1)]

NonPagedNxAbsent == pc = "nx" /\ ~target.nx /\ Absent("lnp")
NonPagedNx       == pc = "nx" /\ target.nx /\ Got("nx", OfEachKprcb("nx"), "lnp")
NonPagedNxFails  == pc = "nx" /\ target.nx /\ Missed("nx", "lnp")

NonPagedLookasides      == pc = "lnp" /\ Got("lnp", OfEachKprcb("lnp"), "lp")
NonPagedLookasidesFails == pc = "lnp" /\ Missed("lnp", "lp")

PagedLookasides      == pc = "lp" /\ Got("lp", OfEachKprcb("lp"), "ls")
PagedLookasidesFails == pc = "lp" /\ Missed("lp", "ls")

SessionLookasides ==
  /\ pc = "ls" /\ target.session
  /\ Got("ls", <<Desc("ls", 0, 0)>>, "joinLookasides")

NoSessionLookasides ==
  /\ pc = "ls"
  /\ \/ SessionAbsent("joinLookasides")
     \/ SessionFails("ls", "joinLookasides")
     \/ EprocessUnreadable("ls", "eproc2", "joinLookasides")

\* GetAllLookasides joins the parts; it frees none of them.
NoLookasides ==
  /\ pc = "joinLookasides" /\ Joined(LookasideParts) = <<>>
  /\ Absent("printLookasides")

JoinLookasides ==
  /\ pc = "joinLookasides" /\ Joined(LookasideParts) # <<>>
  /\ pLookasideDescs' = Joined(LookasideParts)
  /\ heap' = heap \cup {"lookasides"}
  /\ pc' = "printLookasides"
  /\ UNCHANGED <<opts, local, pPoolDescs, failed, out>>

JoinLookasidesFails ==
  /\ pc = "joinLookasides" /\ Joined(LookasideParts) # <<>>
  /\ Missed("lookasides", "printLookasides")

PrintLookasides ==
  /\ pc = "printLookasides"
  /\ out' = out \o Selected(pLookasideDescs)
  /\ pc' = "cleanup"
  /\ UNCHANGED <<opts, local, pPoolDescs, pLookasideDescs, heap, failed>>

\* cleanup: both lists are freed, if they were got.
Cleanup ==
  /\ pc = "cleanup"
  /\ heap' = heap \ ((IF pPoolDescs = NULL THEN {} ELSE {"pools"})
                     \cup (IF pLookasideDescs = NULL THEN {} ELSE {"lookasides"}))
  /\ pc' = "done"
  /\ UNCHANGED <<opts, local, pPoolDescs, pLookasideDescs, failed, out>>

Finished == pc = "done" /\ UNCHANGED vars

Next ==
  \/ ParseOptions \/ GiveUp
  \/ NonPagedOfOne \/ NonPagedOfMany \/ NonPagedFails
  \/ Paged \/ PagedFails
  \/ ReadEntry \/ EntryUnreadable \/ ArrayRead
  \/ SessionPool \/ NoSessionPool
  \/ NoPools \/ JoinPools \/ JoinPoolsFails \/ PrintPools
  \/ NonPagedNxAbsent \/ NonPagedNx \/ NonPagedNxFails
  \/ NonPagedLookasides \/ NonPagedLookasidesFails
  \/ PagedLookasides \/ PagedLookasidesFails
  \/ SessionLookasides \/ NoSessionLookasides
  \/ NoLookasides \/ JoinLookasides \/ JoinLookasidesFails \/ PrintLookasides
  \/ Cleanup \/ Finished

Spec == Init /\ [][Next]_vars

-----------------------------------------------------------------------------
Blocks == Parts \cup {"eproc", "eproc2", "pools", "lookasides"}

TypeOK ==
  /\ target \in Targets
  /\ poolTypes \subseteq Types /\ bLookaside \in BOOLEAN
  /\ pc \in {"options", "nonpaged", "nonpagedArray", "paged", "pagedArray", "session", "join",
             "printPools", "nx", "lnp", "lp", "ls", "joinLookasides", "printLookasides",
             "cleanup", "done"}
  /\ \A part \in Parts : local[part] = NULL \/ local[part] \in Seq(Descs)
  /\ pPoolDescs = NULL \/ pPoolDescs \in Seq(Descs)
  /\ pLookasideDescs = NULL \/ pLookasideDescs \in Seq(Descs)
  /\ heap \subseteq Blocks
  /\ failed \subseteq Parts \cup {"pools", "lookasides"}
  /\ out \in Seq(Descs)

\* What the target has of a part, whoever reads it.
Exists(part) ==
  CASE part \in {"s", "ls"} -> IF target.session THEN 1 ELSE 0
    [] part = "np"          -> IF target.numProcs > 1 THEN target.numProcs
                               ELSE IF target.win8 THEN 2 ELSE 1
    [] part = "p"           -> IF target.paged = DwordLimit - 1 THEN 0 ELSE target.paged + 1
    [] part = "nx"          -> IF target.nx THEN target.numKprcb ELSE 0
    [] OTHER                -> target.numKprcb

Kprcbs == {"nx", "lnp", "lp"}

Whole(part) ==
  [k \in 1 .. Exists(part) |-> IF part \in Kprcbs THEN Desc(part, 0, k - 1) ELSE Desc(part, k - 1, 0)]

\* The places a listing must show: every descriptor of the types asked for,
\* except those of a part that failed or of a list that did.
Due(part) ==
  IF \/ TypeOf[part] \notin poolTypes \/ part \in failed
     \/ part \in ToSet(PoolParts) /\ "pools" \in failed
     \/ part \in ToSet(LookasideParts) /\ ("lookasides" \in failed \/ ~bLookaside)
  THEN <<>> ELSE Whole(part)

\* A listing is exact whatever fails on the way: a failure costs the part it
\* befalls and no other, a part is shown whole or not at all, and the parts
\* are shown in their order, pools before lookasides.
ListingIsExact ==
  pc = "done" =>
    out = FlattenSeq([k \in 1 .. 7 |-> Due((PoolParts \o LookasideParts)[k])])

\* Every pointer that is still to be read through or freed points to a live
\* block: what a failed part has freed is not joined, a list is not freed twice.
NothingDangles ==
  /\ pc \in {"nonpagedArray", "paged", "pagedArray", "session", "join"} =>
       \A part \in {"np", "p"} : local[part] # NULL => part \in heap
  /\ pc \in {"nx", "lnp", "lp", "ls", "joinLookasides"} =>
       \A part \in ToSet(LookasideParts) : local[part] # NULL => part \in heap
  /\ pc # "done" => /\ pPoolDescs # NULL => "pools" \in heap
                    /\ pLookasideDescs # NULL => "lookasides" \in heap

\* What a listing leaves allocated is known: the arrays of the pools never,
\* unless the count of paged pools has wrapped to zero and nothing else was
\* got, either list never.  (The lookasides' parts and a buffer for an
\* EPROCESS that cannot be read are always left.)
ListsAreFreed ==
  pc = "done" =>
    /\ {"np", "pools", "lookasides"} \cap heap = {}
    /\ "p" \in heap => local["p"] = <<>> /\ pPoolDescs = NULL
=============================================================================
