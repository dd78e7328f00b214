------------------------------- MODULE Target -------------------------------
(***************************************************************************)
(* The target's memory as far as the free lists are concerned.  A cell is  *)
(* the place of a list link: the head of a bucket of a descriptor, or the  *)
(* entry of a free chunk, which lies just behind the chunk's header        *)
(* (kChunk = link - 2 * pointerLen, so entries stand for their chunks).    *)
(*                                                                         *)
(* The pointer a search looks for is not a number here: what matters of it *)
(* is which chunks contain it (PTR_IN_CHUNK with the BlockSize their       *)
(* header shows).                                                          *)
(***************************************************************************)
EXTENDS Integers, Sequences, FiniteSets

CONSTANTS
  Descs,    \* pool descriptors and lookaside descriptors, by address
  Indexes,  \* the bucket numbers there is memory for behind a descriptor
  Entries,  \* list entries of free chunks
  NULL,     \* the null pointer
  Junk,     \* an address with no memory behind it
  All,      \* BUCKET_ALL
  ListHeadsBuckets,  \* ctx->listHeadsBuckets
  LookasideBuckets,  \* pLookasideDesc->numBuckets, by descriptor
  Links,    \* the contents of the links in this instance
  Faults,   \* the sets of failing reads: [noLink, noHeader]
  Holders,  \* the sets of chunks that may contain the pointer
  MaxCount  \* bound: how far a walk that never ends is followed

ListHead(d, b) == <<d, b>>
Heads == Descs \X Indexes
Cells == Heads \cup Entries

\* link: the pointer stored in a cell; noLink: cells a read of which fails;
\* noHeader: cells whose chunk header cannot be read; holds: cells whose chunk
\* contains the pointer searched for.
Memory == [link     : [Cells -> Cells \cup {NULL, Junk}],
           noLink   : SUBSET Cells,
           noHeader : SUBSET Cells,
           holds    : SUBSET Cells]

\* The memories of this instance.
Memories ==
  {[link |-> l, noLink |-> f.noLink, noHeader |-> f.noHeader, holds |-> s] :
     l \in Links, f \in Faults, s \in Holders}

ASSUME TargetAssumption ==
  /\ Indexes \subseteq Nat /\ IsFiniteSet(Cells)
  /\ {NULL, Junk} \cap Cells = {} /\ NULL # Junk
  /\ Entries \cap Heads = {}
  /\ All \notin Nat
  /\ ListHeadsBuckets \in Nat \ {0} /\ 0 .. ListHeadsBuckets - 1 \subseteq Indexes
  /\ LookasideBuckets \in [Descs -> Nat \ {0}]
  /\ \A d \in Descs : 0 .. LookasideBuckets[d] - 1 \subseteq Indexes
  /\ MaxCount \in Nat
  /\ Links \subseteq [Cells -> Cells \cup {NULL, Junk}]
  /\ Faults \subseteq [noLink : SUBSET Cells, noHeader : SUBSET Cells]
  /\ Holders \subseteq SUBSET Cells

\* ReadTargetPointer and ReadVirtual succeed.
LinkReadable(m, a)   == a \in Cells /\ a \notin m.noLink
HeaderReadable(m, a) == a \in Cells /\ a \notin m.noHeader

\* FIND_PTR, filled with zeroes.
NoFind  == [kChunk |-> NULL, bucket |-> 0, count |-> 0, kDesc |-> NULL]
FindPtr == [kChunk : Cells \cup {NULL}, bucket : Indexes \cup {0}, count : Nat,
            kDesc : Heads \cup {NULL}]

(***************************************************************************)
(* What a list is, independently of any walk over it.  It stops at an end  *)
(* marker: its own head for a doubly linked list, NULL for a lookaside.    *)
(***************************************************************************)
EndOf(kind, h) == IF kind = "listHeads" THEN h ELSE NULL

NumBuckets(kind, d) == IF kind = "listHeads" THEN ListHeadsBuckets ELSE LookasideBuckets[d]

\* The n-th link of the list at head h, counted from 0.
At(m, h) ==
  LET at[n \in Nat] ==
        IF n = 0 THEN m.link[h]
        ELSE LET before == at[n - 1]
             IN  IF before \in Cells THEN m.link[before] ELSE Junk
  IN  at

\* A list that has visited each cell and not ended never ends.
MaxLength == Cardinality(Cells)

\* The list has an n-th entry, and a walk can come to it.
IsEntry(m, h, end, n) ==
  /\ LinkReadable(m, h)
  /\ At(m, h)[n] # end
  /\ \A k \in 0 .. n - 1 : At(m, h)[k] # end /\ LinkReadable(m, At(m, h)[k])

Positions(m, h, end) == {n \in 0 .. MaxLength : IsEntry(m, h, end, n)}

\* The list leads to its end marker, over links that can be read.
Closes(m, h, end) ==
  \E n \in 0 .. MaxLength :
    /\ LinkReadable(m, h) /\ At(m, h)[n] = end
    /\ \A k \in 0 .. n - 1 : LinkReadable(m, At(m, h)[k])

\* The list leads to its end marker or to a link that cannot be read.
Ends(m, h, end) ==
  \/ ~LinkReadable(m, h)
  \/ \E n \in 0 .. MaxLength : At(m, h)[n] = end \/ ~LinkReadable(m, At(m, h)[n])

\* The list's n-th entry is in the chunk searched for, and none before it is.
FirstHolder(m, h, end, n) ==
  /\ IsEntry(m, h, end, n)
  /\ At(m, h)[n] \in m.holds
  /\ \A k \in 0 .. n - 1 : At(m, h)[k] \notin m.holds

\* No entry of the list is in it.
NoHolder(m, h, end) == \A n \in Positions(m, h, end) : At(m, h)[n] \notin m.holds

\* The calls of the callback that bucket b's list deserves: one that says it is
\* empty, or one for each entry, with the entry's number.
Listing(m, h, end, b) ==
  IF m.link[h] = end
  THEN {[bucket |-> b, empty |-> TRUE, kChunk |-> NULL, count |-> 0]}
  ELSE {[bucket |-> b, empty |-> FALSE, kChunk |-> At(m, h)[n], count |-> n] : n \in Positions(m, h, end)}
=============================================================================
