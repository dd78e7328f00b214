----------------------------- MODULE MCListWalk -----------------------------
(***************************************************************************)
(* A descriptor with two buckets and two free chunks.  The links take      *)
(* every value that makes a different list: empty, proper, crossed, cyclic *)
(* and dangling ones.  The chunks have no identity, so the first that a    *)
(* head leads to is e1; entries no list leads to have no link.  At most    *)
(* one read of the target fails, and any set of cells is taken to hold the *)
(* pointer: two chunks do when a damaged header shows too large a          *)
(* BlockSize, a list head when a list runs into it.                        *)
(***************************************************************************)
EXTENDS ListWalk

CONSTANTS d, e1, e2

MCDescs   == {d}
MCEntries == {e1, e2}
MCIndexes == {0, 1}
MCLookasideBuckets == [x \in Descs |-> 2]

HeadCell(b) == ListHead(d, b)
Targets == Cells \cup {NULL, Junk}

\* The links, given those of the two heads and of the two entries.
Linked(h0, h1, n1, n2) ==
  [c \in Cells |-> CASE c = HeadCell(0) -> h0 [] c = HeadCell(1) -> h1 [] c = e1 -> n1 [] c = e2 -> n2]

MCLinks ==
  {Linked(h0, h1, n1, n2) : h0 \in {e1}, h1, n1, n2 \in Targets}
  \cup {Linked(h0, h1, n1, n2) : h0 \in Targets \ Entries, h1 \in {e1}, n1, n2 \in Targets}
  \cup {Linked(h0, h1, n1, n2) : h0, h1 \in Targets \ Entries, n1, n2 \in {Junk}}

MCFaults == {[noLink |-> {}, noHeader |-> {}]}
            \cup {[noLink |-> {c}, noHeader |-> {}] : c \in Cells}
            \cup {[noLink |-> {}, noHeader |-> {e}] : e \in Entries}

MCHolders == SUBSET Cells
=============================================================================
