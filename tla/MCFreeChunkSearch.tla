------------------------- MODULE MCFreeChunkSearch -------------------------
(***************************************************************************)
(* Two pool descriptors and two lookasides of two buckets each, and two    *)
(* free chunks: the chunks lie on any two lists, on one, or on none.  They *)
(* have no identity, so on one list e1 comes first.  All lists are well    *)
(* formed; at most one read fails, and at most one chunk holds the         *)
(* pointer.                                                                *)
(***************************************************************************)
EXTENDS FreeChunkSearch

CONSTANTS p1, p2, l1, l2, e1, e2, Nowhere

MCDescs   == {p1, p2, l1, l2}
MCEntries == {e1, e2}
MCIndexes == {0, 1}

SomePools          == {<<p1, p2>>}
MCPoolLists        == {<<p1, p2>>, <<>>}
MCLookasideLists   == {<<l1, l2>>, <<>>}
MCLookasideBuckets == [d \in Descs |-> 2]

Places == [Entries -> Heads \cup {Nowhere}]

\* The list at head h, when the chunks lie at the given places.
OnList(place, h) == SelectSeq(<<e1, e2>>, LAMBDA e : place[e] = h)

\* What its last entry, or the head of an empty list, points to.
LastLink(h) == IF h[1] \in {p1, p2} THEN h ELSE NULL

FirstOf(list, h) == IF list = <<>> THEN LastLink(h) ELSE list[1]

NextOf(list, e, h) ==
  IF list # <<>> /\ e = list[1] /\ Len(list) = 2 THEN list[2] ELSE LastLink(h)

LinksOf(place) ==
  [c \in Cells |->
     IF c \in Heads THEN FirstOf(OnList(place, c), c)
     ELSE IF place[c] = Nowhere THEN Junk
     ELSE NextOf(OnList(place, place[c]), c, place[c])]

MCLinks == {LinksOf(p) : p \in Places}

NoFault  == {[noLink |-> {}, noHeader |-> {}]}
MCFaults == NoFault
            \cup {[noLink |-> {c}, noHeader |-> {}] : c \in Cells}
            \cup {[noLink |-> {}, noHeader |-> {e}] : e \in Entries}

MCHolders == {{}} \cup {{e} : e \in Entries}
=============================================================================
