--------------------------- MODULE PoolListProofs ---------------------------
(***************************************************************************)
(* !poollist, for any number of processors and of paged pools, and         *)
(* whatever fails on the way: no pointer that is still to be used points   *)
(* to a block that was freed; the listing is what is due, in order; and    *)
(* what is left allocated at the end.                                      *)
(*                                                                         *)
(* The first rests on Inv.  NothingDangles speaks of the places where a    *)
(* pointer is used, and Inv of what is true between them: the parts of the *)
(* pools are live up to the join, with or without entries while one is     *)
(* filled; those of the lookasides at all times, as nothing frees them;    *)
(* and the two lists until cleanup.                                        *)
(*                                                                         *)
(* The rest rests on ListInv, which says of each part whether it is still  *)
(* to be read, is being filled, or is what Read gives; and of each list    *)
(* and of the output that they are the parts joined.  The listing is right *)
(* for any number of entries by induction over the entries printed (UpTo). *)
(***************************************************************************)
EXTENDS PoolList, SequenceTheorems, WellFoundedInduction, TLAPS

BeforeJoin == {"options", "nonpaged", "nonpagedArray", "paged", "pagedArray", "session", "join"}

PoolPart(part)      == part \in {"np", "p"}
LookasidePart(part) == part \in {"nx", "lnp", "lp", "ls"}

LocalIsFunction == local = [part \in Parts |-> local[part]]

PoolPartsLive ==
  pc \in BeforeJoin =>
    \A part \in Parts : PoolPart(part) /\ local[part] # NULL => part \in heap

LookasidePartsLive == \A part \in Parts : LookasidePart(part) /\ local[part] # NULL => part \in heap

ListsLive ==
  pc # "done" => /\ pPoolDescs # NULL => "pools" \in heap
                 /\ pLookasideDescs # NULL => "lookasides" \in heap

\* An array that is being filled is live.
ArrayLive == (pc = "nonpagedArray" => "np" \in heap) /\ (pc = "pagedArray" => "p" \in heap)

Inv == LocalIsFunction /\ ArrayLive /\ PoolPartsLive /\ LookasidePartsLive /\ ListsLive

LEMMA PartsAre == Parts = {"np", "p", "s", "nx", "lnp", "lp", "ls"}
<1>1. ToSet(PoolParts) = {"np", "p", "s"}
  BY DEF ToSet, PoolParts
<1>2. ToSet(LookasideParts) = {"nx", "lnp", "lp", "ls"}
  BY DEF ToSet, LookasideParts
<1> QED
  BY <1>1, <1>2 DEF Parts

-----------------------------------------------------------------------------
LEMMA InitInv == Init => Inv
  BY DEF Init, Inv, LocalIsFunction, ArrayLive, PoolPartsLive, LookasidePartsLive, ListsLive

\* A part that is got has a block, and no other loses its own.
LEMMA GotInv ==
  ASSUME Inv, NEW part \in Parts, NEW array, NEW next, Got(part, array, next),
         pc # "done", next # "done", next \in BeforeJoin => pc \in BeforeJoin,
         next = "nonpagedArray" => part = "np", next = "pagedArray" => part = "p"
  PROVE  Inv'
  BY DEF Inv, Got, LocalIsFunction, ArrayLive, PoolPartsLive, LookasidePartsLive, ListsLive

\* Neither a part that failed nor one that is not there changes a pointer.
LEMMA KeptInv ==
  ASSUME Inv, UNCHANGED <<local, pPoolDescs, pLookasideDescs>>, heap \subseteq heap',
         pc # "done", pc' \notin {"nonpagedArray", "pagedArray", "done"},
         pc' \in BeforeJoin => pc \in BeforeJoin
  PROVE  Inv'
  BY DEF Inv, LocalIsFunction, ArrayLive, PoolPartsLive, LookasidePartsLive, ListsLive

LEMMA PoolPartsInv ==
  ASSUME Inv,
         \/ NonPagedOfOne \/ NonPagedOfMany \/ NonPagedFails \/ Paged \/ PagedFails
         \/ ReadEntry \/ EntryUnreadable \/ ArrayRead \/ SessionPool \/ NoSessionPool
  PROVE  Inv'
<1> USE DEF BeforeJoin
<1>1. CASE NonPagedOfOne
  BY <1>1, GotInv, PartsAre DEF NonPagedOfOne
<1>2. CASE NonPagedOfMany
  BY <1>2, GotInv, PartsAre DEF NonPagedOfMany
<1>3. CASE Paged
  BY <1>3, GotInv, PartsAre DEF Paged
<1>4. CASE NonPagedFails \/ PagedFails
  BY <1>4, KeptInv DEF NonPagedFails, PagedFails, Missed
<1>5. CASE ReadEntry
  <2>1. Reading \in {"np", "p"} /\ Reading \in Parts
    BY PartsAre DEF Reading
  <2>2. Reading \in heap
    BY <1>5 DEF ReadEntry, Reading, Inv, ArrayLive
  <2>3. /\ \E array : local' = [local EXCEPT ![Reading] = array]
        /\ UNCHANGED <<pc, pPoolDescs, pLookasideDescs, heap>>
    BY <1>5 DEF ReadEntry
  <2>4. PICK array : local' = [local EXCEPT ![Reading] = array]
    BY <2>3
  <2>5. \A part \in Parts : local'[part] # NULL => part = Reading \/ local[part] # NULL
    BY <2>4 DEF Inv, LocalIsFunction
  <2>6. LocalIsFunction'
    BY <2>4 DEF Inv, LocalIsFunction
  <2>7. ~LookasidePart(Reading) /\ Reading \in heap'
    BY <2>1, <2>2, <2>3 DEF LookasidePart
  <2> QED
    BY <2>3, <2>5, <2>6, <2>7 DEF Inv, ArrayLive, PoolPartsLive, LookasidePartsLive, ListsLive
<1>6. CASE EntryUnreadable
  <2>1. Reading \in {"np", "p"} /\ Reading \in Parts /\ NextPart \in {"paged", "session"}
    BY PartsAre DEF Reading, NextPart
  <2> QED
    BY <1>6, <2>1 DEF EntryUnreadable, Inv, LocalIsFunction, ArrayLive, PoolPartsLive,
                      LookasidePartsLive, ListsLive, PoolPart, LookasidePart
<1>7. CASE ArrayRead
  BY <1>7, KeptInv DEF ArrayRead, Absent, NextPart
<1>8. CASE SessionPool
  BY <1>8, PartsAre DEF SessionPool, Inv, LocalIsFunction, ArrayLive, PoolPartsLive,
                        LookasidePartsLive, ListsLive, PoolPart, LookasidePart
<1>9. CASE NoSessionPool
  BY <1>9, KeptInv DEF NoSessionPool, SessionAbsent, SessionFails, EprocessUnreadable, Absent,
                       Missed
<1> QED
  BY <1>1, <1>2, <1>3, <1>4, <1>5, <1>6, <1>7, <1>8, <1>9

LEMMA JoinInv ==
  ASSUME Inv,
         \/ NoPools \/ JoinPools \/ JoinPoolsFails \/ PrintPools
         \/ NoLookasides \/ JoinLookasides \/ JoinLookasidesFails \/ PrintLookasides
  PROVE  Inv'
<1> USE DEF BeforeJoin
<1>1. CASE NoPools \/ PrintPools \/ NoLookasides \/ JoinLookasidesFails \/ PrintLookasides
  BY <1>1, KeptInv DEF NoPools, PrintPools, NoLookasides, JoinLookasidesFails, PrintLookasides,
                       Absent, Missed
<1>2. CASE JoinPools \/ JoinPoolsFails
  BY <1>2 DEF JoinPools, JoinPoolsFails, Inv, LocalIsFunction, ArrayLive, PoolPartsLive,
              LookasidePartsLive, ListsLive, LookasidePart
<1>3. CASE JoinLookasides
  BY <1>3 DEF JoinLookasides, Inv, LocalIsFunction, ArrayLive, PoolPartsLive,
              LookasidePartsLive, ListsLive
<1> QED
  BY <1>1, <1>2, <1>3

LEMMA LookasidePartsInv ==
  ASSUME Inv,
         \/ NonPagedNxAbsent \/ NonPagedNx \/ NonPagedNxFails
         \/ NonPagedLookasides \/ NonPagedLookasidesFails
         \/ PagedLookasides \/ PagedLookasidesFails
         \/ SessionLookasides \/ NoSessionLookasides
  PROVE  Inv'
<1> USE DEF BeforeJoin
<1>1. CASE NonPagedNx
  BY <1>1, GotInv, PartsAre DEF NonPagedNx
<1>2. CASE NonPagedLookasides
  BY <1>2, GotInv, PartsAre DEF NonPagedLookasides
<1>3. CASE PagedLookasides
  BY <1>3, GotInv, PartsAre DEF PagedLookasides
<1>4. CASE SessionLookasides
  BY <1>4, GotInv, PartsAre DEF SessionLookasides
<1>5. CASE NonPagedNxAbsent \/ NonPagedNxFails \/ NonPagedLookasidesFails \/ PagedLookasidesFails
  BY <1>5, KeptInv DEF NonPagedNxAbsent, NonPagedNxFails, NonPagedLookasidesFails,
                       PagedLookasidesFails, Absent, Missed
<1>6. CASE NoSessionLookasides
  BY <1>6, KeptInv DEF NoSessionLookasides, SessionAbsent, SessionFails, EprocessUnreadable,
                       Absent, Missed
<1> QED
  BY <1>1, <1>2, <1>3, <1>4, <1>5, <1>6

LEMMA StepInv == Inv /\ [Next]_vars => Inv'
<1> SUFFICES ASSUME Inv, [Next]_vars PROVE Inv'
  OBVIOUS
<1>1. CASE ParseOptions \/ GiveUp
  BY <1>1, KeptInv DEF ParseOptions, GiveUp, BeforeJoin
<1>2. CASE Cleanup
  BY <1>2 DEF Cleanup, Inv, LocalIsFunction, ArrayLive, PoolPartsLive, LookasidePartsLive,
              ListsLive, BeforeJoin, LookasidePart
<1>3. CASE UNCHANGED vars
  BY <1>3 DEF vars, Inv, LocalIsFunction, ArrayLive, PoolPartsLive, LookasidePartsLive, ListsLive
<1> QED
  BY <1>1, <1>2, <1>3, PoolPartsInv, JoinInv, LookasidePartsInv DEF Next, Finished

LEMMA InvImplies == Inv => NothingDangles
<1>1. ToSet(LookasideParts) = {"nx", "lnp", "lp", "ls"}
  BY DEF ToSet, LookasideParts
<1> QED
  BY <1>1, PartsAre DEF Inv, NothingDangles, PoolPartsLive, LookasidePartsLive, ListsLive,
                        BeforeJoin,
                        PoolPart, LookasidePart

\* Whatever fails, no pointer that is still to be read through or freed points
\* to a block that has been freed: the array of GetNonPagedPools or
\* GetPagedPools that was half read is not joined, and a list is freed once.
THEOREM NoPointerDangles == Spec => []NothingDangles
  BY InitInv, StepInv, InvImplies, PTL DEF Spec

-----------------------------------------------------------------------------
\* Induction over the numbers up to n, with the set of those a fact holds for.
LEMMA UpTo ==
  ASSUME NEW n \in Nat, NEW S, 0 \in S, \A k \in 1 .. n : k - 1 \in S => k \in S
  PROVE  0 .. n \subseteq S
<1> DEFINE T == {k \in 0 .. n : k \notin S}
           R == OpToRel(<, Nat)
<1>1. SUFFICES ASSUME T # {} PROVE FALSE
  OBVIOUS
<1>2. \A x, y \in Nat : x < y => <<x, y>> \in R
  BY DEF OpToRel
<1>3. IsWellFoundedOn(R, Nat)
  BY NatLessThanWellFounded
<1>0. T \subseteq Nat
  OBVIOUS
<1> HIDE DEF R
<1>4. PICK x \in T : \A y \in T : ~ (<<y, x>> \in R)
  BY <1>0, <1>1, <1>3, WFMin
<1>5. x \in 1 .. n /\ x - 1 \in 0 .. n /\ x - 1 < x
  BY <1>4
<1>6. x - 1 \notin T
  <2>1. x \in Nat /\ x - 1 \in Nat
    BY <1>5
  <2>2. <<x - 1, x>> \in R
    BY <1>2, <1>5, <2>1
  <2> QED
    BY <1>4, <2>2
<1> QED
  BY <1>4, <1>5, <1>6

\* FlattenSeq joins the sequences from the left.
Joins(w, s, n) ==
  /\ w = [k \in 1 .. n |-> w[k]] /\ w[1] = s[1]
  /\ \A k \in 2 .. n : w[k] = w[k - 1] \o s[k]

LEMMA FlattenIs ==
  ASSUME NEW n \in Nat \ {0}, NEW s, NEW w, Len(s) = n, Joins(w, s, n)
  PROVE  FlattenSeq(s) = w[n]
<1> DEFINE F(g) == g = [k \in 1 .. n |-> IF k = 1 THEN s[k] ELSE g[k - 1] \o s[k]]
           f    == CHOOSE g : F(g)
           Cat(x, y) == x \o y
           Rec(g, k) == g[k] = IF k = 1 THEN s[k] ELSE Cat(g[k - 1], s[k])
<1>1. FlattenSeq(s) = f[n]
  BY DEF FlattenSeq
<1>2. \A k \in 1 .. n : Rec(w, k)
  <2>1. w[1] = s[1] /\ \A k \in 2 .. n : w[k] = Cat(w[k - 1], s[k])
    BY DEF Joins
  <2> HIDE DEF Cat
  <2> SUFFICES ASSUME NEW k \in 1 .. n PROVE Rec(w, k)
    OBVIOUS
  <2>2. CASE k = 1
    BY <2>1, <2>2
  <2>3. CASE k # 1
    <3>1. k \in 2 .. n
      BY <2>3
    <3> QED
      BY <2>1, <2>3, <3>1
  <2> QED
    BY <2>2, <2>3
<1>3. F(w)
  <2>1. w = [k \in 1 .. n |-> w[k]]
    BY DEF Joins
  <2> HIDE DEF Cat
  <2>2. w = [k \in 1 .. n |-> IF k = 1 THEN s[k] ELSE Cat(w[k - 1], s[k])]
    BY <1>2, <2>1
  <2> QED
    BY <2>2 DEF Cat
<1>4. f = [k \in 1 .. n |-> IF k = 1 THEN s[k] ELSE Cat(f[k - 1], s[k])]
  BY <1>3
<1> HIDE DEF f, Cat, F
<1>5. \A k \in 1 .. n : Rec(f, k)
  BY <1>4
<1> DEFINE S == {k \in 0 .. n : k = 0 \/ f[k] = w[k]}
<1>6. ASSUME NEW k \in 1 .. n, k - 1 \in S PROVE k \in S
  <2>1. Rec(f, k) /\ Rec(w, k)
    BY <1>2, <1>5
  <2>2. k = 1 \/ f[k - 1] = w[k - 1]
    BY <1>6
  <2> QED
    BY <2>1, <2>2
<1>7. 0 \in S
  OBVIOUS
<1> HIDE DEF S
<1>8. 0 .. n \subseteq S
  BY <1>6, <1>7, UpTo
<1>9. n \in S /\ n # 0
  BY <1>8
<1> QED
  BY <1>1, <1>9 DEF S

LEMMA FlattenThree ==
  ASSUME NEW s, Len(s) = 3
  PROVE  FlattenSeq(s) = (s[1] \o s[2]) \o s[3]
<1> DEFINE w == <<s[1], s[1] \o s[2], (s[1] \o s[2]) \o s[3]>>
<1>1. w[1] = s[1] /\ w[2] = w[1] \o s[2] /\ w[3] = w[2] \o s[3] /\ w[3] = (s[1] \o s[2]) \o s[3]
  OBVIOUS
<1>2. w = [k \in 1 .. 3 |-> w[k]]
  OBVIOUS
<1> HIDE DEF w
<1>3. ASSUME NEW k \in 2 .. 3 PROVE w[k] = w[k - 1] \o s[k]
  <2>1. (k = 2 /\ k - 1 = 1) \/ (k = 3 /\ k - 1 = 2)
    OBVIOUS
  <2> QED
    BY <1>1, <2>1
<1>4. Joins(w, s, 3)
  BY <1>1, <1>2, <1>3 DEF Joins
<1>5. FlattenSeq(s) = w[3]
  <2>1. 3 \in Nat \ {0}
    OBVIOUS
  <2> QED
    BY <1>4, <2>1, FlattenIs, Zenon
<1> QED
  BY <1>1, <1>5

LEMMA FlattenFour ==
  ASSUME NEW s, Len(s) = 4
  PROVE  FlattenSeq(s) = ((s[1] \o s[2]) \o s[3]) \o s[4]
<1> DEFINE w == <<s[1], s[1] \o s[2], (s[1] \o s[2]) \o s[3], ((s[1] \o s[2]) \o s[3]) \o s[4]>>
<1>1. /\ w[1] = s[1] /\ w[2] = w[1] \o s[2] /\ w[3] = w[2] \o s[3] /\ w[4] = w[3] \o s[4]
      /\ w[4] = ((s[1] \o s[2]) \o s[3]) \o s[4]
  OBVIOUS
<1>2. w = [k \in 1 .. 4 |-> w[k]]
  OBVIOUS
<1> HIDE DEF w
<1>3. ASSUME NEW k \in 2 .. 4 PROVE w[k] = w[k - 1] \o s[k]
  <2>1. (k = 2 /\ k - 1 = 1) \/ (k = 3 /\ k - 1 = 2) \/ (k = 4 /\ k - 1 = 3)
    OBVIOUS
  <2> QED
    BY <1>1, <2>1
<1>4. Joins(w, s, 4)
  BY <1>1, <1>2, <1>3 DEF Joins
<1>5. FlattenSeq(s) = w[4]
  <2>1. 4 \in Nat \ {0}
    OBVIOUS
  <2> QED
    BY <1>4, <2>1, FlattenIs, Zenon
<1> QED
  BY <1>1, <1>5

\* Three and four joined, and one to the other.
SevenLists(s, T) == Len(s) = 7 /\ \A k \in 1 .. 7 : s[k] \in Seq(T)

LEMMA FlattenSeven ==
  ASSUME NEW T, NEW s, SevenLists(s, T)
  PROVE  FlattenSeq(s) = ((s[1] \o s[2]) \o s[3]) \o (((s[4] \o s[5]) \o s[6]) \o s[7])
<1> DEFINE a == (s[1] \o s[2]) \o s[3]
           w == <<s[1], s[1] \o s[2], a, a \o s[4], a \o (s[4] \o s[5]),
                  a \o ((s[4] \o s[5]) \o s[6]), a \o (((s[4] \o s[5]) \o s[6]) \o s[7])>>
<1>1. /\ w[1] = s[1] /\ w[2] = w[1] \o s[2] /\ w[3] = w[2] \o s[3] /\ w[4] = w[3] \o s[4]
      /\ w[7] = a \o (((s[4] \o s[5]) \o s[6]) \o s[7])
  OBVIOUS
<1>2. w = [k \in 1 .. 7 |-> w[k]]
  OBVIOUS
<1>3. \A k \in {1, 2, 3, 4, 5, 6, 7} : s[k] \in Seq(T)
  BY DEF SevenLists
<1>4. a \in Seq(T) /\ s[4] \o s[5] \in Seq(T) /\ (s[4] \o s[5]) \o s[6] \in Seq(T)
  BY <1>3
<1>30. s[4] \in Seq(T) /\ s[5] \in Seq(T) /\ s[6] \in Seq(T) /\ s[7] \in Seq(T)
  BY <1>3
<1>31. /\ (a \o s[4]) \o s[5] = a \o (s[4] \o s[5])
       /\ (a \o (s[4] \o s[5])) \o s[6] = a \o ((s[4] \o s[5]) \o s[6])
       /\ (a \o ((s[4] \o s[5]) \o s[6])) \o s[7] = a \o (((s[4] \o s[5]) \o s[6]) \o s[7])
  <2>1. PICK u, b, c, d, g : u = a /\ b = s[4] /\ c = s[5] /\ d = s[6] /\ g = s[7]
    OBVIOUS
  <2>2. u \in Seq(T) /\ b \in Seq(T) /\ c \in Seq(T) /\ d \in Seq(T) /\ g \in Seq(T)
    BY <1>30, <1>4, <2>1
  <2> HIDE DEF a, w
  <2>3. /\ (u \o b) \o c = u \o (b \o c)
        /\ (u \o (b \o c)) \o d = u \o ((b \o c) \o d)
        /\ (u \o ((b \o c) \o d)) \o g = u \o (((b \o c) \o d) \o g)
    <3>1. (u \o b) \o c = u \o (b \o c)
      BY <2>2
    <3>2. PICK e, f : e = b \o c /\ f = e \o d
      OBVIOUS
    <3>3. e \in Seq(T) /\ f \in Seq(T)
      BY <2>2, <3>2
    <3>4. (u \o e) \o d = u \o (e \o d)
      BY <2>2, <3>3
    <3>5. (u \o f) \o g = u \o (f \o g)
      BY <2>2, <3>3
    <3> QED
      BY <3>1, <3>2, <3>4, <3>5
  <2> QED
    BY <2>1, <2>3
<1>5. w[5] = w[4] \o s[5]
  BY <1>31
<1>6. w[6] = w[5] \o s[6]
  BY <1>31
<1>7. w[7] = w[6] \o s[7]
  BY <1>31
<1> HIDE DEF w
<1>8. ASSUME NEW k \in 2 .. 7 PROVE w[k] = w[k - 1] \o s[k]
  <2>1. \/ (k = 2 /\ k - 1 = 1) \/ (k = 3 /\ k - 1 = 2) \/ (k = 4 /\ k - 1 = 3)
        \/ (k = 5 /\ k - 1 = 4) \/ (k = 6 /\ k - 1 = 5) \/ (k = 7 /\ k - 1 = 6)
    OBVIOUS
  <2> QED
    BY <1>1, <1>5, <1>6, <1>7, <2>1
<1>9. Joins(w, s, 7)
  BY <1>1, <1>2, <1>8 DEF Joins
<1>10. FlattenSeq(s) = w[7]
  <2>1. 7 \in Nat \ {0}
    OBVIOUS
  <2> QED
    BY <1>9, <2>1, FlattenIs, Zenon DEF SevenLists
<1> QED
  BY <1>1, <1>10

-----------------------------------------------------------------------------
\* Shown is the recursion it is written as, if it is given what the loop shows.
ShownBy(f, descs) ==
  f = [k \in 0 .. Len(descs) |->
         IF k = 0 THEN <<>>
         ELSE IF descs[k].poolType \in poolTypes THEN Append(f[k - 1], descs[k]) ELSE f[k - 1]]

LEMMA ShownIs ==
  ASSUME NEW s \in Seq(Descs), NEW f, ShownBy(f, s)
  PROVE  Shown(s) = f
<1> DEFINE g == CHOOSE h : ShownBy(h, s)
           Add(x, y) == Append(x, y)
           n == Len(s)
<1>1. Shown(s) = g
  BY Zenon DEF Shown, ShownBy
<1>2. ShownBy(g, s)
  OBVIOUS
<1>3. \A e : ShownBy(e, s) <=>
        e = [k \in 0 .. n |-> IF k = 0 THEN <<>>
               ELSE IF s[k].poolType \in poolTypes THEN Add(e[k - 1], s[k]) ELSE e[k - 1]]
  BY DEF ShownBy
<1> HIDE DEF g, Add
<1> DEFINE S == {k \in 0 .. n : f[k] = g[k]}
<1>4. n \in Nat
  OBVIOUS
<1>5. \A e : ShownBy(e, s) => e = [k \in 0 .. n |-> e[k]] /\ e[0] = <<>>
                           /\ \A k \in 1 .. n : e[k] = IF s[k].poolType \in poolTypes THEN Add(e[k - 1], s[k]) ELSE e[k - 1]
  BY <1>3, <1>4
<1> HIDE DEF n
<1>6. 0 \in S
  BY <1>2, <1>4, <1>5
<1>7. ASSUME NEW k \in 1 .. n, k - 1 \in S PROVE k \in S
  <2>1. \A e : ShownBy(e, s) => e[k] = IF s[k].poolType \in poolTypes THEN Add(e[k - 1], s[k]) ELSE e[k - 1]
    BY <1>5
  <2> QED
    BY <1>2, <1>7, <2>1
<1> HIDE DEF S
<1>8. 0 .. n \subseteq S
  BY <1>4, <1>6, <1>7, UpTo
<1>9. f = [k \in 0 .. n |-> f[k]] /\ g = [k \in 0 .. n |-> g[k]]
  BY <1>2, <1>5
<1> QED
  BY <1>1, <1>8, <1>9 DEF S

\* What the loop shows of a sequence.
Shows(s, t) ==
  \E f : /\ ShownBy(f, s) /\ f[Len(s)] = t
         /\ \A k \in 0 .. Len(s) : f[k] \in Seq(Descs)

LEMMA ShowsIs ==
  ASSUME NEW s \in Seq(Descs), NEW t, Shows(s, t)
  PROVE  Shown(s)[Len(s)] = t /\ t \in Seq(Descs)
<1>1. PICK f : ShownBy(f, s) /\ f[Len(s)] = t /\ \A k \in 0 .. Len(s) : f[k] \in Seq(Descs)
  BY DEF Shows
<1>2. Shown(s) = f
  BY <1>1, ShownIs
<1> QED
  BY <1>1, <1>2

LEMMA NoneIsShown ==
  ASSUME NEW s \in Seq(Descs), \A k \in 1 .. Len(s) : s[k].poolType \notin poolTypes
  PROVE  Shows(s, <<>>)
<1> DEFINE f == [k \in 0 .. Len(s) |-> <<>>]
<1>1. Len(s) \in Nat
  OBVIOUS
<1>2. ShownBy(f, s)
  BY <1>1 DEF ShownBy
<1> QED
  BY <1>1, <1>2 DEF Shows

LEMMA AllIsShown ==
  ASSUME NEW s \in Seq(Descs), \A k \in 1 .. Len(s) : s[k].poolType \in poolTypes
  PROVE  Shows(s, s)
<1> DEFINE f == [k \in 0 .. Len(s) |-> SubSeq(s, 1, k)]
           Add(x, y) == Append(x, y)
<1>1. Len(s) \in Nat
  OBVIOUS
<1>2. f[0] = <<>> /\ f[Len(s)] = s /\ \A k \in 0 .. Len(s) : f[k] \in Seq(Descs)
  OBVIOUS
<1>3. ASSUME NEW k \in 1 .. Len(s) PROVE f[k] = Add(f[k - 1], s[k])
  <2>1. k - 1 \in 0 .. Len(s) /\ k \in 0 .. Len(s)
    OBVIOUS
  <2>2. SubSeq(s, 1, k) = Append(SubSeq(s, 1, k - 1), s[k])
    OBVIOUS
  <2> QED
    BY <2>1, <2>2
<1>4. ShownBy(f, s)
  <2>1. f = [k \in 0 .. Len(s) |-> f[k]]
    OBVIOUS
  <2> HIDE DEF f, Add
  <2>2. ASSUME NEW k \in 0 .. Len(s)
        PROVE  f[k] = IF k = 0 THEN <<>> ELSE IF s[k].poolType \in poolTypes THEN Add(f[k - 1], s[k]) ELSE f[k - 1]
    <3>1. CASE k = 0
      BY <1>2, <3>1
    <3>2. CASE k # 0
      BY <1>1, <1>3, <3>2
    <3> QED
      BY <3>1, <3>2
  <2>3. f = [k \in 0 .. Len(s) |-> IF k = 0 THEN <<>> ELSE IF s[k].poolType \in poolTypes THEN Add(f[k - 1], s[k]) ELSE f[k - 1]]
    BY <2>1, <2>2
  <2> QED
    BY <2>3 DEF Add, ShownBy
<1> HIDE DEF f
<1> QED
  BY <1>2, <1>4 DEF Shows

LEMMA ShownAtEach ==
  ASSUME NEW s \in Seq(Descs), NEW f, ShownBy(f, s), NEW k \in 1 .. Len(s)
  PROVE  /\ s[k].poolType \in poolTypes => f[k] = Append(f[k - 1], s[k])
         /\ s[k].poolType \notin poolTypes => f[k] = f[k - 1]
         /\ f[0] = <<>>
<1> DEFINE Add(x, y) == Append(x, y)
           n == Len(s)
<1>1. n \in Nat
  OBVIOUS
<1>2. f = [j \in 0 .. n |-> IF j = 0 THEN <<>>
             ELSE IF s[j].poolType \in poolTypes THEN Add(f[j - 1], s[j]) ELSE f[j - 1]]
  BY DEF ShownBy
<1> HIDE DEF Add, n
<1>3. f[0] = <<>> /\ f[k] = IF s[k].poolType \in poolTypes THEN Add(f[k - 1], s[k]) ELSE f[k - 1]
  <2>1. k \in 1 .. n
    BY DEF n
  <2> QED
    BY <1>1, <1>2, <2>1
<1> QED
  BY <1>3 DEF Add

LEMMA JoinedIsShown ==
  ASSUME NEW a \in Seq(Descs), NEW b \in Seq(Descs), NEW t, NEW u, Shows(a, t), Shows(b, u)
  PROVE  Shows(a \o b, t \o u)
<1>1. PICK fa : ShownBy(fa, a) /\ fa[Len(a)] = t /\ \A k \in 0 .. Len(a) : fa[k] \in Seq(Descs)
  BY DEF Shows
<1>2. PICK fb : ShownBy(fb, b) /\ fb[Len(b)] = u /\ \A k \in 0 .. Len(b) : fb[k] \in Seq(Descs)
  BY DEF Shows
<1> DEFINE s == a \o b
           n == Len(a) + Len(b)
           Add(x, y) == Append(x, y)
           Cat(x, y) == x \o y
           f == [k \in 0 .. n |-> IF k <= Len(a) THEN fa[k] ELSE Cat(t, fb[k - Len(a)])]
<1>3. Len(a) \in Nat /\ Len(b) \in Nat /\ n \in Nat /\ Len(s) = n /\ t \in Seq(Descs)
  BY <1>1
<1>4. fa[0] = <<>> /\ fb[0] = <<>>
  <2>1. ASSUME NEW e \in Seq(Descs), NEW g, ShownBy(g, e) PROVE g[0] = <<>>
    <3> DEFINE Plus(x, y) == Append(x, y)
    <3>1. g = [j \in 0 .. Len(e) |-> IF j = 0 THEN <<>>
             ELSE IF e[j].poolType \in poolTypes THEN Plus(g[j - 1], e[j]) ELSE g[j - 1]]
      BY <2>1 DEF ShownBy
    <3>2. 0 \in 0 .. Len(e)
      OBVIOUS
    <3> HIDE DEF Plus
    <3> QED
      BY <3>1, <3>2
  <2> QED
    BY <1>1, <1>2, <2>1
<1>5. \A k \in 0 .. n : f[k] \in Seq(Descs)
  BY <1>1, <1>2, <1>3
<1>6. f[0] = <<>> /\ f[n] = t \o u
  <2>0. 0 \in 0 .. n /\ n \in 0 .. n /\ 0 <= Len(a) /\ n - Len(a) = Len(b)
    BY <1>3
  <2>1. f[0] = fa[0]
    BY <2>0
  <2>2. CASE Len(b) = 0
    <3>1. u = <<>> /\ n <= Len(a) /\ n = Len(a)
      BY <1>2, <1>3, <1>4, <2>2
    <3>2. f[n] = fa[n] /\ fa[n] = t
      BY <1>1, <2>0, <3>1
    <3>3. t \o u = t
      BY <1>3, <3>1
    <3> QED
      BY <1>4, <2>1, <3>2, <3>3
  <2>3. CASE Len(b) # 0
    <3>1. ~(n <= Len(a))
      BY <1>3, <2>3
    <3>2. f[n] = t \o fb[n - Len(a)]
      BY <2>0, <3>1
    <3> QED
      BY <1>2, <1>4, <2>0, <2>1, <3>2
  <2> QED
    BY <2>2, <2>3
<1>7. ASSUME NEW k \in 1 .. n
      PROVE  f[k] = IF s[k].poolType \in poolTypes THEN Add(f[k - 1], s[k]) ELSE f[k - 1]
  <2>1. CASE k <= Len(a)
    <3>1. k \in 1 .. Len(a) /\ s[k] = a[k] /\ f[k] = fa[k] /\ f[k - 1] = fa[k - 1]
      BY <1>3, <2>1
    <3> HIDE DEF f, s
    <3> QED
      BY <1>1, <3>1, ShownAtEach
  <2>2. CASE k > Len(a)
    <3> DEFINE j == k - Len(a)
    <3>1. j \in 1 .. Len(b) /\ s[k] = b[j] /\ f[k] = t \o fb[j]
      BY <1>3, <2>2
    <3>2. f[k - 1] = t \o fb[j - 1]
      <4>1. CASE j = 1
        <5>1. k - 1 = Len(a) /\ k - 1 \in 0 .. n
          BY <1>3, <4>1
        <5>2. f[k - 1] = t
          BY <1>1, <1>3, <5>1
        <5>3. fb[j - 1] = <<>>
          BY <1>4, <4>1
        <5> QED
          BY <1>3, <5>2, <5>3
      <4>2. CASE j # 1
        <5>1. k - 1 \in 0 .. n /\ ~(k - 1 <= Len(a)) /\ (k - 1) - Len(a) = j - 1
          BY <1>3, <2>2, <3>1, <4>2
        <5> QED
          BY <5>1
      <4> QED
        BY <4>1, <4>2
    <3>3. fb[j - 1] \in Seq(Descs) /\ b[j] \in Descs
      BY <1>2, <3>1
    <3> HIDE DEF f, s, j
    <3>4. /\ b[j].poolType \in poolTypes => fb[j] = Append(fb[j - 1], b[j])
          /\ b[j].poolType \notin poolTypes => fb[j] = fb[j - 1]
      BY <1>2, <3>1, ShownAtEach
    <3>5. t \o Append(fb[j - 1], b[j]) = Append(t \o fb[j - 1], b[j])
      BY <1>3, <3>3
    <3> QED
      BY <3>1, <3>2, <3>4, <3>5
  <2> QED
    BY <1>3, <2>1, <2>2
<1>8. ShownBy(f, s)
  <2>1. f = [k \in 0 .. n |-> f[k]]
    OBVIOUS
  <2> HIDE DEF f, Add, n, s
  <2>2. ASSUME NEW k \in 0 .. n
        PROVE  f[k] = IF k = 0 THEN <<>> ELSE IF s[k].poolType \in poolTypes THEN Add(f[k - 1], s[k]) ELSE f[k - 1]
    <3>1. CASE k = 0
      BY <1>6, <3>1
    <3>2. CASE k # 0
      BY <1>3, <1>7, <3>2
    <3> QED
      BY <3>1, <3>2
  <2>3. f = [k \in 0 .. n |-> IF k = 0 THEN <<>> ELSE IF s[k].poolType \in poolTypes THEN Add(f[k - 1], s[k]) ELSE f[k - 1]]
    BY <2>1, <2>2
  <2> QED
    BY <1>3, <2>3 DEF Add, ShownBy
<1> HIDE DEF f, s, n
<1> QED
  BY <1>3, <1>5, <1>6, <1>8 DEF Shows, s

-----------------------------------------------------------------------------
\* A part that is not read yet, one that is being read, and the end.
Pending(part) ==
  \/ pc \in {"options", "nonpaged"}
  \/ part # "np" /\ pc \in {"nonpagedArray", "paged"}
  \/ part \notin {"np", "p"} /\ pc \in {"pagedArray", "session"}
  \/ LookasidePart(part) /\ pc \in {"join", "printPools", "nx"}
  \/ part \in {"lnp", "lp", "ls"} /\ pc = "lnp"
  \/ part \in {"lp", "ls"} /\ pc = "lp"
  \/ part = "ls" /\ pc = "ls"

Filling(part) == (part = "np" /\ pc = "nonpagedArray") \/ (part = "p" /\ pc = "pagedArray")

Ended == pc \in {"cleanup", "done"}

\* What is joined of a part, and what is to be: all of it, or nothing.
Value(part) == IF local[part] = NULL THEN <<>> ELSE local[part]
Read(part)  == IF part \in failed THEN <<>> ELSE Whole(part)

PartIs(part) ==
  /\ local[part] = NULL \/ local[part] \in Seq(Descs)
  /\ part \in failed => local[part] = NULL
  /\ Pending(part) => local[part] = NULL /\ part \notin failed
  /\ Filling(part) => /\ local[part] # NULL /\ part \notin failed
                      /\ Wanted = Exists(part) /\ Len(local[part]) <= Wanted
                      /\ \A k \in 1 .. Len(local[part]) : local[part][k] = Whole(part)[k]
  /\ ~Pending(part) /\ ~Filling(part) /\ ~Ended => Value(part) = Read(part)

Basics ==
  /\ target \in Targets
  /\ poolTypes \subseteq Types /\ bLookaside \in BOOLEAN
  /\ pc \in {"options", "nonpaged", "nonpagedArray", "paged", "pagedArray", "session", "join",
             "printPools", "nx", "lnp", "lp", "ls", "joinLookasides", "printLookasides",
             "cleanup", "done"}
  /\ heap \subseteq Blocks
  /\ failed \subseteq Parts \cup {"pools", "lookasides"}
  /\ pc = "options" => poolTypes = {} /\ bLookaside = FALSE

\* The lists: not got before their join, then joined of what was read, or lost.
BeforeLookasides ==
  BeforeJoin \cup {"printPools", "nx", "lnp", "lp", "ls", "joinLookasides"}

PoolsAre ==
  /\ pPoolDescs = NULL \/ pPoolDescs \in Seq(Descs)
  /\ pc \in BeforeJoin => pPoolDescs = NULL /\ "pools" \notin failed
  /\ pc = "printPools" =>
       (IF pPoolDescs = NULL THEN <<>> ELSE pPoolDescs)
       = IF "pools" \in failed THEN <<>> ELSE (Read("np") \o Read("p")) \o Read("s")

LookasidesAre ==
  /\ pLookasideDescs = NULL \/ pLookasideDescs \in Seq(Descs)
  /\ pc \in BeforeLookasides => pLookasideDescs = NULL /\ "lookasides" \notin failed
  /\ pc = "printLookasides" =>
       (IF pLookasideDescs = NULL THEN <<>> ELSE pLookasideDescs)
       = IF "lookasides" \in failed THEN <<>>
         ELSE ((Read("nx") \o Read("lnp")) \o Read("lp")) \o Read("ls")

\* What has been printed.
PoolsDue      == (Due("np") \o Due("p")) \o Due("s")
LookasidesDue == ((Due("nx") \o Due("lnp")) \o Due("lp")) \o Due("ls")

OutIs ==
  /\ pc \in BeforeJoin \cup {"printPools"} => out = <<>>
  /\ pc \in {"nx", "lnp", "lp", "ls", "joinLookasides", "printLookasides"} =>
       out = PoolsDue /\ bLookaside = TRUE
  /\ Ended => out = PoolsDue \o LookasidesDue

\* What is allocated.
HeapIs ==
  /\ pc \in BeforeJoin => \A part \in {"np", "p"} : part \in heap => local[part] # NULL
  /\ pc \notin BeforeJoin => /\ "np" \notin heap
                             /\ "p" \in heap => local["p"] = <<>> /\ pPoolDescs = NULL
  /\ "pools" \in heap => pPoolDescs # NULL /\ pc # "done"
  /\ "lookasides" \in heap => pLookasideDescs # NULL /\ pc # "done"

ListInv ==
  /\ Basics
  /\ local = [part \in Parts |-> local[part]] /\ \A part \in Parts : PartIs(part)
  /\ PoolsAre /\ LookasidesAre /\ OutIs /\ HeapIs
-----------------------------------------------------------------------------
LEMMA TypesAre ==
  /\ \A part \in Parts : TypeOf[part] \in Types
  /\ "pools" \notin Parts /\ "lookasides" \notin Parts
  BY PartsAre DEF TypeOf, Types

LEMMA NumPagedIs ==
  ASSUME target \in Targets
  PROVE  NumPaged = Exists("p") /\ NumPaged \in 0 .. DwordLimit
<1>1. target.paged \in 0 .. DwordLimit - 1 /\ DwordLimit \in Nat \ {0}
  BY PoolListAssumption DEF Targets
<1> DEFINE n == target.paged
<1>2. CASE n = DwordLimit - 1
  <2>1. n + 1 = DwordLimit /\ DwordLimit % DwordLimit = 0
    BY <1>1, <1>2
  <2> QED
    BY <1>1, <1>2, <2>1 DEF NumPaged, Exists
<1>3. CASE n # DwordLimit - 1
  <2>1. n + 1 \in 0 .. DwordLimit - 1
    BY <1>1, <1>3
  <2>2. (n + 1) % DwordLimit = n + 1
    BY <1>1, <2>1
  <2> QED
    BY <1>1, <1>3, <2>1, <2>2 DEF NumPaged, Exists
<1> QED
  BY <1>2, <1>3

LEMMA ExistsIs ==
  ASSUME target \in Targets, NEW part \in Parts
  PROVE  /\ Exists(part) \in Nat
         /\ part \in Kprcbs => Exists(part) <= MaxProcs
         /\ part \notin Kprcbs => Exists(part) <= DwordLimit + MaxProcs
<1>1. /\ target.numProcs \in 0 .. MaxProcs /\ target.numKprcb \in 1 .. MaxProcs
      /\ target.paged \in 0 .. DwordLimit - 1
      /\ DwordLimit \in Nat \ {0} /\ MaxProcs \in Nat \ {0}
  BY PoolListAssumption DEF Targets
<1>2. CASE part \in {"s", "ls"}
  BY <1>1, <1>2 DEF Exists, Kprcbs
<1>3. CASE part = "np"
  BY <1>1, <1>3 DEF Exists, Kprcbs
<1>4. CASE part = "p"
  BY <1>1, <1>4 DEF Exists, Kprcbs
<1>5. CASE part \in {"nx", "lnp", "lp"}
  BY <1>1, <1>5 DEF Exists, Kprcbs
<1> QED
  BY <1>2, <1>3, <1>4, <1>5, PartsAre

LEMMA WholeIs ==
  ASSUME target \in Targets, NEW part \in Parts
  PROVE  /\ Whole(part) \in Seq(Descs) /\ Len(Whole(part)) = Exists(part) /\ Exists(part) \in Nat
         /\ \A k \in 1 .. Exists(part) :
              Whole(part)[k] = IF part \in Kprcbs THEN Desc(part, 0, k - 1) ELSE Desc(part, k - 1, 0)
         /\ \A k \in 1 .. Exists(part) : Whole(part)[k].poolType = TypeOf[part]
<1>1. /\ Exists(part) \in Nat /\ MaxProcs \in Nat \ {0} /\ DwordLimit \in Nat \ {0}
      /\ part \in Kprcbs => Exists(part) <= MaxProcs
      /\ part \notin Kprcbs => Exists(part) <= DwordLimit + MaxProcs
  BY ExistsIs, PoolListAssumption
<1>2. ASSUME NEW n \in 0 .. DwordLimit + MaxProcs, NEW p \in 0 .. MaxProcs - 1
      PROVE  Desc(part, n, p) \in Descs /\ Desc(part, n, p).poolType = TypeOf[part]
  BY TypesAre DEF Desc, Descs
<1>3. ASSUME NEW k \in 1 .. Exists(part)
      PROVE  /\ part \in Kprcbs => 0 \in 0 .. DwordLimit + MaxProcs /\ k - 1 \in 0 .. MaxProcs - 1
             /\ part \notin Kprcbs => k - 1 \in 0 .. DwordLimit + MaxProcs /\ 0 \in 0 .. MaxProcs - 1
  BY <1>1
<1> HIDE DEF Desc
<1>4. \A k \in 1 .. Exists(part) :
        Whole(part)[k] = IF part \in Kprcbs THEN Desc(part, 0, k - 1) ELSE Desc(part, k - 1, 0)
  BY DEF Whole
<1>5. \A k \in 1 .. Exists(part) : Whole(part)[k] \in Descs /\ Whole(part)[k].poolType = TypeOf[part]
  BY <1>2, <1>3, <1>4
<1>6. Whole(part) = [k \in 1 .. Exists(part) |-> Whole(part)[k]]
  BY DEF Whole
<1> HIDE DEF Whole
<1>7. Whole(part) \in Seq(Descs) /\ Len(Whole(part)) = Exists(part)
  BY <1>1, <1>5, <1>6
<1> QED
  BY <1>1, <1>4, <1>5, <1>7

\* What a target has stays the same.
LEMMA SameWhole ==
  ASSUME target' = target, NEW part
  PROVE  Whole(part)' = Whole(part) /\ Exists(part)' = Exists(part)
<1>1. Exists(part)' = Exists(part)
  BY DEF Exists
<1> QED
  BY <1>1 DEF Whole

LEMMA NullIsNoList == ASSUME NEW s \in Seq(Descs) PROVE s # NULL
  BY PoolListAssumption

-----------------------------------------------------------------------------
\* Steps that read a part.  The other parts stay what they are ...
LEMMA OtherPart ==
  ASSUME NEW q \in Parts, PartIs(q), target' = target, local'[q] = local[q],
         q \in failed' <=> q \in failed,
         Pending(q)' => Pending(q), ~Filling(q)',
         ~Pending(q)' /\ ~Ended' => ~Pending(q) /\ ~Filling(q) /\ ~Ended
  PROVE  PartIs(q)'
<1>1. Whole(q)' = Whole(q)
  BY SameWhole
<1>2. Value(q)' = Value(q) /\ Read(q)' = Read(q)
  BY <1>1 DEF Value, Read
<1> QED
  BY <1>2 DEF PartIs

\* ... and so do the lists, and what has been printed.
Kept == UNCHANGED <<target, poolTypes, bLookaside, pPoolDescs, pLookasideDescs, out>>

PoolPhase == BeforeJoin \ {"options"}
LookasidePhase == {"nx", "lnp", "lp", "ls", "joinLookasides"}

LEMMA ListsKept ==
  ASSUME ListInv, Kept, NEW part \in Parts, failed \subseteq failed', failed' \subseteq failed \cup {part},
         \/ pc \in PoolPhase /\ pc' \in PoolPhase
         \/ pc \in LookasidePhase /\ pc' \in LookasidePhase /\ LookasidePart(part)
  PROVE  PoolsAre' /\ LookasidesAre' /\ OutIs'
<1>1. "pools" \notin Parts /\ "lookasides" \notin Parts
  BY TypesAre
<1>2. "pools" \in failed' <=> "pools" \in failed
  BY <1>1
<1>3. "lookasides" \in failed' <=> "lookasides" \in failed
  BY <1>1
<1>4. CASE pc \in PoolPhase /\ pc' \in PoolPhase
  BY <1>2, <1>3, <1>4 DEF ListInv, Kept, PoolsAre, LookasidesAre, OutIs, PoolPhase, BeforeJoin,
                          BeforeLookasides, Ended
<1>5. CASE pc \in LookasidePhase /\ pc' \in LookasidePhase /\ LookasidePart(part)
  <2>1. ASSUME NEW q \in {"np", "p", "s"} PROVE Due(q)' = Due(q)
    <3>1. Whole(q)' = Whole(q)
      BY SameWhole DEF Kept
    <3>2. q \notin ToSet(LookasideParts)
      BY DEF ToSet, LookasideParts
    <3>3. q \in failed' <=> q \in failed
      BY <1>5 DEF LookasidePart
    <3> QED
      BY <1>2, <3>1, <3>2, <3>3 DEF Due, Kept
  <2>2. PoolsDue' = PoolsDue
    BY <2>1 DEF PoolsDue
  <2> QED
    BY <1>2, <1>3, <1>5, <2>2 DEF ListInv, Kept, PoolsAre, LookasidesAre, OutIs, LookasidePhase,
                                  BeforeJoin, BeforeLookasides, Ended
<1> QED
  BY <1>4, <1>5

\* A part is read whole.
LEMMA GotPart ==
  ASSUME ListInv, NEW part \in Parts, NEW next, Got(part, Whole(part), next), Pending(part),
         ~Pending(part)', ~Filling(part)'
  PROVE  PartIs(part)' /\ local' = [q \in Parts |-> local'[q]]
<1>1. /\ target \in Targets /\ part \notin failed
      /\ local = [q \in Parts |-> local[q]]
  BY DEF ListInv, Basics, PartIs
<1>2. target' = target /\ failed' = failed /\ local' = [local EXCEPT ![part] = Whole(part)]
  BY DEF Got, opts
<1>3. Whole(part) \in Seq(Descs) /\ Whole(part) # NULL
  BY <1>1, WholeIs, NullIsNoList
<1>4. Whole(part)' = Whole(part)
  BY <1>2, SameWhole
<1>5. local'[part] = Whole(part)
  BY <1>1, <1>2
<1>6. local' = [q \in Parts |-> local'[q]]
  BY <1>1, <1>2
<1>7. Value(part)' = Read(part)'
  BY <1>1, <1>2, <1>3, <1>4, <1>5 DEF Value, Read
<1> QED
  BY <1>1, <1>2, <1>3, <1>5, <1>6, <1>7 DEF PartIs

\* A part is not got: it has failed, or the target has none.
LEMMA NoPart ==
  ASSUME ListInv, NEW part \in Parts, local' = local, target' = target, Pending(part),
         ~Pending(part)', ~Filling(part)', part \in failed' \/ Exists(part) = 0
  PROVE  PartIs(part)'
<1>1. target \in Targets /\ local[part] = NULL
  BY DEF ListInv, Basics, PartIs
<1>2. Whole(part)' = Whole(part)
  BY SameWhole
<1>3. Exists(part) = 0 => Whole(part) = <<>>
  BY <1>1, WholeIs
<1>4. Value(part)' = Read(part)'
  BY <1>1, <1>2, <1>3 DEF Value, Read
<1> QED
  BY <1>1, <1>4 DEF PartIs

\* The part whose turn it is.
Turn(part) ==
  \/ part = "np" /\ pc \in {"nonpaged", "nonpagedArray"} /\ pc' \in {"nonpagedArray", "paged"}
  \/ part = "p" /\ pc \in {"paged", "pagedArray"} /\ pc' \in {"pagedArray", "session"}
  \/ part = "s" /\ pc = "session" /\ pc' = "join"
  \/ part = "nx" /\ pc = "nx" /\ pc' = "lnp"
  \/ part = "lnp" /\ pc = "lnp" /\ pc' = "lp"
  \/ part = "lp" /\ pc = "lp" /\ pc' = "ls"
  \/ part = "ls" /\ pc = "ls" /\ pc' = "joinLookasides"

LEMMA OthersWait ==
  ASSUME NEW part \in Parts, Turn(part), NEW q \in Parts \ {part}
  PROVE  /\ Pending(q)' => Pending(q)
         /\ ~Filling(q)'
         /\ ~Pending(q)' /\ ~Ended' => ~Pending(q) /\ ~Filling(q) /\ ~Ended
<1>1. q \in {"np", "p", "s", "nx", "lnp", "lp", "ls"}
  BY PartsAre
<1>2. CASE part \in {"np", "p", "s"}
  BY <1>1, <1>2 DEF Turn, Pending, Filling, Ended, LookasidePart
<1>3. CASE part \in {"nx", "lnp", "lp", "ls"}
  BY <1>1, <1>3 DEF Turn, Pending, Filling, Ended, LookasidePart
<1> QED
  BY <1>2, <1>3, PartsAre

ReadInv ==
  /\ local = [part \in Parts |-> local[part]] /\ \A part \in Parts : PartIs(part)
  /\ PoolsAre /\ LookasidesAre /\ OutIs

LEMMA ReadStep ==
  ASSUME ListInv, Kept, NEW part \in Parts, Turn(part), PartIs(part)',
         failed \subseteq failed', failed' \subseteq failed \cup {part},
         NEW array, local' = local \/ local' = [local EXCEPT ![part] = array]
  PROVE  ReadInv'
<1>1. local = [q \in Parts |-> local[q]] /\ \A q \in Parts : PartIs(q)
  BY DEF ListInv
<1>2. /\ local' = [q \in Parts |-> local'[q]]
      /\ \A q \in Parts \ {part} : local'[q] = local[q]
  BY <1>1
<1>3. ASSUME NEW q \in Parts \ {part} PROVE PartIs(q)'
  <2>1. /\ Pending(q)' => Pending(q)
        /\ ~Filling(q)'
        /\ ~Pending(q)' /\ ~Ended' => ~Pending(q) /\ ~Filling(q) /\ ~Ended
    BY OthersWait
  <2>2. PartIs(q) /\ local'[q] = local[q] /\ (q \in failed' <=> q \in failed) /\ target' = target
    BY <1>1, <1>2 DEF Kept
  <2> QED
    BY <2>1, <2>2, OtherPart
<1>4. PoolsAre' /\ LookasidesAre' /\ OutIs'
  <2>1. \/ pc \in PoolPhase /\ pc' \in PoolPhase
        \/ pc \in LookasidePhase /\ pc' \in LookasidePhase /\ LookasidePart(part)
    BY DEF Turn, PoolPhase, LookasidePhase, LookasidePart, BeforeJoin
  <2> QED
    BY <2>1, ListsKept
<1>5. \A q \in Parts : PartIs(q)'
  BY <1>3
<1> HIDE DEF PartIs, PoolsAre, LookasidesAre, OutIs
<1> QED
  BY <1>2, <1>4, <1>5 DEF ReadInv

LEMMA BlocksAre == Blocks = {"np", "p", "s", "nx", "lnp", "lp", "ls", "eproc", "eproc2", "pools", "lookasides"}
  BY PartsAre DEF Blocks

\* What a step that reads a part may allocate or free.
LEMMA HeapStep ==
  ASSUME ListInv, Kept, NEW part \in Parts, Turn(part),
         failed' \subseteq failed \cup {part},
         NEW new \in {"eproc", "eproc2", part}, heap' \subseteq heap \cup {new},
         NEW array, local' = local \/ local' = [local EXCEPT ![part] = array],
         part \in heap' => local'[part] # NULL \/ part \notin {"np", "p"}
  PROVE  Basics' /\ HeapIs'
<1>1. local = [q \in Parts |-> local[q]] /\ "np" \in Parts /\ "p" \in Parts /\ part \in Blocks
      /\ "pools" \notin Parts /\ "lookasides" \notin Parts
  BY PartsAre, BlocksAre DEF ListInv
<1>2. new \in Blocks
  BY <1>1, BlocksAre
<1>3. \A q \in Parts \ {part} : local'[q] = local[q]
  BY <1>1
<1>4. Basics'
  BY <1>2 DEF ListInv, Basics, Kept, Turn
<1>5. ASSUME pc \in PoolPhase, pc' \in PoolPhase PROVE HeapIs'
  BY <1>1, <1>3, <1>5 DEF ListInv, HeapIs, PoolPhase, BeforeJoin, Kept
<1>6. ASSUME pc \in LookasidePhase, pc' \in LookasidePhase, LookasidePart(part) PROVE HeapIs'
  BY <1>1, <1>3, <1>6 DEF ListInv, HeapIs, LookasidePhase, BeforeJoin, Kept, LookasidePart
<1>7. \/ pc \in PoolPhase /\ pc' \in PoolPhase
      \/ pc \in LookasidePhase /\ pc' \in LookasidePhase /\ LookasidePart(part)
  BY DEF Turn, PoolPhase, LookasidePhase, LookasidePart, BeforeJoin
<1> QED
  BY <1>4, <1>5, <1>6, <1>7

LEMMA InvParts == ListInv' <=> Basics' /\ ReadInv' /\ HeapIs'
  BY DEF ListInv, ReadInv

LEMMA NotYetAllocated ==
  ASSUME ListInv, NEW part \in Parts, Turn(part), part \in {"np", "p"}, part \in heap
  PROVE  local[part] # NULL
  BY DEF ListInv, HeapIs, Turn, BeforeJoin

LEMMA GotStep ==
  ASSUME ListInv, NEW part \in Parts, NEW next, Got(part, Whole(part), next), Turn(part),
         Pending(part), ~Pending(part)', ~Filling(part)'
  PROVE  ListInv'
<1>1. Kept /\ failed' = failed /\ heap' = heap \cup {part} /\ local' = [local EXCEPT ![part] = Whole(part)]
  BY DEF Got, Kept, opts
<1>2. PartIs(part)'
  BY GotPart
<1>3. local'[part] # NULL
  <2>1. Whole(part) # NULL
    BY WholeIs, NullIsNoList DEF ListInv, Basics
  <2> QED
    BY <1>1, <2>1 DEF ListInv
<1>4. ReadInv'
  BY <1>1, <1>2, ReadStep
<1>5. Basics' /\ HeapIs'
  BY <1>1, <1>3, HeapStep
<1> QED
  BY <1>4, <1>5, InvParts

LEMMA NoPartStep ==
  ASSUME ListInv, NEW part \in Parts, Kept, local' = local, Turn(part), Pending(part),
         ~Pending(part)', ~Filling(part)', part \in failed' \/ Exists(part) = 0,
         failed \subseteq failed', failed' \subseteq failed \cup {part},
         NEW new \in {"eproc", "eproc2", part}, heap' \subseteq heap \cup {new},
         new = part => heap' = heap
  PROVE  ListInv'
<1>1. PartIs(part)'
  BY NoPart DEF Kept
<1>2. ReadInv'
  BY <1>1, ReadStep
<1>3. part \in heap' => local'[part] # NULL \/ part \notin {"np", "p"}
  <2>1. part \in {"np", "p"} /\ part \in heap' => part \in heap
    OBVIOUS
  <2> QED
    BY <2>1, NotYetAllocated
<1>4. Basics' /\ HeapIs'
  BY <1>3, HeapStep
<1> QED
  BY <1>2, <1>4, InvParts

LEMMA MissedStep ==
  ASSUME ListInv, NEW part \in Parts, NEW next, Missed(part, next), Turn(part), Pending(part),
         ~Pending(part)', ~Filling(part)'
  PROVE  ListInv'
<1>1. Kept /\ local' = local /\ heap' = heap /\ failed' = failed \cup {part}
  BY DEF Missed, Kept, opts
<1> QED
  BY <1>1, NoPartStep

LEMMA AbsentStep ==
  ASSUME ListInv, NEW part \in Parts, NEW next, Absent(next), Turn(part), Pending(part),
         ~Pending(part)', ~Filling(part)', Exists(part) = 0
  PROVE  ListInv'
<1>1. Kept /\ local' = local /\ heap' = heap /\ failed' = failed
  BY DEF Absent, Kept, opts
<1> QED
  BY <1>1, NoPartStep

\* An array is allocated, with nothing in it.
LEMMA EmptyStep ==
  ASSUME ListInv, NEW part \in Parts, NEW next, Got(part, <<>>, next), Turn(part), Pending(part),
         ~Pending(part)', Filling(part)', Wanted' = Exists(part)
  PROVE  ListInv'
<1>1. Kept /\ failed' = failed /\ heap' = heap \cup {part} /\ local' = [local EXCEPT ![part] = <<>>]
  BY DEF Got, Kept, opts
<1>2. local'[part] = <<>> /\ <<>> # NULL /\ <<>> \in Seq(Descs)
  <2>1. <<>> \in Seq(Descs) /\ <<>> # NULL
    <3>1. <<>> \in Seq(Descs)
      OBVIOUS
    <3> QED
      BY <3>1, NullIsNoList
  <2>2. local = [q \in Parts |-> local[q]]
    BY DEF ListInv
  <2> QED
    BY <1>1, <2>1, <2>2
<1>3. part \notin failed /\ Exists(part)' = Exists(part) /\ Exists(part) \in Nat
  BY SameWhole, ExistsIs DEF ListInv, PartIs, Basics, Kept, Got, opts
<1>4. PartIs(part)'
  <2>1. PICK a : a = local'[part] /\ a = <<>>
    BY <1>2
  <2>2. /\ a \in Seq(Descs) /\ a # NULL /\ Len(a) <= Exists(part)
        /\ \A k \in 1 .. Len(a) : a[k] = Whole(part)'[k]
    BY <1>2, <1>3, <2>1
  <2> QED
    BY <1>1, <1>3, <2>1, <2>2 DEF PartIs
<1>5. ReadInv'
  BY <1>1, <1>4, ReadStep
<1>6. Basics' /\ HeapIs'
  BY <1>1, <1>2, HeapStep
<1> QED
  BY <1>5, <1>6, InvParts

LEMMA ReadingIs ==
  ASSUME NEW part, part = Reading, pc \in {"nonpagedArray", "pagedArray"}
  PROVE  /\ part \in {"np", "p"} /\ part \in Parts /\ part \notin Kprcbs
         /\ Filling(part) /\ ~Pending(part)
         /\ pc' \in {pc, NextPart} => Turn(part) /\ ~Pending(part)'
         /\ pc' = pc => Filling(part)'
         /\ pc' = NextPart => ~Filling(part)'
<1>1. CASE pc = "nonpagedArray"
  BY <1>1, PartsAre DEF Reading, Kprcbs, Filling, Pending, NextPart, Turn, LookasidePart
<1>2. CASE pc = "pagedArray"
  BY <1>2, PartsAre DEF Reading, Kprcbs, Filling, Pending, NextPart, Turn, LookasidePart
<1> QED
  BY <1>1, <1>2

LEMMA ReadEntryStep == ListInv /\ ReadEntry => ListInv'
<1> SUFFICES ASSUME ListInv, ReadEntry PROVE ListInv'
  OBVIOUS
<1>0. PICK part : part = Reading
  OBVIOUS
<1>a. PICK a : a = local[part]
  OBVIOUS
<1> DEFINE d == Desc(part, Len(a), 0)
<1>1. pc \in {"nonpagedArray", "pagedArray"} /\ Len(a) < Wanted
  BY <1>0, <1>a DEF ReadEntry
<1>2. /\ part \in {"np", "p"} /\ part \in Parts /\ part \notin Kprcbs
      /\ Filling(part) /\ ~Pending(part) /\ Turn(part)
      /\ ~Pending(part)' /\ Filling(part)'
  BY <1>0, <1>1, ReadingIs DEF ReadEntry
<1>3. Kept /\ failed' = failed /\ heap' = heap /\ pc' = pc
  BY DEF ReadEntry, Kept, opts
<1>4. local' = [local EXCEPT ![part] = Append(a, d)]
  BY <1>0, <1>a DEF ReadEntry
<1>5. Wanted' = Wanted /\ Whole(part)' = Whole(part) /\ Exists(part)' = Exists(part)
  <2>1. Wanted' = Wanted
    BY <1>3 DEF Wanted, NumPaged, Kept
  <2> QED
    BY <1>3, <2>1, SameWhole DEF Kept
<1>6. /\ part \notin failed /\ Wanted = Exists(part) /\ a # NULL /\ a \in Seq(Descs)
      /\ \A k \in 1 .. Len(a) : a[k] = Whole(part)[k]
  BY <1>2, <1>a DEF ListInv, PartIs
<1>7. /\ Whole(part) \in Seq(Descs) /\ Len(Whole(part)) = Exists(part) /\ Exists(part) \in Nat
      /\ Whole(part)[Len(a) + 1] = d
  <2>1. target \in Targets
    BY DEF ListInv, Basics
  <2>2. Exists(part) \in Nat /\ Len(a) \in Nat
    BY <1>2, <1>6, <2>1, WholeIs
  <2>3. Len(a) + 1 \in 1 .. Exists(part) /\ (Len(a) + 1) - 1 = Len(a)
    BY <1>1, <1>6, <2>2
  <2> QED
    BY <1>2, <2>1, <2>2, <2>3, WholeIs
<1>8. d \in Descs
  <2>1. Len(a) + 1 \in 1 .. Len(Whole(part))
    BY <1>1, <1>6, <1>7
  <2> HIDE DEF d
  <2> QED
    BY <1>7, <2>1
<1>9. local'[part] = Append(a, d)
  BY <1>2, <1>4 DEF ListInv
<1> HIDE DEF d
<1>10. /\ Append(a, d) \in Seq(Descs) /\ Len(Append(a, d)) = Len(a) + 1
       /\ \A k \in 1 .. Len(a) + 1 : Append(a, d)[k] = IF k <= Len(a) THEN a[k] ELSE d
  BY <1>6, <1>8
<1>11. \A k \in 1 .. Len(Append(a, d)) : Append(a, d)[k] = Whole(part)[k]
  <2> SUFFICES ASSUME NEW k \in 1 .. Len(a) + 1 PROVE Append(a, d)[k] = Whole(part)[k]
    BY <1>10
  <2>1. Len(a) \in Nat
    BY <1>6
  <2>2. CASE k <= Len(a)
    <3>1. k \in 1 .. Len(a)
      BY <2>1, <2>2
    <3> QED
      BY <1>6, <1>10, <2>2, <3>1
  <2>3. CASE ~(k <= Len(a))
    <3>1. k = Len(a) + 1
      BY <2>1, <2>3
    <3> QED
      BY <1>7, <1>10, <2>3, <3>1
  <2> QED
    BY <2>2, <2>3
<1>12. Append(a, d) # NULL
  BY <1>10, NullIsNoList
<1>13. Len(Append(a, d)) <= Wanted
  BY <1>1, <1>6, <1>7, <1>10
<1>14. PartIs(part)'
  BY <1>2, <1>3, <1>5, <1>6, <1>9, <1>10, <1>11, <1>12, <1>13 DEF PartIs
<1>15. ReadInv'
  BY <1>2, <1>3, <1>4, <1>14, ReadStep
<1>16. Basics' /\ HeapIs'
  BY <1>2, <1>3, <1>4, <1>9, <1>12, HeapStep
<1> QED
  BY <1>15, <1>16, InvParts

\* A pointer that cannot be read costs the array, which is freed.
LEMMA EntryUnreadableStep == ListInv /\ EntryUnreadable => ListInv'
<1> SUFFICES ASSUME ListInv, EntryUnreadable PROVE ListInv'
  OBVIOUS
<1>0. PICK part : part = Reading
  OBVIOUS
<1>1. /\ part \in {"np", "p"} /\ part \in Parts /\ Turn(part)
      /\ ~Pending(part)' /\ ~Filling(part)'
  BY <1>0, ReadingIs DEF EntryUnreadable
<1>2. /\ Kept /\ local' = [local EXCEPT ![part] = NULL] /\ heap' = heap \ {part}
      /\ failed' = failed \cup {part}
  BY <1>0 DEF EntryUnreadable, Kept, opts
<1>3. local'[part] = NULL
  <2>1. local = [q \in Parts |-> local[q]]
    BY DEF ListInv
  <2> QED
    BY <1>1, <1>2, <2>1
<1>4. PartIs(part)'
  BY <1>1, <1>2, <1>3 DEF PartIs, Value, Read
<1>5. ReadInv'
  BY <1>1, <1>2, <1>4, ReadStep
<1>6. Basics' /\ HeapIs'
  BY <1>1, <1>2, HeapStep
<1> QED
  BY <1>5, <1>6, InvParts

\* All entries have been read.
LEMMA ArrayReadStep == ListInv /\ ArrayRead => ListInv'
<1> SUFFICES ASSUME ListInv, ArrayRead PROVE ListInv'
  OBVIOUS
<1>0. PICK part : part = Reading
  OBVIOUS
<1>1. /\ part \in {"np", "p"} /\ part \in Parts /\ Turn(part) /\ Filling(part)
      /\ ~Pending(part)' /\ ~Filling(part)'
  BY <1>0, ReadingIs DEF ArrayRead, Absent
<1>2. Kept /\ UNCHANGED <<local, heap, failed>>
  BY DEF ArrayRead, Absent, Kept, opts
<1>a. PICK a : a = local[part]
  OBVIOUS
<1>3. /\ a \in Seq(Descs) /\ a # NULL /\ part \notin failed
      /\ Len(a) = Exists(part) /\ \A k \in 1 .. Len(a) : a[k] = Whole(part)[k]
  BY <1>0, <1>1, <1>a DEF ListInv, PartIs, ArrayRead
<1>4. Whole(part) \in Seq(Descs) /\ Len(Whole(part)) = Exists(part)
  BY <1>1, WholeIs DEF ListInv, Basics
<1>5. a = Whole(part)
  BY <1>3, <1>4
<1>6. Whole(part)' = Whole(part)
  BY <1>2, SameWhole DEF Kept
<1>7. PartIs(part)'
  BY <1>1, <1>2, <1>3, <1>5, <1>6, <1>a DEF PartIs, Value, Read
<1>8. ReadInv'
  BY <1>1, <1>2, <1>7, ReadStep
<1>9. Basics' /\ HeapIs'
  BY <1>1, <1>2, NotYetAllocated, HeapStep
<1> QED
  BY <1>8, <1>9, InvParts

\* The pool of the session is an address only.
LEMMA SessionPoolStep == ListInv /\ SessionPool => ListInv'
<1> SUFFICES ASSUME ListInv, SessionPool PROVE ListInv'
  OBVIOUS
<1> DEFINE a == <<Desc("s", 0, 0)>>
<1>1. /\ "s" \in Parts /\ "s" \notin Kprcbs /\ Turn("s") /\ Pending("s")
      /\ ~Pending("s")' /\ ~Filling("s")'
  BY PartsAre DEF SessionPool, Kprcbs, Turn, Pending, Filling, LookasidePart
<1>2. Kept /\ local' = [local EXCEPT !["s"] = a] /\ UNCHANGED <<heap, failed>>
  BY DEF SessionPool, Kept, opts
<1>3. a = Whole("s")
  BY <1>1 DEF SessionPool, Whole, Exists
<1>4. Whole("s") \in Seq(Descs) /\ Whole("s") # NULL
  BY <1>1, WholeIs, NullIsNoList DEF ListInv, Basics
<1> HIDE DEF a
<1>5. local'["s"] = a /\ "s" \notin failed
  <2>1. local = [q \in Parts |-> local[q]]
    BY DEF ListInv
  <2> QED
    BY <1>1, <1>2, <2>1 DEF ListInv, PartIs
<1>6. Whole("s")' = Whole("s")
  BY <1>2, SameWhole DEF Kept
<1>7. PartIs("s")'
  BY <1>1, <1>2, <1>3, <1>4, <1>5, <1>6 DEF PartIs, Value, Read
<1>8. ReadInv'
  BY <1>1, <1>2, <1>7, ReadStep
<1>9. Basics' /\ HeapIs'
  BY <1>1, <1>2, HeapStep
<1> QED
  BY <1>8, <1>9, InvParts

LEMMA NoSessionStep ==
  ASSUME ListInv, NEW part \in Parts, part \in {"s", "ls"}, NEW buf \in {"eproc", "eproc2"}, NEW next,
         SessionAbsent(next) \/ SessionFails(part, next) \/ EprocessUnreadable(part, buf, next),
         Turn(part), Pending(part), ~Pending(part)', ~Filling(part)'
  PROVE  ListInv'
<1>1. CASE SessionAbsent(next)
  <2>1. Exists(part) = 0
    BY <1>1 DEF SessionAbsent, Exists
  <2> QED
    BY <1>1, <2>1, AbsentStep DEF SessionAbsent
<1>2. CASE SessionFails(part, next)
  BY <1>2, MissedStep DEF SessionFails
<1>3. CASE EprocessUnreadable(part, buf, next)
  <2>1. /\ Kept /\ local' = local /\ failed' = failed \cup {part} /\ heap' = heap \cup {buf}
        /\ buf # part
    BY <1>3 DEF EprocessUnreadable, Kept, opts
  <2> QED
    BY <2>1, NoPartStep
<1> QED
  BY <1>1, <1>2, <1>3

LEMMA PoolPartsStep ==
  ASSUME ListInv,
         \/ NonPagedOfOne \/ NonPagedOfMany \/ NonPagedFails \/ Paged \/ PagedFails
         \/ ReadEntry \/ EntryUnreadable \/ ArrayRead \/ SessionPool \/ NoSessionPool
  PROVE  ListInv'
<1>1. "np" \in Parts /\ "p" \in Parts /\ "s" \in Parts
  BY PartsAre
<1>2. target \in Targets
  BY DEF ListInv, Basics
<1>3. CASE NonPagedOfOne
  <2>1. target.numProcs \in 0 .. MaxProcs /\ MaxProcs \in Nat
    BY <1>2, PoolListAssumption DEF Targets
  <2>2. Exists("np") = IF target.win8 THEN 2 ELSE 1
    BY <1>3, <2>1 DEF NonPagedOfOne, Exists
  <2>3. Whole("np") = [k \in 1 .. IF target.win8 THEN 2 ELSE 1 |-> Desc("np", k - 1, 0)]
    BY <2>2 DEF Whole, Kprcbs
  <2>4. Got("np", Whole("np"), "paged")
    BY <1>3, <2>3 DEF NonPagedOfOne
  <2>5. Turn("np") /\ Pending("np") /\ ~Pending("np")' /\ ~Filling("np")'
    BY <1>3 DEF NonPagedOfOne, Got, Turn, Pending, Filling, LookasidePart
  <2> QED
    BY <1>1, <2>4, <2>5, GotStep
<1>4. CASE NonPagedOfMany
  <2>1. Turn("np") /\ Pending("np") /\ ~Pending("np")' /\ Filling("np")'
    BY <1>4 DEF NonPagedOfMany, Got, Turn, Pending, Filling, LookasidePart
  <2>2. Wanted' = Exists("np")
    BY <1>4 DEF NonPagedOfMany, Got, opts, Wanted, Exists
  <2> QED
    BY <1>1, <1>4, <2>1, <2>2, EmptyStep DEF NonPagedOfMany
<1>5. CASE NonPagedFails
  <2>1. Turn("np") /\ Pending("np") /\ ~Pending("np")' /\ ~Filling("np")'
    BY <1>5 DEF NonPagedFails, Missed, Turn, Pending, Filling, LookasidePart
  <2> QED
    BY <1>1, <1>5, <2>1, MissedStep DEF NonPagedFails
<1>6. CASE Paged
  <2>1. Turn("p") /\ Pending("p") /\ ~Pending("p")' /\ Filling("p")'
    BY <1>6 DEF Paged, Got, Turn, Pending, Filling, LookasidePart
  <2>2. Wanted' = Exists("p")
    <3>1. Wanted' = NumPaged
      BY <1>6 DEF Paged, Got, opts, Wanted, NumPaged
    <3> QED
      BY <1>2, <3>1, NumPagedIs
  <2> QED
    BY <1>1, <1>6, <2>1, <2>2, EmptyStep DEF Paged
<1>7. CASE PagedFails
  <2>1. Turn("p") /\ Pending("p") /\ ~Pending("p")' /\ ~Filling("p")'
    BY <1>7 DEF PagedFails, Missed, Turn, Pending, Filling, LookasidePart
  <2> QED
    BY <1>1, <1>7, <2>1, MissedStep DEF PagedFails
<1>8. CASE NoSessionPool
  <2>1. pc = "session" /\ pc' = "join"
    BY <1>8 DEF NoSessionPool, SessionAbsent, SessionFails, EprocessUnreadable, Absent, Missed
  <2>2. Turn("s") /\ Pending("s") /\ ~Pending("s")' /\ ~Filling("s")'
    BY <2>1 DEF Turn, Pending, Filling, LookasidePart
  <2> QED
    BY <1>1, <1>8, <2>2, NoSessionStep DEF NoSessionPool
<1> QED
  BY <1>3, <1>4, <1>5, <1>6, <1>7, <1>8, ReadEntryStep, EntryUnreadableStep, ArrayReadStep, SessionPoolStep

LEMMA LookasidePartsStep ==
  ASSUME ListInv,
         \/ NonPagedNxAbsent \/ NonPagedNx \/ NonPagedNxFails
         \/ NonPagedLookasides \/ NonPagedLookasidesFails
         \/ PagedLookasides \/ PagedLookasidesFails
         \/ SessionLookasides \/ NoSessionLookasides
  PROVE  ListInv'
<1>1. "nx" \in Parts /\ "lnp" \in Parts /\ "lp" \in Parts /\ "ls" \in Parts
  BY PartsAre
<1>2. /\ pc = "nx" => Pending("nx") /\ (pc' = "lnp" => Turn("nx") /\ ~Pending("nx")' /\ ~Filling("nx")')
      /\ pc = "lnp" => Pending("lnp") /\ (pc' = "lp" => Turn("lnp") /\ ~Pending("lnp")' /\ ~Filling("lnp")')
      /\ pc = "lp" => Pending("lp") /\ (pc' = "ls" => Turn("lp") /\ ~Pending("lp")' /\ ~Filling("lp")')
      /\ pc = "ls" => Pending("ls") /\ (pc' = "joinLookasides" => Turn("ls") /\ ~Pending("ls")' /\ ~Filling("ls")')
  BY DEF Turn, Pending, Filling, LookasidePart
<1>3. CASE NonPagedNxAbsent
  <2>1. Exists("nx") = 0
    BY <1>3 DEF NonPagedNxAbsent, Exists
  <2> QED
    BY <1>1, <1>2, <1>3, <2>1, AbsentStep DEF NonPagedNxAbsent, Absent
<1>4. CASE NonPagedNx
  <2>1. OfEachKprcb("nx") = Whole("nx")
    BY <1>4 DEF NonPagedNx, OfEachKprcb, Whole, Exists, Kprcbs
  <2> QED
    BY <1>1, <1>2, <1>4, <2>1, GotStep DEF NonPagedNx, Got
<1>5. CASE NonPagedLookasides
  <2>1. OfEachKprcb("lnp") = Whole("lnp")
    BY DEF OfEachKprcb, Whole, Exists, Kprcbs
  <2> QED
    BY <1>1, <1>2, <1>5, <2>1, GotStep DEF NonPagedLookasides, Got
<1>6. CASE PagedLookasides
  <2>1. OfEachKprcb("lp") = Whole("lp")
    BY DEF OfEachKprcb, Whole, Exists, Kprcbs
  <2> QED
    BY <1>1, <1>2, <1>6, <2>1, GotStep DEF PagedLookasides, Got
<1>7. CASE SessionLookasides
  <2>1. <<Desc("ls", 0, 0)>> = Whole("ls")
    BY <1>7 DEF SessionLookasides, Whole, Exists, Kprcbs
  <2> QED
    BY <1>1, <1>2, <1>7, <2>1, GotStep DEF SessionLookasides, Got
<1>8. CASE NonPagedNxFails \/ NonPagedLookasidesFails \/ PagedLookasidesFails
  BY <1>1, <1>2, <1>8, MissedStep DEF NonPagedNxFails, NonPagedLookasidesFails, PagedLookasidesFails, Missed
<1>9. CASE NoSessionLookasides
  <2>1. pc = "ls" /\ pc' = "joinLookasides"
    BY <1>9 DEF NoSessionLookasides, SessionAbsent, SessionFails, EprocessUnreadable, Absent, Missed
  <2> QED
    BY <1>1, <1>2, <1>9, <2>1, NoSessionStep DEF NoSessionLookasides
<1> QED
  BY <1>3, <1>4, <1>5, <1>6, <1>7, <1>8, <1>9

-----------------------------------------------------------------------------
\* The joins.
LEMMA JoinedIs ==
  /\ Joined(PoolParts) = (Value("np") \o Value("p")) \o Value("s")
  /\ Joined(LookasideParts) = ((Value("nx") \o Value("lnp")) \o Value("lp")) \o Value("ls")
<1>1. PICK s : s = [k \in DOMAIN PoolParts |->
                      IF local[PoolParts[k]] = NULL THEN <<>> ELSE local[PoolParts[k]]]
  OBVIOUS
<1>2. PICK t : t = [k \in DOMAIN LookasideParts |->
                      IF local[LookasideParts[k]] = NULL THEN <<>> ELSE local[LookasideParts[k]]]
  OBVIOUS
<1>3. Joined(PoolParts) = FlattenSeq(s) /\ Joined(LookasideParts) = FlattenSeq(t)
  BY <1>1, <1>2, Zenon DEF Joined
<1>4. s = <<Value("np"), Value("p"), Value("s")>>
  BY <1>1 DEF PoolParts, Value
<1>5. t = <<Value("nx"), Value("lnp"), Value("lp"), Value("ls")>>
  BY <1>2 DEF LookasideParts, Value
<1>6. FlattenSeq(s) = (Value("np") \o Value("p")) \o Value("s")
  <2>1. Len(s) = 3 /\ s[1] = Value("np") /\ s[2] = Value("p") /\ s[3] = Value("s")
    BY <1>4
  <2>2. FlattenSeq(s) = (s[1] \o s[2]) \o s[3]
    BY <2>1, FlattenThree
  <2> QED
    BY <2>1, <2>2
<1>7. FlattenSeq(t) = ((Value("nx") \o Value("lnp")) \o Value("lp")) \o Value("ls")
  <2>1. Len(t) = 4 /\ t[1] = Value("nx") /\ t[2] = Value("lnp") /\ t[3] = Value("lp") /\ t[4] = Value("ls")
    BY <1>5
  <2>2. FlattenSeq(t) = ((t[1] \o t[2]) \o t[3]) \o t[4]
    BY <2>1, FlattenFour
  <2> QED
    BY <2>1, <2>2
<1> QED
  BY <1>3, <1>6, <1>7

LEMMA ReadIs ==
  ASSUME target \in Targets, NEW part \in Parts
  PROVE  /\ Read(part) \in Seq(Descs)
         /\ \A k \in 1 .. Len(Read(part)) : Read(part)[k].poolType = TypeOf[part]
<1>1. /\ Whole(part) \in Seq(Descs) /\ Len(Whole(part)) = Exists(part)
      /\ \A k \in 1 .. Exists(part) : Whole(part)[k].poolType = TypeOf[part]
  BY WholeIs
<1>2. CASE part \in failed
  BY <1>2 DEF Read
<1>3. CASE part \notin failed
  BY <1>1, <1>3 DEF Read
<1> QED
  BY <1>2, <1>3

PoolsRead      == (Read("np") \o Read("p")) \o Read("s")
LookasidesRead == ((Read("nx") \o Read("lnp")) \o Read("lp")) \o Read("ls")

LEMMA ReadAreLists ==
  ASSUME target \in Targets
  PROVE  PoolsRead \in Seq(Descs) /\ LookasidesRead \in Seq(Descs)
<1>1. \A q \in {"np", "p", "s", "nx", "lnp", "lp", "ls"} : Read(q) \in Seq(Descs)
  BY ReadIs, PartsAre
<1> QED
  BY <1>1 DEF PoolsRead, LookasidesRead

LEMMA JoinedIsRead ==
  ASSUME ListInv
  PROVE  /\ pc = "join" => Joined(PoolParts) = PoolsRead
         /\ pc = "joinLookasides" => Joined(LookasideParts) = LookasidesRead
         /\ PoolsRead \in Seq(Descs) /\ LookasidesRead \in Seq(Descs)
<1>1. ASSUME pc = "join", NEW q \in {"np", "p", "s"} PROVE Value(q) = Read(q)
  BY <1>1, PartsAre DEF ListInv, PartIs, Pending, Filling, Ended, LookasidePart
<1>2. ASSUME pc = "joinLookasides", NEW q \in {"nx", "lnp", "lp", "ls"} PROVE Value(q) = Read(q)
  BY <1>2, PartsAre DEF ListInv, PartIs, Pending, Filling, Ended, LookasidePart
<1>3. target \in Targets
  BY DEF ListInv, Basics
<1> QED
  BY <1>1, <1>2, <1>3, JoinedIs, ReadAreLists DEF PoolsRead, LookasidesRead

\* A step that reads no part.
LEMMA PartsKept ==
  ASSUME ListInv, UNCHANGED <<local, target>>, \A q \in Parts : q \in failed' <=> q \in failed,
         \A q \in Parts : Pending(q)' => Pending(q),
         \A q \in Parts : ~Filling(q)',
         \A q \in Parts : ~Pending(q)' /\ ~Ended' => ~Pending(q) /\ ~Filling(q) /\ ~Ended
  PROVE  local' = [q \in Parts |-> local'[q]] /\ \A q \in Parts : PartIs(q)'
<1>1. ASSUME NEW q \in Parts PROVE PartIs(q)'
  <2>1. PartIs(q)
    BY DEF ListInv
  <2> QED
    BY <2>1, OtherPart
<1> QED
  BY <1>1 DEF ListInv

LEMMA SameRead ==
  ASSUME target' = target, NEW q, q \in failed' <=> q \in failed
  PROVE  Read(q)' = Read(q)
<1>1. Whole(q)' = Whole(q)
  BY SameWhole
<1> QED
  BY <1>1 DEF Read

LEMMA JoinPoolsStep ==
  ASSUME ListInv, NoPools \/ JoinPools \/ JoinPoolsFails
  PROVE  ListInv'
<1>1. /\ pc = "join" /\ pc' = "printPools"
      /\ UNCHANGED <<target, poolTypes, bLookaside, local, pLookasideDescs, out>>
      /\ Joined(PoolParts) = PoolsRead /\ PoolsRead \in Seq(Descs)
      /\ "pools" \notin Parts /\ "lookasides" \notin Parts /\ target \in Targets
  BY JoinedIsRead, TypesAre DEF NoPools, JoinPools, JoinPoolsFails, Absent, opts, ListInv, Basics
<1>2. failed \subseteq failed' /\ failed' \subseteq failed \cup {"pools"}
  BY DEF NoPools, JoinPools, JoinPoolsFails, Absent
<1>3. local' = [q \in Parts |-> local'[q]] /\ \A q \in Parts : PartIs(q)'
  <2>1. \A q \in Parts : q \in failed' <=> q \in failed
    BY <1>1, <1>2
  <2>2. /\ \A q \in Parts : Pending(q)' => Pending(q)
        /\ \A q \in Parts : ~Filling(q)'
        /\ \A q \in Parts : ~Pending(q)' /\ ~Ended' => ~Pending(q) /\ ~Filling(q) /\ ~Ended
    BY <1>1, PartsAre DEF Pending, Filling, Ended, LookasidePart
  <2> QED
    BY <1>1, <2>1, <2>2, PartsKept
<1>4. PoolsRead' = PoolsRead
  <2>1. ASSUME NEW q \in {"np", "p", "s"} PROVE Read(q)' = Read(q)
    BY <1>1, <1>2, SameRead
  <2> QED
    BY <2>1 DEF PoolsRead
<1>5. pPoolDescs = NULL /\ "pools" \notin failed
  BY <1>1 DEF ListInv, PoolsAre, BeforeJoin
<1>6. CASE NoPools
  <2>1. /\ UNCHANGED <<heap, failed, pPoolDescs>> /\ PoolsRead = <<>>
    BY <1>1, <1>6 DEF NoPools, Absent
  <2>2. "np" \notin heap /\ ("p" \in heap => local["p"] = <<>>)
    <3>1. Value("np") = <<>> /\ Value("p") = <<>>
      <4>1. Value("np") = Read("np") /\ Value("p") = Read("p")
        BY <1>1, PartsAre DEF ListInv, PartIs, Pending, Filling, Ended, LookasidePart
      <4>2. Read("np") \in Seq(Descs) /\ Read("p") \in Seq(Descs) /\ Read("s") \in Seq(Descs)
        BY <1>1, ReadIs, PartsAre
      <4>3. Len(PoolsRead) = Len(Read("np")) + Len(Read("p")) + Len(Read("s"))
        BY <4>2 DEF PoolsRead
      <4> QED
        BY <2>1, <4>1, <4>2, <4>3
    <3>2. ("np" \in heap => local["np"] # NULL) /\ ("p" \in heap => local["p"] # NULL)
      BY <1>1 DEF ListInv, HeapIs, BeforeJoin
    <3>3. "np" \notin heap
      <4>1. SUFFICES ASSUME "np" \in heap PROVE FALSE
        OBVIOUS
      <4>2. local["np"] # NULL /\ "np" \in Parts
        BY <3>2, <4>1, PartsAre
      <4>3. Value("np") = Read("np") /\ "np" \notin failed
        BY <1>1, <4>2 DEF ListInv, PartIs, Pending, Filling, Ended, LookasidePart
      <4>4. Whole("np") = <<>> /\ Exists("np") = 0
        BY <1>1, <3>1, <4>2, <4>3, WholeIs DEF Read
      <4>5. target.numProcs \in 0 .. MaxProcs
        BY <1>1 DEF Targets
      <4> QED
        BY <4>4, <4>5, PoolListAssumption DEF Exists
    <3> QED
      BY <3>1, <3>2, <3>3 DEF Value
  <2>3. HeapIs'
    BY <1>1, <1>5, <2>1, <2>2 DEF ListInv, HeapIs, BeforeJoin
  <2>4. PoolsAre'
    BY <1>1, <1>4, <1>5, <2>1 DEF PoolsAre, BeforeJoin, PoolsRead
  <2>5. LookasidesAre' /\ OutIs' /\ Basics'
    BY <1>1, <2>1 DEF ListInv, Basics, LookasidesAre, OutIs, Ended, BeforeJoin, BeforeLookasides
  <2> QED
    BY <1>3, <2>3, <2>4, <2>5 DEF ListInv
<1>7. CASE JoinPools
  <2>1. /\ failed' = failed /\ heap' = (heap \ {"np", "p"}) \cup {"pools"}
        /\ pPoolDescs' = PoolsRead /\ PoolsRead # NULL
    BY <1>1, <1>7, NullIsNoList DEF JoinPools
  <2>2. HeapIs'
    BY <1>1, <2>1 DEF ListInv, HeapIs, BeforeJoin
  <2>3. PoolsAre'
    BY <1>1, <1>4, <1>5, <2>1 DEF PoolsAre, BeforeJoin, PoolsRead
  <2>4. LookasidesAre' /\ OutIs'
    BY <1>1, <2>1 DEF ListInv, LookasidesAre, OutIs, Ended, BeforeJoin, BeforeLookasides
  <2>5. Basics'
    BY <1>1, <2>1, BlocksAre DEF ListInv, Basics
  <2> QED
    BY <1>3, <2>2, <2>3, <2>4, <2>5 DEF ListInv
<1>8. CASE JoinPoolsFails
  <2>1. /\ failed' = failed \cup {"pools"} /\ heap' = heap \ {"np", "p"} /\ pPoolDescs' = pPoolDescs
    BY <1>8 DEF JoinPoolsFails
  <2>2. HeapIs'
    BY <1>1, <2>1 DEF ListInv, HeapIs, BeforeJoin
  <2>3. PoolsAre'
    BY <1>1, <1>5, <2>1 DEF PoolsAre, BeforeJoin
  <2>4. LookasidesAre' /\ OutIs' /\ Basics'
    BY <1>1, <2>1 DEF ListInv, Basics, LookasidesAre, OutIs, Ended, BeforeJoin, BeforeLookasides
  <2> QED
    BY <1>3, <2>2, <2>3, <2>4 DEF ListInv
<1> QED
  BY <1>6, <1>7, <1>8

LEMMA JoinLookasidesStep ==
  ASSUME ListInv, NoLookasides \/ JoinLookasides \/ JoinLookasidesFails
  PROVE  ListInv'
<1>1. /\ pc = "joinLookasides" /\ pc' = "printLookasides"
      /\ UNCHANGED <<target, poolTypes, bLookaside, local, pPoolDescs, out>>
      /\ Joined(LookasideParts) = LookasidesRead /\ LookasidesRead \in Seq(Descs)
      /\ "pools" \notin Parts /\ "lookasides" \notin Parts /\ target \in Targets
  BY JoinedIsRead, TypesAre
     DEF NoLookasides, JoinLookasides, JoinLookasidesFails, Absent, Missed, opts, ListInv, Basics
<1>2. failed \subseteq failed' /\ failed' \subseteq failed \cup {"lookasides"}
  BY DEF NoLookasides, JoinLookasides, JoinLookasidesFails, Absent, Missed
<1>3. local' = [q \in Parts |-> local'[q]] /\ \A q \in Parts : PartIs(q)'
  <2>1. \A q \in Parts : q \in failed' <=> q \in failed
    BY <1>1, <1>2
  <2>2. /\ \A q \in Parts : Pending(q)' => Pending(q)
        /\ \A q \in Parts : ~Filling(q)'
        /\ \A q \in Parts : ~Pending(q)' /\ ~Ended' => ~Pending(q) /\ ~Filling(q) /\ ~Ended
    BY <1>1, PartsAre DEF Pending, Filling, Ended, LookasidePart
  <2> QED
    BY <1>1, <2>1, <2>2, PartsKept
<1>4. LookasidesRead' = LookasidesRead
  <2>1. ASSUME NEW q \in {"nx", "lnp", "lp", "ls"} PROVE Read(q)' = Read(q)
    BY <1>1, <1>2, SameRead
  <2> QED
    BY <2>1 DEF LookasidesRead
<1>5. pLookasideDescs = NULL /\ "lookasides" \notin failed
  BY <1>1 DEF ListInv, LookasidesAre, BeforeLookasides
<1>6. PoolsDue' = PoolsDue
  <2>1. ASSUME NEW q \in {"np", "p", "s"} PROVE Due(q)' = Due(q)
    <3>1. Whole(q)' = Whole(q)
      BY <1>1, SameWhole
    <3>2. q \notin ToSet(LookasideParts)
      BY DEF ToSet, LookasideParts
    <3> QED
      BY <1>1, <1>2, <3>1, <3>2 DEF Due
  <2> QED
    BY <2>1 DEF PoolsDue
<1>7. PoolsAre' /\ OutIs'
  BY <1>1, <1>6 DEF ListInv, PoolsAre, OutIs, BeforeJoin, Ended
<1>8. CASE NoLookasides
  <2>1. UNCHANGED <<heap, failed, pLookasideDescs>> /\ LookasidesRead = <<>>
    BY <1>1, <1>8 DEF NoLookasides, Absent
  <2>2. LookasidesAre'
    BY <1>1, <1>4, <1>5, <2>1 DEF LookasidesAre, BeforeLookasides, BeforeJoin, LookasidesRead
  <2>3. Basics' /\ HeapIs'
    BY <1>1, <2>1 DEF ListInv, Basics, HeapIs, BeforeJoin
  <2> QED
    BY <1>3, <1>7, <2>2, <2>3 DEF ListInv
<1>9. CASE JoinLookasides
  <2>1. /\ failed' = failed /\ heap' = heap \cup {"lookasides"}
        /\ pLookasideDescs' = LookasidesRead /\ LookasidesRead # NULL
    BY <1>1, <1>9, NullIsNoList DEF JoinLookasides
  <2>2. LookasidesAre'
    BY <1>1, <1>4, <1>5, <2>1 DEF LookasidesAre, BeforeLookasides, BeforeJoin, LookasidesRead
  <2>3. HeapIs'
    BY <1>1, <2>1 DEF ListInv, HeapIs, BeforeJoin
  <2>4. Basics'
    BY <1>1, <2>1, BlocksAre DEF ListInv, Basics
  <2> QED
    BY <1>3, <1>7, <2>2, <2>3, <2>4 DEF ListInv
<1>10. CASE JoinLookasidesFails
  <2>1. failed' = failed \cup {"lookasides"} /\ heap' = heap /\ pLookasideDescs' = pLookasideDescs
    BY <1>10 DEF JoinLookasidesFails, Missed
  <2>2. LookasidesAre'
    BY <1>1, <1>5, <2>1 DEF LookasidesAre, BeforeLookasides, BeforeJoin
  <2>3. Basics' /\ HeapIs'
    BY <1>1, <2>1 DEF ListInv, Basics, HeapIs, BeforeJoin
  <2> QED
    BY <1>3, <1>7, <2>2, <2>3 DEF ListInv
<1> QED
  BY <1>8, <1>9, <1>10

-----------------------------------------------------------------------------
\* What is printed of a list.
LEMMA SelectedIs ==
  ASSUME NEW x, x = NULL \/ x \in Seq(Descs), NEW v, v = IF x = NULL THEN <<>> ELSE x,
         NEW t, Shows(v, t)
  PROVE  Selected(x) = t
<1>1. CASE x = NULL
  <2>1. v = <<>> /\ v \in Seq(Descs) /\ Len(v) = 0
    BY <1>1
  <2>2. Shows(v, <<>>)
    <3>1. \A k \in 1 .. Len(v) : v[k].poolType \notin poolTypes
      BY <2>1
    <3> QED
      BY <2>1, <3>1, NoneIsShown
  <2>3. v \in Seq(Descs)
    BY <2>1
  <2>4. t = <<>>
    <3>1. Shown(v)[Len(v)] = t
      BY <2>3, ShowsIs
    <3>2. Shown(v)[Len(v)] = <<>>
      BY <2>2, <2>3, ShowsIs
    <3> QED
      BY <3>1, <3>2
  <2> QED
    BY <1>1, <2>4 DEF Selected
<1>2. CASE x # NULL
  <2>1. v = x /\ v \in Seq(Descs)
    BY <1>2
  <2>2. Shown(v)[Len(v)] = t
    BY <2>1, ShowsIs
  <2> QED
    BY <1>2, <2>1, <2>2 DEF Selected
<1> QED
  BY <1>1, <1>2

\* A part is all of one type: all of it is printed, or nothing.
OfTypes(part) == IF TypeOf[part] \in poolTypes THEN Read(part) ELSE <<>>

LEMMA PartIsShown ==
  ASSUME target \in Targets, NEW part \in Parts
  PROVE  Shows(Read(part), OfTypes(part)) /\ Read(part) \in Seq(Descs) /\ OfTypes(part) \in Seq(Descs)
<1>1. PICK r : r = Read(part)
  OBVIOUS
<1>2. r \in Seq(Descs) /\ \A k \in 1 .. Len(r) : r[k].poolType = TypeOf[part]
  BY <1>1, ReadIs
<1>3. CASE TypeOf[part] \in poolTypes
  <2>1. Shows(r, r)
    BY <1>2, <1>3, AllIsShown
  <2> QED
    BY <1>1, <1>2, <1>3, <2>1 DEF OfTypes
<1>4. CASE TypeOf[part] \notin poolTypes
  <2>1. Shows(r, <<>>)
    BY <1>2, <1>4, NoneIsShown
  <2> QED
    BY <1>1, <1>2, <1>4, <2>1 DEF OfTypes
<1> QED
  BY <1>3, <1>4

LEMMA PoolsAreShown ==
  ASSUME target \in Targets
  PROVE  /\ Shows(PoolsRead, (OfTypes("np") \o OfTypes("p")) \o OfTypes("s"))
         /\ Shows(LookasidesRead, ((OfTypes("nx") \o OfTypes("lnp")) \o OfTypes("lp")) \o OfTypes("ls"))
<1>1. ASSUME NEW q \in {"np", "p", "s", "nx", "lnp", "lp", "ls"}
      PROVE  Shows(Read(q), OfTypes(q)) /\ Read(q) \in Seq(Descs) /\ OfTypes(q) \in Seq(Descs)
  BY PartIsShown, PartsAre
<1>2. ASSUME NEW a \in Seq(Descs), NEW b \in Seq(Descs), NEW t, NEW u, Shows(a, t), Shows(b, u)
      PROVE  Shows(a \o b, t \o u) /\ a \o b \in Seq(Descs)
  BY <1>2, JoinedIsShown
<1> HIDE DEF Shows, OfTypes, Read
<1>3. Shows(Read("np") \o Read("p"), OfTypes("np") \o OfTypes("p")) /\ Read("np") \o Read("p") \in Seq(Descs)
  BY <1>1, <1>2
<1>4. Shows(PoolsRead, (OfTypes("np") \o OfTypes("p")) \o OfTypes("s"))
  BY <1>1, <1>2, <1>3 DEF PoolsRead
<1>5. Shows(Read("nx") \o Read("lnp"), OfTypes("nx") \o OfTypes("lnp")) /\ Read("nx") \o Read("lnp") \in Seq(Descs)
  BY <1>1, <1>2
<1>6. /\ Shows((Read("nx") \o Read("lnp")) \o Read("lp"), (OfTypes("nx") \o OfTypes("lnp")) \o OfTypes("lp"))
      /\ (Read("nx") \o Read("lnp")) \o Read("lp") \in Seq(Descs)
  BY <1>1, <1>2, <1>5
<1>7. Shows(LookasidesRead, ((OfTypes("nx") \o OfTypes("lnp")) \o OfTypes("lp")) \o OfTypes("ls"))
  BY <1>1, <1>2, <1>6 DEF LookasidesRead
<1> QED
  BY <1>4, <1>7

LEMMA DueIs ==
  /\ \A q \in {"np", "p", "s"} : Due(q) = IF "pools" \in failed THEN <<>> ELSE OfTypes(q)
  /\ \A q \in {"nx", "lnp", "lp", "ls"} :
       Due(q) = IF "lookasides" \in failed \/ ~bLookaside THEN <<>> ELSE OfTypes(q)
<1>1. ToSet(PoolParts) = {"np", "p", "s"} /\ ToSet(LookasideParts) = {"nx", "lnp", "lp", "ls"}
  BY DEF ToSet, PoolParts, LookasideParts
<1>2. ASSUME NEW q \in {"np", "p", "s"}
      PROVE  Due(q) = IF "pools" \in failed THEN <<>> ELSE OfTypes(q)
  <2>1. q \in ToSet(PoolParts) /\ q \notin ToSet(LookasideParts)
    BY <1>1
  <2> QED
    BY <2>1 DEF Due, OfTypes, Read
<1>3. ASSUME NEW q \in {"nx", "lnp", "lp", "ls"}
      PROVE  Due(q) = IF "lookasides" \in failed \/ ~bLookaside THEN <<>> ELSE OfTypes(q)
  <2>1. q \in ToSet(LookasideParts) /\ q \notin ToSet(PoolParts)
    BY <1>1
  <2> QED
    BY <2>1 DEF Due, OfTypes, Read
<1> QED
  BY <1>2, <1>3

LEMMA DueAreLists ==
  ASSUME target \in Targets
  PROVE  /\ \A q \in Parts : Due(q) \in Seq(Descs)
         /\ PoolsDue \in Seq(Descs) /\ LookasidesDue \in Seq(Descs)
<1>1. ASSUME NEW q \in Parts PROVE Due(q) \in Seq(Descs)
  BY WholeIs DEF Due
<1>2. \A q \in {"np", "p", "s", "nx", "lnp", "lp", "ls"} : Due(q) \in Seq(Descs)
  BY <1>1, PartsAre
<1> QED
  BY <1>1, <1>2 DEF PoolsDue, LookasidesDue

LEMMA NothingJoined == (<<>> \o <<>>) \o <<>> = <<>> /\ ((<<>> \o <<>>) \o <<>>) \o <<>> = <<>>
  OBVIOUS

\* With no list, or with all of it selected or dropped by type, the loop
\* prints what is due.
LEMMA PrintsPools ==
  ASSUME ListInv, pc = "printPools"
  PROVE  Selected(pPoolDescs) = PoolsDue
<1>1. PICK v : v = IF pPoolDescs = NULL THEN <<>> ELSE pPoolDescs
  OBVIOUS
<1>2. /\ v = IF "pools" \in failed THEN <<>> ELSE PoolsRead
      /\ pPoolDescs = NULL \/ pPoolDescs \in Seq(Descs)
      /\ target \in Targets
  BY <1>1 DEF ListInv, PoolsAre, PoolsRead, Basics
<1>3. CASE "pools" \in failed
  <2>1. v = <<>> /\ v \in Seq(Descs) /\ Len(v) = 0
    BY <1>2, <1>3
  <2>2. Shows(v, <<>>)
    <3>1. \A k \in 1 .. Len(v) : v[k].poolType \notin poolTypes
      BY <2>1
    <3> QED
      BY <2>1, <3>1, NoneIsShown
  <2>3. Selected(pPoolDescs) = <<>>
    BY <1>1, <1>2, <2>2, SelectedIs
  <2>4. Due("np") = <<>> /\ Due("p") = <<>> /\ Due("s") = <<>>
    BY <1>3, DueIs
  <2> QED
    BY <2>3, <2>4, NothingJoined DEF PoolsDue
<1>4. CASE "pools" \notin failed
  <2>1. PICK t : t = (OfTypes("np") \o OfTypes("p")) \o OfTypes("s")
    OBVIOUS
  <2>2. Shows(v, t)
    <3>1. v = PoolsRead
      BY <1>2, <1>4
    <3> QED
      BY <1>2, <2>1, <3>1, PoolsAreShown
  <2>3. Selected(pPoolDescs) = t
    BY <1>1, <1>2, <2>2, SelectedIs
  <2>4. Due("np") = OfTypes("np") /\ Due("p") = OfTypes("p") /\ Due("s") = OfTypes("s")
    BY <1>4, DueIs
  <2> QED
    BY <2>1, <2>3, <2>4 DEF PoolsDue
<1> QED
  BY <1>3, <1>4

LEMMA PrintsLookasides ==
  ASSUME ListInv, pc = "printLookasides"
  PROVE  Selected(pLookasideDescs) = LookasidesDue
<1>1. PICK v : v = IF pLookasideDescs = NULL THEN <<>> ELSE pLookasideDescs
  OBVIOUS
<1>2. /\ v = IF "lookasides" \in failed THEN <<>> ELSE LookasidesRead
      /\ pLookasideDescs = NULL \/ pLookasideDescs \in Seq(Descs)
      /\ target \in Targets /\ bLookaside = TRUE
  BY <1>1 DEF ListInv, LookasidesAre, LookasidesRead, Basics, OutIs
<1>3. CASE "lookasides" \in failed
  <2>1. v = <<>> /\ v \in Seq(Descs) /\ Len(v) = 0
    BY <1>2, <1>3
  <2>2. Shows(v, <<>>)
    <3>1. \A k \in 1 .. Len(v) : v[k].poolType \notin poolTypes
      BY <2>1
    <3> QED
      BY <2>1, <3>1, NoneIsShown
  <2>3. Selected(pLookasideDescs) = <<>>
    BY <1>1, <1>2, <2>2, SelectedIs
  <2>4. Due("nx") = <<>> /\ Due("lnp") = <<>> /\ Due("lp") = <<>> /\ Due("ls") = <<>>
    BY <1>3, DueIs
  <2> QED
    BY <2>3, <2>4, NothingJoined DEF LookasidesDue
<1>4. CASE "lookasides" \notin failed
  <2>1. PICK t : t = ((OfTypes("nx") \o OfTypes("lnp")) \o OfTypes("lp")) \o OfTypes("ls")
    OBVIOUS
  <2>2. Shows(v, t)
    <3>1. v = LookasidesRead
      BY <1>2, <1>4
    <3> QED
      BY <1>2, <2>1, <3>1, PoolsAreShown
  <2>3. Selected(pLookasideDescs) = t
    BY <1>1, <1>2, <2>2, SelectedIs
  <2>4. /\ Due("nx") = OfTypes("nx") /\ Due("lnp") = OfTypes("lnp")
        /\ Due("lp") = OfTypes("lp") /\ Due("ls") = OfTypes("ls")
    BY <1>2, <1>4, DueIs
  <2> QED
    BY <2>1, <2>3, <2>4 DEF LookasidesDue
<1> QED
  BY <1>3, <1>4

LEMMA SameDue ==
  ASSUME UNCHANGED <<target, poolTypes, bLookaside, failed>>
  PROVE  PoolsDue' = PoolsDue /\ LookasidesDue' = LookasidesDue
<1>1. ASSUME NEW q \in {"np", "p", "s", "nx", "lnp", "lp", "ls"} PROVE Due(q)' = Due(q)
  <2>1. Whole(q)' = Whole(q)
    BY SameWhole
  <2> QED
    BY <2>1 DEF Due
<1> QED
  BY <1>1 DEF PoolsDue, LookasidesDue

LEMMA PrintStep ==
  ASSUME ListInv, PrintPools \/ PrintLookasides
  PROVE  ListInv'
<1>1. UNCHANGED <<target, poolTypes, bLookaside, local, pPoolDescs, pLookasideDescs, heap, failed>>
  BY DEF PrintPools, PrintLookasides, opts
<1>2. PoolsDue' = PoolsDue /\ LookasidesDue' = LookasidesDue
  BY <1>1, SameDue
<1>3. target \in Targets /\ bLookaside \in BOOLEAN /\ PoolsDue \in Seq(Descs) /\ LookasidesDue \in Seq(Descs)
  BY DueAreLists DEF ListInv, Basics
<1>4. CASE PrintPools
  <2>1. /\ pc = "printPools" /\ out' = out \o PoolsDue
        /\ pc' = IF bLookaside THEN "nx" ELSE "cleanup"
    BY <1>4, PrintsPools DEF PrintPools
  <2>2. out = <<>>
    BY <2>1 DEF ListInv, OutIs
  <2>3. out' = PoolsDue
    BY <1>3, <2>1, <2>2
  <2>4. ~bLookaside => LookasidesDue = <<>>
    BY DueIs, NothingJoined DEF LookasidesDue
  <2>5. OutIs'
    <3>1. CASE bLookaside
      <4>1. pc' = "nx" /\ bLookaside' = TRUE
        BY <1>1, <1>3, <2>1, <3>1
      <4> QED
        BY <1>2, <2>3, <4>1 DEF OutIs, BeforeJoin, Ended
    <3>2. CASE ~bLookaside
      <4>1. pc' = "cleanup" /\ PoolsDue \o LookasidesDue = PoolsDue
        BY <1>3, <2>1, <2>4, <3>2
      <4> QED
        BY <1>2, <2>3, <4>1 DEF OutIs, BeforeJoin, Ended
    <3> QED
      BY <3>1, <3>2
  <2>6. pc' \in {"nx", "cleanup"}
    BY <2>1
  <2>7. PoolsAre' /\ LookasidesAre'
    BY <1>1, <2>1, <2>6 DEF ListInv, PoolsAre, LookasidesAre, BeforeJoin, BeforeLookasides
  <2>8. Basics' /\ HeapIs'
    BY <1>1, <2>1, <2>6 DEF ListInv, Basics, HeapIs, BeforeJoin
  <2>9. local' = [q \in Parts |-> local'[q]] /\ \A q \in Parts : PartIs(q)'
    <3>1. /\ \A q \in Parts : Pending(q)' => Pending(q)
          /\ \A q \in Parts : ~Filling(q)'
          /\ \A q \in Parts : ~Pending(q)' /\ ~Ended' => ~Pending(q) /\ ~Filling(q) /\ ~Ended
      BY <2>1, <2>6, PartsAre DEF Pending, Filling, Ended, LookasidePart
    <3> QED
      BY <1>1, <3>1, PartsKept
  <2> QED
    BY <2>5, <2>7, <2>8, <2>9 DEF ListInv
<1>5. CASE PrintLookasides
  <2>1. pc = "printLookasides" /\ out' = out \o LookasidesDue /\ pc' = "cleanup"
    BY <1>5, PrintsLookasides DEF PrintLookasides
  <2>2. out = PoolsDue
    BY <2>1 DEF ListInv, OutIs
  <2>3. OutIs'
    BY <1>2, <2>1, <2>2 DEF OutIs, BeforeJoin, Ended
  <2>4. PoolsAre' /\ LookasidesAre'
    BY <1>1, <2>1 DEF ListInv, PoolsAre, LookasidesAre, BeforeJoin, BeforeLookasides
  <2>5. Basics' /\ HeapIs'
    BY <1>1, <2>1 DEF ListInv, Basics, HeapIs, BeforeJoin
  <2>6. local' = [q \in Parts |-> local'[q]] /\ \A q \in Parts : PartIs(q)'
    <3>1. /\ \A q \in Parts : Pending(q)' => Pending(q)
          /\ \A q \in Parts : ~Filling(q)'
          /\ \A q \in Parts : ~Pending(q)' /\ ~Ended' => ~Pending(q) /\ ~Filling(q) /\ ~Ended
      BY <2>1, PartsAre DEF Pending, Filling, Ended, LookasidePart
    <3> QED
      BY <1>1, <3>1, PartsKept
  <2> QED
    BY <2>3, <2>4, <2>5, <2>6 DEF ListInv
<1> QED
  BY <1>4, <1>5

\* The options, and the end.
LEMMA OptionsStep ==
  ASSUME ListInv, ParseOptions \/ GiveUp \/ Cleanup
  PROVE  ListInv'
<1>1. UNCHANGED <<target, local, pPoolDescs, pLookasideDescs, failed, out>>
  BY DEF ParseOptions, GiveUp, Cleanup, opts
<1>2. local' = [q \in Parts |-> local'[q]] /\ \A q \in Parts : PartIs(q)'
  <2>1. \/ pc = "options" /\ pc' \in {"nonpaged", "cleanup"}
        \/ pc = "cleanup" /\ pc' = "done"
    BY DEF ParseOptions, GiveUp, Cleanup
  <2>2. /\ \A q \in Parts : Pending(q)' => Pending(q)
        /\ \A q \in Parts : ~Filling(q)'
        /\ \A q \in Parts : ~Pending(q)' /\ ~Ended' => ~Pending(q) /\ ~Filling(q) /\ ~Ended
    BY <2>1, PartsAre DEF Pending, Filling, Ended, LookasidePart
  <2> QED
    BY <1>1, <2>2, PartsKept
<1>3. CASE ParseOptions
  <2>0. PICK given \in SUBSET Options :
          /\ poolTypes' = IF "all" \in given \/ given \cap Types = {} THEN Types ELSE given \cap Types
          /\ bLookaside' = ("lookaside" \in given)
    BY <1>3, Zenon DEF ParseOptions
  <2>1. /\ pc = "options" /\ pc' = "nonpaged" /\ heap' = heap
        /\ poolTypes' \subseteq Types /\ bLookaside' \in BOOLEAN
    <3>1. pc = "options" /\ pc' = "nonpaged" /\ heap' = heap
      BY <1>3 DEF ParseOptions
    <3>2. poolTypes' \subseteq Types
      BY <2>0
    <3>3. bLookaside' = TRUE \/ bLookaside' = FALSE
      <4>1. bLookaside' = ("lookaside" \in given)
        BY <2>0
      <4>2. ("lookaside" \in given) \in BOOLEAN
        OBVIOUS
      <4> QED
        BY <4>1, <4>2
    <3> QED
      BY <3>1, <3>2, <3>3
  <2>2. PoolsAre' /\ LookasidesAre' /\ OutIs'
    BY <1>1, <2>1 DEF ListInv, PoolsAre, LookasidesAre, OutIs, BeforeJoin, BeforeLookasides, Ended
  <2>3. Basics' /\ HeapIs'
    BY <1>1, <2>1 DEF ListInv, Basics, HeapIs, BeforeJoin
  <2> QED
    BY <1>2, <2>2, <2>3 DEF ListInv
<1>4. CASE GiveUp
  <2>1. pc = "options" /\ pc' = "cleanup" /\ UNCHANGED <<poolTypes, bLookaside, heap>>
    BY <1>4 DEF GiveUp, opts
  <2>2. poolTypes = {} /\ out = <<>>
    BY <2>1 DEF ListInv, Basics, OutIs, BeforeJoin
  <2>3. PoolsDue \o LookasidesDue = <<>>
    <3>1. \A q : Due(q) = <<>>
      BY <2>2 DEF Due
    <3>2. PoolsDue = <<>> /\ LookasidesDue = <<>>
      BY <3>1, NothingJoined DEF PoolsDue, LookasidesDue
    <3> QED
      BY <3>2
  <2>4. PoolsDue' = PoolsDue /\ LookasidesDue' = LookasidesDue
    BY <1>1, <2>1, SameDue
  <2>5. OutIs'
    BY <1>1, <2>1, <2>2, <2>3, <2>4 DEF OutIs, BeforeJoin, Ended
  <2>6. PoolsAre' /\ LookasidesAre'
    BY <1>1, <2>1 DEF ListInv, PoolsAre, LookasidesAre, BeforeJoin, BeforeLookasides
  <2>7. "np" \notin heap /\ "p" \notin heap
    <3>1. "np" \in Parts /\ "p" \in Parts
      BY PartsAre
    <3>2. local["np"] = NULL /\ local["p"] = NULL
      BY <2>1, <3>1 DEF ListInv, PartIs, Pending
    <3> QED
      BY <2>1, <3>2 DEF ListInv, HeapIs, BeforeJoin
  <2>8. Basics' /\ HeapIs'
    BY <1>1, <2>1, <2>7 DEF ListInv, Basics, HeapIs, BeforeJoin
  <2> QED
    BY <1>2, <2>5, <2>6, <2>8 DEF ListInv
<1>5. CASE Cleanup
  <2>1. /\ pc = "cleanup" /\ pc' = "done" /\ UNCHANGED <<poolTypes, bLookaside>>
        /\ heap' \subseteq heap
        /\ pPoolDescs # NULL => "pools" \notin heap'
        /\ pLookasideDescs # NULL => "lookasides" \notin heap'
    BY <1>5 DEF Cleanup, opts
  <2>2. PoolsDue' = PoolsDue /\ LookasidesDue' = LookasidesDue
    BY <1>1, <2>1, SameDue
  <2>3. OutIs'
    BY <1>1, <2>1, <2>2 DEF ListInv, OutIs, BeforeJoin, Ended
  <2>4. PoolsAre' /\ LookasidesAre'
    BY <1>1, <2>1 DEF ListInv, PoolsAre, LookasidesAre, BeforeJoin, BeforeLookasides
  <2>5. Basics' /\ HeapIs'
    BY <1>1, <2>1 DEF ListInv, Basics, HeapIs, BeforeJoin
  <2> QED
    BY <1>2, <2>3, <2>4, <2>5 DEF ListInv
<1> QED
  BY <1>3, <1>4, <1>5

-----------------------------------------------------------------------------
LEMMA ListInit == Init => ListInv
<1> SUFFICES ASSUME Init PROVE ListInv
  OBVIOUS
<1>1. /\ target \in Targets /\ poolTypes = {} /\ bLookaside = FALSE /\ pc = "options"
      /\ local = [part \in Parts |-> NULL] /\ pPoolDescs = NULL /\ pLookasideDescs = NULL
      /\ heap = {} /\ failed = {} /\ out = <<>>
  BY DEF Init
<1>2. Basics
  BY <1>1 DEF Basics
<1>3. ASSUME NEW q \in Parts PROVE PartIs(q)
  <2>1. Pending(q) /\ ~Filling(q) /\ local[q] = NULL
    BY <1>1 DEF Pending, Filling
  <2> QED
    BY <1>1, <2>1 DEF PartIs
<1>4. PoolsAre /\ LookasidesAre /\ OutIs /\ HeapIs
  BY <1>1 DEF PoolsAre, LookasidesAre, OutIs, HeapIs, BeforeJoin, BeforeLookasides, Ended
<1> QED
  BY <1>1, <1>2, <1>3, <1>4 DEF ListInv

LEMMA ListStutter == ListInv /\ UNCHANGED vars => ListInv'
<1> SUFFICES ASSUME ListInv, UNCHANGED vars PROVE ListInv'
  OBVIOUS
<1>1. UNCHANGED <<target, poolTypes, bLookaside, pc, local, pPoolDescs, pLookasideDescs, heap, failed, out>>
  BY DEF vars
<1>2. PoolsDue' = PoolsDue /\ LookasidesDue' = LookasidesDue
  BY <1>1, SameDue
<1>3. ASSUME NEW q \in Parts PROVE PartIs(q)' /\ Read(q)' = Read(q)
  <2>1. Read(q)' = Read(q)
    BY <1>1, SameRead
  <2>2. Whole(q)' = Whole(q) /\ Exists(q)' = Exists(q) /\ Wanted' = Wanted
    BY <1>1, SameWhole DEF Wanted, NumPaged
  <2>3. PartIs(q)
    BY DEF ListInv
  <2>4. Pending(q)' = Pending(q) /\ Filling(q)' = Filling(q) /\ Ended' = Ended /\ Value(q)' = Value(q)
    BY <1>1, Zenon DEF Pending, Filling, Ended, Value
  <2> QED
    BY <1>1, <2>1, <2>2, <2>3, <2>4 DEF PartIs
<1>4. PoolsRead' = PoolsRead /\ LookasidesRead' = LookasidesRead
  BY <1>3, PartsAre DEF PoolsRead, LookasidesRead
<1>5. PoolsAre' /\ LookasidesAre'
  BY <1>1, <1>4 DEF ListInv, PoolsAre, LookasidesAre, PoolsRead, LookasidesRead
<1>6. OutIs' /\ HeapIs' /\ Basics'
  BY <1>1, <1>2 DEF ListInv, OutIs, HeapIs, Basics, Ended
<1> QED
  BY <1>1, <1>3, <1>5, <1>6 DEF ListInv

LEMMA ListStep == ListInv /\ [Next]_vars => ListInv'
  BY PoolPartsStep, LookasidePartsStep, JoinPoolsStep, JoinLookasidesStep, PrintStep, OptionsStep,
     ListStutter DEF Next, Finished

LEMMA ListInvIsInvariant == Spec => []ListInv
  BY ListInit, ListStep, PTL DEF Spec

-----------------------------------------------------------------------------
LEMMA OutIsList == ListInv => out \in Seq(Descs)
<1> SUFFICES ASSUME ListInv PROVE out \in Seq(Descs)
  OBVIOUS
<1>1. PoolsDue \in Seq(Descs) /\ LookasidesDue \in Seq(Descs)
  BY DueAreLists DEF ListInv, Basics
<1>2. out = <<>> \/ out = PoolsDue \/ out = PoolsDue \o LookasidesDue
  BY DEF ListInv, OutIs, Basics, Ended, BeforeJoin
<1>3. \A x, y \in Seq(Descs) : x \o y \in Seq(Descs)
  OBVIOUS
<1>4. PoolsDue \o LookasidesDue \in Seq(Descs) /\ <<>> \in Seq(Descs)
  <2>1. PoolsDue \o LookasidesDue \in Seq(Descs)
    BY <1>1, <1>3, Zenon
  <2> QED
    BY <2>1
<1> QED
  BY <1>2, <1>4, <1>1, Zenon

\* Every descriptor listed is one of the target's: an entry of a part, numbered
\* within its array, of a processor there is.
THEOREM ListTypeCorrect == Spec => []TypeOK
<1>1. ListInv => TypeOK
  BY OutIsList DEF ListInv, Basics, PartIs, PoolsAre, LookasidesAre, TypeOK
<1> QED
  BY <1>1, ListInvIsInvariant, PTL

\* What is left allocated at the end: neither list, and of the pools' arrays
\* only one that has no entries.
THEOREM ListsFreed == Spec => []ListsAreFreed
<1>1. ListInv => ListsAreFreed
  BY DEF ListInv, HeapIs, ListsAreFreed, BeforeJoin
<1> QED
  BY <1>1, ListInvIsInvariant, PTL

\* The listing shows what is due, for any number of processors and of pools,
\* and whatever fails.
THEOREM ListingExact == Spec => []ListingIsExact
<1>1. ListInv => ListingIsExact
  <2> SUFFICES ASSUME ListInv, pc = "done"
               PROVE  out = FlattenSeq([k \in 1 .. 7 |-> Due((PoolParts \o LookasideParts)[k])])
    BY DEF ListingIsExact
  <2>1. out = PoolsDue \o LookasidesDue
    BY DEF ListInv, OutIs, Ended
  <2>2. PICK s : s = [k \in 1 .. 7 |-> Due((PoolParts \o LookasideParts)[k])]
    OBVIOUS
  <2>3. PoolParts \o LookasideParts = <<"np", "p", "s", "nx", "lnp", "lp", "ls">>
    <3>1. PICK x : x = PoolParts \o LookasideParts
      OBVIOUS
    <3>2. Len(x) = 7
      BY <3>1 DEF PoolParts, LookasideParts
    <3>3. /\ x[1] = "np" /\ x[2] = "p" /\ x[3] = "s" /\ x[4] = "nx" /\ x[5] = "lnp" /\ x[6] = "lp"
          /\ x[7] = "ls"
      BY <3>1 DEF PoolParts, LookasideParts
    <3>4. x \in Seq({"np", "p", "s", "nx", "lnp", "lp", "ls"})
      <4>1. PICK u, v : u = PoolParts /\ v = LookasideParts
        OBVIOUS
      <4>2. u \in Seq({"np", "p", "s", "nx", "lnp", "lp", "ls"})
        BY <4>1 DEF PoolParts
      <4>3. v \in Seq({"np", "p", "s", "nx", "lnp", "lp", "ls"})
        BY <4>1 DEF LookasideParts
      <4> QED
        BY <3>1, <4>1, <4>2, <4>3
    <3>5. x = <<"np", "p", "s", "nx", "lnp", "lp", "ls">>
      BY <3>2, <3>3, <3>4
    <3> QED
      BY <3>1, <3>5
  <2>4. /\ Len(s) = 7 /\ s[1] = Due("np") /\ s[2] = Due("p") /\ s[3] = Due("s")
        /\ s[4] = Due("nx") /\ s[5] = Due("lnp") /\ s[6] = Due("lp") /\ s[7] = Due("ls")
    BY <2>2, <2>3
  <2>5. \A q \in {"np", "p", "s", "nx", "lnp", "lp", "ls"} : Due(q) \in Seq(Descs)
    BY DueAreLists, PartsAre DEF ListInv, Basics
  <2>6. FlattenSeq(s) = PoolsDue \o LookasidesDue
    <3>1. \A k \in 1 .. 7 : s[k] \in Seq(Descs)
      BY <2>4, <2>5
    <3>2. FlattenSeq(s) = ((s[1] \o s[2]) \o s[3]) \o (((s[4] \o s[5]) \o s[6]) \o s[7])
      BY <2>4, <3>1, FlattenSeven DEF SevenLists
    <3> QED
      BY <2>4, <3>2, Zenon DEF PoolsDue, LookasidesDue
  <2> QED
    BY <2>1, <2>2, <2>6
<1> QED
  BY <1>1, ListInvIsInvariant, PTL
=============================================================================
