--------------------------- MODULE ListWalkProofs ---------------------------
(***************************************************************************)
(* The walks over the free lists of a pool descriptor and of a lookaside,  *)
(* for every target: however the links lead, whichever reads fail, and     *)
(* with either callback.                                                   *)
(*                                                                         *)
(* The two walks differ in when they count, in what ends a list and in     *)
(* what they do with the callback's answer.  StepMoves says what a step of *)
(* either does in terms common to both (Moves); the invariants are about   *)
(* these.                                                                  *)
(*                                                                         *)
(* First, facts about the lists in any memory: the recursion that At is,   *)
(* how the entries of a list follow each other, and that a list which ends *)
(* is no longer than there are cells.                                      *)
(***************************************************************************)
EXTENDS ListWalk, OrderProofs

-----------------------------------------------------------------------------
\* The cell after the one a link leads to.
Follow(m, a) == IF a \in Cells THEN m.link[a] ELSE Junk

LEMMA AtIs ==
  ASSUME NEW m, NEW h
  PROVE  At(m, h) = [n \in Nat |-> IF n = 0 THEN m.link[h] ELSE Follow(m, At(m, h)[n - 1])]
<1> DEFINE P(f, n) == f[0] = m.link[h] /\ \A k \in 1 .. n : f[k] = Follow(m, f[k - 1])
           D(f) == f = [n \in Nat |-> IF n = 0 THEN m.link[h] ELSE Follow(m, f[n - 1])]
<1>1. \A n \in Nat : \E f : P(f, n)
  <2> DEFINE S == {n \in Nat : \E f : P(f, n)}
  <2>1. 0 \in S
    <3>1. P([x \in {0} |-> m.link[h]], 0)
      OBVIOUS
    <3> QED
      BY <3>1
  <2>2. ASSUME NEW n \in Nat, n \in S PROVE n + 1 \in S
    <3>1. PICK f : P(f, n)
      BY <2>2
    <3> DEFINE g == [k \in 0 .. n + 1 |-> IF k = n + 1 THEN Follow(m, f[n]) ELSE f[k]]
    <3>2. P(g, n + 1)
      BY <3>1
    <3> HIDE DEF g
    <3>3. \E e : P(e, n + 1)
      BY <3>2
    <3> QED
      BY <3>3
  <2> HIDE DEF S
  <2>3. Nat \subseteq S
    BY <2>1, <2>2, SetInduction
  <2> QED
    BY <2>3 DEF S
<1>2. \A n \in Nat : \A f, g : P(f, n) /\ P(g, n) => \A k \in 0 .. n : f[k] = g[k]
  <2> SUFFICES ASSUME NEW n \in Nat, NEW f, NEW g, P(f, n), P(g, n)
               PROVE  \A k \in 0 .. n : f[k] = g[k]
    OBVIOUS
  <2> DEFINE S == {k \in Nat : k <= n => f[k] = g[k]}
  <2>1. 0 \in S
    OBVIOUS
  <2>2. ASSUME NEW k \in Nat, k \in S PROVE k + 1 \in S
    BY <2>2
  <2> HIDE DEF S
  <2>3. Nat \subseteq S
    BY <2>1, <2>2, SetInduction
  <2> QED
    BY <2>3 DEF S
<1> DEFINE at == [n \in Nat |-> (CHOOSE f : P(f, n))[n]]
<1>3. D(at)
  <2>1. \A n \in Nat : P(CHOOSE f : P(f, n), n)
    BY <1>1
  <2>2. ASSUME NEW n \in Nat, n # 0 PROVE at[n] = Follow(m, at[n - 1])
    <3> DEFINE f == CHOOSE e : P(e, n)
               g == CHOOSE e : P(e, n - 1)
    <3>1. P(f, n) /\ P(g, n - 1) /\ n - 1 \in Nat
      BY <2>1, <2>2
    <3>2. P(f, n - 1)
      BY <3>1
    <3>3. f[n - 1] = g[n - 1]
      BY <1>2, <3>1, <3>2
    <3> QED
      BY <2>2, <3>1, <3>3
  <2>3. at[0] = m.link[h]
    BY <2>1
  <2> QED
    BY <2>2, <2>3
<1>4. At(m, h) = CHOOSE f : D(f)
  BY DEF At, Follow
<1> HIDE DEF at
<1>5. D(CHOOSE f : D(f))
  BY <1>3
<1> QED
  BY <1>4, <1>5

\* The first link of a list is its head's, and the next is the one in the cell
\* a link leads to.
LEMMA AtFirst ==
  ASSUME NEW m, NEW h
  PROVE  At(m, h)[0] = m.link[h]
<1> DEFINE at == At(m, h)
<1>1. at = [n \in Nat |-> IF n = 0 THEN m.link[h] ELSE Follow(m, at[n - 1])]
  BY AtIs
<1> HIDE DEF at
<1>2. at[0] = m.link[h]
  BY <1>1
<1> QED
  BY <1>2 DEF at

LEMMA AtNext ==
  ASSUME NEW m, NEW h, NEW n \in Nat
  PROVE  At(m, h)[n + 1] = Follow(m, At(m, h)[n])
<1> DEFINE at == At(m, h)
<1>1. at = [k \in Nat |-> IF k = 0 THEN m.link[h] ELSE Follow(m, at[k - 1])]
  BY AtIs
<1> HIDE DEF at
<1>2. n + 1 \in Nat /\ n + 1 # 0 /\ (n + 1) - 1 = n
  OBVIOUS
<1>3. at[n + 1] = Follow(m, at[(n + 1) - 1])
  BY <1>1, <1>2
<1> QED
  BY <1>2, <1>3 DEF at

-----------------------------------------------------------------------------
LEMMA MaxLengthType == MaxLength \in Nat
  BY TargetAssumption, FS_CardinalityType DEF MaxLength

\* A list that does not end at its head has an entry.
LEMMA EntryFirst ==
  ASSUME NEW m, NEW h, NEW end, LinkReadable(m, h), m.link[h] # end
  PROVE  IsEntry(m, h, end, 0)
  BY AtFirst DEF IsEntry

\* An entry whose link can be read and does not lead to the end has another
\* behind it.
LEMMA EntryNext ==
  ASSUME NEW m, NEW h, NEW end, NEW n \in Nat, IsEntry(m, h, end, n),
         LinkReadable(m, At(m, h)[n]), m.link[At(m, h)[n]] # end
  PROVE  IsEntry(m, h, end, n + 1) /\ At(m, h)[n + 1] = m.link[At(m, h)[n]]
<1>1. At(m, h)[n + 1] = m.link[At(m, h)[n]]
  BY AtNext DEF LinkReadable, Follow
<1>2. \A k \in 0 .. (n + 1) - 1 : k = n \/ k \in 0 .. n - 1
  OBVIOUS
<1> QED
  BY <1>1, <1>2 DEF IsEntry

\* The entries before an entry are entries.
LEMMA EntryBefore ==
  ASSUME NEW m, NEW h, NEW end, NEW n \in Nat, IsEntry(m, h, end, n), NEW k \in 0 .. n
  PROVE  IsEntry(m, h, end, k)
  BY DEF IsEntry

\* Two cells from which the same link is reached lead on alike.
LEMMA SameBehind ==
  ASSUME NEW m, NEW h, NEW i \in Nat, NEW j \in Nat, At(m, h)[i] = At(m, h)[j]
  PROVE  \A k \in Nat : At(m, h)[i + k] = At(m, h)[j + k]
<1> DEFINE at == At(m, h)
           S == {k \in Nat : at[i + k] = at[j + k]}
<1> HIDE DEF at
<1>1. 0 \in S
  BY DEF at
<1>2. ASSUME NEW k \in Nat, k \in S PROVE k + 1 \in S
  <2>1. at[(i + k) + 1] = Follow(m, at[i + k]) /\ at[(j + k) + 1] = Follow(m, at[j + k])
    BY AtNext DEF at
  <2>2. i + (k + 1) = (i + k) + 1 /\ j + (k + 1) = (j + k) + 1
    OBVIOUS
  <2> QED
    BY <1>2, <2>1, <2>2
<1> HIDE DEF S
<1>3. Nat \subseteq S
  BY <1>1, <1>2, SetInduction
<1> QED
  BY <1>3 DEF S, at

\* The entries of a list that ends are different cells ...
LEMMA EntriesDiffer ==
  ASSUME NEW m, NEW h, NEW end, NEW n \in Nat, IsEntry(m, h, end, n), At(m, h)[n + 1] = end,
         NEW i \in 0 .. n, NEW j \in 0 .. n, i < j
  PROVE  At(m, h)[i] # At(m, h)[j]
<1> SUFFICES ASSUME At(m, h)[i] = At(m, h)[j] PROVE FALSE
  OBVIOUS
<1> DEFINE k == n + 1 - j
<1>1. k \in Nat /\ i + k \in 0 .. n /\ j + k = n + 1
  OBVIOUS
<1>2. At(m, h)[i + k] = end
  BY <1>1, SameBehind
<1> HIDE DEF k
<1>3. i + k = n \/ i + k \in 0 .. n - 1
  BY <1>1
<1> QED
  BY <1>2, <1>3 DEF IsEntry

\* ... and so it has at most as many as there are cells.
LEMMA ListIsShort ==
  ASSUME NEW m \in Memory, NEW h, NEW end, NEW n \in Nat, IsEntry(m, h, end, n),
         LinkReadable(m, At(m, h)[n]), m.link[At(m, h)[n]] = end
  PROVE  n + 1 \in 0 .. MaxLength
<1>1. At(m, h)[n + 1] = end
  BY AtNext DEF LinkReadable, Follow
<1> DEFINE f == [k \in 0 .. n |-> At(m, h)[k]]
<1>2. f \in [0 .. n -> Cells]
  BY DEF IsEntry, LinkReadable
<1>3. \A i, j \in 0 .. n : f[i] = f[j] => i = j
  <2>1. \A i, j \in 0 .. n : i < j => f[i] # f[j]
    BY <1>1, EntriesDiffer
  <2> HIDE DEF f
  <2> QED
    BY <2>1
<1>4. f \in Injection(0 .. n, Cells)
  BY <1>2, <1>3 DEF Injection, IsInjective
<1>5. IsFiniteSet(Cells)
  BY TargetAssumption
<1> HIDE DEF f
<1>6. Cardinality(0 .. n) <= Cardinality(Cells)
  BY <1>4, <1>5, FS_Injection
<1>7. Cardinality(0 .. n) = n + 1
  BY FS_Interval
<1>8. Cardinality(Cells) \in Nat
  BY <1>5, FS_CardinalityType
<1> QED
  BY <1>6, <1>7, <1>8 DEF MaxLength

-----------------------------------------------------------------------------
\* Coming from its last entry to the end, a list has been followed whole.
LEMMA ListEnds ==
  ASSUME NEW m \in Memory, NEW h, NEW end, NEW n \in Nat, IsEntry(m, h, end, n),
         LinkReadable(m, At(m, h)[n]), m.link[At(m, h)[n]] = end
  PROVE  Closes(m, h, end) /\ Positions(m, h, end) = 0 .. n
<1>1. n + 1 \in 0 .. MaxLength
  BY ListIsShort
<1>2. At(m, h)[n + 1] = end
  BY AtNext DEF LinkReadable, Follow
<1>3. \A k \in 0 .. (n + 1) - 1 : k = n \/ k \in 0 .. n - 1
  OBVIOUS
<1>4. Closes(m, h, end)
  <2>1. \A k \in 0 .. (n + 1) - 1 : LinkReadable(m, At(m, h)[k])
    BY <1>3 DEF IsEntry
  <2> QED
    BY <1>1, <1>2, <2>1 DEF Closes, IsEntry
<1>5. ASSUME NEW k \in 0 .. MaxLength, IsEntry(m, h, end, k) PROVE k \in 0 .. n
  <2>1. SUFFICES ASSUME k > n PROVE FALSE
    BY MaxLengthType
  <2>2. n + 1 = k \/ n + 1 \in 0 .. k - 1
    BY <2>1
  <2> QED
    BY <1>2, <1>5, <2>2 DEF IsEntry
<1>6. ASSUME NEW k \in 0 .. n PROVE k \in 0 .. MaxLength /\ IsEntry(m, h, end, k)
  <2>1. k \in 0 .. MaxLength
    BY <1>1, MaxLengthType
  <2> QED
    BY <2>1, EntryBefore
<1> QED
  BY <1>4, <1>5, <1>6 DEF Positions

\* An empty list has no entry.
LEMMA EmptyList ==
  ASSUME NEW m, NEW h, NEW end, LinkReadable(m, h), m.link[h] = end
  PROVE  Closes(m, h, end) /\ Positions(m, h, end) = {}
<1>1. At(m, h)[0] = end
  BY AtFirst
<1>2. 0 \in 0 .. MaxLength
  BY MaxLengthType
<1>3. Closes(m, h, end)
  BY <1>1, <1>2 DEF Closes
<1>4. ASSUME NEW k \in 0 .. MaxLength, IsEntry(m, h, end, k) PROVE FALSE
  <2>1. k = 0 \/ 0 \in 0 .. k - 1
    BY MaxLengthType
  <2> QED
    BY <1>1, <1>4, <2>1 DEF IsEntry
<1> QED
  BY <1>3, <1>4 DEF Positions

\* On a list that leads to its end every link can be read, and no entry is
\* further from the head than there are cells.
LEMMA ClosedIsReadable ==
  ASSUME NEW m, NEW h, NEW end, Closes(m, h, end)
  PROVE  /\ LinkReadable(m, h)
         /\ \A n \in Nat : IsEntry(m, h, end, n) => LinkReadable(m, At(m, h)[n]) /\ n \in Positions(m, h, end)
<1>1. PICK last \in 0 .. MaxLength :
        /\ LinkReadable(m, h) /\ At(m, h)[last] = end
        /\ \A k \in 0 .. last - 1 : LinkReadable(m, At(m, h)[k])
  BY DEF Closes
<1>2. ASSUME NEW n \in Nat, IsEntry(m, h, end, n)
      PROVE  LinkReadable(m, At(m, h)[n]) /\ n \in Positions(m, h, end)
  <2>1. last \in Nat
    BY MaxLengthType
  <2>2. last # n /\ last \notin 0 .. n - 1
    BY <1>1, <1>2 DEF IsEntry
  <2>3. n \in 0 .. last - 1
    BY <2>1, <2>2
  <2>4. n \in 0 .. MaxLength
    BY <2>3, MaxLengthType
  <2> QED
    BY <1>1, <1>2, <2>3, <2>4 DEF Positions
<1> QED
  BY <1>1, <1>2

-----------------------------------------------------------------------------
WalkKinds   == {"listHeads", "lookaside"}
Places      == Cells \cup {NULL, Junk}
CallRecords == [bucket : Indexes, empty : BOOLEAN, kChunk : Places, count : Nat]
Walking     == {"bucket", "call", "next"}

LEMMA MemoriesAreMemory == Memories \subseteq Memory
  BY TargetAssumption DEF Memories, Memory

LEMMA LinksLeadToPlaces ==
  ASSUME NEW m \in Memory, NEW a, LinkReadable(m, a)
  PROVE  a \in Cells /\ m.link[a] \in Places
  BY DEF Memory, LinkReadable, Places

\* The modules of the two walks and of the abstract enumeration are about the
\* same target.
LEMMA ListHeadsTarget ==
  /\ L!Memory = Memory /\ L!Memories = Memories /\ L!FindPtr = FindPtr /\ L!NoFind = NoFind
  /\ L!Cells = Cells
  /\ \A d, b : L!ListHead(d, b) = ListHead(d, b)
  /\ \A m, a : L!LinkReadable(m, a) <=> LinkReadable(m, a)
  /\ \A m, a : L!HeaderReadable(m, a) <=> HeaderReadable(m, a)
  BY DEF L!Memory, L!Memories, L!FindPtr, L!NoFind, L!Cells, L!Heads, L!ListHead, L!LinkReadable,
         L!HeaderReadable, Memory, Memories, FindPtr, NoFind, Cells, Heads, ListHead, LinkReadable,
         HeaderReadable

LEMMA LookasidesTarget ==
  /\ K!Memory = Memory /\ K!Memories = Memories /\ K!FindPtr = FindPtr /\ K!NoFind = NoFind
  /\ K!Cells = Cells
  /\ \A d, b : K!ListHead(d, b) = ListHead(d, b)
  /\ \A m, a : K!LinkReadable(m, a) <=> LinkReadable(m, a)
  /\ \A m, a : K!HeaderReadable(m, a) <=> HeaderReadable(m, a)
  BY DEF K!Memory, K!Memories, K!FindPtr, K!NoFind, K!Cells, K!Heads, K!ListHead, K!LinkReadable,
         K!HeaderReadable, Memory, Memories, FindPtr, NoFind, Cells, Heads, ListHead, LinkReadable,
         HeaderReadable

LEMMA EnumerationTarget ==
  /\ Abstract!Memory = Memory
  /\ \A d, b : Abstract!ListHead(d, b) = ListHead(d, b)
  /\ \A m, a : Abstract!LinkReadable(m, a) = LinkReadable(m, a)
  /\ \A k, h : Abstract!EndOf(k, h) = EndOf(k, h)
  /\ \A k, d : Abstract!NumBuckets(k, d) = NumBuckets(k, d)
  BY DEF Abstract!LinkReadable, Abstract!ListHead, Abstract!Cells, Abstract!Heads, Abstract!Memory,
         Abstract!EndOf, Abstract!NumBuckets, LinkReadable, ListHead, Cells, Heads, Memory, EndOf, NumBuckets

\* What a list is, in the modules of the two walks.
LEMMA ListHeadsLists ==
  /\ \A m, h, e, n : L!IsEntry(m, h, e, n) <=> IsEntry(m, h, e, n)
  /\ \A m, h, e : L!Closes(m, h, e) <=> Closes(m, h, e)
  /\ \A m, h, e : L!NoHolder(m, h, e) <=> NoHolder(m, h, e)
  /\ \A m, h, e, n : L!FirstHolder(m, h, e, n) <=> FirstHolder(m, h, e, n)
  /\ \A m, h : L!At(m, h) = At(m, h)
<1>1. \A m, h : L!At(m, h) = At(m, h)
  BY DEF L!At, At, L!Cells, L!Heads, Cells, Heads
<1>2. L!MaxLength = MaxLength
  BY DEF L!MaxLength, MaxLength, L!Cells, L!Heads, Cells, Heads, Cardinality, L!Cardinality
<1>3. \A m, h, e, n : L!IsEntry(m, h, e, n) <=> IsEntry(m, h, e, n)
  BY <1>1, ListHeadsTarget DEF L!IsEntry, IsEntry
<1>4. \A m, h, e : L!Closes(m, h, e) <=> Closes(m, h, e)
  BY <1>1, <1>2, ListHeadsTarget DEF L!Closes, Closes
<1>5. \A m, h, e : L!Positions(m, h, e) = Positions(m, h, e)
  BY <1>2, <1>3 DEF L!Positions, Positions
<1>6. \A m, h, e : L!NoHolder(m, h, e) <=> NoHolder(m, h, e)
  BY <1>1, <1>5 DEF L!NoHolder, NoHolder
<1>7. \A m, h, e, n : L!FirstHolder(m, h, e, n) <=> FirstHolder(m, h, e, n)
  BY <1>1, <1>3 DEF L!FirstHolder, FirstHolder
<1> QED
  BY <1>1, <1>3, <1>4, <1>6, <1>7

LEMMA LookasidesLists ==
  /\ \A m, h, e, n : K!IsEntry(m, h, e, n) <=> IsEntry(m, h, e, n)
  /\ \A m, h, e : K!Closes(m, h, e) <=> Closes(m, h, e)
  /\ \A m, h, e : K!NoHolder(m, h, e) <=> NoHolder(m, h, e)
  /\ \A m, h : K!At(m, h) = At(m, h)
<1>1. \A m, h : K!At(m, h) = At(m, h)
  BY DEF K!At, At, K!Cells, K!Heads, Cells, Heads
<1>2. K!MaxLength = MaxLength
  BY DEF K!MaxLength, MaxLength, K!Cells, K!Heads, Cells, Heads, Cardinality, K!Cardinality
<1>3. \A m, h, e, n : K!IsEntry(m, h, e, n) <=> IsEntry(m, h, e, n)
  BY <1>1, LookasidesTarget DEF K!IsEntry, IsEntry
<1>4. \A m, h, e : K!Closes(m, h, e) <=> Closes(m, h, e)
  BY <1>1, <1>2, LookasidesTarget DEF K!Closes, Closes
<1>5. \A m, h, e : K!Positions(m, h, e) = Positions(m, h, e)
  BY <1>2, <1>3 DEF K!Positions, Positions
<1>6. \A m, h, e : K!NoHolder(m, h, e) <=> NoHolder(m, h, e)
  BY <1>1, <1>5 DEF K!NoHolder, NoHolder
<1> QED
  BY <1>1, <1>3, <1>4, <1>6

-----------------------------------------------------------------------------
(***************************************************************************)
(* Either walk, in common terms.                                           *)
(***************************************************************************)

head == HeadOf(bucket)
end  == EndOf(kind, head)

\* The entries of the bucket the callback has been called with.
Passed ==
  IF pc = "bucket" THEN 0 ELSE IF kind = "lookaside" /\ pc = "next" THEN count + 1 ELSE count

\* The number of the entry the walk is at.
Index == IF pc = "next" THEN Passed - 1 ELSE Passed

WalkType ==
  /\ kind \in WalkKinds
  /\ mem \in Memory
  /\ desc \in Descs
  /\ want \in (0 .. NumBuckets(kind, desc) - 1) \cup {All}
  /\ enumProc \in {"find", "print"}
  /\ pc \in {"idle", "bucket", "call", "next", "done"}
  /\ bucket \in 0 .. NumBuckets(kind, desc) - 1
  /\ cur \in Places
  /\ count \in 0 .. MaxCount
  /\ pc = "next" => Index \in 0 .. MaxCount - 1
  /\ bRet \in BOOLEAN
  /\ find \in FindPtr
  /\ calls \in Seq(CallRecords)

Fails == enumProc = "find" /\ ~HeaderReadable(mem, cur)
Finds == enumProc = "find" /\ HeaderReadable(mem, cur) /\ cur \in mem.holds

\* The bucket is over, with answer r.
Returns(r) ==
  /\ bRet' = r
  /\ IF r /\ want = All /\ bucket + 1 < NumBuckets(kind, desc)
     THEN pc' = "bucket" /\ bucket' = bucket + 1
     ELSE pc' = "done"   /\ bucket' = bucket

\* A link cannot be read.
BreaksOff ==
  /\ \/ pc = "bucket" /\ ~LinkReadable(mem, head)
     \/ pc = "next"   /\ ~LinkReadable(mem, cur)
  /\ pc' = "done" /\ bRet' = FALSE
  /\ UNCHANGED <<bucket, cur, count, find, calls>>

ShowsEmpty ==
  /\ pc = "bucket" /\ LinkReadable(mem, head) /\ mem.link[head] = end
  /\ calls' = Append(calls, [bucket |-> bucket, empty |-> TRUE, kChunk |-> NULL, count |-> 0])
  /\ Returns(TRUE)
  /\ UNCHANGED <<cur, count, find>>

Enters ==
  /\ pc = "bucket" /\ LinkReadable(mem, head) /\ mem.link[head] # end
  /\ pc' = "call" /\ cur' = mem.link[head] /\ count' = 0
  /\ UNCHANGED <<bucket, bRet, find, calls>>

\* The callback is called with an entry; that of ListHeads may end the walk.
Shows ==
  /\ pc = "call"
  /\ calls' = Append(calls, [bucket |-> bucket, empty |-> FALSE, kChunk |-> cur, count |-> count])
  /\ IF Finds
     THEN /\ find' \in FindPtr
          /\ find'.kChunk = cur /\ find'.bucket = bucket /\ find'.count = count
          /\ kind = "lookaside" => find'.kDesc = head
     ELSE find' = find
  /\ \/ /\ pc' = "next"
        /\ bRet' = IF kind = "lookaside" THEN ~(Fails \/ Finds) ELSE bRet
        /\ kind = "listHeads" => ~Fails /\ ~Finds
        /\ Index' = Index /\ Index' \in 0 .. MaxCount - 1
     \/ /\ pc' = "done" /\ bRet' = FALSE
        /\ kind = "listHeads" /\ (Fails \/ Finds)
  /\ count' \in 0 .. MaxCount
  /\ UNCHANGED <<bucket, cur>>

Advances ==
  /\ pc = "next" /\ LinkReadable(mem, cur) /\ mem.link[cur] # end
  /\ pc' = "call" /\ cur' = mem.link[cur]
  /\ Index' = Index + 1 /\ count' \in 0 .. MaxCount
  /\ UNCHANGED <<bucket, bRet, find, calls>>

\* The end of the list.
Leaves ==
  /\ pc = "next" /\ LinkReadable(mem, cur) /\ mem.link[cur] = end
  /\ Returns(IF kind = "listHeads" THEN TRUE ELSE bRet)
  /\ cur' \in Places /\ count' \in 0 .. MaxCount
  /\ UNCHANGED <<find, calls>>

Same == UNCHANGED <<kind, mem, desc, want, enumProc>>

Moves == Same /\ (BreaksOff \/ ShowsEmpty \/ Enters \/ Shows \/ Advances \/ Leaves)

\* A call of the enumeration, for one of its callbacks.
Begins(d, w, proc) ==
  /\ desc' = d /\ want' = w /\ enumProc' = proc
  /\ pc' = "bucket" /\ bucket' = (IF w = All THEN 0 ELSE w)
  /\ calls' = <<>>
  /\ UNCHANGED <<kind, mem, cur, count, bRet, find>>

LEMMA BucketCounts ==
  ASSUME NEW k \in WalkKinds, NEW d \in Descs
  PROVE  /\ NumBuckets(k, d) \in Nat \ {0}
         /\ 0 .. NumBuckets(k, d) - 1 \subseteq Indexes /\ 0 .. NumBuckets(k, d) - 1 \subseteq Nat
         /\ 0 \in 0 .. NumBuckets(k, d) - 1
  BY TargetAssumption DEF NumBuckets, WalkKinds

LEMMA ListHeadsMoves ==
  ASSUME WalkType, kind = "listHeads", L!Step, kind' = kind
  PROVE  Moves
<1> USE ListHeadsTarget DEF L!args, Same
<1>0. /\ L!head = head /\ end = head /\ ListHeadsBuckets = NumBuckets(kind, desc)
      /\ L!CallbackFails = Fails /\ L!CallbackFinds = Finds
      /\ count \in Nat /\ MaxCount \in Nat /\ cur \in Places /\ find \in FindPtr
  <2>1. L!head = head /\ end = head /\ ListHeadsBuckets = NumBuckets(kind, desc)
    BY DEF L!head, head, HeadOf, end, EndOf, NumBuckets
  <2>2. L!CallbackFails = Fails /\ L!CallbackFinds = Finds
    BY DEF L!CallbackFails, L!CallbackFinds, Fails, Finds
  <2> QED
    BY <2>1, <2>2, TargetAssumption DEF WalkType
<1>1. ASSUME NEW r \in BOOLEAN, L!Return(r) PROVE Returns(r)
  BY <1>0, <1>1 DEF L!Return, Returns
<1>2. CASE L!HeadUnreadable
  BY <1>0, <1>2 DEF L!HeadUnreadable, L!Return, BreaksOff, Moves
<1>3. CASE L!EmptyBucket
  BY <1>0, <1>1, <1>3 DEF L!EmptyBucket, L!CalledWith, ShowsEmpty, Moves
<1>4. CASE L!FirstEntry
  BY <1>0, <1>4 DEF L!FirstEntry, Enters, Moves
<1>5. CASE L!CallbackStops
  <2>1. /\ pc = "call" /\ (Fails \/ Finds) /\ pc' = "done" /\ bRet' = FALSE
        /\ calls' = Append(calls, [bucket |-> bucket, empty |-> FALSE, kChunk |-> cur, count |-> count])
        /\ UNCHANGED <<bucket, cur>> /\ Same
    BY <1>0, <1>5 DEF L!CallbackStops, L!Return, L!CalledWith
  <2>2. count' \in 0 .. MaxCount
    BY <1>0, <1>5 DEF L!CallbackStops, WalkType
  <2>3. CASE Finds
    <3>1. find' = [find EXCEPT !.kChunk = cur, !.bucket = bucket, !.count = count]
      BY <1>0, <1>5, <2>3 DEF L!CallbackStops, L!Found
    <3>2. cur \in Cells /\ bucket \in Indexes /\ count \in Nat
      BY <1>0, <2>3, BucketCounts DEF Finds, HeaderReadable, WalkType
    <3>3. /\ find' \in FindPtr
          /\ find'.kChunk = cur /\ find'.bucket = bucket /\ find'.count = count
      BY <1>0, <3>1, <3>2 DEF FindPtr
    <3> QED
      BY <2>1, <2>2, <2>3, <3>3 DEF Shows, Moves
  <2>4. CASE ~Finds
    <3>1. find' = find
      BY <1>0, <1>5, <2>4 DEF L!CallbackStops
    <3> QED
      BY <2>1, <2>2, <2>4, <3>1 DEF Shows, Moves
  <2> QED
    BY <2>3, <2>4
<1>6. CASE L!CallbackGoesOn
  <2>1. /\ pc = "call" /\ ~Fails /\ ~Finds /\ pc' = "next" /\ count' = count + 1 /\ count < MaxCount
        /\ calls' = Append(calls, [bucket |-> bucket, empty |-> FALSE, kChunk |-> cur, count |-> count])
        /\ UNCHANGED <<bucket, cur, bRet, find>> /\ Same
    BY <1>0, <1>6 DEF L!CallbackGoesOn, L!CalledWith
  <2>2. Index = count /\ Index' = count
    BY <1>0, <2>1 DEF Index, Passed
  <2>3. count' \in 0 .. MaxCount /\ count \in 0 .. MaxCount - 1
    BY <1>0, <2>1
  <2> QED
    BY <2>1, <2>2, <2>3 DEF Shows, Moves
<1>7. CASE L!NextUnreadable
  BY <1>0, <1>7 DEF L!NextUnreadable, L!Return, BreaksOff, Moves
<1>8. CASE L!NextEntry
  <2>1. /\ pc = "next" /\ LinkReadable(mem, cur) /\ mem.link[cur] # end /\ pc' = "call"
        /\ cur' = mem.link[cur] /\ UNCHANGED <<bucket, count, bRet, find, calls>> /\ Same
    BY <1>0, <1>8 DEF L!NextEntry
  <2>2. Index = count - 1 /\ Index' = count
    BY <2>1 DEF Index, Passed
  <2>3. count' \in 0 .. MaxCount /\ Index' = Index + 1
    BY <1>0, <2>1, <2>2 DEF WalkType
  <2> QED
    BY <2>1, <2>3 DEF Advances, Moves
<1>9. CASE L!LastEntry
  <2>1. /\ pc = "next" /\ LinkReadable(mem, cur) /\ mem.link[cur] = end
        /\ cur' = mem.link[cur] /\ UNCHANGED <<count, find, calls>> /\ Same /\ Returns(TRUE)
    BY <1>0, <1>1, <1>9 DEF L!LastEntry
  <2>2. cur' \in Places /\ count' \in 0 .. MaxCount
    BY <2>1, LinksLeadToPlaces DEF WalkType
  <2> QED
    BY <2>1, <2>2 DEF Leaves, Moves
<1> QED
  BY <1>2, <1>3, <1>4, <1>5, <1>6, <1>7, <1>8, <1>9 DEF L!Step

LEMMA LookasidesMoves ==
  ASSUME WalkType, kind = "lookaside", K!Step, kind' = kind
  PROVE  Moves
<1> USE LookasidesTarget DEF K!args, Same
<1>0. /\ K!kLookasideBucket = head /\ end = NULL /\ LookasideBuckets[desc] = NumBuckets(kind, desc)
      /\ K!CallbackFails = Fails /\ K!CallbackFinds = Finds
      /\ count \in Nat /\ MaxCount \in Nat /\ cur \in Places /\ find \in FindPtr
  <2>1. K!kLookasideBucket = head /\ end = NULL /\ LookasideBuckets[desc] = NumBuckets(kind, desc)
    BY DEF K!kLookasideBucket, head, HeadOf, end, EndOf, NumBuckets
  <2>2. K!CallbackFails = Fails /\ K!CallbackFinds = Finds
    BY DEF K!CallbackFails, K!CallbackFinds, Fails, Finds
  <2> QED
    BY <2>1, <2>2, TargetAssumption DEF WalkType
<1>1. ASSUME NEW r \in BOOLEAN, K!Return(r) PROVE Returns(r)
  BY <1>0, <1>1 DEF K!Return, Returns
<1>2. CASE K!HeadUnreadable
  BY <1>0, <1>2 DEF K!HeadUnreadable, K!Return, BreaksOff, Moves
<1>3. CASE K!EmptyBucket
  BY <1>0, <1>1, <1>3 DEF K!EmptyBucket, K!CalledWith, ShowsEmpty, Moves
<1>4. CASE K!FirstEntry
  BY <1>0, <1>4 DEF K!FirstEntry, Enters, Moves
<1>5. CASE K!CallbackCalled
  <2>1. /\ pc = "call" /\ pc' = "next" /\ count < MaxCount
        /\ calls' = Append(calls, [bucket |-> bucket, empty |-> FALSE, kChunk |-> cur, count |-> count])
        /\ bRet' = ~(Fails \/ Finds)
        /\ UNCHANGED <<bucket, cur, count>> /\ Same
    BY <1>0, <1>5 DEF K!CallbackCalled, K!CalledWith
  <2>2. Index = count /\ Index' = count /\ count \in 0 .. MaxCount - 1 /\ count' \in 0 .. MaxCount
    BY <1>0, <2>1 DEF Index, Passed
  <2>3. CASE Finds
    <3>1. find' = [kChunk |-> cur, bucket |-> bucket, count |-> count, kDesc |-> head]
      BY <1>0, <1>5, <2>3 DEF K!CallbackCalled, K!Found
    <3>2. cur \in Cells /\ bucket \in Indexes /\ head \in Heads
      BY <1>0, <2>3, BucketCounts DEF Finds, HeaderReadable, WalkType, head, HeadOf, ListHead, Heads
    <3>3. /\ find' \in FindPtr
          /\ find'.kChunk = cur /\ find'.bucket = bucket /\ find'.count = count /\ find'.kDesc = head
      BY <1>0, <3>1, <3>2 DEF FindPtr
    <3> QED
      BY <2>1, <2>2, <2>3, <3>3 DEF Shows, Moves
  <2>4. CASE ~Finds
    <3>1. find' = find
      BY <1>0, <1>5, <2>4 DEF K!CallbackCalled
    <3> QED
      BY <2>1, <2>2, <2>4, <3>1 DEF Shows, Moves
  <2> QED
    BY <2>3, <2>4
<1>6. CASE K!NextUnreadable
  BY <1>0, <1>6 DEF K!NextUnreadable, K!Return, BreaksOff, Moves
<1>7. CASE K!NextEntry
  <2>1. /\ pc = "next" /\ LinkReadable(mem, cur) /\ mem.link[cur] # end /\ pc' = "call"
        /\ cur' = mem.link[cur] /\ count' = count + 1 /\ UNCHANGED <<bucket, bRet, find, calls>> /\ Same
    BY <1>0, <1>7 DEF K!NextEntry
  <2>2. Index = count /\ Index' = count + 1
    BY <1>0, <2>1 DEF Index, Passed
  <2>3. count' \in 0 .. MaxCount /\ Index' = Index + 1
    BY <1>0, <2>1, <2>2 DEF WalkType
  <2> QED
    BY <2>1, <2>3 DEF Advances, Moves
<1>8. CASE K!LastEntry
  <2>1. /\ pc = "next" /\ LinkReadable(mem, cur) /\ mem.link[cur] = end
        /\ cur' = mem.link[cur] /\ count' = count + 1 /\ UNCHANGED <<find, calls>> /\ Same
    BY <1>0, <1>8 DEF K!LastEntry
  <2>2. Returns(bRet)
    BY <1>1, <1>8 DEF K!LastEntry, WalkType
  <2>3. Index = count
    BY <1>0, <2>1 DEF Index, Passed
  <2>4. cur' \in Places /\ count' \in 0 .. MaxCount
    BY <1>0, <2>1, <2>3, LinksLeadToPlaces DEF WalkType
  <2> QED
    BY <2>1, <2>2, <2>4 DEF Leaves, Moves
<1> QED
  BY <1>2, <1>3, <1>4, <1>5, <1>6, <1>7, <1>8 DEF K!Step

\* A step of either walk is one in the common terms.
LEMMA StepMoves == WalkType /\ WalkStep => Moves
<1> SUFFICES ASSUME WalkType, WalkStep PROVE Moves
  OBVIOUS
<1>1. kind' = kind
  BY DEF WalkStep
<1> QED
  BY <1>1, ListHeadsMoves, LookasidesMoves DEF WalkStep, WalkType, WalkKinds

\* A call of either enumeration begins a walk in the common terms.
LEMMA CallBegins ==
  ASSUME kind \in WalkKinds, kind' = kind, NEW d \in Descs, NEW w \in (0 .. NumBuckets(kind, d) - 1) \cup {All}, NEW proc,
         \/ kind = "listHeads" /\ L!Call(d, w, proc)
         \/ kind = "lookaside" /\ K!Call(d, w, proc)
  PROVE  Begins(d, w, proc)
<1>1. CASE kind = "listHeads" /\ L!Call(d, w, proc)
  BY <1>1 DEF L!Call, Begins
<1>2. CASE kind = "lookaside" /\ K!Call(d, w, proc)
  <2>1. bucket' < LookasideBuckets[d]
    <3>1. LookasideBuckets[d] \in Nat \ {0} /\ All \notin Nat
      BY TargetAssumption
    <3>2. w = All \/ w \in 0 .. LookasideBuckets[d] - 1
      BY <1>2 DEF NumBuckets
    <3>3. bucket' = IF w = All THEN 0 ELSE w
      BY <1>2 DEF K!Call
    <3> QED
      BY <3>1, <3>2, <3>3
  <2> QED
    BY <1>2, <2>1 DEF K!Call, Begins
<1> QED
  BY <1>1, <1>2

\* The begin of a walk from any state: only what it keeps must be typed.
LEMMA BeginType ==
  ASSUME kind \in WalkKinds, mem \in Memory, cur \in Places, count \in 0 .. MaxCount, bRet \in BOOLEAN,
         find \in FindPtr,
         NEW d \in Descs, NEW w \in (0 .. NumBuckets(kind, d) - 1) \cup {All},
         NEW proc \in {"find", "print"}, Begins(d, w, proc)
  PROVE  WalkType'
<1>1. bucket' \in 0 .. NumBuckets(kind, d) - 1
  BY BucketCounts DEF Begins
<1>2. calls' \in Seq(CallRecords)
  BY DEF Begins
<1> QED
  BY <1>1, <1>2 DEF Begins, WalkType

LEMMA ReturnType ==
  ASSUME WalkType, Same, NEW r \in BOOLEAN, Returns(r)
  PROVE  /\ bRet' = r /\ pc' \in {"bucket", "done"}
         /\ bucket' \in 0 .. NumBuckets(kind', desc') - 1
<1>1. NumBuckets(kind, desc) \in Nat \ {0} /\ kind' = kind /\ desc' = desc
  BY BucketCounts DEF WalkType, Same
<1> QED
  BY <1>1 DEF WalkType, Returns

LEMMA MovesType == WalkType /\ Moves => WalkType'
<1> SUFFICES ASSUME WalkType, Moves PROVE WalkType'
  OBVIOUS
<1>0. /\ Same /\ kind' \in WalkKinds /\ mem' \in Memory /\ desc' \in Descs
      /\ want' \in (0 .. NumBuckets(kind', desc') - 1) \cup {All} /\ enumProc' \in {"find", "print"}
      /\ bucket \in 0 .. NumBuckets(kind', desc') - 1
  BY DEF Moves, Same, WalkType
<1>1. MaxCount \in Nat /\ bucket \in Indexes
  BY BucketCounts, TargetAssumption DEF WalkType
<1>2. CASE BreaksOff
  BY <1>0, <1>2 DEF BreaksOff, WalkType
<1>3. CASE ShowsEmpty
  <2>1. [bucket |-> bucket, empty |-> TRUE, kChunk |-> NULL, count |-> 0] \in CallRecords
    BY <1>1 DEF CallRecords, Places
  <2>2. calls' \in Seq(CallRecords)
    BY <1>3, <2>1 DEF ShowsEmpty, WalkType
  <2> QED
    BY <1>0, <1>3, <2>2, ReturnType DEF ShowsEmpty, WalkType
<1>4. CASE Enters
  <2>1. cur' \in Places /\ count' \in 0 .. MaxCount
    BY <1>1, <1>4, LinksLeadToPlaces DEF Enters, WalkType
  <2> QED
    BY <1>0, <1>4, <2>1 DEF Enters, WalkType
<1>5. CASE Shows
  <2>1. [bucket |-> bucket, empty |-> FALSE, kChunk |-> cur, count |-> count] \in CallRecords
    <3>1. count \in Nat /\ cur \in Places
      BY <1>1 DEF WalkType
    <3> QED
      BY <1>1, <3>1 DEF CallRecords
  <2>2. calls' \in Seq(CallRecords)
    BY <1>5, <2>1 DEF Shows, WalkType
  <2>3. find' \in FindPtr /\ bRet' \in BOOLEAN
    BY <1>5 DEF Shows, WalkType
  <2>4. pc' \in {"next", "done"} /\ (pc' = "next" => Index' \in 0 .. MaxCount - 1)
    BY <1>5 DEF Shows
  <2> QED
    BY <1>0, <1>5, <2>2, <2>3, <2>4 DEF Shows, WalkType
<1>6. CASE Advances
  <2>1. cur' \in Places
    BY <1>6, LinksLeadToPlaces DEF Advances, WalkType
  <2> QED
    BY <1>0, <1>6, <2>1 DEF Advances, WalkType
<1>7. CASE Leaves
  <2>1. (IF kind = "listHeads" THEN TRUE ELSE bRet) \in BOOLEAN
    BY DEF WalkType
  <2>2. bRet' \in BOOLEAN /\ pc' \in {"bucket", "done"} /\ bucket' \in 0 .. NumBuckets(kind', desc') - 1
    BY <1>0, <1>7, <2>1, ReturnType DEF Leaves
  <2> QED
    BY <1>0, <1>7, <2>2 DEF Leaves, WalkType
<1> QED
  BY <1>2, <1>3, <1>4, <1>5, <1>6, <1>7 DEF Moves

-----------------------------------------------------------------------------
(***************************************************************************)
(* Where the walk is.                                                      *)
(***************************************************************************)

\* The walk is at an entry of the list, and knows its number.
Place ==
  pc \in {"call", "next"} =>
    /\ Index \in Nat
    /\ IsEntry(mem, head, end, Index) /\ cur = At(mem, head)[Index]

LEMMA SameLists ==
  ASSUME Same
  PROVE  /\ \A b : HeadOf(b)' = HeadOf(b)
         /\ NumBuckets(kind, desc)' = NumBuckets(kind, desc)
         /\ mem' = mem /\ kind' = kind /\ desc' = desc /\ want' = want /\ enumProc' = enumProc
  BY DEF Same, HeadOf

LEMMA SameHead ==
  ASSUME Same, bucket' = bucket
  PROVE  head' = head /\ end' = end
  BY DEF Same, head, HeadOf, end

LEMMA MovesPlace == WalkType /\ Place /\ Moves => Place'
<1> SUFFICES ASSUME WalkType, Place, Moves, pc' \in {"call", "next"} PROVE Place'
  BY DEF Place
<1>0. Same /\ mem' = mem
  BY DEF Moves, Same
<1>1. CASE Enters
  <2>1. head' = head /\ end' = end
    BY <1>0, <1>1, SameHead DEF Enters
  <2>2. Index' = 0 /\ cur' = At(mem, head)[0] /\ IsEntry(mem, head, end, 0)
    BY <1>1, AtFirst, EntryFirst DEF Enters, Index, Passed
  <2> QED
    BY <1>0, <2>1, <2>2 DEF Place
<1>2. CASE Shows
  <2>1. head' = head /\ end' = end /\ Index' = Index /\ cur' = cur
    BY <1>0, <1>2, SameHead DEF Shows
  <2> QED
    BY <1>0, <1>2, <2>1 DEF Place, Shows
<1>3. CASE Advances
  <2>1. head' = head /\ end' = end /\ Index' = Index + 1 /\ cur' = mem.link[cur]
    BY <1>0, <1>3, SameHead DEF Advances
  <2>2. /\ Index \in Nat /\ IsEntry(mem, head, end, Index) /\ cur = At(mem, head)[Index]
        /\ LinkReadable(mem, cur) /\ mem.link[cur] # end
    BY <1>3 DEF Place, Advances
  <2>3. IsEntry(mem, head, end, Index + 1) /\ At(mem, head)[Index + 1] = mem.link[cur]
    BY <2>2, EntryNext
  <2>4. Index + 1 \in Nat
    BY <2>2
  <2> QED
    BY <1>0, <2>1, <2>3, <2>4 DEF Place
<1>4. CASE BreaksOff \/ ShowsEmpty \/ Leaves
  BY <1>4 DEF BreaksOff, ShowsEmpty, Leaves, Returns
<1> QED
  BY <1>1, <1>2, <1>3, <1>4 DEF Moves

LEMMA Counting ==
  /\ \A x \in Int, y \in Nat : x - 1 = y => x = y + 1
  /\ \A x \in Nat : \A k \in x .. x - 1 : FALSE
  OBVIOUS

\* The number of entries passed changes only with the calls.
LEMMA PassedSame ==
  ASSUME WalkType, Place, WalkType', Enters \/ Advances
  PROVE  Passed' = Passed
<1>1. CASE Enters
  BY <1>1 DEF Enters, Passed
<1>2. CASE Advances
  <2>1. pc = "next" /\ Index' = Index + 1 /\ pc' = "call"
    BY <1>2 DEF Advances
  <2>2. Index = Passed - 1 /\ Index' = Passed' /\ Index \in Nat
    BY <2>1 DEF Index, Place
  <2>3. Passed \in Nat
    BY TargetAssumption DEF WalkType, Passed
  <2> QED
    BY <2>1, <2>2, <2>3
<1> QED
  BY <1>1, <1>2

LEMMA PassedOneMore ==
  ASSUME WalkType, WalkType', Shows, pc' = "next"
  PROVE  Passed = count /\ Index = count /\ count \in Nat /\ Passed' = count + 1
<1>1. Index' = Passed' - 1 /\ Passed' \in Int
  BY TargetAssumption DEF Index, Passed, WalkType
<1>2. Index' = Index /\ Index = count /\ Passed = count /\ count \in Nat
  <2>1. Index' = Index /\ pc = "call"
    BY DEF Shows
  <2>2. Index = count /\ Passed = count
    BY <2>1 DEF Index, Passed
  <2>3. count \in Nat
    BY TargetAssumption DEF WalkType
  <2> QED
    BY <2>1, <2>2, <2>3
<1>3. Passed' \in Int /\ Passed' - 1 = count /\ count \in Nat
  BY <1>1, <1>2
<1> QED
  BY <1>2, <1>3, Counting

\* At the end of a list the walk has passed all of it.
LEMMA AtTheEnd ==
  ASSUME WalkType, Place, pc = "next", LinkReadable(mem, cur), mem.link[cur] = end
  PROVE  /\ Closes(mem, head, end) /\ Positions(mem, head, end) = 0 .. Passed - 1
         /\ mem.link[head] # end /\ Passed \in Nat
<1>1. /\ Index \in Nat /\ IsEntry(mem, head, end, Index) /\ cur = At(mem, head)[Index]
      /\ mem \in Memory /\ Passed \in Nat /\ Index = Passed - 1
  <2>1. Passed \in Nat
    BY TargetAssumption DEF WalkType, Passed
  <2> QED
    BY <2>1 DEF Place, WalkType, Index
<1>2. Closes(mem, head, end) /\ Positions(mem, head, end) = 0 .. Index
  BY <1>1, ListEnds
<1>3. IsEntry(mem, head, end, 0)
  BY <1>1, EntryBefore
<1>4. mem.link[head] # end
  BY <1>3, AtFirst DEF IsEntry
<1> QED
  BY <1>1, <1>2, <1>4

-----------------------------------------------------------------------------
(***************************************************************************)
(* The calls of the callback are those Enumeration promises.               *)
(***************************************************************************)

\* The end of a bucket's list has been shown by the last call, or no list has
\* been begun; then bucket is the one to be walked.
BetweenLists ==
  \/ calls = <<>> /\ bucket = Abstract!FirstBucket
  \/ /\ calls # <<>> /\ Abstract!EndsList(Abstract!Latest(calls))
     /\ bucket = Abstract!Latest(calls).bucket + 1

\* The last call was for cell a, as entry number n of the bucket.
LastCallIs(a, n) ==
  /\ calls # <<>>
  /\ Abstract!Latest(calls) = [bucket |-> bucket, empty |-> FALSE, kChunk |-> a, count |-> n]

Cursor ==
  /\ pc = "idle"   => calls = <<>>
  /\ pc = "bucket" => BetweenLists
  /\ pc = "call"   =>
       \/ /\ Index = 0 /\ BetweenLists
          /\ LinkReadable(mem, head) /\ cur = mem.link[head] /\ cur # end
       \/ /\ Index > 0
          /\ \E a \in Cells : /\ LastCallIs(a, Index - 1)
                             /\ LinkReadable(mem, a) /\ cur = mem.link[a] /\ cur # end
  /\ pc = "next"   => LastCallIs(cur, Index)
  /\ pc \in Walking => bucket >= Abstract!FirstBucket /\ bucket <= Abstract!LastBucket
  /\ pc = "done" /\ bRet => Abstract!Whole(calls)

CInv == WalkType /\ Place /\ Cursor

\* The last bucket is a number, and the only one if one was asked for.
LEMMA Buckets ==
  ASSUME WalkType
  PROVE  /\ Abstract!FirstBucket \in Nat /\ Abstract!LastBucket \in Nat
         /\ Abstract!FirstBucket <= Abstract!LastBucket
         /\ want = All => Abstract!LastBucket = NumBuckets(kind, desc) - 1 /\ Abstract!FirstBucket = 0
         /\ want # All => Abstract!LastBucket = want /\ Abstract!FirstBucket = want
<1>1. NumBuckets(kind, desc) \in Nat \ {0} /\ Abstract!NumBuckets(kind, desc) = NumBuckets(kind, desc)
  BY BucketCounts, EnumerationTarget DEF WalkType
<1>2. want = All \/ want \in 0 .. NumBuckets(kind, desc) - 1
  BY DEF WalkType
<1> QED
  BY <1>1, <1>2 DEF Abstract!FirstBucket, Abstract!LastBucket

LEMMA SameBuckets ==
  ASSUME Same
  PROVE  /\ Abstract!LastBucket' = Abstract!LastBucket /\ Abstract!FirstBucket' = Abstract!FirstBucket
         /\ \A c : Abstract!EndsList(c)' = Abstract!EndsList(c)
  BY DEF Same, Abstract!LastBucket, Abstract!FirstBucket, Abstract!EndsList

\* A call that has been made is the last one.
LEMMA LatestCall ==
  ASSUME WalkType, NEW c, calls' = Append(calls, c)
  PROVE  calls' # <<>> /\ Abstract!Latest(calls') = c
  BY DEF WalkType, Abstract!Latest

\* What follows the end of a bucket, if the calls made so far end its list.
LEMMA ReturnCursor ==
  ASSUME CInv, pc \in Walking, NEW r \in BOOLEAN, Returns(r), Same,
         r => /\ calls' # <<>> /\ Abstract!EndsList(Abstract!Latest(calls'))
              /\ Abstract!Latest(calls').bucket = bucket
  PROVE  Cursor'
<1>1. /\ bucket \in Nat /\ NumBuckets(kind, desc) \in Nat
      /\ bucket >= Abstract!FirstBucket /\ bucket <= Abstract!LastBucket
  BY BucketCounts DEF CInv, WalkType, Cursor
<1>2. Abstract!LastBucket' = Abstract!LastBucket /\ Abstract!FirstBucket' = Abstract!FirstBucket
  BY SameBuckets
<1>3. CASE r /\ want = All /\ bucket + 1 < NumBuckets(kind, desc)
  <2>1. pc' = "bucket" /\ bucket' = bucket + 1
    BY <1>3 DEF Returns
  <2>2. BetweenLists'
    BY <1>3, <2>1 DEF BetweenLists, Same, Abstract!EndsList, Abstract!Latest
  <2>3. bucket' >= Abstract!FirstBucket' /\ bucket' <= Abstract!LastBucket'
    BY <1>1, <1>2, <1>3, <2>1, Buckets DEF CInv
  <2> QED
    BY <2>1, <2>2, <2>3 DEF Cursor
<1>4. CASE ~(r /\ want = All /\ bucket + 1 < NumBuckets(kind, desc))
  <2>1. pc' = "done" /\ bucket' = bucket /\ bRet' = r
    BY <1>4 DEF Returns
  <2>2. r => bucket = Abstract!LastBucket
    BY <1>1, <1>4, Buckets DEF CInv, WalkType
  <2>3. r => Abstract!Whole(calls')
    BY <1>1, <2>2 DEF Abstract!Whole, CInv
  <2> QED
    BY <1>2, <2>1, <2>3 DEF Same, Cursor, Walking, Abstract!Whole, Abstract!EndsList, Abstract!Latest
<1> QED
  BY <1>3, <1>4

LEMMA BeginCursor ==
  ASSUME kind \in WalkKinds, NEW d \in Descs, NEW w \in (0 .. NumBuckets(kind, d) - 1) \cup {All},
         NEW proc, Begins(d, w, proc), WalkType'
  PROVE  Cursor'
<1>1. pc' = "bucket" /\ calls' = <<>> /\ bucket' = Abstract!FirstBucket'
  BY DEF Begins, Abstract!FirstBucket
<1>2. Abstract!FirstBucket' <= Abstract!LastBucket' /\ Abstract!FirstBucket' \in Nat
  <2>1. NumBuckets(kind, d) \in Nat \ {0} /\ Abstract!NumBuckets(kind, d) = NumBuckets(kind, d)
    BY BucketCounts, EnumerationTarget
  <2>2. want' = w /\ desc' = d /\ kind' = kind
    BY DEF Begins
  <2> QED
    BY <2>1, <2>2 DEF Abstract!FirstBucket, Abstract!LastBucket
<1> QED
  BY <1>1, <1>2 DEF Cursor, BetweenLists

LEMMA MovesCursor == CInv /\ WalkType' /\ Moves => Cursor'
<1> SUFFICES ASSUME CInv, WalkType', Moves PROVE Cursor'
  OBVIOUS
<1> USE DEF CInv
<1>0. /\ Same /\ mem \in Memory /\ cur \in Places /\ count \in Nat
      /\ Abstract!FirstBucket \in Nat /\ Abstract!LastBucket \in Nat
      /\ Abstract!LastBucket' = Abstract!LastBucket /\ Abstract!FirstBucket' = Abstract!FirstBucket
  BY Buckets, SameBuckets, TargetAssumption DEF WalkType, Moves
<1>1. CASE BreaksOff
  BY <1>1 DEF BreaksOff, Cursor, Walking
<1>2. CASE ShowsEmpty
  <2>1. /\ calls' # <<>>
        /\ Abstract!Latest(calls') = [bucket |-> bucket, empty |-> TRUE, kChunk |-> NULL, count |-> 0]
    BY <1>2, LatestCall DEF ShowsEmpty
  <2>2. Abstract!EndsList(Abstract!Latest(calls')) /\ Abstract!Latest(calls').bucket = bucket
    BY <2>1 DEF Abstract!EndsList
  <2> QED
    BY <1>0, <1>2, <2>1, <2>2, ReturnCursor DEF ShowsEmpty, Walking
<1>3. CASE Enters
  <2>1. head' = head /\ end' = end /\ Index' = 0
    BY <1>0, <1>3, SameHead DEF Enters, Index, Passed
  <2>2. BetweenLists /\ calls' = calls /\ bucket' = bucket
    BY <1>3 DEF Enters, Cursor
  <2>3. BetweenLists'
    BY <1>0, <2>2 DEF BetweenLists, Same, Abstract!EndsList, Abstract!Latest, Abstract!FirstBucket
  <2> QED
    BY <1>0, <1>3, <2>1, <2>3 DEF Enters, Cursor, Same, Walking
<1>4. CASE Shows
  <2>1. /\ calls' # <<>>
        /\ Abstract!Latest(calls') = [bucket |-> bucket, empty |-> FALSE, kChunk |-> cur, count |-> count]
    BY <1>4, LatestCall DEF Shows
  <2>2. CASE pc' = "next"
    <3>1. Index' = Index /\ Index = count /\ cur' = cur /\ bucket' = bucket
      BY <1>0, <1>4, <2>2 DEF Shows, Index, Passed
    <3>2. LastCallIs(cur, Index)'
      BY <2>1, <3>1 DEF LastCallIs, Abstract!Latest
    <3> QED
      BY <1>0, <1>4, <2>2, <3>1, <3>2 DEF Cursor, Shows, Walking
  <2>3. CASE pc' = "done"
    BY <1>4, <2>3 DEF Shows, Cursor, Walking
  <2> QED
    BY <1>4, <2>2, <2>3 DEF Shows
<1>5. CASE Advances
  <2>1. /\ pc = "next" /\ pc' = "call" /\ bucket' = bucket /\ calls' = calls
        /\ LinkReadable(mem, cur) /\ cur' = mem.link[cur] /\ cur' # end /\ Index' = Index + 1
    BY <1>5 DEF Advances
  <2>2. cur \in Cells
    BY <1>0, <2>1, LinksLeadToPlaces
  <2>3. head' = head /\ end' = end /\ mem' = mem
    BY <1>0, <2>1, SameHead, SameLists
  <2>4. Index \in Nat /\ LastCallIs(cur, Index) /\ bucket >= Abstract!FirstBucket
        /\ bucket <= Abstract!LastBucket
    BY <2>1 DEF Cursor, Place, Walking
  <2>5. Index' > 0 /\ Index' - 1 = Index
    BY <2>1, <2>4
  <2>6. /\ calls' # <<>>
        /\ Abstract!Latest(calls') = [bucket |-> bucket', empty |-> FALSE, kChunk |-> cur, count |-> Index' - 1]
    BY <2>1, <2>4, <2>5 DEF LastCallIs
  <2>7. \E a \in Cells : /\ Abstract!Latest(calls') = [bucket |-> bucket', empty |-> FALSE, kChunk |-> a, count |-> Index' - 1]
                        /\ LinkReadable(mem', a) /\ cur' = mem'.link[a] /\ cur' # end'
    BY <2>1, <2>2, <2>3, <2>6
  <2> QED
    BY <1>0, <2>1, <2>4, <2>5, <2>6, <2>7 DEF Cursor, LastCallIs, Abstract!Latest, Walking
<1>6. CASE Leaves
  <2>1. /\ pc = "next" /\ calls' = calls /\ LinkReadable(mem, cur) /\ mem.link[cur] = end
    BY <1>6 DEF Leaves
  <2>2. /\ calls # <<>>
        /\ Abstract!Latest(calls) = [bucket |-> bucket, empty |-> FALSE, kChunk |-> cur, count |-> Index]
    BY <2>1 DEF Cursor, LastCallIs
  <2>3. Abstract!Latest(calls).bucket = bucket /\ Abstract!Latest(calls).kChunk = cur
    BY <2>2
  <2>4. Abstract!EndsList(Abstract!Latest(calls'))
    BY <2>1, <2>3, EnumerationTarget DEF Abstract!EndsList, end, head, HeadOf
  <2>5. (IF kind = "listHeads" THEN TRUE ELSE bRet) \in BOOLEAN
    BY DEF WalkType
  <2> QED
    BY <1>0, <1>6, <2>1, <2>2, <2>3, <2>4, <2>5, ReturnCursor DEF Leaves, Walking
<1> QED
  BY <1>1, <1>2, <1>3, <1>4, <1>5, <1>6 DEF Moves

\* The phase of the enumeration at pc p with result r.
Phase(p, r) == IF p = "idle" THEN "idle" ELSE IF p # "done" THEN "run" ELSE IF r THEN "complete" ELSE "broken"
Noted(f)    == [kChunk |-> f.kChunk, bucket |-> f.bucket, count |-> f.count]

\* The end of a bucket that has no more calls to make.
LEMMA EndOrStutter ==
  ASSUME CInv, Cursor', pc \in Walking, pc' \in {"bucket", "done"}, bRet' \in BOOLEAN, Same,
         UNCHANGED <<find, calls>>
  PROVE  Abstract!End \/ UNCHANGED Abstract!vars
<1>1. CASE pc' = "done"
  <2>1. bRet' => Abstract!Whole(calls)
    BY <1>1 DEF Same, Cursor, Abstract!Whole, Abstract!EndsList, Abstract!LastBucket
  <2> QED
    BY <1>1, <2>1 DEF Same, Walking, Abstract!End
<1>2. CASE pc' = "bucket"
  BY <1>2 DEF Same, Walking, Abstract!vars
<1> QED
  BY <1>1, <1>2

\* A call of the callback.
LEMMA Visits ==
  ASSUME CInv, Cursor', pc \in Walking, pc' # "idle", bRet' \in BOOLEAN, Same,
         NEW c, calls' = Append(calls, c),
         \/ Noted(find') = Noted(find)
         \/ c.kChunk \in mem.holds /\ Noted(find') = [kChunk |-> c.kChunk, bucket |-> c.bucket, count |-> c.count]
  PROVE  Abstract!Visit(c)
<1>1. Phase(pc, bRet) = "run" /\ Phase(pc', bRet') \in {"run", "broken", "complete"}
  BY DEF Phase, Walking
<1>2. Phase(pc', bRet') = "complete" => Abstract!Whole(calls')
  BY DEF Same, Phase, Cursor, Abstract!Whole, Abstract!EndsList, Abstract!LastBucket
<1> QED
  BY <1>1, <1>2 DEF Same, Abstract!Visit, Phase, Noted

\* The call for the first entry of a list, or for an empty one.
LEMMA OpensList ==
  ASSUME CInv, Cursor', BetweenLists, pc \in {"bucket", "call"}, pc' # "idle", bRet' \in BOOLEAN, Same,
         LinkReadable(mem, head),
         NEW empty, empty = (mem.link[head] = end),
         NEW a, a = IF empty THEN NULL ELSE mem.link[head],
         calls' = Append(calls, [bucket |-> bucket, empty |-> empty, kChunk |-> a, count |-> 0]),
         \/ find' = find
         \/ a \in mem.holds /\ find'.kChunk = a /\ find'.bucket = bucket /\ find'.count = 0
  PROVE  Abstract!OpenList
<1> DEFINE c == Abstract!Showing(bucket, Abstract!ListHead(desc, bucket), 0)
<1>1. /\ bucket = IF calls = <<>> THEN Abstract!FirstBucket ELSE Abstract!Latest(calls).bucket + 1
      /\ calls # <<>> => Abstract!EndsList(Abstract!Latest(calls))
      /\ bucket <= Abstract!LastBucket
  BY DEF CInv, Cursor, BetweenLists, Walking
<1>2. c = [bucket |-> bucket, empty |-> empty, kChunk |-> a, count |-> 0]
  BY EnumerationTarget DEF Abstract!Showing, head, HeadOf, end
<1>3. calls' = Append(calls, c)
  BY <1>2
<1>4. \/ Noted(find') = Noted(find)
      \/ c.kChunk \in mem.holds /\ Noted(find') = [kChunk |-> c.kChunk, bucket |-> c.bucket, count |-> c.count]
  <2>1. c.kChunk = a /\ c.bucket = bucket /\ c.count = 0
    BY <1>2
  <2> HIDE DEF c
  <2> QED
    BY <2>1 DEF Noted
<1>5. Abstract!Visit(c)
  <2> HIDE DEF c
  <2> QED
    BY <1>3, <1>4, Visits DEF CInv, Walking
<1> QED
  BY <1>1, <1>5, EnumerationTarget DEF Abstract!OpenList, head, HeadOf

\* The call for a further entry.
LEMMA ShowsNext ==
  ASSUME CInv, Cursor', pc = "call", Index > 0, Index \in Nat, Index = count, pc' # "idle", bRet' \in BOOLEAN, Same,
         calls' = Append(calls, [bucket |-> bucket, empty |-> FALSE, kChunk |-> cur, count |-> count]),
         NEW a \in Cells, LastCallIs(a, Index - 1), LinkReadable(mem, a), cur = mem.link[a], cur # end,
         \/ find' = find
         \/ cur \in mem.holds /\ find'.kChunk = cur /\ find'.bucket = bucket /\ find'.count = count
  PROVE  Abstract!NextEntry
<1> DEFINE last == Abstract!Latest(calls)
           c == Abstract!Showing(last.bucket, last.kChunk, last.count + 1)
<1>2. calls # <<>> /\ last = [bucket |-> bucket, empty |-> FALSE, kChunk |-> a, count |-> Index - 1]
  BY DEF LastCallIs
<1>3. last.bucket = bucket /\ last.kChunk = a /\ last.count + 1 = count /\ ~last.empty
  BY <1>2
<1>4. ~Abstract!EndsList(last) /\ Abstract!LinkReadable(mem, last.kChunk)
  BY <1>3, EnumerationTarget DEF Abstract!EndsList, end, head, HeadOf
<1>5. c = [bucket |-> bucket, empty |-> FALSE, kChunk |-> cur, count |-> count]
  BY <1>3, EnumerationTarget DEF Abstract!Showing, end, head, HeadOf
<1>6. calls' = Append(calls, c)
  BY <1>5
<1>7. \/ Noted(find') = Noted(find)
      \/ c.kChunk \in mem.holds /\ Noted(find') = [kChunk |-> c.kChunk, bucket |-> c.bucket, count |-> c.count]
  <2>1. c.kChunk = cur /\ c.bucket = bucket /\ c.count = count
    BY <1>5
  <2> HIDE DEF c
  <2> QED
    BY <2>1 DEF Noted
<1>8. Abstract!Visit(c)
  <2> HIDE DEF c
  <2> QED
    BY <1>6, <1>7, Visits DEF CInv, Walking
<1> QED
  BY <1>2, <1>4, <1>8 DEF Abstract!NextEntry

LEMMA MovesAbstract == CInv /\ WalkType' /\ Cursor' /\ Moves => Abstract!Next \/ UNCHANGED Abstract!vars
<1> SUFFICES ASSUME CInv, WalkType', Cursor', Moves
             PROVE  Abstract!Next \/ UNCHANGED Abstract!vars
  OBVIOUS
<1>0. bRet' \in BOOLEAN /\ count \in Nat /\ Same
  BY TargetAssumption DEF CInv, WalkType, Moves
<1>1. CASE BreaksOff
  BY <1>0, <1>1, EndOrStutter DEF BreaksOff, Walking, Abstract!Next
<1>2. CASE ShowsEmpty
  <2>1. /\ pc = "bucket" /\ pc' # "idle" /\ BetweenLists /\ find' = find
        /\ LinkReadable(mem, head) /\ TRUE = (mem.link[head] = end) /\ NULL = IF TRUE THEN NULL ELSE mem.link[head]
        /\ calls' = Append(calls, [bucket |-> bucket, empty |-> TRUE, kChunk |-> NULL, count |-> 0])
    BY <1>2 DEF ShowsEmpty, Returns, CInv, Cursor
  <2> QED
    BY <1>0, <2>1, OpensList DEF Abstract!Next
<1>3. CASE Enters
  BY <1>0, <1>3 DEF Enters, Same, Abstract!vars
<1>4. CASE Shows
  <2>1. /\ pc = "call" /\ pc' # "idle" /\ Index = count
        /\ calls' = Append(calls, [bucket |-> bucket, empty |-> FALSE, kChunk |-> cur, count |-> count])
    BY <1>4 DEF Shows, Index, Passed
  <2>2. \/ find' = find
        \/ cur \in mem.holds /\ find'.kChunk = cur /\ find'.bucket = bucket /\ find'.count = count
    BY <1>4 DEF Shows, Finds
  <2>3. CASE Index = 0
    <3>1. /\ BetweenLists /\ LinkReadable(mem, head) /\ cur = mem.link[head] /\ cur # end
          /\ FALSE = (mem.link[head] = end) /\ cur = IF FALSE THEN NULL ELSE mem.link[head]
      BY <1>0, <2>1, <2>3 DEF CInv, Cursor
    <3>2. calls' = Append(calls, [bucket |-> bucket, empty |-> FALSE, kChunk |-> cur, count |-> 0])
      BY <2>1, <2>3
    <3> QED
      BY <1>0, <2>1, <2>2, <2>3, <3>1, <3>2, OpensList DEF Abstract!Next
  <2>4. CASE Index > 0
    <3>1. PICK a \in Cells : LastCallIs(a, Index - 1) /\ LinkReadable(mem, a) /\ cur = mem.link[a] /\ cur # end
      BY <2>1, <2>4 DEF CInv, Cursor
    <3> QED
      BY <1>0, <2>1, <2>2, <2>4, <3>1, ShowsNext DEF Abstract!Next
  <2> QED
    BY <1>0, <2>1, <2>3, <2>4
<1>5. CASE Advances
  BY <1>0, <1>5 DEF Advances, Same, Abstract!vars
<1>6. CASE Leaves
  BY <1>0, <1>6, EndOrStutter DEF Leaves, Returns, Walking, Abstract!Next
<1> QED
  BY <1>1, <1>2, <1>3, <1>4, <1>5, <1>6 DEF Moves

-----------------------------------------------------------------------------
(***************************************************************************)
(* What an enumeration that returns TRUE has shown.                        *)
(***************************************************************************)

Before(c, e)  == c.bucket < e.bucket \/ (c.bucket = e.bucket /\ c.count < e.count)
Sorted(cs)    == \A j, k \in DOMAIN cs : j < k => Before(cs[j], cs[k])
Shown(cs, b)  == {cs[j] : j \in {k \in DOMAIN cs : cs[k].bucket = b}}

\* No call is for a bucket before the first or after b, nor for entry n of b or
\* one behind it.
Within(cs, b, n) ==
  \A j \in DOMAIN cs : /\ cs[j].bucket \in Abstract!FirstBucket .. b
                       /\ cs[j].bucket = b => cs[j].count < n

\* The calls for the first n entries of bucket b.
EntryCalls(b, n) ==
  {[bucket |-> b, empty |-> FALSE, kChunk |-> At(mem, HeadOf(b))[k], count |-> k] : k \in 0 .. n - 1}

\* Bucket b's list has been followed to its end, and cs shows it whole.
Complete(cs, b) ==
  /\ Closes(mem, HeadOf(b), EndOf(kind, HeadOf(b)))
  /\ Shown(cs, b) = Listing(mem, HeadOf(b), EndOf(kind, HeadOf(b)), b)

Listed ==
  /\ pc \in Walking =>
       /\ bucket >= Abstract!FirstBucket /\ bucket <= Abstract!LastBucket
       /\ \A b \in Abstract!FirstBucket .. bucket - 1 : Complete(calls, b)
       /\ Shown(calls, bucket) = EntryCalls(bucket, Passed)
       /\ Within(calls, bucket, Passed) /\ Sorted(calls)
  /\ pc = "done" /\ bRet =>
       /\ bucket = Abstract!LastBucket
       /\ \A b \in Abstract!FirstBucket .. bucket : Complete(calls, b)
       /\ \A j \in DOMAIN calls : calls[j].bucket \in Abstract!FirstBucket .. bucket
       /\ Sorted(calls)

LEMMA AppendCall ==
  ASSUME NEW cs \in Seq(CallRecords), NEW c \in CallRecords
  PROVE  /\ DOMAIN Append(cs, c) = DOMAIN cs \cup {Len(cs) + 1}
         /\ Append(cs, c)[Len(cs) + 1] = c
         /\ \A j \in DOMAIN cs : Append(cs, c)[j] = cs[j] /\ j < Len(cs) + 1
         /\ Len(cs) + 1 \notin DOMAIN cs
  OBVIOUS

\* A call appended is shown for its bucket, and nothing else is.
LEMMA AppendShown ==
  ASSUME NEW cs \in Seq(CallRecords), NEW c \in CallRecords, NEW b
  PROVE  Shown(Append(cs, c), b) = IF c.bucket = b THEN Shown(cs, b) \cup {c} ELSE Shown(cs, b)
<1> DEFINE ds == Append(cs, c)
           n == Len(cs) + 1
<1>1. /\ DOMAIN ds = DOMAIN cs \cup {n} /\ ds[n] = c /\ n \notin DOMAIN cs
      /\ \A j \in DOMAIN cs : ds[j] = cs[j]
  BY AppendCall
<1> HIDE DEF ds, n
<1>2. ASSUME NEW x \in Shown(ds, b) PROVE (c.bucket = b /\ x = c) \/ x \in Shown(cs, b)
  BY <1>1 DEF Shown
<1>3. ASSUME NEW x \in Shown(cs, b) PROVE x \in Shown(ds, b)
  BY <1>1 DEF Shown
<1>4. c.bucket = b => c \in Shown(ds, b)
  BY <1>1 DEF Shown
<1> QED
  BY <1>2, <1>3, <1>4 DEF ds

LEMMA AppendSorted ==
  ASSUME NEW cs \in Seq(CallRecords), NEW c \in CallRecords, Sorted(cs),
         \A j \in DOMAIN cs : Before(cs[j], c)
  PROVE  Sorted(Append(cs, c))
<1> DEFINE ds == Append(cs, c)
           n == Len(cs) + 1
<1>1. /\ DOMAIN ds = DOMAIN cs \cup {n} /\ ds[n] = c
      /\ \A j \in DOMAIN cs : ds[j] = cs[j] /\ j < n /\ j \in Nat
  BY AppendCall
<1>2. n \in Nat
  OBVIOUS
<1> HIDE DEF ds, n
<1>3. ASSUME NEW j \in DOMAIN ds, NEW k \in DOMAIN ds, j < k PROVE Before(ds[j], ds[k])
  <2>1. j \in DOMAIN cs
    BY <1>1, <1>2, <1>3
  <2>2. CASE k = n
    BY <1>1, <2>1, <2>2
  <2>3. CASE k \in DOMAIN cs
    BY <1>1, <1>3, <2>1, <2>3 DEF Sorted
  <2> QED
    BY <1>1, <2>2, <2>3
<1>4. Sorted(ds)
  BY <1>3 DEF Sorted
<1> QED
  BY <1>4 DEF ds

\* A call for an entry not shown yet comes after all others.
LEMMA AppendWithin ==
  ASSUME WalkType, NEW c \in CallRecords, c.bucket = bucket, NEW n \in Nat, c.count = n,
         bucket >= Abstract!FirstBucket, Within(calls, bucket, n), Sorted(calls)
  PROVE  Within(Append(calls, c), bucket, n + 1) /\ Sorted(Append(calls, c))
<1>0. calls \in Seq(CallRecords) /\ bucket \in Nat /\ Abstract!FirstBucket \in Nat
  BY Buckets, BucketCounts DEF WalkType
<1>1. ASSUME NEW j \in DOMAIN calls PROVE calls[j] \in CallRecords /\ Before(calls[j], c)
  <2>1. calls[j] \in CallRecords
    BY <1>0
  <2>2. calls[j].count \in Nat /\ calls[j].bucket \in Nat
    BY <2>1, TargetAssumption DEF CallRecords
  <2>3. calls[j].bucket \in Abstract!FirstBucket .. bucket /\ (calls[j].bucket = bucket => calls[j].count < n)
    BY DEF Within
  <2> QED
    BY <1>0, <2>1, <2>2, <2>3 DEF Before
<1>2. Sorted(Append(calls, c))
  BY <1>0, <1>1, AppendSorted
<1> DEFINE ds == Append(calls, c)
<1>3. /\ DOMAIN ds = DOMAIN calls \cup {Len(calls) + 1} /\ ds[Len(calls) + 1] = c
      /\ \A j \in DOMAIN calls : ds[j] = calls[j]
  BY <1>0, AppendCall
<1> HIDE DEF ds
<1>4. ASSUME NEW j \in DOMAIN ds
      PROVE  ds[j].bucket \in Abstract!FirstBucket .. bucket /\ (ds[j].bucket = bucket => ds[j].count < n + 1)
  <2>1. CASE j = Len(calls) + 1
    BY <1>0, <1>3, <2>1
  <2>2. CASE j \in DOMAIN calls
    <3>1. calls[j].count \in Nat
      BY <1>1, <2>2 DEF CallRecords
    <3> QED
      BY <1>3, <2>2, <3>1 DEF Within
  <2> QED
    BY <1>3, <2>1, <2>2
<1>5. Within(ds, bucket, n + 1)
  BY <1>4 DEF Within
<1> QED
  BY <1>2, <1>5 DEF ds

\* What follows the end of a bucket, if the calls made so far show it.
LEMMA ReturnListed ==
  ASSUME WalkType, pc \in Walking, Same, NEW r \in BOOLEAN, Returns(r),
         bucket >= Abstract!FirstBucket, bucket <= Abstract!LastBucket,
         \A b \in Abstract!FirstBucket .. bucket - 1 : Complete(calls', b),
         r => Complete(calls', bucket),
         NEW n, Within(calls', bucket, n), Sorted(calls')
  PROVE  Listed'
<1>0. /\ bucket \in Nat /\ NumBuckets(kind, desc) \in Nat /\ Abstract!FirstBucket \in Nat
      /\ Abstract!LastBucket' = Abstract!LastBucket /\ Abstract!FirstBucket' = Abstract!FirstBucket
      /\ mem' = mem /\ kind' = kind /\ desc' = desc
  BY Buckets, BucketCounts, SameBuckets DEF WalkType, Same
<1>1. Sorted(calls)'
  BY DEF Sorted, Before
<1>2. r => \A b \in Abstract!FirstBucket .. bucket : Complete(calls', b)
  <2>1. \A b \in Abstract!FirstBucket .. bucket : b = bucket \/ b \in Abstract!FirstBucket .. bucket - 1
    BY <1>0
  <2> QED
    BY <2>1
<1>3. \A j \in DOMAIN calls' : calls'[j].bucket \in Abstract!FirstBucket .. bucket
  BY DEF Within
<1>4. CASE r /\ want = All /\ bucket + 1 < NumBuckets(kind, desc)
  <2>1. pc' = "bucket" /\ bucket' = bucket + 1 /\ Passed' = 0
    BY <1>4 DEF Returns, Passed
  <2>2. Shown(calls', bucket + 1) = {}
    BY <1>0, <1>3 DEF Shown
  <2>3. EntryCalls(bucket', 0) = {}
    BY DEF EntryCalls
  <2>4. \A j \in DOMAIN calls' : /\ calls'[j].bucket \in Abstract!FirstBucket .. bucket + 1
                                /\ calls'[j].bucket # bucket + 1
    BY <1>0, <1>3
  <2>5. Within(calls, bucket, Passed)'
    BY <1>0, <2>1, <2>4 DEF Within
  <2>6. (Shown(calls, bucket) = EntryCalls(bucket, Passed))'
    BY <1>0, <2>1, <2>2, <2>3 DEF Shown, EntryCalls
  <2>7. (\A b \in Abstract!FirstBucket .. bucket - 1 : Complete(calls, b))'
    BY <1>0, <1>2, <1>4, <2>1 DEF Complete, HeadOf
  <2>8. bucket' >= Abstract!FirstBucket' /\ bucket' <= Abstract!LastBucket'
    BY <1>0, <1>4, <2>1, Buckets
  <2> QED
    BY <1>0, <1>1, <2>1, <2>5, <2>6, <2>7, <2>8 DEF Listed
<1>5. CASE ~(r /\ want = All /\ bucket + 1 < NumBuckets(kind, desc))
  <2>1. pc' = "done" /\ bucket' = bucket /\ bRet' = r
    BY <1>5 DEF Returns
  <2>2. r => bucket = Abstract!LastBucket
    <3>1. CASE want = All
      BY <1>0, <1>5, <3>1, Buckets DEF WalkType
    <3>2. CASE want # All
      BY <1>0, <3>2, Buckets
    <3> QED
      BY <3>1, <3>2
  <2>3. r => (\A b \in Abstract!FirstBucket .. bucket : Complete(calls, b))'
    BY <1>0, <1>2, <2>1 DEF Complete, HeadOf
  <2> QED
    BY <1>0, <1>1, <1>3, <2>1, <2>2, <2>3 DEF Listed, Walking
<1> QED
  BY <1>4, <1>5

LEMMA MovesListed == WalkType /\ Place /\ Listed /\ WalkType' /\ Moves => Listed'
<1> SUFFICES ASSUME WalkType, Place, Listed, WalkType', Moves PROVE Listed'
  OBVIOUS
<1>0. /\ Same /\ bucket \in Nat /\ Abstract!FirstBucket \in Nat /\ calls \in Seq(CallRecords)
      /\ bucket \in Indexes
      /\ Abstract!LastBucket' = Abstract!LastBucket /\ Abstract!FirstBucket' = Abstract!FirstBucket
      /\ mem' = mem /\ kind' = kind /\ desc' = desc
  BY Buckets, BucketCounts, SameBuckets DEF WalkType, Moves, Same
<1>1. CASE BreaksOff
  BY <1>1 DEF BreaksOff, Listed, Walking
<1>2. pc \in Walking =>
        /\ bucket >= Abstract!FirstBucket /\ bucket <= Abstract!LastBucket
        /\ \A b \in Abstract!FirstBucket .. bucket - 1 : Complete(calls, b)
        /\ Shown(calls, bucket) = EntryCalls(bucket, Passed)
        /\ Within(calls, bucket, Passed) /\ Sorted(calls)
  BY DEF Listed
<1>3. CASE ShowsEmpty
  <2> DEFINE c == [bucket |-> bucket, empty |-> TRUE, kChunk |-> NULL, count |-> 0]
  <2>1. /\ pc = "bucket" /\ pc \in Walking /\ Passed = 0 /\ calls' = Append(calls, c) /\ Returns(TRUE)
        /\ LinkReadable(mem, head) /\ mem.link[head] = end
    BY <1>3 DEF ShowsEmpty, Passed, Walking
  <2>2. c \in CallRecords /\ c.bucket = bucket /\ c.count = 0
    BY <1>0 DEF CallRecords, Places
  <2>3. Shown(calls, bucket) = {}
    BY <1>2, <2>1 DEF EntryCalls
  <2>4. Closes(mem, head, end) /\ Listing(mem, head, end, bucket) = {c}
    BY <2>1, EmptyList DEF Listing
  <2> HIDE DEF c
  <2>5. Shown(calls', bucket) = {c}
    BY <1>0, <2>1, <2>2, <2>3, AppendShown
  <2>6. Complete(calls', bucket)
    BY <2>4, <2>5 DEF Complete, head, end
  <2>7. \A b \in Abstract!FirstBucket .. bucket - 1 : Complete(calls', b)
    <3>1. \A b \in Abstract!FirstBucket .. bucket - 1 : b # bucket
      BY <1>0
    <3>2. \A b \in Abstract!FirstBucket .. bucket - 1 : Shown(calls', b) = Shown(calls, b)
      BY <1>0, <2>1, <2>2, <3>1, AppendShown
    <3> QED
      BY <1>2, <2>1, <3>2 DEF Complete
  <2>8. Within(calls', bucket, 1) /\ Sorted(calls')
    BY <1>2, <2>1, <2>2, AppendWithin
  <2> QED
    BY <1>0, <1>2, <2>1, <2>6, <2>7, <2>8, ReturnListed
<1>4. CASE Enters \/ Advances
  <2>1. /\ pc \in Walking /\ pc' = "call" /\ bucket' = bucket /\ calls' = calls
    BY <1>4 DEF Enters, Advances, Walking
  <2>2. Passed' = Passed
    BY <1>4, PassedSame
  <2>3. (Shown(calls, bucket) = EntryCalls(bucket, Passed))'
    BY <1>0, <1>2, <2>1, <2>2 DEF Shown, EntryCalls, HeadOf
  <2>4. (\A b \in Abstract!FirstBucket .. bucket - 1 : Complete(calls, b))'
    BY <1>0, <1>2, <2>1 DEF Complete, HeadOf
  <2>5. Within(calls, bucket, Passed)' /\ Sorted(calls)'
    BY <1>0, <1>2, <2>1, <2>2 DEF Within, Sorted, Before
  <2> QED
    BY <1>0, <1>2, <2>1, <2>3, <2>4, <2>5 DEF Listed, Walking
<1>5. CASE Shows
  <2> DEFINE c == [bucket |-> bucket, empty |-> FALSE, kChunk |-> cur, count |-> count]
  <2>1. /\ pc = "call" /\ pc \in Walking /\ Passed = count /\ Index = count /\ count \in Nat
        /\ calls' = Append(calls, c) /\ bucket' = bucket
    BY <1>5, TargetAssumption DEF Shows, Index, Passed, Walking, WalkType
  <2>6. (pc' = "next" /\ Index' = Index) \/ (pc' = "done" /\ bRet' = FALSE)
    BY <1>5 DEF Shows
  <2>2. c \in CallRecords /\ c.bucket = bucket /\ c.count = count
    BY <1>0, <2>1 DEF CallRecords, WalkType
  <2>3. c = [bucket |-> bucket, empty |-> FALSE, kChunk |-> At(mem, HeadOf(bucket))[count], count |-> count]
    BY <2>1 DEF Place, head
  <2> HIDE DEF c
  <2>4. CASE pc' = "next"
    <3>1. Passed' = count + 1
      BY <1>5, <2>4, PassedOneMore
    <3>2. EntryCalls(bucket, count + 1) = EntryCalls(bucket, count) \cup {c}
      <4>1. 0 .. (count + 1) - 1 = (0 .. count - 1) \cup {count}
        BY <2>1
      <4> QED
        BY <2>3, <4>1 DEF EntryCalls
    <3>3. Shown(calls', bucket) = EntryCalls(bucket, count + 1)
      BY <1>0, <1>2, <2>1, <2>2, <3>2, AppendShown
    <3>4. (Shown(calls, bucket) = EntryCalls(bucket, Passed))'
      BY <1>0, <2>1, <3>1, <3>3 DEF Shown, EntryCalls, HeadOf
    <3>5. \A b \in Abstract!FirstBucket .. bucket - 1 : Complete(calls', b)
      <4>1. \A b \in Abstract!FirstBucket .. bucket - 1 : b # bucket
        BY <1>0
      <4>2. \A b \in Abstract!FirstBucket .. bucket - 1 : Shown(calls', b) = Shown(calls, b)
        BY <1>0, <2>1, <2>2, <4>1, AppendShown
      <4> QED
        BY <1>2, <2>1, <4>2 DEF Complete
    <3>6. (\A b \in Abstract!FirstBucket .. bucket - 1 : Complete(calls, b))'
      BY <1>0, <2>1, <3>5 DEF Complete, HeadOf
    <3>7. Within(calls', bucket, count + 1) /\ Sorted(calls')
      BY <1>2, <2>1, <2>2, AppendWithin
    <3>8. Within(calls, bucket, Passed)' /\ Sorted(calls)'
      BY <1>0, <2>1, <3>1, <3>7 DEF Within, Sorted, Before
    <3> QED
      BY <1>0, <1>2, <2>1, <2>4, <3>4, <3>6, <3>8 DEF Listed, Walking
  <2>5. CASE pc' = "done" /\ bRet' = FALSE
    BY <2>5 DEF Listed, Walking
  <2> QED
    BY <2>4, <2>5, <2>6
<1>6. CASE Leaves
  <2>1. /\ pc = "next" /\ pc \in Walking /\ calls' = calls /\ LinkReadable(mem, cur) /\ mem.link[cur] = end
        /\ Returns(IF kind = "listHeads" THEN TRUE ELSE bRet)
        /\ (IF kind = "listHeads" THEN TRUE ELSE bRet) \in BOOLEAN
    BY <1>6 DEF Leaves, Walking, WalkType
  <2>2. /\ Closes(mem, head, end) /\ Positions(mem, head, end) = 0 .. Passed - 1
        /\ mem.link[head] # end
    BY <2>1, AtTheEnd
  <2>3. Listing(mem, head, end, bucket) = EntryCalls(bucket, Passed)
    BY <2>2 DEF Listing, EntryCalls, head
  <2>4. Complete(calls, bucket)
    BY <1>2, <2>1, <2>2, <2>3 DEF Complete, head, end
  <2>5. Within(calls', bucket, Passed) /\ Sorted(calls') /\ Complete(calls', bucket)
        /\ \A b \in Abstract!FirstBucket .. bucket - 1 : Complete(calls', b)
    BY <1>2, <2>1, <2>4
  <2> QED
    BY <1>0, <1>2, <2>1, <2>5, ReturnListed
<1> QED
  BY <1>1, <1>3, <1>4, <1>5, <1>6 DEF Moves

LEMMA BeginListed ==
  ASSUME kind \in WalkKinds, NEW d \in Descs, NEW w \in (0 .. NumBuckets(kind, d) - 1) \cup {All},
         NEW proc, Begins(d, w, proc), WalkType'
  PROVE  Listed'
<1>1. pc' = "bucket" /\ calls' = <<>> /\ bucket' = Abstract!FirstBucket' /\ Passed' = 0
  BY DEF Begins, Abstract!FirstBucket, Passed
<1>2. bucket' \in Nat /\ Abstract!FirstBucket' <= Abstract!LastBucket'
  <2>1. NumBuckets(kind, d) \in Nat \ {0} /\ Abstract!NumBuckets(kind, d) = NumBuckets(kind, d)
    BY BucketCounts, EnumerationTarget
  <2>2. want' = w /\ desc' = d /\ kind' = kind
    BY DEF Begins
  <2> QED
    BY <1>1, <2>1, <2>2 DEF Abstract!FirstBucket, Abstract!LastBucket
<1>3. (Shown(calls, bucket) = EntryCalls(bucket, Passed))'
  BY <1>1 DEF Shown, EntryCalls
<1>4. Within(calls, bucket, Passed)' /\ Sorted(calls)'
  BY <1>1 DEF Within, Sorted
<1>5. Abstract!FirstBucket' .. bucket' - 1 = {}
  <2>1. bucket' \in Nat /\ Abstract!FirstBucket' = bucket'
    BY <1>1, <1>2
  <2>2. bucket' .. bucket' - 1 = {}
    BY <2>1, Counting
  <2> QED
    BY <2>1, <2>2
<1>6. (\A b \in Abstract!FirstBucket .. bucket - 1 : Complete(calls, b))'
  BY <1>5
<1>7. bucket' >= Abstract!FirstBucket' /\ bucket' <= Abstract!LastBucket'
  BY <1>1, <1>2
<1> QED
  BY <1>1, <1>3, <1>4, <1>6, <1>7 DEF Listed, Walking

-----------------------------------------------------------------------------
(***************************************************************************)
(* What a search has noted, and what it has not.                           *)
(***************************************************************************)

ListCloses(b) == Closes(mem, HeadOf(b), EndOf(kind, HeadOf(b)))
HasNone(b)    == NoHolder(mem, HeadOf(b), EndOf(kind, HeadOf(b)))

\* A search is for all buckets.
Searching == enumProc = "find" /\ want = All

\* While nothing is noted, nothing has been passed over.
Unseen ==
  Searching /\ find.kChunk = NULL /\ (kind = "listHeads" \/ mem.noHeader = {}) =>
    /\ pc \in Walking \cup {"done"} => \A b \in 0 .. bucket - 1 : ListCloses(b) /\ HasNone(b)
    /\ pc \in Walking => \A k \in 0 .. Passed - 1 : At(mem, head)[k] \notin mem.holds
    /\ pc = "done" /\ bRet /\ kind = "listHeads" =>
         bucket = NumBuckets(kind, desc) - 1 /\ ListCloses(bucket) /\ HasNone(bucket)
    /\ pc = "done" /\ mem.noHeader = {} /\ ListCloses(bucket) => HasNone(bucket)

\* What is noted is an entry of this descriptor that contains the pointer.
Here ==
  /\ find.kChunk \in mem.holds
  /\ find.bucket \in 0 .. bucket
  /\ kind = "lookaside" => find.kDesc = HeadOf(find.bucket)
  /\ IsEntry(mem, HeadOf(find.bucket), EndOf(kind, HeadOf(find.bucket)), find.count)
  /\ find.kChunk = At(mem, HeadOf(find.bucket))[find.count]

NotedIsHere == find.kChunk # NULL => Here

\* A search of ListHeads ends with the first.
NotedIsFirst ==
  kind = "listHeads" /\ find.kChunk # NULL =>
    /\ pc = "done" /\ ~bRet
    /\ \A k \in 0 .. find.count - 1 : At(mem, HeadOf(find.bucket))[k] \notin mem.holds
    /\ \A b \in 0 .. find.bucket - 1 : HasNone(b)

\* If nothing can fail, FALSE means that a chunk of this descriptor is noted,
\* whatever find held before.
Fresh ==
  /\ enumProc = "find" /\ mem.noHeader = {}
  /\ \A b \in 0 .. NumBuckets(kind, desc) - 1 : ListCloses(b)
  /\ ~bRet /\ (pc = "done" \/ (pc = "next" /\ kind = "lookaside"))
  => find.kChunk # NULL /\ Here

LEMMA SameListFacts ==
  ASSUME Same
  PROVE  \A b : ListCloses(b)' = ListCloses(b) /\ HasNone(b)' = HasNone(b)
  BY DEF Same, ListCloses, HasNone, HeadOf

\* A walk at an entry of a list that closes can read on.
LEMMA ReadsOn ==
  ASSUME Place, pc \in {"call", "next"}, ListCloses(bucket)
  PROVE  LinkReadable(mem, cur) /\ cur \in Cells /\ Index \in Positions(mem, head, end)
  BY ClosedIsReadable DEF Place, ListCloses, head, end, LinkReadable

LEMMA ReturnUnseen ==
  ASSUME WalkType, Same, NEW r \in BOOLEAN, Returns(r), Searching,
         \A b \in 0 .. bucket - 1 : ListCloses(b) /\ HasNone(b),
         r => ListCloses(bucket) /\ HasNone(bucket),
         mem.noHeader = {} /\ ListCloses(bucket) => HasNone(bucket)
  PROVE  Unseen'
<1>0. /\ bucket \in 0 .. NumBuckets(kind, desc) - 1 /\ NumBuckets(kind, desc) \in Nat \ {0} /\ want = All
      /\ \A b : ListCloses(b)' = ListCloses(b) /\ HasNone(b)' = HasNone(b)
      /\ NumBuckets(kind, desc)' = NumBuckets(kind, desc) /\ kind' = kind /\ mem' = mem
  BY BucketCounts, SameListFacts DEF WalkType, Searching, Same
<1>1. CASE r /\ bucket + 1 < NumBuckets(kind, desc)
  <2>1. pc' = "bucket" /\ bucket' = bucket + 1 /\ Passed' = 0
    BY <1>0, <1>1 DEF Returns, Passed
  <2>2. \A b \in 0 .. bucket' - 1 : b = bucket \/ b \in 0 .. bucket - 1
    BY <1>0, <2>1
  <2>3. \A b \in 0 .. bucket' - 1 : ListCloses(b)' /\ HasNone(b)'
    BY <1>0, <1>1, <2>2
  <2>4. \A k \in 0 .. Passed' - 1 : FALSE
    BY <2>1
  <2> QED
    BY <2>1, <2>3, <2>4 DEF Unseen
<1>2. CASE ~(r /\ bucket + 1 < NumBuckets(kind, desc))
  <2>1. pc' = "done" /\ bucket' = bucket /\ bRet' = r
    BY <1>0, <1>2 DEF Returns
  <2>2. r => bucket = NumBuckets(kind, desc) - 1
    BY <1>0, <1>2
  <2>3. \A b \in 0 .. bucket' - 1 : ListCloses(b)' /\ HasNone(b)'
    BY <1>0, <2>1
  <2>4. r => bucket' = (NumBuckets(kind, desc) - 1)' /\ ListCloses(bucket)' /\ HasNone(bucket)'
    BY <1>0, <2>1, <2>2 DEF ListCloses, HasNone
  <2>5. mem'.noHeader = {} /\ ListCloses(bucket)' => HasNone(bucket)'
    BY <1>0, <2>1 DEF ListCloses, HasNone
  <2> QED
    BY <2>1, <2>3, <2>4, <2>5 DEF Unseen, Walking
<1> QED
  BY <1>1, <1>2

LEMMA MovesUnseen == WalkType /\ Place /\ Unseen /\ WalkType' /\ Moves => Unseen'
<1> SUFFICES ASSUME WalkType, Place, Unseen, WalkType', Moves,
                    Searching, find'.kChunk = NULL, kind = "listHeads" \/ mem.noHeader = {}
             PROVE  Unseen'
  BY SameLists DEF Unseen, Moves, Searching
<1>0. /\ Same /\ bucket \in Nat /\ MaxCount \in Nat
      /\ \A b : ListCloses(b)' = ListCloses(b) /\ HasNone(b)' = HasNone(b)
      /\ NumBuckets(kind, desc)' = NumBuckets(kind, desc) /\ kind' = kind /\ mem' = mem
      /\ mem.holds \subseteq Cells /\ NULL \notin Cells
  BY BucketCounts, SameListFacts, SameLists, TargetAssumption DEF WalkType, Moves, Memory
<1>1. ASSUME find' = find, pc \in Walking
      PROVE  /\ \A b \in 0 .. bucket - 1 : ListCloses(b) /\ HasNone(b)
             /\ \A k \in 0 .. Passed - 1 : At(mem, head)[k] \notin mem.holds
  BY <1>1 DEF Unseen
<1>2. CASE BreaksOff
  <2>1. pc \in Walking /\ find' = find /\ pc' = "done" /\ bRet' = FALSE /\ bucket' = bucket
    BY <1>2 DEF BreaksOff, Walking
  <2>2. ~ListCloses(bucket)
    <3>1. CASE pc = "bucket"
      BY <1>2, <3>1, ClosedIsReadable DEF BreaksOff, ListCloses, head
    <3>2. CASE pc = "next"
      BY <1>2, <3>2, ReadsOn DEF BreaksOff
    <3> QED
      BY <2>1, <1>2, <3>1, <3>2 DEF BreaksOff
  <2>3. ~ListCloses(bucket)'
    BY <1>0, <2>1, <2>2 DEF ListCloses
  <2>4. \A b \in 0 .. bucket' - 1 : ListCloses(b)' /\ HasNone(b)'
    BY <1>0, <1>1, <2>1
  <2> QED
    BY <2>1, <2>3, <2>4 DEF Unseen, Walking
<1>3. CASE ShowsEmpty
  <2>1. pc \in Walking /\ find' = find /\ Returns(TRUE) /\ LinkReadable(mem, head) /\ mem.link[head] = end
    BY <1>3 DEF ShowsEmpty, Walking
  <2>2. ListCloses(bucket) /\ HasNone(bucket)
    BY <2>1, EmptyList DEF ListCloses, HasNone, NoHolder, head, end
  <2> QED
    BY <1>0, <1>1, <2>1, <2>2, ReturnUnseen
<1>4. CASE Enters \/ Advances
  <2>1. pc \in Walking /\ pc' = "call" /\ find' = find /\ bucket' = bucket /\ Passed' = Passed
    BY <1>4, PassedSame DEF Enters, Advances, Walking
  <2>2. head' = head
    BY <1>0, <2>1, SameHead
  <2>3. \A b \in 0 .. bucket' - 1 : ListCloses(b)' /\ HasNone(b)'
    BY <1>0, <1>1, <2>1
  <2>4. (\A k \in 0 .. Passed - 1 : At(mem, head)[k] \notin mem.holds)'
    BY <1>0, <1>1, <2>1, <2>2
  <2> QED
    BY <2>1, <2>3, <2>4 DEF Unseen
<1>5. CASE Shows
  <2>1. pc = "call" /\ pc \in Walking /\ bucket' = bucket /\ cur' = cur
    BY <1>5 DEF Shows, Walking
  <2>2. ~Finds
    BY <1>0, <1>5 DEF Shows, Finds, HeaderReadable
  <2>3. find' = find
    BY <1>5, <2>2 DEF Shows
  <2>4. \A b \in 0 .. bucket' - 1 : ListCloses(b)' /\ HasNone(b)'
    BY <1>0, <1>1, <2>1, <2>3
  <2>5. CASE pc' = "next"
    <3>1. Passed = count /\ Index = count /\ count \in Nat /\ Passed' = count + 1
      BY <1>5, <2>5, PassedOneMore
    <3>2. cur \notin mem.holds
      BY <1>0, <1>5, <2>2, <2>5 DEF Shows, Fails, Finds, HeaderReadable, Searching
    <3>3. At(mem, head)[count] \notin mem.holds
      BY <2>1, <3>1, <3>2 DEF Place
    <3>4. \A k \in 0 .. Passed' - 1 : k = count \/ k \in 0 .. Passed - 1
      BY <3>1
    <3>5. head' = head
      BY <1>0, <2>1, SameHead
    <3>6. (\A k \in 0 .. Passed - 1 : At(mem, head)[k] \notin mem.holds)'
      BY <1>0, <1>1, <2>1, <2>3, <3>3, <3>4, <3>5
    <3> QED
      BY <2>4, <2>5, <3>6 DEF Unseen
  <2>6. CASE pc' = "done" /\ bRet' = FALSE /\ kind = "listHeads" /\ (Fails \/ Finds)
    <3>1. mem.noHeader = {} => ~ListCloses(bucket)
      BY <2>1, <2>2, <2>6, ReadsOn DEF Fails, HeaderReadable
    <3>2. mem'.noHeader = {} => ~ListCloses(bucket)'
      BY <1>0, <2>1, <3>1 DEF ListCloses
    <3> QED
      BY <2>4, <2>6, <3>2 DEF Unseen, Walking
  <2> QED
    BY <1>5, <2>5, <2>6 DEF Shows
<1>6. CASE Leaves
  <2>1. /\ pc = "next" /\ pc \in Walking /\ find' = find /\ LinkReadable(mem, cur) /\ mem.link[cur] = end
        /\ Returns(IF kind = "listHeads" THEN TRUE ELSE bRet)
        /\ (IF kind = "listHeads" THEN TRUE ELSE bRet) \in BOOLEAN
    BY <1>6 DEF Leaves, Walking, WalkType
  <2>2. Closes(mem, head, end) /\ Positions(mem, head, end) = 0 .. Passed - 1
    BY <2>1, AtTheEnd
  <2>3. ListCloses(bucket) /\ HasNone(bucket)
    BY <1>1, <2>1, <2>2 DEF ListCloses, HasNone, NoHolder, head, end
  <2> QED
    BY <1>0, <1>1, <2>1, <2>3, ReturnUnseen
<1> QED
  BY <1>2, <1>3, <1>4, <1>5, <1>6 DEF Moves

\* What has been noted stays true while the walk goes on.
LEMMA HereSame ==
  ASSUME Same, find' = find, bucket \in Nat, bucket' \in {bucket, bucket + 1}, Here
  PROVE  Here'
<1>1. find.bucket \in 0 .. bucket'
  BY DEF Here
<1> QED
  BY <1>1 DEF Here, Same, HeadOf

LEMMA FindsHere ==
  ASSUME WalkType, Place, Shows, Same, Finds
  PROVE  find'.kChunk # NULL /\ Here'
<1>1. /\ pc = "call" /\ bucket' = bucket /\ bucket \in Nat /\ mem' = mem /\ kind' = kind /\ cur \in mem.holds
      /\ find'.kChunk = cur /\ find'.bucket = bucket /\ find'.count = count
      /\ kind = "lookaside" => find'.kDesc = head
      /\ \A b : HeadOf(b)' = HeadOf(b)
  BY BucketCounts, SameLists DEF WalkType, Shows, Finds
<1>2. /\ IsEntry(mem, head, end, count) /\ cur = At(mem, head)[count]
  BY <1>1 DEF Place, Index, Passed
<1>3. cur # NULL
  BY <1>1, TargetAssumption DEF WalkType, Memory
<1>4. find'.bucket \in 0 .. bucket'
  BY <1>1
<1> QED
  BY <1>1, <1>2, <1>3, <1>4 DEF Here, HeadOf, head, end

LEMMA BucketMoves == WalkType /\ Moves => bucket \in Nat /\ bucket' \in {bucket, bucket + 1} /\ pc \in Walking
<1> SUFFICES ASSUME WalkType, Moves PROVE bucket \in Nat /\ bucket' \in {bucket, bucket + 1} /\ pc \in Walking
  OBVIOUS
<1>1. bucket \in Nat
  BY BucketCounts DEF WalkType
<1> QED
  BY <1>1 DEF Moves, BreaksOff, ShowsEmpty, Enters, Shows, Advances, Leaves, Returns, Walking

LEMMA MovesNoted == WalkType /\ Place /\ NotedIsHere /\ Moves => NotedIsHere'
<1> SUFFICES ASSUME WalkType, Place, NotedIsHere, Moves, find'.kChunk # NULL PROVE Here'
  BY DEF NotedIsHere
<1>0. Same /\ bucket \in Nat /\ bucket' \in {bucket, bucket + 1}
  BY BucketMoves DEF Moves
<1>1. CASE find' = find
  BY <1>0, <1>1, HereSame DEF NotedIsHere
<1>2. CASE Shows /\ Finds
  BY <1>0, <1>2, FindsHere
<1> QED
  BY <1>1, <1>2 DEF Moves, BreaksOff, ShowsEmpty, Enters, Shows, Advances, Leaves

LEMMA MovesFirst ==
  WalkType /\ Place /\ Unseen /\ NotedIsFirst /\ Moves /\ (enumProc = "find" => want = All) => NotedIsFirst'
<1> SUFFICES ASSUME WalkType, Place, Unseen, NotedIsFirst, Moves, enumProc = "find" => want = All,
                    kind = "listHeads", find'.kChunk # NULL
             PROVE  NotedIsFirst'
  BY SameLists DEF NotedIsFirst, Moves
<1>0. /\ Same /\ pc \in Walking /\ pc # "done" /\ \A b : HasNone(b)' = HasNone(b)
      /\ mem' = mem /\ \A b : HeadOf(b)' = HeadOf(b)
  BY BucketMoves, SameListFacts, SameLists DEF Moves, Walking
<1>1. find.kChunk = NULL
  BY <1>0 DEF NotedIsFirst
<1>2. Shows /\ Finds
  BY <1>1 DEF Moves, BreaksOff, ShowsEmpty, Enters, Shows, Advances, Leaves
<1>3. /\ pc' = "done" /\ ~bRet' /\ find'.bucket = bucket /\ find'.count = count /\ pc = "call"
  BY <1>2 DEF Shows
<1>4. /\ \A b \in 0 .. bucket - 1 : HasNone(b)
      /\ \A k \in 0 .. count - 1 : At(mem, HeadOf(bucket))[k] \notin mem.holds
  BY <1>0, <1>1, <1>2, <1>3 DEF Unseen, Searching, Finds, Passed, head
<1> QED
  BY <1>0, <1>3, <1>4 DEF NotedIsFirst, HeadOf

LEMMA MovesFresh == WalkType /\ Place /\ Fresh /\ Moves => Fresh'
<1> SUFFICES ASSUME WalkType, Place, Fresh, Moves, enumProc = "find", mem.noHeader = {},
                    \A b \in 0 .. NumBuckets(kind, desc) - 1 : ListCloses(b),
                    ~bRet', pc' = "done" \/ (pc' = "next" /\ kind = "lookaside")
             PROVE  find'.kChunk # NULL /\ Here'
  <2>1. Moves => /\ enumProc' = enumProc /\ mem' = mem /\ kind' = kind
                 /\ NumBuckets(kind, desc)' = NumBuckets(kind, desc)
                 /\ \A b : ListCloses(b)' = ListCloses(b)
    BY SameLists, SameListFacts DEF Moves
  <2> QED
    BY <2>1 DEF Fresh
<1>0. Same /\ bucket \in Nat /\ bucket' \in {bucket, bucket + 1} /\ ListCloses(bucket)
  BY BucketMoves DEF Moves, WalkType
<1>1. CASE BreaksOff
  BY <1>0, <1>1, ReadsOn, ClosedIsReadable DEF BreaksOff, ListCloses, head
<1>2. CASE ShowsEmpty \/ Enters \/ Advances
  BY <1>2 DEF ShowsEmpty, Enters, Advances, Returns
<1>3. CASE Shows
  <2>1. Fails \/ Finds
    BY <1>3 DEF Shows
  <2>2. ~Fails
    BY <1>0, <1>3, ReadsOn DEF Shows, Fails, HeaderReadable
  <2> QED
    BY <1>0, <1>3, <2>1, <2>2, FindsHere
<1>4. CASE Leaves
  <2>1. kind = "lookaside" /\ bRet' = bRet /\ pc = "next" /\ find' = find
    BY <1>4 DEF Leaves, Returns, WalkType, WalkKinds
  <2>2. find.kChunk # NULL /\ Here
    BY <2>1 DEF Fresh
  <2> QED
    BY <1>0, <2>1, <2>2, HereSame
<1> QED
  BY <1>1, <1>2, <1>3, <1>4 DEF Moves

\* A walk that begins with nothing noted has passed over nothing.
LEMMA BeginSearch ==
  ASSUME NEW d, NEW w, NEW proc, Begins(d, w, proc)
  PROVE  /\ Place' /\ Fresh'
         /\ find.kChunk = NULL => Unseen' /\ NotedIsHere' /\ NotedIsFirst'
<1>1. pc' = "bucket" /\ find' = find /\ Passed' = 0 /\ want' = w /\ bucket' = (IF w = All THEN 0 ELSE w)
  BY DEF Begins, Passed
<1>2. Place' /\ Fresh' /\ (find.kChunk = NULL => NotedIsHere' /\ NotedIsFirst')
  BY <1>1 DEF Place, Fresh, NotedIsHere, NotedIsFirst
<1>3. Unseen'
  <2>1. want' = All => \A b \in 0 .. bucket' - 1 : FALSE
    BY <1>1
  <2>2. \A k \in 0 .. Passed' - 1 : FALSE
    BY <1>1
  <2> QED
    BY <1>1, <2>1, <2>2 DEF Unseen, Searching
<1> QED
  BY <1>2, <1>3

-----------------------------------------------------------------------------
(***************************************************************************)
(* One enumeration by itself.                                              *)
(***************************************************************************)

WalkInv ==
  /\ WalkType /\ Place /\ Cursor /\ Listed
  /\ Unseen /\ NotedIsHere /\ NotedIsFirst
  /\ pc = "idle" => find = NoFind /\ calls = <<>>
  /\ enumProc = "find" => want = All

LEMMA InitialType == WalkInit => WalkType /\ pc = "idle" /\ find = NoFind /\ calls = <<>>
<1> SUFFICES ASSUME WalkInit PROVE WalkType /\ pc = "idle" /\ find = NoFind /\ calls = <<>>
  OBVIOUS
<1>1. /\ kind \in WalkKinds /\ mem \in Memory /\ desc \in Descs /\ want = All /\ enumProc = "find"
      /\ pc = "idle" /\ bucket = 0 /\ cur = NULL /\ count = 0 /\ bRet = TRUE /\ find = NoFind /\ calls = <<>>
  BY MemoriesAreMemory, ListHeadsTarget, LookasidesTarget
  DEF WalkInit, L!Init, K!Init, L!Idle, K!Idle, WalkKinds
<1>2. find \in FindPtr /\ calls \in Seq(CallRecords)
  BY <1>1 DEF NoFind, FindPtr
<1> QED
  BY <1>1, <1>2, BucketCounts, TargetAssumption DEF WalkType, Places

LEMMA WalkInvInit == WalkInit => WalkInv
<1> SUFFICES ASSUME WalkInit PROVE WalkInv
  OBVIOUS
<1>1. WalkType /\ pc = "idle" /\ find = NoFind /\ calls = <<>> /\ find.kChunk = NULL
  BY InitialType DEF NoFind
<1>2. enumProc = "find" => want = All
  BY DEF WalkInit, L!Init, K!Init
<1> QED
  BY <1>1, <1>2 DEF WalkInv, Place, Cursor, Listed, Unseen, NotedIsHere, NotedIsFirst, Walking

\* The call of a walk by itself.
LEMMA OwnBegin ==
  ASSUME WalkInv, WalkBegin
  PROVE  \E d \in Descs : \E w \in (0 .. NumBuckets(kind, d) - 1) \cup {All} : \E proc \in {"find", "print"} :
            Begins(d, w, proc) /\ d = desc /\ (proc = "find" => w = All)
<1>1. kind \in WalkKinds /\ desc \in Descs /\ kind' = kind
  BY DEF WalkInv, WalkType, WalkBegin
<1>2. CASE kind = "listHeads" /\ L!Begin
  <2>1. NumBuckets(kind, desc) = ListHeadsBuckets
    BY <1>2 DEF NumBuckets
  <2> QED
    BY <1>1, <1>2, <2>1, CallBegins DEF L!Begin
<1>3. CASE kind = "lookaside" /\ K!Begin
  <2>1. NumBuckets(kind, desc) = LookasideBuckets[desc]
    BY <1>3 DEF NumBuckets
  <2>2. K!Asked(desc, All) = 0 .. NumBuckets(kind, desc) - 1
    BY <2>1 DEF K!Asked
  <2> QED
    BY <1>1, <1>3, <2>2, CallBegins DEF K!Begin
<1> QED
  BY <1>2, <1>3 DEF WalkBegin

LEMMA OwnBeginInv == WalkInv /\ WalkBegin => WalkInv'
<1> SUFFICES ASSUME WalkInv, WalkBegin PROVE WalkInv'
  OBVIOUS
<1>1. PICK d \in Descs, w \in (0 .. NumBuckets(kind, desc) - 1) \cup {All}, proc \in {"find", "print"} :
        Begins(d, w, proc) /\ d = desc /\ (proc = "find" => w = All)
  BY OwnBegin
<1>2. pc = "idle" /\ find.kChunk = NULL
  BY DEF WalkBegin, L!Begin, K!Begin, WalkInv, NoFind
<1>3. WalkType'
  BY <1>1, BeginType DEF WalkInv, WalkType, WalkKinds
<1>4. Cursor' /\ Listed'
  BY <1>1, <1>3, BeginCursor, BeginListed DEF WalkInv, WalkType
<1>5. Place' /\ Unseen' /\ NotedIsHere' /\ NotedIsFirst'
  BY <1>1, <1>2, BeginSearch
<1> QED
  BY <1>1, <1>3, <1>4, <1>5 DEF WalkInv, Begins

LEMMA StepInv == WalkInv /\ WalkStep => WalkInv' /\ Moves
<1> SUFFICES ASSUME WalkInv, WalkStep PROVE WalkInv' /\ Moves
  OBVIOUS
<1>1. Moves
  BY StepMoves DEF WalkInv
<1>2. WalkType' /\ Place'
  BY <1>1, MovesType, MovesPlace DEF WalkInv
<1>3. Cursor' /\ Listed'
  BY <1>1, <1>2, MovesCursor, MovesListed DEF WalkInv, CInv
<1>4. Unseen' /\ NotedIsHere' /\ NotedIsFirst'
  BY <1>1, <1>2, MovesUnseen, MovesNoted, MovesFirst DEF WalkInv
<1>5. pc' # "idle" /\ (enumProc' = "find" => want' = All)
  BY <1>1 DEF WalkInv, Moves, Same, BreaksOff, ShowsEmpty, Enters, Shows, Advances, Leaves, Returns
<1> QED
  BY <1>1, <1>2, <1>3, <1>4, <1>5 DEF WalkInv

LEMMA SameInv == WalkInv /\ UNCHANGED walkVars => WalkInv'
<1> SUFFICES ASSUME WalkInv, UNCHANGED walkVars PROVE WalkInv'
  OBVIOUS
<1>1. /\ kind' = kind /\ mem' = mem /\ desc' = desc /\ want' = want /\ enumProc' = enumProc /\ pc' = pc
      /\ bucket' = bucket /\ cur' = cur /\ count' = count /\ bRet' = bRet /\ find' = find /\ calls' = calls
  BY DEF walkVars, walk
<1>2. WalkType' /\ Place'
  BY <1>1 DEF WalkInv, WalkType, Place, Index, Passed, head, HeadOf, end
<1>3. Cursor'
  BY <1>1 DEF WalkInv, Cursor, BetweenLists, LastCallIs, Index, Passed, head, HeadOf, end,
              Abstract!Whole, Abstract!EndsList, Abstract!Latest, Abstract!LastBucket, Abstract!FirstBucket
<1>4. Listed'
  BY <1>1 DEF WalkInv, Listed, Complete, Shown, EntryCalls, Within, Sorted, Before, Passed, HeadOf,
              Abstract!LastBucket, Abstract!FirstBucket
<1>5. Unseen' /\ NotedIsHere' /\ NotedIsFirst'
  BY <1>1 DEF WalkInv, Unseen, NotedIsHere, NotedIsFirst, Here, Searching, ListCloses, HasNone, Passed, head, HeadOf
<1> QED
  BY <1>1, <1>2, <1>3, <1>4, <1>5 DEF WalkInv

\* A step of WalkSpec is the call, a step of the walk, or changes nothing.
LEMMA WalkSteps == [WalkNext]_walkVars => WalkBegin \/ WalkStep \/ UNCHANGED walkVars
  BY DEF WalkNext, Walk, L!EndlessWalk, L!Finished, L!vars, walkVars, walk

LEMMA WalkInvNext == WalkInv /\ [WalkNext]_walkVars => WalkInv'
  BY WalkSteps, OwnBeginInv, StepInv, SameInv

LEMMA WalkInvariant == WalkSpec => []WalkInv
<1>1. WalkInit => WalkInv
  BY WalkInvInit
<1>2. WalkInv /\ [WalkNext]_walkVars => WalkInv'
  BY WalkInvNext
<1> QED
  BY <1>1, <1>2, PTL DEF WalkSpec

LEMMA TypeFollows == WalkType => WalkTypeOK
<1> SUFFICES ASSUME WalkType PROVE WalkTypeOK
  OBVIOUS
<1>1. CASE kind = "listHeads"
  <2>1. NumBuckets(kind, desc) = ListHeadsBuckets /\ L!CallRecords = CallRecords
    BY <1>1, ListHeadsTarget DEF NumBuckets, L!CallRecords, CallRecords, Places
  <2> QED
    BY <1>1, <2>1, ListHeadsTarget DEF WalkType, WalkTypeOK, L!TypeOK, Places
<1>2. CASE kind = "lookaside"
  <2>1. /\ NumBuckets(kind, desc) = LookasideBuckets[desc] /\ K!CallRecords = CallRecords
        /\ K!Asked(desc, All) = 0 .. LookasideBuckets[desc] - 1
    BY <1>2, LookasidesTarget DEF NumBuckets, K!CallRecords, CallRecords, Places, K!Asked
  <2> QED
    BY <1>2, <2>1, LookasidesTarget DEF WalkType, WalkTypeOK, K!TypeOK, Places
<1> QED
  BY <1>1, <1>2 DEF WalkType, WalkKinds

\* Type correctness of EnumListHeads and EnumLookasides: whatever the links
\* lead to and whichever reads fail, the bucket stays in the array, the
\* position is a link, and the calls of the callback are well-formed.
THEOREM WalkTypeCorrect == WalkSpec => []WalkTypeOK
<1>1. WalkInv => WalkTypeOK
  BY TypeFollows DEF WalkInv
<1> QED
  BY <1>1, WalkInvariant, PTL

LEMMA FoundFollows == WalkType /\ NotedIsHere /\ NotedIsFirst => FoundIsThere
<1> SUFFICES ASSUME WalkType, NotedIsHere, NotedIsFirst, find.kChunk # NULL
             PROVE  FoundIsThere
  BY DEF FoundIsThere, L!FoundIsFirst, K!FoundIsThere
<1>1. Here
  BY DEF NotedIsHere
<1>2. /\ \A b : L!HeadOf(b) = HeadOf(b) /\ K!HeadOf(b) = HeadOf(b)
  BY ListHeadsTarget, LookasidesTarget DEF L!HeadOf, K!HeadOf, HeadOf
<1>3. CASE kind = "listHeads"
  <2>1. L!FoundIsFirst
    BY <1>1, <1>2, <1>3, ListHeadsLists DEF Here, NotedIsFirst, HasNone, L!FoundIsFirst, FirstHolder, EndOf
  <2> QED
    BY <1>3, <2>1 DEF FoundIsThere
<1>4. CASE kind = "lookaside"
  <2>1. K!FoundIsThere
    BY <1>1, <1>2, <1>4, LookasidesLists DEF Here, K!FoundIsThere, EndOf
  <2> QED
    BY <1>4, <2>1 DEF FoundIsThere
<1> QED
  BY <1>3, <1>4 DEF WalkType, WalkKinds

\* EnumListHeadsProcFindChunk and EnumLookasideProcFindChunk: what a search
\* reports lies in the list it is reported for, at the place it is reported
\* for, and contains the pointer; for ListHeads it is the first that does.
THEOREM SearchFindsWhatIsThere == WalkSpec => []FoundIsThere
<1>1. WalkInv => FoundIsThere
  BY FoundFollows DEF WalkInv
<1> QED
  BY <1>1, WalkInvariant, PTL

LEMMA NoneFollows == WalkInv => NoneIsPassed
<1> SUFFICES ASSUME WalkInv, enumProc = "find", pc = "done" PROVE NoneIsPassed
  BY DEF NoneIsPassed, L!MissIsComplete, K!HoldersAreNoted
<1>0. /\ Searching /\ WalkType /\ bucket \in Nat /\ find.count \in Nat
      /\ \A b : L!HeadOf(b) = HeadOf(b) /\ K!HeadOf(b) = HeadOf(b)
  BY ListHeadsTarget, LookasidesTarget, BucketCounts
  DEF WalkInv, WalkType, FindPtr, Searching, L!HeadOf, K!HeadOf, HeadOf
<1>1. CASE kind = "listHeads"
  <2>1. ASSUME bRet, NEW b \in 0 .. ListHeadsBuckets - 1
        PROVE  ListCloses(b) /\ HasNone(b)
    <3>1. find.kChunk = NULL
      BY <1>1, <2>1 DEF WalkInv, NotedIsFirst
    <3>2. /\ \A x \in 0 .. bucket - 1 : ListCloses(x) /\ HasNone(x)
          /\ bucket = ListHeadsBuckets - 1 /\ ListCloses(bucket) /\ HasNone(bucket)
      BY <1>0, <1>1, <2>1, <3>1 DEF WalkInv, Unseen, NumBuckets
    <3>3. b = bucket \/ b \in 0 .. bucket - 1
      BY <1>0, <3>2
    <3> QED
      BY <3>2, <3>3
  <2>2. L!Asked(want) = 0 .. ListHeadsBuckets - 1
    BY <1>0 DEF L!Asked, Searching
  <2>3. L!MissIsComplete
    BY <1>0, <1>1, <2>1, <2>2, ListHeadsLists DEF L!MissIsComplete, ListCloses, HasNone, EndOf
  <2> QED
    BY <1>1, <2>3 DEF NoneIsPassed
<1>2. CASE kind = "lookaside"
  <2> SUFFICES ASSUME mem.noHeader = {}, \A b \in 0 .. bucket : ListCloses(b)
               PROVE  find.kChunk # NULL <=> \E b \in 0 .. bucket : ~HasNone(b)
    BY <1>0, <1>2, LookasidesLists DEF NoneIsPassed, K!HoldersAreNoted, ListCloses, HasNone, EndOf
  <2>1. ASSUME find.kChunk = NULL, NEW b \in 0 .. bucket PROVE HasNone(b)
    <3>1. /\ \A x \in 0 .. bucket - 1 : HasNone(x)
          /\ HasNone(bucket)
      BY <1>0, <2>1 DEF WalkInv, Unseen
    <3>2. b = bucket \/ b \in 0 .. bucket - 1
      BY <1>0
    <3> QED
      BY <3>1, <3>2
  <2>2. ASSUME find.kChunk # NULL PROVE \E b \in 0 .. bucket : ~HasNone(b)
    <3>1. Here
      BY <2>2 DEF WalkInv, NotedIsHere
    <3>2. find.bucket \in 0 .. bucket /\ ListCloses(find.bucket)
      BY <3>1 DEF Here
    <3>3. find.count \in Positions(mem, HeadOf(find.bucket), EndOf(kind, HeadOf(find.bucket)))
      BY <1>0, <3>1, <3>2, ClosedIsReadable DEF Here, ListCloses
    <3>4. ~HasNone(find.bucket)
      BY <3>1, <3>3 DEF Here, HasNone, NoHolder
    <3> QED
      BY <3>2, <3>4
  <2> QED
    BY <2>1, <2>2
<1> QED
  BY <1>0, <1>1, <1>2 DEF WalkType, WalkKinds

\* A search passes no chunk unseen: EnumListHeads answers TRUE only after it
\* has followed every list back to its head and none of the entries contains
\* the pointer; EnumLookasides has noted a chunk exactly if one of the buckets
\* walked holds one that does.
THEOREM SearchPassesNone == WalkSpec => []NoneIsPassed
  BY WalkInvariant, NoneFollows, PTL

\* There is at least one call for each list.
LEMMA ListingHasCalls ==
  ASSUME NEW m, NEW h, NEW e, NEW b, Closes(m, h, e)
  PROVE  Listing(m, h, e, b) # {}
<1>1. CASE m.link[h] = e
  BY <1>1 DEF Listing
<1>2. CASE m.link[h] # e
  <2>1. 0 \in Positions(m, h, e)
    BY <1>2, ClosedIsReadable, EntryFirst
  <2> QED
    BY <1>2, <2>1 DEF Listing
<1> QED
  BY <1>1, <1>2

LEMMA ShowsFollows == WalkType /\ Listed => ShowsEveryEntry
<1> SUFFICES ASSUME WalkType, Listed, pc = "done", bRet PROVE ShowsEveryEntry
  BY DEF ShowsEveryEntry
<1>1. Asked = Abstract!FirstBucket .. bucket
  <2>1. /\ Abstract!FirstBucket \in Nat /\ bucket = Abstract!LastBucket
        /\ want = All => Abstract!LastBucket = NumBuckets(kind, desc) - 1 /\ Abstract!FirstBucket = 0
        /\ want # All => Abstract!LastBucket = want /\ Abstract!FirstBucket = want
    BY Buckets DEF Listed
  <2>2. want # All => want \in Nat
    BY BucketCounts DEF WalkType
  <2>4. CASE want = All
    BY <2>1, <2>4 DEF Asked
  <2>5. CASE want # All
    BY <2>1, <2>2, <2>5 DEF Asked
  <2> QED
    BY <2>4, <2>5
<1>2. /\ \A b \in Asked : Complete(calls, b)
      /\ \A j \in DOMAIN calls : calls[j].bucket \in Asked
      /\ Sorted(calls)
  BY <1>1 DEF Listed
<1>3. ASSUME NEW b \in Asked PROVE \E j \in DOMAIN calls : calls[j].bucket = b
  <2>1. Shown(calls, b) # {}
    BY <1>2, ListingHasCalls DEF Complete
  <2> QED
    BY <2>1 DEF Shown
<1>4. {calls[j].bucket : j \in DOMAIN calls} = Asked
  BY <1>2, <1>3
<1> QED
  BY <1>2, <1>4 DEF ShowsEveryEntry, Complete, Shown, Sorted, Before

\* An enumeration that returns TRUE, a listing of !poolinfo above all, has
\* shown each bucket asked for, whole, and no other; in ascending order, each
\* in the order of its entries, and nothing twice.
THEOREM ListingIsWhole == WalkSpec => []ShowsEveryEntry
<1>1. WalkInv => ShowsEveryEntry
  BY ShowsFollows DEF WalkInv
<1> QED
  BY <1>1, WalkInvariant, PTL

LEMMA AbstractInit == WalkInit => Abstract!Init
  BY InitialType, EnumerationTarget DEF Abstract!Init, WalkType, WalkKinds, NoFind

LEMMA AbstractStep == WalkInv /\ WalkInv' /\ [WalkNext]_walkVars => [Abstract!Next]_Abstract!vars
<1> SUFFICES ASSUME WalkInv, WalkInv', [WalkNext]_walkVars PROVE Abstract!Next \/ UNCHANGED Abstract!vars
  OBVIOUS
<1>1. CASE WalkBegin
  <2>1. pc = "idle"
    BY <1>1 DEF WalkBegin, L!Begin, K!Begin
  <2>2. PICK d \in Descs, w \in (0 .. NumBuckets(kind, desc) - 1) \cup {All}, proc \in {"find", "print"} :
          Begins(d, w, proc) /\ d = desc
    BY <1>1, OwnBegin
  <2>3. /\ pc' = "bucket" /\ UNCHANGED <<kind, mem, desc, find>> /\ calls' = <<>> /\ calls = <<>>
    BY <2>1, <2>2 DEF Begins, WalkInv
  <2> QED
    BY <2>1, <2>3 DEF Abstract!Begin, Abstract!Next
<1>2. CASE WalkStep
  <2>1. Moves
    BY <1>2, StepInv
  <2> QED
    BY <2>1, MovesAbstract DEF WalkInv, CInv
<1>3. CASE UNCHANGED walkVars
  BY <1>3 DEF walkVars, walk, Abstract!vars
<1> QED
  BY <1>1, <1>2, <1>3, WalkSteps

\* Either walk makes the calls of the callback Enumeration promises, no other
\* and in that order, and claims to be complete only when it is.
THEOREM WalkImplementsEnumeration == WalkSpec => ImplementsEnumeration
<1>1. WalkInit => Abstract!Init
  BY AbstractInit
<1>2. WalkInv /\ WalkInv' /\ [WalkNext]_walkVars => [Abstract!Next]_Abstract!vars
  BY AbstractStep
<1> QED
  BY <1>1, <1>2, WalkInvariant, PTL DEF WalkSpec, ImplementsEnumeration, Abstract!Spec
=============================================================================
