--------------------------- MODULE PoolPageProofs ---------------------------
(***************************************************************************)
(* Proofs about the walk over a pool page, for pages, blocks and headers   *)
(* of every size.                                                          *)
(***************************************************************************)
EXTENDS PoolPage, TLAPS

-----------------------------------------------------------------------------
(***************************************************************************)
(* Arithmetic of the page.                                                 *)
(***************************************************************************)

\* A number of blocks takes no more bytes than a larger number of them.
LEMMA BytesMonotonic ==
  ASSUME NEW m \in Nat, NEW n \in Nat, m <= n
  PROVE  /\ Bytes(m) \in Nat
         /\ Bytes(m) <= Bytes(n)
         /\ Bytes(m + n) = Bytes(m) + Bytes(n)
         /\ n # 0 => Bytes(n) >= PoolBlockSize
BY GeometryAssumption DEF Bytes

\* Every place for a header is a natural number, and the block that starts
\* there is in the page.
LEMMA OffsetsInPage ==
  ASSUME NEW o \in Offsets
  PROVE  /\ o \in Nat
         /\ o + PoolBlockSize <= PageSize
         /\ o < PageSize
<1>1. PICK k \in 0 .. NumBlocks - 1 : o = Bytes(k)
  BY DEF Offsets
<1>2. /\ Bytes(k) \in Nat
      /\ Bytes(k) + PoolBlockSize = Bytes(k + 1)
  BY GeometryAssumption DEF Bytes
<1>3. Bytes(k + 1) <= Bytes(NumBlocks)
  BY BytesMonotonic, GeometryAssumption
<1> QED
  BY <1>1, <1>2, <1>3, GeometryAssumption DEF Bytes, PageSize

\* The base of the page is one of them.
LEMMA ZeroIsOffset == 0 \in Offsets /\ Offsets \subseteq Nat /\ PageSize \in Nat \ {0}
<1>1. 0 = Bytes(0) /\ 0 \in 0 .. NumBlocks - 1
  BY GeometryAssumption DEF Bytes
<1>2. PageSize \in Nat \ {0}
  BY GeometryAssumption DEF PageSize
<1> QED
  BY <1>1, <1>2, OffsetsInPage DEF Offsets

\* The end of a chunk is a natural number, not before its start; if it lies in
\* the page it is a place for a header.
LEMMA AfterChunk ==
  ASSUME NEW o \in Offsets, NEW n \in BlockSizes
  PROVE  /\ o + Bytes(n) \in Nat
         /\ o + Bytes(n) >= o
         /\ n # 0 => o + Bytes(n) > o
         /\ o + Bytes(n) < PageSize => o + Bytes(n) \in Offsets
<1>1. PICK k \in 0 .. NumBlocks - 1 : o = Bytes(k)
  BY DEF Offsets
<1>2. k \in Nat /\ n \in Nat /\ k + n \in Nat
  BY GeometryAssumption DEF BlockSizes
<1>3. /\ Bytes(k) \in Nat /\ Bytes(n) \in Nat /\ Bytes(k + n) = Bytes(k) + Bytes(n)
      /\ n # 0 => Bytes(n) >= PoolBlockSize
  BY <1>2, GeometryAssumption DEF Bytes
<1>4. ASSUME o + Bytes(n) < PageSize
      PROVE  o + Bytes(n) \in Offsets
  <2>1. Bytes(k + n) < Bytes(NumBlocks)
    BY <1>1, <1>3, <1>4 DEF PageSize, Bytes
  <2>2. ~(NumBlocks <= k + n)
    BY <1>2, <2>1, BytesMonotonic, GeometryAssumption DEF Bytes
  <2>3. k + n \in 0 .. NumBlocks - 1
    BY <1>2, <2>2, GeometryAssumption
  <2> QED
    BY <1>1, <1>3, <2>3 DEF Offsets
<1> QED
  BY <1>1, <1>3, <1>4, GeometryAssumption

-----------------------------------------------------------------------------
(***************************************************************************)
(* The chunks of a page: the least closed set, and the walk's way through  *)
(* it.                                                                     *)
(***************************************************************************)

\* The starts of the chunks are themselves closed.
LEMMA StartsClosed ==
  ASSUME NEW p \in Pages
  PROVE  Closed(p, Starts(p)) /\ Starts(p) \subseteq Offsets
<1>1. 0 \in Starts(p)
  BY ZeroIsOffset DEF Starts, Closed
<1>2. ASSUME NEW s \in Starts(p), p[s] # 0, After(p, s) < PageSize
      PROVE  After(p, s) \in Starts(p)
  <2>1. s \in Offsets /\ p[s] \in BlockSizes
    BY DEF Starts, Pages
  <2>2. After(p, s) \in Offsets
    BY <2>1, <1>2, AfterChunk DEF After
  <2>3. ASSUME NEW S \in SUBSET Offsets, Closed(p, S)
        PROVE  After(p, s) \in S
    BY <1>2, <2>3 DEF Closed, Starts
  <2> QED
    BY <2>2, <2>3 DEF Starts
<1> QED
  BY <1>1, <1>2 DEF Closed, Starts

\* They are in every closed set.
LEMMA StartsLeast ==
  ASSUME NEW p \in Pages, NEW S \in SUBSET Offsets, Closed(p, S)
  PROVE  Starts(p) \subseteq S
BY DEF Starts

\* Every chunk before s is a chunk of some size that ends at s or before it.
Behind(p, s) ==
  \A t \in Starts(p) : t < s => p[t] # 0 /\ After(p, t) <= s

\* If all chunks before a start s end by s, none starts inside the chunk at s,
\* and if that one is empty there is none after it.
LEMMA NoneInside ==
  ASSUME NEW p \in Pages, NEW s \in Starts(p), Behind(p, s)
  PROVE  /\ \A t \in Starts(p) : t <= s \/ t >= After(p, s)
         /\ p[s] = 0 => \A t \in Starts(p) : t <= s
<1> DEFINE S == {t \in Starts(p) : t <= s \/ (p[s] # 0 /\ t >= After(p, s))}
<1>1. /\ s \in Offsets /\ s \in Nat
      /\ Starts(p) \subseteq Offsets /\ Closed(p, Starts(p))
      /\ \A t \in Starts(p) : t \in Nat /\ p[t] \in BlockSizes
  BY StartsClosed, OffsetsInPage DEF Pages
<1>2. 0 \in S
  BY <1>1 DEF Closed
<1>3. ASSUME NEW t \in S, p[t] # 0, After(p, t) < PageSize
      PROVE  After(p, t) \in S
  <2>1. After(p, t) \in Starts(p)
    BY <1>1, <1>3 DEF Closed
  <2>2. After(p, t) \in Nat /\ After(p, t) >= t
    BY <1>1, <1>3, AfterChunk DEF After
  <2>3. CASE t < s
    BY <2>1, <2>3 DEF Behind
  <2>4. CASE t = s
    BY <1>3, <2>1, <2>2, <2>4
  <2>5. CASE t > s
    <3>1. p[s] # 0 /\ t >= After(p, s)
      BY <1>1, <2>5
    <3>2. After(p, s) \in Nat
      BY <1>1, AfterChunk DEF After
    <3> QED
      BY <1>1, <2>1, <2>2, <3>1, <3>2
  <2> QED
    BY <1>1, <2>3, <2>4, <2>5
<1>4. Closed(p, S) /\ S \in SUBSET Offsets
  BY <1>1, <1>2, <1>3 DEF Closed
<1>5. Starts(p) \subseteq S
  BY <1>4, StartsLeast
<1> QED
  BY <1>1, <1>5

\* One step of the walk: from a start to the end of its chunk.
LEMMA BehindAdvances ==
  ASSUME NEW p \in Pages, NEW s \in Starts(p), Behind(p, s), p[s] # 0,
         After(p, s) < PageSize
  PROVE  After(p, s) \in Starts(p) /\ Behind(p, After(p, s))
<1>1. /\ Starts(p) \subseteq Offsets /\ Closed(p, Starts(p))
      /\ \A t \in Starts(p) : t \in Nat /\ p[t] \in BlockSizes /\ After(p, t) \in Nat
  BY StartsClosed, OffsetsInPage, AfterChunk DEF Pages, After
<1>2. After(p, s) \in Starts(p)
  BY <1>1 DEF Closed
<1>3. ASSUME NEW t \in Starts(p), t < After(p, s)
      PROVE  p[t] # 0 /\ After(p, t) <= After(p, s)
  <2>1. t <= s
    BY <1>1, <1>3, NoneInside
  <2>2. After(p, s) >= s
    BY <1>1, AfterChunk DEF After
  <2> QED
    BY <1>1, <2>1, <2>2 DEF Behind
<1> QED
  BY <1>2, <1>3 DEF Behind

-----------------------------------------------------------------------------
(***************************************************************************)
(* The inductive invariant of the walk.                                    *)
(***************************************************************************)

\* The chunks the walk has passed.
Passed == {s \in Starts(page) : s < offset}

\* Where the walk is: at a chunk of the page, all chunks before it passed.
OnTheWay ==
  pc = "walk" => page \in Pages /\ offset \in Starts(page) /\ Behind(page, offset)

\* What has been said about the pointer on the way.
Answered ==
  /\ pc \in {"probe", "read"} => page = NULL /\ offset = 0
  /\ pc # "done" => kChunk = NULL
  /\ enumProc = "find" \/ page = NULL => out = <<>>
  /\ pc = "walk" /\ enumProc = "find" =>
       \A s \in Passed : ~PtrInChunk(kPtr, s, page[s])
  /\ pc = "walk" /\ enumProc = "print" =>
       Starred = {s \in Passed : PtrInChunk(kPtr, s, page[s])}
  /\ enumProc = "print" => kChunk = NULL

Inv == TypeOK /\ OnTheWay /\ Answered

\* The position is one of a header, inside the buffer.
LEMMA InvInPage ==
  ASSUME Inv, pc = "walk"
  PROVE  /\ page \in Pages /\ offset \in Offsets /\ offset \in Nat /\ BlockSize \in BlockSizes
         /\ offset + HeaderSize <= PageSize
         /\ NextOffset = After(page, offset) /\ NextOffset \in Nat
<1>1. page \in Pages /\ offset \in Offsets
  BY StartsClosed DEF Inv, OnTheWay
<1>2. BlockSize \in BlockSizes
  BY <1>1 DEF BlockSize, Pages
<1>3. offset + HeaderSize <= PageSize /\ offset \in Nat
  BY <1>1, OffsetsInPage, GeometryAssumption DEF PageSize
<1>4. NextOffset = After(page, offset) /\ NextOffset \in Nat
  BY <1>1, <1>2, AfterChunk DEF NextOffset, After, BlockSize
<1> QED
  BY <1>1, <1>2, <1>3, <1>4

\* Printing a line adds its chunk to the marked ones if it is marked.
LEMMA StarredGrows ==
  ASSUME out \in Seq(Lines), NEW line \in Lines, out' = Append(out, line)
  PROVE  Starred' = Starred \cup (IF line.star THEN {line.addr} ELSE {})
<1>1. /\ DOMAIN out = 1 .. Len(out) /\ DOMAIN out' = 1 .. Len(out) + 1
      /\ Len(out) \in Nat
      /\ \A j \in 1 .. Len(out) : out'[j] = out[j]
      /\ out'[Len(out) + 1] = line
  OBVIOUS
<1>2. ASSUME NEW c \in Starred
      PROVE  c \in Starred'
  BY <1>1 DEF Starred
<1>3. ASSUME line.star
      PROVE  line.addr \in Starred'
  BY <1>1, <1>3 DEF Starred
<1>4. ASSUME NEW c \in Starred', c \notin Starred
      PROVE  line.star /\ c = line.addr
  BY <1>1, <1>4 DEF Starred
<1> QED
  BY <1>2, <1>3, <1>4

\* The initial state.
LEMMA InvInit == Init => Inv
<1> SUFFICES ASSUME Init PROVE Inv
  OBVIOUS
<1>1. TypeOK
  <2>1. pc \in {"probe", "read", "walk", "done"} /\ enumProc \in {"find", "print"}
    BY EnumProcsAssumption DEF Init
  <2>2. <<>> \in Seq(Lines)
    OBVIOUS
  <2> QED
    BY <2>1, <2>2 DEF Init, TypeOK
<1>2. pc \in {"probe", "read"} /\ page = NULL /\ offset = 0 /\ kChunk = NULL /\ out = <<>>
  BY DEF Init
<1>3. OnTheWay /\ Answered
  BY <1>2 DEF OnTheWay, Answered
<1> QED
  BY <1>1, <1>3 DEF Inv

\* What the iterations that print a line have in common.
LEMMA PrintLineTyped ==
  ASSUME Inv, pc = "walk"
  PROVE  /\ Line(offset, BlockSize) \in Lines
         /\ PrintLine \in Seq(Lines)
         /\ enumProc = "find" => PrintLine = <<>>
<1>1. offset \in Offsets /\ BlockSize \in BlockSizes /\ out \in Seq(Lines)
  BY InvInPage DEF Inv, TypeOK
<1>2. Line(offset, BlockSize) \in Lines
  BY <1>1 DEF Line, Lines, IsHere, PtrInChunk
<1> QED
  BY <1>1, <1>2 DEF PrintLine, Inv, Answered, TypeOK

\* Every step keeps the invariant.
LEMMA InvNext == Inv /\ [Next]_vars => Inv'
<1> SUFFICES ASSUME Inv, [Next]_vars PROVE Inv'
  OBVIOUS
<1> USE DEF Inv
<1>1. CASE Probe
  BY <1>1 DEF Probe, TypeOK, OnTheWay, Answered
<1>2. CASE ReadPage
  <2>1. CASE page' \in Pages /\ pc' = "walk"
    <3>1. TypeOK'
      BY <1>2, <2>1 DEF ReadPage, TypeOK
    <3>2. offset' = 0 /\ kChunk' = NULL /\ out' = <<>> /\ enumProc' = enumProc
      BY <1>2 DEF ReadPage, Answered
    <3>3. /\ 0 \in Starts(page') /\ \A s \in Starts(page') : s \in Nat
      BY <2>1, StartsClosed, ZeroIsOffset DEF Closed
    <3>4. OnTheWay'
      BY <2>1, <3>2, <3>3 DEF OnTheWay, Behind
    <3>5. Passed' = {} /\ Starred' = {}
      BY <3>2, <3>3 DEF Passed, Starred
    <3>6. Answered'
      BY <2>1, <3>2, <3>5 DEF Answered
    <3> QED
      BY <3>1, <3>4, <3>6
  <2>2. CASE pc' = "done" /\ UNCHANGED page
    BY <1>2, <2>2 DEF ReadPage, TypeOK, OnTheWay, Answered
  <2> QED
    BY <1>2, <2>1, <2>2 DEF ReadPage
<1>3. CASE StopAtFound
  <2>1. offset \in Offsets /\ enumProc = "find"
    BY <1>3, InvInPage DEF StopAtFound, Stops
  <2> QED
    BY <1>3, <2>1 DEF StopAtFound, FoundChunk, TypeOK, OnTheWay, Answered
<1>4. CASE ZeroBlockSize
  <2>1. /\ PrintLine \in Seq(Lines) /\ (enumProc = "find" => PrintLine = <<>>)
        /\ page # NULL
    BY <1>4, PrintLineTyped, InvInPage, GeometryAssumption DEF ZeroBlockSize
  <2> QED
    BY <1>4, <2>1 DEF ZeroBlockSize, TypeOK, OnTheWay, Answered
<1>5. CASE Advance
  <2>1. /\ pc = "walk" /\ pc' = "walk" /\ page' = page /\ offset' = NextOffset
        /\ enumProc' = enumProc /\ kPtr' = kPtr /\ kChunk' = kChunk /\ out' = PrintLine
        /\ ~Stops /\ BlockSize # 0 /\ NextOffset < PageSize
    BY <1>5, InvInPage, ZeroIsOffset DEF Advance, ZeroSized, LeavesPage
  <2>2. /\ page \in Pages /\ offset \in Starts(page) /\ Behind(page, offset)
        /\ offset' = After(page, offset) /\ page[offset] # 0
        /\ offset \in Nat /\ offset' \in Nat /\ offset' > offset
        /\ \A s \in Starts(page) : s \in Nat
        /\ BlockSize \in BlockSizes
    BY <2>1, InvInPage, StartsClosed, ZeroIsOffset, AfterChunk
    DEF OnTheWay, BlockSize, NextOffset
  <2>3. offset' \in Starts(page) /\ Behind(page, offset')
    BY <2>1, <2>2, BehindAdvances
  <2>4. OnTheWay'
    BY <2>1, <2>2, <2>3 DEF OnTheWay
  <2>5. TypeOK'
    BY <1>5, <2>1, <2>2, PrintLineTyped DEF Advance, TypeOK
  <2>6. Passed' = Passed \cup {offset}
    <3>1. \A t \in Starts(page) : t <= offset \/ t >= offset'
      BY <2>2, NoneInside
    <3>2. \A t \in Starts(page) : t < offset' <=> t < offset \/ t = offset
      BY <2>2, <3>1
    <3>3. Passed' = {s \in Starts(page) : s < offset'}
      BY <2>1 DEF Passed
    <3> QED
      BY <2>2, <3>2, <3>3 DEF Passed
  <2>7. ASSUME enumProc = "find"
        PROVE  \A s \in Passed' : ~PtrInChunk(kPtr, s, page[s])
    BY <2>1, <2>6, <2>7 DEF Answered, Stops, IsHere, BlockSize
  <2>8. ASSUME enumProc = "print"
        PROVE  Starred' = {s \in Passed' : PtrInChunk(kPtr, s, page[s])}
    <3> DEFINE line == Line(offset, BlockSize)
    <3>1. /\ line \in Lines /\ line.addr = offset
          /\ line.star = PtrInChunk(kPtr, offset, page[offset])
      BY <2>1, PrintLineTyped DEF Line, IsHere, BlockSize
    <3>2. out' = Append(out, line) /\ out \in Seq(Lines)
      BY <2>1, <2>8 DEF PrintLine, TypeOK
    <3>3. Starred' = Starred \cup (IF line.star THEN {line.addr} ELSE {})
      BY <3>1, <3>2, StarredGrows
    <3>4. Starred = {s \in Passed : PtrInChunk(kPtr, s, page[s])}
      BY <2>1, <2>8 DEF Answered
    <3> QED
      BY <2>6, <3>1, <3>3, <3>4
  <2>9. Answered'
    <3>1. page # NULL /\ (enumProc = "find" => out' = <<>>)
      BY <2>1, <2>2, PrintLineTyped, GeometryAssumption
    <3> QED
      BY <2>1, <2>7, <2>8, <3>1 DEF Answered
  <2> QED
    BY <2>4, <2>5, <2>9
<1>6. CASE EndOfPage
  <2>1. /\ PrintLine \in Seq(Lines) /\ (enumProc = "find" => PrintLine = <<>>)
        /\ page # NULL
    BY <1>6, PrintLineTyped, InvInPage, GeometryAssumption DEF EndOfPage
  <2> QED
    BY <1>6, <2>1 DEF EndOfPage, TypeOK, OnTheWay, Answered
<1>7. CASE Finished \/ UNCHANGED vars
  <2>1. UNCHANGED vars
    BY <1>7 DEF Finished
  <2> QED
    BY <2>1 DEF vars, TypeOK, OnTheWay, Answered, Passed, Starred
<1> QED
  BY <1>1, <1>2, <1>3, <1>4, <1>5, <1>6, <1>7 DEF Next

\* The walk keeps the invariant for ever.
THEOREM InvAlways == Spec => []Inv
BY InvInit, InvNext, PTL DEF Spec

-----------------------------------------------------------------------------
(***************************************************************************)
(* What follows from it.                                                   *)
(***************************************************************************)

\* Every variable keeps to its type (EnumPoolPage and its two callbacks, for
\* pages of any size and contents).
THEOREM TypeCorrect == Spec => []TypeOK
<1>1. Inv => TypeOK
  BY DEF Inv
<1> QED
  BY <1>1, InvAlways, PTL

\* GetBlockSize and the callbacks never read beyond the buffer pageContents,
\* whatever BlockSizes a damaged page holds.
THEOREM ReadsInsidePage == Spec => []HeaderInPage
<1>1. Inv => HeaderInPage
  BY InvInPage DEF HeaderInPage
<1> QED
  BY <1>1, InvAlways, PTL

\* The loop of EnumPoolPage moves forward or leaves: with HeaderInPage this
\* bounds it by the number of blocks in a page.
THEOREM WalkMovesForward == Spec => Progress
<1>1. Inv /\ [Next]_vars => [pc = "walk" /\ pc' = "walk" => offset' > offset]_vars
  <2> SUFFICES ASSUME Inv, [Next]_vars, pc = "walk", pc' = "walk", vars' # vars
               PROVE  offset' > offset
    OBVIOUS
  <2>1. Advance
    BY DEF Next, Probe, ReadPage, StopAtFound, ZeroBlockSize, EndOfPage, Finished
  <2>2. /\ offset \in Offsets /\ BlockSize \in BlockSizes /\ BlockSize # 0
        /\ offset' = offset + Bytes(BlockSize)
    BY <2>1, InvInPage DEF Advance, ZeroSized, NextOffset
  <2> QED
    BY <2>2, AfterChunk
<1> QED
  BY <1>1, InvAlways, PTL DEF Spec, Progress

-----------------------------------------------------------------------------
(***************************************************************************)
(* The walk implements ChunkLookup.                                        *)
(***************************************************************************)

\* The geometry of the abstract specification is that of the walk.
LEMMA SameGeometry ==
  ASSUME NEW p, NEW q
  PROVE  /\ Lookup!Covering(p, q) = Covering(p, q)
         /\ Lookup!Pages = Pages
         /\ Lookup!Pointers = Pointers
BY DEF Lookup!Covering, Lookup!Pages, Lookup!Pointers, Lookup!PtrInChunk, Lookup!Starts,
       Lookup!Closed, Lookup!After, Lookup!Offsets, Lookup!Bytes, Lookup!BlockSizes,
       Lookup!PageSize, Covering, Pages, Pointers, PtrInChunk, Starts, Closed, After,
       Offsets, Bytes, BlockSizes, PageSize

\* Before the page is read no chunk is named.
LEMMA NoneNamedYet == ASSUME Inv, page = NULL, kChunk = NULL PROVE Named = NULL
<1>1. Starred = {}
  BY DEF Inv, Answered, Starred
<1> QED
  BY <1>1 DEF Named

\* If the chunk at the walk's position contains the pointer, no chunk has been
\* named before; and unless it does, a walk that ends here has named the chunk
\* with the pointer or there is none.
LEMMA PositionDecides ==
  ASSUME Inv, pc = "walk"
  PROVE  /\ IsHere(offset, BlockSize) =>
              /\ BlockSize # 0
              /\ offset \in Covering(page, kPtr)
              /\ Named = NULL /\ Starred = {}
         /\ ~IsHere(offset, BlockSize) /\ Named = NULL
            /\ (BlockSize = 0 \/ NextOffset >= PageSize) => Covering(page, kPtr) = {}
<1>1. /\ page \in Pages /\ offset \in Starts(page) /\ Behind(page, offset)
      /\ BlockSize = page[offset] /\ kPtr \in Nat
      /\ NextOffset = After(page, offset)
      /\ \A s \in Starts(page) :
           s \in Nat /\ s < PageSize /\ page[s] \in BlockSizes /\ After(page, s) \in Nat
  <2>1. page \in Pages /\ offset \in Starts(page) /\ Behind(page, offset)
    BY DEF Inv, OnTheWay
  <2>2. BlockSize = page[offset] /\ NextOffset = After(page, offset)
    BY InvInPage DEF BlockSize
  <2>3. kPtr \in Nat
    BY ZeroIsOffset DEF Inv, TypeOK, Pointers
  <2>4. ASSUME NEW s \in Starts(page)
        PROVE  s \in Nat /\ s < PageSize /\ page[s] \in BlockSizes /\ After(page, s) \in Nat
    <3>1. s \in Offsets /\ page[s] \in BlockSizes
      BY <2>1, StartsClosed DEF Pages
    <3> QED
      BY <3>1, OffsetsInPage, AfterChunk DEF After
  <2> QED
    BY <2>1, <2>2, <2>3, <2>4
<1>2. /\ kChunk = NULL
      /\ enumProc = "find" => \A s \in Passed : ~PtrInChunk(kPtr, s, page[s])
      /\ enumProc = "print" => Starred = {s \in Passed : PtrInChunk(kPtr, s, page[s])}
      /\ enumProc \in {"find", "print"}
  BY DEF Inv, Answered, TypeOK
<1>3. \A s \in Starts(page) : NULL # s
  BY <1>1, GeometryAssumption
<1>4. ASSUME IsHere(offset, BlockSize)
      PROVE  /\ BlockSize # 0 /\ offset \in Covering(page, kPtr)
             /\ Named = NULL /\ Starred = {}
  <2>1. offset \in Covering(page, kPtr)
    BY <1>1, <1>4 DEF Covering, IsHere
  <2>2. BlockSize # 0
    BY <1>1, <1>4, GeometryAssumption DEF IsHere, PtrInChunk, Bytes
  <2>3. \A s \in Passed : ~PtrInChunk(kPtr, s, page[s])
    BY <1>1, <1>4 DEF Passed, Behind, IsHere, PtrInChunk, After
  <2>4. Starred = {}
    <3>1. CASE enumProc = "print"
      BY <1>2, <2>3, <3>1
    <3>2. CASE enumProc = "find"
      BY <3>2 DEF Inv, Answered, Starred
    <3> QED
      BY <1>2, <3>1, <3>2
  <2> QED
    BY <1>2, <2>1, <2>2, <2>4 DEF Named
<1>5. ASSUME ~IsHere(offset, BlockSize), Named = NULL,
             BlockSize = 0 \/ NextOffset >= PageSize
      PROVE  Covering(page, kPtr) = {}
  <2>1. \A s \in Starts(page) : s \in Passed \/ s = offset
    BY <1>1, <1>5, NoneInside, ZeroIsOffset DEF Passed
  <2>2. \A s \in Passed : ~PtrInChunk(kPtr, s, page[s])
    <3>1. CASE enumProc = "find"
      BY <1>2, <3>1
    <3>2. CASE enumProc = "print"
      <4>1. Starred \subseteq Starts(page)
        BY <1>2, <3>2 DEF Passed
      <4>2. Starred = {}
        BY <1>3, <1>5, <3>2, <4>1 DEF Named
      <4> QED
        BY <1>2, <3>2, <4>2
    <3> QED
      BY <1>2, <3>1, <3>2
  <2> QED
    BY <1>1, <1>5, <2>1, <2>2 DEF Covering, IsHere
<1> QED
  BY <1>4, <1>5

\* What printing a line does to the chunk named.
LEMMA PrintingNames ==
  ASSUME Inv, pc = "walk", ~Stops, out' = PrintLine,
         enumProc' = enumProc, kChunk' = kChunk
  PROVE  Named' = IF IsHere(offset, BlockSize) THEN offset ELSE Named
<1>1. CASE enumProc = "find"
  <2>1. ~IsHere(offset, BlockSize)
    BY <1>1 DEF Stops
  <2> QED
    BY <1>1, <2>1 DEF Named
<1>2. CASE enumProc = "print"
  <2> DEFINE line == Line(offset, BlockSize)
  <2>1. /\ line \in Lines /\ line.addr = offset /\ line.star = IsHere(offset, BlockSize)
        /\ out \in Seq(Lines) /\ out' = Append(out, line)
    BY <1>2, PrintLineTyped DEF Line, PrintLine, Inv, TypeOK
  <2>2. Starred' = Starred \cup (IF line.star THEN {offset} ELSE {})
    BY <2>1, StarredGrows
  <2>3. CASE IsHere(offset, BlockSize)
    <3>1. Starred' = {offset}
      BY <2>1, <2>2, <2>3, PositionDecides
    <3> QED
      BY <1>2, <2>3, <3>1 DEF Named
  <2>4. CASE ~IsHere(offset, BlockSize)
    <3>1. Starred' = Starred
      BY <2>1, <2>2, <2>4
    <3> QED
      BY <1>2, <2>4, <3>1 DEF Named
  <2> QED
    BY <2>3, <2>4
<1> QED
  BY <1>1, <1>2 DEF Inv, TypeOK

LEMMA LookupInit == Init => Lookup!Init
<1> SUFFICES ASSUME Init PROVE Lookup!Init
  OBVIOUS
<1>1. Inv /\ page = NULL /\ kChunk = NULL
  BY InvInit DEF Init
<1>2. Named = NULL
  BY <1>1, NoneNamedYet
<1> QED
  BY <1>2, SameGeometry DEF Init, Lookup!Init

\* Each step of the walk is a step of ChunkLookup, or none.
LEMMA LookupNext == Inv /\ [Next]_vars => [Lookup!Next]_Lookup!vars
<1> SUFFICES ASSUME Inv, [Next]_vars PROVE [Lookup!Next]_Lookup!vars
  OBVIOUS
<1> USE DEF Lookup!vars, Lookup!Next
<1>1. CASE Probe \/ ReadPage
  <2>1. /\ pc # "done" /\ page = NULL /\ kChunk = NULL /\ kPtr' = kPtr /\ UNCHANGED <<enumProc, kChunk, out>>
        /\ \/ page' \in Pages /\ pc' # "done"
           \/ page' = page
    BY <1>1 DEF Probe, ReadPage, Inv, Answered
  <2>2. Named = NULL /\ Named' = NULL
    <3>1. Named = NULL
      BY <2>1, NoneNamedYet
    <3>2. Named' = Named
      BY <2>1 DEF Named, Starred
    <3> QED
      BY <3>1, <3>2
  <2>3. CASE page' \in Pages /\ pc' # "done"
    BY <2>1, <2>2, <2>3, SameGeometry DEF Lookup!Read
  <2>4. CASE page' = page /\ pc' = "done"
    BY <2>1, <2>2, <2>4 DEF Lookup!End
  <2>5. CASE page' = page /\ pc' # "done"
    BY <2>1, <2>2, <2>5
  <2> QED
    BY <2>1, <2>3, <2>4, <2>5
<1>2. CASE StopAtFound
  <2>1. /\ pc = "walk" /\ pc' = "done" /\ UNCHANGED <<kPtr, page>>
        /\ enumProc = "find" /\ enumProc' = enumProc /\ kChunk' = offset
        /\ IsHere(offset, BlockSize)
    BY <1>2 DEF StopAtFound, FoundChunk, Stops
  <2>2. offset \in Covering(page, kPtr) /\ Named = NULL /\ page # NULL
    BY <2>1, PositionDecides, InvInPage, GeometryAssumption
  <2>3. Named' = offset
    BY <2>1 DEF Named
  <2> QED
    BY <2>1, <2>2, <2>3, SameGeometry DEF Lookup!Name
<1>3. CASE ZeroBlockSize \/ Advance \/ EndOfPage
  <2>1. /\ pc = "walk" /\ UNCHANGED <<kPtr, page, enumProc, kChunk>>
        /\ out' = PrintLine /\ ~Stops
        /\ pc' = "done" => BlockSize = 0 \/ NextOffset >= PageSize
    BY <1>3 DEF ZeroBlockSize, Advance, EndOfPage, ZeroSized, LeavesPage
  <2>2. Named' = IF IsHere(offset, BlockSize) THEN offset ELSE Named
    BY <2>1, PrintingNames
  <2>3. page # NULL
    BY <2>1, InvInPage, GeometryAssumption
  <2>4. CASE IsHere(offset, BlockSize)
    <3>1. offset \in Covering(page, kPtr) /\ Named = NULL
      BY <2>1, <2>4, PositionDecides
    <3> QED
      BY <2>1, <2>2, <2>3, <2>4, <3>1, SameGeometry DEF Lookup!Name
  <2>5. CASE ~IsHere(offset, BlockSize) /\ pc' = "done"
    <3>1. Named = NULL => Covering(page, kPtr) = {}
      BY <2>1, <2>5, PositionDecides
    <3> QED
      BY <2>1, <2>2, <2>5, <3>1, SameGeometry DEF Lookup!End
  <2>6. CASE ~IsHere(offset, BlockSize) /\ pc' # "done"
    BY <2>1, <2>2, <2>6
  <2> QED
    BY <2>4, <2>5, <2>6
<1>4. CASE Finished \/ UNCHANGED vars
  BY <1>4 DEF Finished, vars, Named, Starred
<1> QED
  BY <1>1, <1>2, <1>3, <1>4 DEF Next

\* !poolchunk and !poolpage keep the promise of ChunkLookup: on a page of any
\* contents, the chunk found or marked is the chunk of the page that contains
\* the pointer, and none is only if there is none.
THEOREM WalkImplementsLookup == Spec => ImplementsLookup
BY InvAlways, LookupInit, LookupNext, PTL DEF Spec, ImplementsLookup, Lookup!Spec

-----------------------------------------------------------------------------
(***************************************************************************)
(* The lines printed by a clean walk partition the page.                   *)
(***************************************************************************)

\* Byte p is in the chunk of line i and of no other.
OnlyIn(lines, p, i) ==
  /\ PtrInChunk(p, lines[i].addr, lines[i].size)
  /\ \A j \in DOMAIN lines \ {i} : ~PtrInChunk(p, lines[j].addr, lines[j].size)

\* The lines partition the bytes before o.
TilesUpTo(lines, o) ==
  /\ \A p \in Nat : p < o => \E i \in DOMAIN lines : OnlyIn(lines, p, i)
  /\ \A i \in DOMAIN lines : lines[i].addr + Bytes(lines[i].size) <= o

\* One more line carries the partition to the end of its chunk.
LEMMA TilesGrow ==
  ASSUME NEW lines \in Seq(Lines), NEW line \in Lines, TilesUpTo(lines, line.addr)
  PROVE  TilesUpTo(Append(lines, line), line.addr + Bytes(line.size))
<1> DEFINE o == line.addr
           e == o + Bytes(line.size)
           more == Append(lines, line)
           new == Len(lines) + 1
<1>1. /\ o \in Nat /\ e \in Nat /\ e >= o
      /\ \A i \in DOMAIN lines : lines[i].addr \in Nat /\ lines[i].addr + Bytes(lines[i].size) \in Nat
  <2>1. ASSUME NEW x \in Lines
        PROVE  x.addr \in Nat /\ x.addr + Bytes(x.size) \in Nat /\ x.addr + Bytes(x.size) >= x.addr
    BY AfterChunk, OffsetsInPage DEF Lines
  <2> QED
    BY <2>1
<1>2. /\ DOMAIN lines = 1 .. Len(lines) /\ Len(lines) \in Nat
      /\ DOMAIN more = DOMAIN lines \cup {new} /\ new \notin DOMAIN lines
      /\ \A i \in DOMAIN lines : more[i] = lines[i]
      /\ more[new] = line
  OBVIOUS
<1> HIDE DEF more, new, e, o
<1>3. ASSUME NEW p \in Nat, p < o
      PROVE  \E i \in DOMAIN more : OnlyIn(more, p, i)
  <2>1. PICK i \in DOMAIN lines : OnlyIn(lines, p, i)
    BY <1>3 DEF TilesUpTo, o
  <2>2. ~PtrInChunk(p, line.addr, line.size)
    BY <1>1, <1>3 DEF PtrInChunk, o
  <2> QED
    BY <1>2, <2>1, <2>2 DEF OnlyIn
<1>4. ASSUME NEW p \in Nat, ~(p < o), p < e
      PROVE  OnlyIn(more, p, new)
  <2>1. PtrInChunk(p, line.addr, line.size)
    BY <1>1, <1>4 DEF PtrInChunk, o, e
  <2>2. \A j \in DOMAIN lines : ~PtrInChunk(p, lines[j].addr, lines[j].size)
    BY <1>1, <1>4 DEF PtrInChunk, TilesUpTo, o
  <2> QED
    BY <1>2, <2>1, <2>2 DEF OnlyIn
<1>5. \A i \in DOMAIN more : more[i].addr + Bytes(more[i].size) <= e
  BY <1>1, <1>2 DEF TilesUpTo, o, e
<1>6. TilesUpTo(more, e)
  BY <1>2, <1>3, <1>4, <1>5 DEF TilesUpTo
<1> QED
  BY <1>6 DEF more, e, o

\* The walk under way has printed a partition of what it has passed.
Tiling ==
  /\ pc # "done" => ~ret
  /\ enumProc = "print" /\ pc = "walk" => TilesUpTo(out, offset)
  /\ CleanWalkTilesPage

LEMMA TilingInit == Init => Tiling
BY DEF Init, Tiling, CleanWalkTilesPage

LEMMA TilingNext == Inv /\ Tiling /\ [Next]_vars => Tiling'
<1> SUFFICES ASSUME Inv, Tiling, [Next]_vars PROVE Tiling'
  OBVIOUS
<1>1. CASE Probe
  BY <1>1 DEF Probe, Tiling, CleanWalkTilesPage
<1>2. CASE ReadPage
  <2>1. out = <<>> /\ offset = 0 /\ out' = out /\ offset' = offset /\ ret' = ret /\ ~ret
    BY <1>2 DEF ReadPage, Inv, Answered, Tiling
  <2>2. TilesUpTo(out', offset')
    BY <2>1 DEF TilesUpTo
  <2> QED
    BY <2>1, <2>2 DEF Tiling, CleanWalkTilesPage
<1>3. CASE StopAtFound \/ ZeroBlockSize
  BY <1>3 DEF StopAtFound, ZeroBlockSize, Tiling, CleanWalkTilesPage
<1>4. ASSUME Advance \/ EndOfPage, enumProc = "print"
      PROVE  TilesUpTo(out', NextOffset)
  <2> DEFINE line == Line(offset, BlockSize)
  <2>1. /\ pc = "walk" /\ out' = Append(out, line) /\ out \in Seq(Lines)
    BY <1>4 DEF Advance, EndOfPage, PrintLine, Inv, TypeOK
  <2>2. /\ line \in Lines /\ line.addr = offset /\ line.size = BlockSize
    BY <2>1, PrintLineTyped DEF Line
  <2>3. TilesUpTo(out, line.addr)
    BY <1>4, <2>1, <2>2 DEF Tiling
  <2>4. TilesUpTo(Append(out, line), line.addr + Bytes(line.size))
    BY <2>1, <2>2, <2>3, TilesGrow
  <2> QED
    BY <2>1, <2>2, <2>4 DEF NextOffset
<1>5. CASE Advance
  BY <1>4, <1>5 DEF Advance, Tiling, CleanWalkTilesPage
<1>6. CASE EndOfPage
  <2>1. pc' = "done" /\ enumProc' = enumProc /\ (diag' = "none" => NextOffset = PageSize)
    BY <1>6 DEF EndOfPage
  <2>2. CASE enumProc = "print" /\ diag' = "none"
    <3>1. TilesUpTo(out', PageSize)
      BY <1>4, <1>6, <2>1, <2>2
    <3>2. \A p \in Pointers : p \in Nat /\ p < PageSize
      BY ZeroIsOffset DEF Pointers
    <3>3. CleanWalkTilesPage'
      BY <3>1, <3>2 DEF TilesUpTo, OnlyIn, CleanWalkTilesPage
    <3> QED
      BY <2>1, <3>3 DEF Tiling
  <2>3. CASE ~(enumProc = "print" /\ diag' = "none")
    BY <2>1, <2>3 DEF Tiling, CleanWalkTilesPage
  <2> QED
    BY <2>2, <2>3
<1>7. CASE Finished \/ UNCHANGED vars
  BY <1>7 DEF Finished, vars, Tiling, CleanWalkTilesPage
<1> QED
  BY <1>1, <1>2, <1>3, <1>5, <1>6, <1>7 DEF Next

\* !poolpage without a complaint at its end has shown the whole page: every
\* byte is in the chunk of exactly one line (EnumProcPrintHeader, and the test
\* of the last chunk's end in EnumPoolPage).
THEOREM CleanWalkIsComplete == Spec => []CleanWalkTilesPage
<1>1. Inv /\ Tiling => CleanWalkTilesPage
  BY DEF Tiling
<1>2. Spec => []Tiling
  BY InvAlways, TilingInit, TilingNext, PTL DEF Spec
<1> QED
  BY <1>1, <1>2, InvAlways, PTL
=============================================================================
