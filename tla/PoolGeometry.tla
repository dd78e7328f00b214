---------------------------- MODULE PoolGeometry ----------------------------
(***************************************************************************)
(* The layout of one kernel pool page as the extension sees it: a page of  *)
(* NumBlocks pool blocks, some of which start with a pool header.  All     *)
(* addresses are relative to the base of the page, PAGE_ALIGN(kPtr).       *)
(*                                                                         *)
(*   64-bit target: NumBlocks = 256, PoolBlockSize = 0x10, BlockSize is a  *)
(*                  byte, so MaxBlockSize = 255.                           *)
(*   32-bit target: NumBlocks = 512, PoolBlockSize = 8, BlockSize is nine  *)
(*                  bits wide, so MaxBlockSize = 511.                      *)
(***************************************************************************)
EXTENDS Integers

CONSTANTS
  NumBlocks,      \* pool blocks in a page, PAGE_SIZE / poolBlockSize
  PoolBlockSize,  \* bytes in a block, ctx->poolBlockSize
  HeaderSize,     \* bytes in a pool header, POOL_HEADER_SIZE
  MaxBlockSize,   \* the largest value the header's BlockSize field can hold
  NULL            \* the null pointer, no address of a page

PageSize == NumBlocks * PoolBlockSize

\* The bytes a chunk of n blocks spans.
Bytes(n) == n * PoolBlockSize

\* Where a header may start, and the contents of a page: the BlockSize that
\* would be read at each of these offsets, headers or not.
Offsets    == {Bytes(k) : k \in 0 .. NumBlocks - 1}
BlockSizes == 0 .. MaxBlockSize
Pages      == [Offsets -> BlockSizes]
Pointers   == 0 .. PageSize - 1

ASSUME GeometryAssumption ==
  /\ NumBlocks \in Nat \ {0}
  /\ PoolBlockSize \in Nat \ {0}
  /\ HeaderSize \in 1 .. PoolBlockSize
  /\ MaxBlockSize \in Nat
  /\ NULL \notin Int \cup Pages

\* PTR_IN_CHUNK: ptr is one of the bytes of the chunk.
PtrInChunk(ptr, chunk, blockSize) ==
  /\ ptr >= chunk
  /\ ptr < chunk + Bytes(blockSize)

(***************************************************************************)
(* What a page means, independently of any walk: its chunks start at the   *)
(* base of the page and wherever another chunk ends.                       *)
(***************************************************************************)
After(page, s) == s + Bytes(page[s])

Closed(page, S) ==
  /\ 0 \in S
  /\ \A s \in S : page[s] # 0 /\ After(page, s) < PageSize => After(page, s) \in S

Starts(page) == {s \in Offsets : \A S \in SUBSET Offsets : Closed(page, S) => s \in S}

\* The chunks of the page that ptr points into.
Covering(page, ptr) == {s \in Starts(page) : PtrInChunk(ptr, s, page[s])}
=============================================================================
