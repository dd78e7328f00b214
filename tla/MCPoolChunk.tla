----------------------------- MODULE MCPoolChunk -----------------------------
(***************************************************************************)
(* The lists of MCFreeChunkSearch, and two descriptors of a pool type at   *)
(* most, so that a PoolIndex can be the first, the last, or one too large. *)
(***************************************************************************)
EXTENDS MCFreeChunkSearch, PoolChunk

Allocated(k, n) == [inUse |-> TRUE, kind |-> k, poolIndex |-> n]

MCHeaders == {[inUse |-> FALSE, kind |-> "nonpaged", poolIndex |-> 1]}
             \cup {Allocated(k, n) : k \in {"session", "paged"}, n \in {0, 2}}
             \cup {Allocated("nonpaged", 1)}
=============================================================================
