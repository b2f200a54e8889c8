---------------------------- MODULE FixedAllocator ----------------------------
(***************************************************************************)
(* FastFixedAllocator of NetLib/NetLib/Allocator.h as operators on a value *)
(* [chunks, free]: the chunks it has from the heap, and its free blocks,   *)
(* the head of the list first.                                             *)
(*                                                                         *)
(* The list is threaded through the free blocks themselves; it is the      *)
(* sequence of the blocks here, since nobody writes into a block that he   *)
(* has given back.  Each call runs under the allocator's lock.             *)
(***************************************************************************)
EXTENDS Integers, Sequences, FiniteSets

CONSTANTS Chunks,    \* what `new char[]` and malloc can return
          ChunkSize  \* CHUNK_SIZE: blocks per chunk

ASSUME FixedAllocatorAssumption == ChunkSize \in Nat \ {0}

\* The i-th block of chunk c.
Blocks == Chunks \X (1 .. ChunkSize)
BlocksOf(c) == {c} \X (1 .. ChunkSize)

Allocator == [chunks : SUBSET Chunks, free : Seq(Blocks)]

NewAllocator == [chunks |-> {}, free |-> <<>>]

\* Mutant: the buffer begins at the chunk's own header.
FilledFromHeader(a, c) ==
    [chunks |-> a.chunks \cup {c},
     free |-> [i \in 1 .. ChunkSize |-> <<c, i - 1>>] \o a.free]

\* Mutant: the loop ends one block early.
FilledShort(a, c) ==
    [chunks |-> a.chunks \cup {c},
     free |-> [i \in 1 .. ChunkSize - 1 |-> <<c, i + 1>>] \o a.free]

\* Mutant: the last block is threaded twice, the first one never.
FilledOffByOne(a, c) ==
    [chunks |-> a.chunks \cup {c},
     free |-> [i \in 1 .. ChunkSize |-> <<c, IF i < ChunkSize THEN i + 1 ELSE i>>] \o a.free]

\* fill_free_node: the blocks of a new chunk, in the order of their addresses,
\* before what is free.
Filled(a, c) ==
    [chunks |-> a.chunks \cup {c},
     free |-> [i \in 1 .. ChunkSize |-> <<c, i>>] \o a.free]

\* alloc, up to the point where the list has a head: with an empty list it takes
\* one of the chunks that the heap has to spare.
Refilled(a, spare) ==
    IF a.free # <<>> THEN {a} ELSE {Filled(a, c) : c \in spare}

\* alloc, the rest: the head of the list.
Popped(a) == [a EXCEPT !.free = Tail(@)]

\* free: the block becomes the head.
Pushed(a, b) == [a EXCEPT !.free = <<b>> \o @]

\* The blocks that are in the free list, and those that callers have.
FreeBlocks(a) == {a.free[i] : i \in DOMAIN a.free}
UsedBlocks(a) == {b \in Blocks : b[1] \in a.chunks} \ FreeBlocks(a)
==============================================================================
