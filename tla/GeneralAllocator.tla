--------------------------- MODULE GeneralAllocator ---------------------------
(***************************************************************************)
(* FastGeneralAllocator of NetLib/NetLib/Allocator.h: one fixed allocator  *)
(* per size class, malloc beyond the largest class.  Its callers are       *)
(* SmallObj and the containers with SmallObjectAllocPolicy, which give a   *)
(* block back with the size they asked for.                                *)
(*                                                                         *)
(* Threads call it at any time; what they share is inside the locks of the *)
(* fixed allocators, so each call is one step.                             *)
(***************************************************************************)
EXTENDS FixedAllocator

CONSTANTS GrowSize,    \* GROW_SIZE: bytes from one class to the next
          AllocCount,  \* ALLOC_COUNT: number of classes
          MaxBytes     \* bound on the sizes that callers ask for

ASSUME GeneralAllocatorAssumption ==
    /\ GrowSize \in Nat \ {0}
    /\ AllocCount \in Nat \ {0}
    /\ MaxBytes \in Nat

VARIABLES fixed,  \* fixed_allocator_
          held    \* the blocks that callers have, with the size they asked for

allocVars == <<fixed, held>>

MaxAlloc == GrowSize * AllocCount
Classes == 0 .. AllocCount - 1

\* Mutant: a size that fills its class goes to the next one.
ClassAbove(n) == IF n \div GrowSize < AllocCount THEN n \div GrowSize ELSE AllocCount - 1

\* get_fixed_allocator, for 1 .. MaxAlloc, and the size of that class's blocks.
ClassOf(n) == (n - 1) \div GrowSize
AllocSize(i) == GrowSize * (i + 1)

\* The chunks that the heap can still give.
Spare == Chunks \ ((UNION {fixed[i].chunks : i \in Classes}) \cup {h.block[1] : h \in held})

AllocInit ==
    /\ fixed = [i \in Classes |-> NewAllocator]
    /\ held = {}

\* alloc of a size that has a class.
AllocSmall(n) ==
    /\ n \in 1 .. MaxAlloc
    /\ n <= AllocSize(ClassOf(n))
    /\ \E a \in Refilled(fixed[ClassOf(n)], Spare) :
          /\ fixed' = [fixed EXCEPT ![ClassOf(n)] = Popped(a)]
          /\ held' = held \cup {[block |-> Head(a.free), bytes |-> n]}

\* alloc of more: malloc.
AllocLarge(n) ==
    /\ n > MaxAlloc
    /\ \E c \in Spare : held' = held \cup {[block |-> <<c, 1>>, bytes |-> n]}
    /\ UNCHANGED fixed

\* alloc returns a null pointer, for no bytes, from malloc or when the class is
\* too small, or throws out of `new char[]`.
AllocFails(n) ==
    /\ \/ n = 0 \/ n > MaxAlloc
       \/ n \in 1 .. MaxAlloc /\ (n > AllocSize(ClassOf(n)) \/ fixed[ClassOf(n)].free = <<>>)
    /\ UNCHANGED allocVars

\* Mutant: free rounds the size in another way than alloc does.
FreeAbove(h) ==
    /\ held' = held \ {h}
    /\ IF h.bytes > MaxAlloc
       THEN UNCHANGED fixed
       ELSE fixed' = [fixed EXCEPT ![ClassAbove(h.bytes)] = Pushed(@, h.block)]

\* free, by the size.
Free(h) ==
    /\ held' = held \ {h}
    /\ IF h.bytes > MaxAlloc
       THEN UNCHANGED fixed
       ELSE fixed' = [fixed EXCEPT ![ClassOf(h.bytes)] = Pushed(@, h.block)]

AllocNext ==
    \/ \E n \in 0 .. MaxBytes : AllocSmall(n) \/ AllocLarge(n) \/ AllocFails(n)
    \/ \E h \in held : Free(h)

AllocSpec == AllocInit /\ [][AllocNext]_allocVars

------------------------------------------------------------------------------
Holdings == [block : Blocks, bytes : Nat]

AllocTypeOK ==
    /\ fixed \in [Classes -> Allocator]
    /\ held \in SUBSET Holdings

\* No block is given out twice, is free while somebody has it, or is free twice:
\* the free lists of all classes together with the callers hold each block once
\* (Allocator.h:25 warns that the free list reuses the latest block first).
BlocksExclusive ==
    /\ \A h, k \in held : h.block = k.block => h = k
    /\ \A i \in Classes :
          /\ \A j, k \in DOMAIN fixed[i].free : fixed[i].free[j] = fixed[i].free[k] => j = k
          /\ FreeBlocks(fixed[i]) \cap {h.block : h \in held} = {}
    /\ \A i, j \in Classes : i # j => FreeBlocks(fixed[i]) \cap FreeBlocks(fixed[j]) = {}

\* However often blocks have been given back and out again, a block lies in a
\* chunk of a class that has room for the bytes that were asked for: alloc(n)
\* and free(p, n) agree on the class of n.
BlocksFit ==
    \A h \in held : \A i \in Classes : h.block[1] \in fixed[i].chunks => h.bytes <= AllocSize(i)

\* No block is lost: every block of every chunk is free or somebody has it.
BlocksConserved ==
    \A i \in Classes : UsedBlocks(fixed[i]) \subseteq {h.block : h \in held}
==============================================================================
