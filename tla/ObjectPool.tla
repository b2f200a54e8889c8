------------------------------ MODULE ObjectPool ------------------------------
(***************************************************************************)
(* ReusableObjectPool of NetLib/NetLib/ObjectPool.h over its two fixed     *)
(* allocators (objects and list nodes, Allocator.h) and its linked list of *)
(* free objects (LinkedList.h).  Each call runs under the pool's lock.     *)
(*                                                                         *)
(* Clients give back what they were given, once, and end the pool when     *)
(* they have given everything back.                                        *)
(***************************************************************************)
EXTENDS FixedAllocator

CONSTANTS ListHead, NullPtr  \* the list's head, nullptr

\* Memory is finite, and neither the head of the list nor nullptr is a block.
ASSUME PoolAssumption ==
    /\ IsFiniteSet(Chunks)
    /\ ListHead \notin Blocks
    /\ NullPtr \notin Blocks \cup {ListHead}

VARIABLES objs,   \* objpool.m_Alloc
          nodes,  \* node_pool.m_Alloc
          links,  \* the pointers and data of the nodes, and of free_list's head
          built,  \* the blocks that hold a constructed object
          out,    \* the objects that clients have
          mode,   \* "up"; "dying" in the destructor; "down" behind it
          peak    \* history: the most objects clients had at a time

poolVars == <<objs, nodes, links, built, out, mode, peak>>

List == INSTANCE LinkedList
            WITH Nodes <- Blocks, Data <- Blocks, Head0 <- ListHead, Null <- NullPtr

\* The chunks that the heap can still give.
PoolSpare == Chunks \ (objs.chunks \cup nodes.chunks)

\* A new pool, with a list head that points to itself and nothing else.
PoolInit ==
    /\ objs = NewAllocator /\ nodes = NewAllocator
    /\ links = List!NewList
    /\ built = {} /\ out = {}
    /\ mode = "up"
    /\ peak = 0

HandOut(o) ==
    /\ out' = out \cup {o}
    /\ peak' = IF Cardinality(out') > peak THEN Cardinality(out') ELSE peak

\* Allocate with nothing in the free list: a new object from objpool.
AllocateNew ==
    /\ mode = "up" /\ List!Empty(links)
    /\ \E a \in Refilled(objs, PoolSpare) :
          /\ objs' = Popped(a)
          /\ built' = built \cup {Head(a.free)}
          /\ HandOut(Head(a.free))
    /\ UNCHANGED <<nodes, links, mode>>

\* Mutant: the node does not go back to its pool.
ReuseKeepsNode ==
    /\ mode = "up" /\ ~List!Empty(links)
    /\ LET n == List!Begin(links)
       IN  /\ links' = List!Destructed(List!Remove(List!SetData(links, n, NullPtr), n), n)
           /\ HandOut(links.data[n])
    /\ UNCHANGED <<objs, nodes, built, mode>>

\* Allocate otherwise: the object of the list's first node, as it was left.  The
\* node is emptied, unlinked, destroyed and given back to node_pool.
AllocateReused ==
    /\ mode = "up" /\ ~List!Empty(links)
    /\ LET n == List!Begin(links)
       IN  /\ links' = List!Destructed(List!Remove(List!SetData(links, n, NullPtr), n), n)
           /\ nodes' = Pushed(nodes, n)
           /\ HandOut(links.data[n])
    /\ UNCHANGED <<objs, built, mode>>

\* Free: a node with the object goes to the end of the list.
PoolFree(o) ==
    /\ mode = "up"
    /\ out' = out \ {o}
    /\ \E a \in Refilled(nodes, PoolSpare) :
          LET n == Head(a.free)
          IN  /\ nodes' = Popped(a)
              /\ links' = List!PushBack(List!SetData(List!Constructed(links, n), n, o), n)
    /\ UNCHANGED <<objs, built, mode, peak>>

\* Mutant: Free takes the object over before it has the node.
BadAllocDropsObject ==
    /\ mode = "up" /\ PoolSpare = {} /\ nodes.free = <<>>
    /\ \E o \in out : out' = out \ {o}
    /\ UNCHANGED <<objs, nodes, links, built, mode, peak>>

\* The heap has no chunk: bad_alloc leaves Allocate, or Free, which needs memory
\* for a node.  That allocation is the first thing that either does, and new[]
\* throws before alloc has changed anything, so the client keeps the object.
BadAlloc ==
    /\ mode = "up" /\ PoolSpare = {}
    /\ \/ List!Empty(links) /\ objs.free = <<>>
       \/ out # {} /\ nodes.free = <<>>
    /\ UNCHANGED poolVars

\* The destructor: the objects in the list are destroyed one by one; then every
\* chunk goes back to the heap.
Die ==
    /\ mode = "up" /\ out = {}
    /\ mode' = "dying"
    /\ UNCHANGED <<objs, nodes, links, built, out, peak>>

DestroyFirst ==
    /\ mode = "dying" /\ ~List!Empty(links)
    /\ LET n == List!Begin(links)
       IN  /\ objs' = Pushed(objs, links.data[n])
           /\ built' = built \ {links.data[n]}
           /\ links' = List!Destructed(List!Remove(links, n), n)
           /\ nodes' = Pushed(nodes, n)
    /\ UNCHANGED <<out, mode, peak>>

FreeAll ==
    /\ mode = "dying" /\ List!Empty(links)
    /\ objs' = NewAllocator /\ nodes' = NewAllocator
    /\ mode' = "down"
    /\ UNCHANGED <<links, built, out, peak>>

\* The next pool in the same place.
Construct ==
    /\ mode = "down"
    /\ mode' = "up"
    /\ links' = List!NewList
    /\ peak' = 0
    /\ UNCHANGED <<objs, nodes, built, out>>

PoolNext ==
    \/ AllocateNew \/ AllocateReused \/ BadAlloc
    \/ \E o \in out : PoolFree(o)
    \/ Die \/ DestroyFirst \/ FreeAll \/ Construct

PoolSpec == PoolInit /\ [][PoolNext]_poolVars

------------------------------------------------------------------------------
PoolTypeOK ==
    /\ objs \in Allocator /\ nodes \in Allocator
    /\ links \in List!Links
    /\ built \subseteq Blocks /\ out \subseteq Blocks
    /\ mode \in {"up", "dying", "down"}
    /\ peak \in 0 .. Cardinality(Blocks)

\* The list as its readers see it: the i-th node behind the head, the number of
\* nodes before the head comes again (none of it, if it never does) and their
\* objects.
Walk[i \in 0 .. Cardinality(Blocks) + 1] ==
    IF i = 0 THEN ListHead ELSE links.next[Walk[i - 1]]
Returns == {i \in 1 .. Cardinality(Blocks) + 1 : Walk[i] = ListHead}
ListLength == IF Returns = {} THEN 0 ELSE (CHOOSE i \in Returns : \A j \in Returns : i <= j) - 1
Idle == [i \in 1 .. ListLength |-> links.data[Walk[i]]]

\* Nothing leaks, neither in the pool's life nor at its end: every block of
\* objpool in use is a constructed object, which a client has or the list keeps,
\* never both; every block of node_pool in use is a node of the list.
NothingLeaks ==
    /\ built = out \cup {Idle[i] : i \in DOMAIN Idle}
    /\ Cardinality(built) = Cardinality(out) + Len(Idle)
    /\ UsedBlocks(objs) = built
    /\ UsedBlocks(nodes) = {Walk[i] : i \in 1 .. ListLength}

\* Objects are reused: the pool has made exactly as many as clients ever had at
\* the same time.
BuiltIsPeak == mode = "up" => Cardinality(built) = peak

Store == INSTANCE ObjectStore WITH Object <- Blocks, idle <- Idle

\* The pool, its nodes, allocators and pointers included, is the first-in
\* first-out store of ObjectStore.
PoolIsStore == Store!StoreSpec
==============================================================================
