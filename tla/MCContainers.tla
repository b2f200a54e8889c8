------------------------------ MODULE MCContainers ------------------------------
(***************************************************************************)
(* The containers of NetLib side by side: a behaviour is one of the ring   *)
(* buffer, of the allocator, of a list or of an object pool, as machine    *)
(* says; the others keep their initial state.                              *)
(***************************************************************************)
EXTENDS RingFifo, GeneralAllocator, NodeList, ObjectPool

VARIABLE machine

MCInit ==
    /\ machine \in {"ring", "allocator", "list", "pool"}
    /\ Init /\ AllocInit /\ ListInit /\ PoolInit
    /\ machine # "ring" => ring.bytes = [p \in Positions |-> CHOOSE b \in Byte : TRUE]

Ring == machine = "ring" /\ Next /\ UNCHANGED <<machine, allocVars, listVars, poolVars>>
Alloc == machine = "allocator" /\ AllocNext /\ UNCHANGED <<machine, vars, listVars, poolVars>>
Lists == machine = "list" /\ ListNext /\ UNCHANGED <<machine, vars, allocVars, poolVars>>
Pool == machine = "pool" /\ PoolNext /\ UNCHANGED <<machine, vars, allocVars, listVars>>

MCNext == Ring \/ Alloc \/ Lists \/ Pool

MCSpec == MCInit /\ [][MCNext]_<<machine, vars, allocVars, listVars, poolVars>>
==============================================================================
