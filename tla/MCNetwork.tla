------------------------------ MODULE MCNetwork ------------------------------
(* Small instances of Network for TLC. *)
EXTENDS Network, TLC

\* Threads of one role and the session slots are interchangeable; the closing
\* thread and the roles themselves are not.
Symmetry ==
    Permutations(Sessions) \cup Permutations(IoThreads) \cup Permutations(ProcThreads)
        \cup Permutations(AppThreads) \cup Permutations(Allocators)
==============================================================================
