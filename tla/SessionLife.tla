----------------------------- MODULE SessionLife -----------------------------
(***************************************************************************)
(* What a session slot promises, without threads: it is opened with one    *)
(* reference, only an open session gives out further references, the one   *)
(* disconnect turns it into a draining session that can only lose them,    *)
(* and the last release, never an earlier step, makes it closing, from     *)
(* where it goes back to the pool exactly once.                            *)
(***************************************************************************)
EXTENDS Naturals

CONSTANT Sessions

VARIABLES phase,  \* where the slot is in its life
          refs    \* how many references are out

vars == <<phase, refs>>

Phases == {"free", "open", "draining", "closing", "stillborn"}

LifeTypeOK ==
    /\ phase \in [Sessions -> Phases]
    /\ refs \in [Sessions -> Nat]

Init ==
    /\ phase = [s \in Sessions |-> "free"]
    /\ refs = [s \in Sessions |-> 0]

Go(s, from, to) == phase[s] = from /\ phase' = [phase EXCEPT ![s] = to]

Open(s) ==
    /\ Go(s, "free", "open")
    /\ refs' = [refs EXCEPT ![s] = 1]

\* The socket could not be attached: nothing will ever move this slot again.
OpenFailed(s) == Go(s, "free", "stillborn") /\ UNCHANGED refs

Acquire(s) ==
    /\ phase[s] = "open"
    /\ refs' = [refs EXCEPT ![s] = @ + 1]
    /\ UNCHANGED phase

\* While the session is open its own reference stays.
Release(s) ==
    /\ \/ phase[s] = "open" /\ refs[s] > 1 /\ UNCHANGED phase
       \/ phase[s] = "draining" /\ refs[s] > 1 /\ UNCHANGED phase
       \/ refs[s] = 1 /\ Go(s, "draining", "closing")
    /\ refs' = [refs EXCEPT ![s] = @ - 1]

Disconnect(s) == Go(s, "open", "draining") /\ UNCHANGED refs

Finish(s) == Go(s, "closing", "free") /\ UNCHANGED refs

Next == \E s \in Sessions :
            \/ Open(s)
            \/ OpenFailed(s)
            \/ Acquire(s)
            \/ Release(s)
            \/ Disconnect(s)
            \/ Finish(s)

Spec == Init /\ [][Next]_vars
==============================================================================
