------------------------------ MODULE ObjectStore ------------------------------
(***************************************************************************)
(* What ReusableObjectPool promises: objects that were given back are kept *)
(* as they are and are handed out again, the one that has waited longest   *)
(* first; only when none waits a new object is made.                       *)
(***************************************************************************)
EXTENDS Sequences

CONSTANT Object

VARIABLES idle,  \* the objects given back, in that order
          out    \* the objects that callers have

StoreInit == idle = <<>> /\ out = {}

\* An object for a caller: one that did not exist, or the first that waits.
Make ==
    /\ \E o \in Object \ out : out' = out \cup {o}
    /\ idle = <<>> /\ UNCHANGED idle

Reuse ==
    /\ idle # <<>>
    /\ out' = out \cup {Head(idle)}
    /\ idle' = Tail(idle)

Release ==
    \E o \in out :
        /\ out' = out \ {o}
        /\ idle' = Append(idle, o)

\* The end of the store: with nothing outside, what waits is destroyed in order.
Drop ==
    /\ out = {} /\ idle # <<>>
    /\ idle' = Tail(idle)
    /\ UNCHANGED out

StoreNext == Make \/ Reuse \/ Release \/ Drop

StoreSpec == StoreInit /\ [][StoreNext]_<<idle, out>>
==============================================================================
