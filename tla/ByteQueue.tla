------------------------------ MODULE ByteQueue ------------------------------
(* What a buffer of bytes promises its callers: a bounded queue.           *)
EXTENDS Integers, Sequences

CONSTANTS Capacity,  \* how many bytes it can hold
          MaxLen,    \* bound on the length of a call's data
          Byte

VARIABLES queue,  \* the bytes, oldest first
          ok,     \* what the last call returned
          last    \* the bytes of the last PutData, or those GetData has copied out

vars == <<queue, ok, last>>

Init == queue = <<>> /\ ok = TRUE /\ last = <<>>

\* The data goes in as a whole or not at all.
PutData(data) ==
    /\ ok' = (Len(queue) + Len(data) <= Capacity)
    /\ queue' = IF ok' THEN queue \o data ELSE queue
    /\ last' = data

\* The same for len bytes of any value.
PutEmptyData(len) ==
    /\ ok' = (Len(queue) + len <= Capacity)
    /\ IF ok' THEN \E data \in [1 .. len -> Byte] : queue' = queue \o data
              ELSE UNCHANGED queue
    /\ UNCHANGED last

GetData(len) ==
    /\ ok' = (len <= Len(queue))
    /\ last' = IF ok' THEN SubSeq(queue, 1, len) ELSE last
    /\ UNCHANGED queue

\* Returns whether anything is left.
PopData(len) ==
    /\ len <= Len(queue)
    /\ queue' = SubSeq(queue, len + 1, Len(queue))
    /\ ok' = (queue' # <<>>)
    /\ UNCHANGED last

Clear == queue' = <<>> /\ UNCHANGED <<ok, last>>

Next ==
    \/ \E len \in 0 .. MaxLen :
          \/ \E data \in [1 .. len -> Byte] : PutData(data)
          \/ PutEmptyData(len)
          \/ GetData(len)
          \/ PopData(len)
    \/ Clear

Spec == Init /\ [][Next]_vars
==============================================================================
