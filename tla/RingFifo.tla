------------------------------- MODULE RingFifo -------------------------------
(***************************************************************************)
(* Any sequence of calls on one RingBuffer of Buffer.h, made under the     *)
(* lock that guards it, and the queue of bytes they implement.             *)
(***************************************************************************)
EXTENDS RingBuffer

CONSTANT MaxLen  \* bound on the length of a call's data

ASSUME FifoAssumption == MaxLen \in Nat

VARIABLES ring,  \* the buffer
          ok,    \* what the last call returned
          last   \* the bytes of the last PutData, or those GetData has copied out

vars == <<ring, ok, last>>

\* The memory is fresh: it holds any bytes.
Init ==
    /\ ring \in [bytes : [Positions -> Byte], head : {0}, tail : {0}]
    /\ ok = TRUE
    /\ last = <<>>

PutData(data) ==
    /\ ok' = CanPutData(ring, Len(data))
    /\ ring' = IF ok' THEN Put(ring, data) ELSE ring
    /\ last' = data

PutEmptyData(len) ==
    /\ ok' = CanPutData(ring, len)
    /\ ring' = IF ok' THEN PutEmpty(ring, len) ELSE ring
    /\ UNCHANGED last

GetData(len) ==
    /\ ok' = (len <= GetDataLength(ring))
    /\ last' = IF ok' THEN Get(ring, len) ELSE last
    /\ UNCHANGED ring

\* PopData's callers in Session.cpp (537, 624, 635) pop at most what is there.
PopData(len) ==
    /\ len <= GetDataLength(ring)
    /\ ring' = Pop(ring, len)
    /\ ok' = (ring'.head # ring'.tail)
    /\ UNCHANGED last

Clear == ring' = Cleared(ring) /\ UNCHANGED <<ok, last>>

Next ==
    \/ \E len \in 0 .. MaxLen :
          \/ \E data \in [1 .. len -> Byte] : PutData(data)
          \/ PutEmptyData(len)
          \/ GetData(len)
          \/ PopData(len)
    \/ Clear

Spec == Init /\ [][Next]_vars

\* The positions stay inside the array, for CopyIn and CopyOut too.
RingTypeOK ==
    /\ ring \in Rings
    /\ ok \in BOOLEAN
    /\ last \in Seq(Byte)

Fifo == INSTANCE ByteQueue WITH Capacity <- BufSize - 1, queue <- Contents(ring)

\* Whatever the calls, however the data wraps around the end of the array, the
\* ring buffer is a queue of BufSize - 1 bytes that accepts all or nothing
\* (Buffer.h:29: head and tail coincide only when it is empty).
FifoSpec == Fifo!Spec
==============================================================================
