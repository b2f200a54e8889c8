------------------------------ MODULE RingBuffer ------------------------------
(***************************************************************************)
(* NetLib/NetLib/Buffer.h: the ring buffer of fixed size in which a        *)
(* session keeps the bytes it has received and the bytes it has to send,   *)
(* as operators on a value [bytes, head, tail].  Reading begins at head,   *)
(* writing at tail; they are equal only when the buffer is empty, so it    *)
(* holds at most BufSize - 1 bytes.                                        *)
(***************************************************************************)
EXTENDS Integers, Sequences

CONSTANTS BufSize,  \* m_iBufSize
          Byte      \* the values of a byte

ASSUME RingAssumption == BufSize \in Nat /\ BufSize > 0

Positions == 0 .. BufSize - 1
Rings == [bytes : [Positions -> Byte], head : Positions, tail : Positions]

\* Clear: only the positions are reset.
Cleared(r) == [bytes |-> r.bytes, head |-> 0, tail |-> 0]

GetDataLength(r) ==
    IF r.tail - r.head < 0 THEN BufSize + (r.tail - r.head) ELSE r.tail - r.head

CanPutData(r, len) == len < BufSize - GetDataLength(r)

\* Would len more bytes reach the end of the array?
CheckSplit(r, len) == len + r.tail >= BufSize

IsSplit(r) == r.head > r.tail

\* The bytes that lie in one piece from head on: what one send can take.
FirstDataLen(r) == IF IsSplit(r) THEN BufSize - r.head ELSE r.tail - r.head

\* memcpy of data into the array, and of len bytes out of it.
CopyIn(bytes, at, data) ==
    [p \in Positions |-> IF at <= p /\ p < at + Len(data) THEN data[p - at + 1] ELSE bytes[p]]
CopyOut(bytes, at, len) == [i \in 1 .. len |-> bytes[at + i - 1]]

\* Mutant: the end of the array is noticed one byte too late, and so the tail
\* moves behind it.
NextTailLate(r, len) == IF len + r.tail > BufSize THEN len + r.tail - BufSize ELSE r.tail + len

\* Where the tail moves when len bytes are put.
NextTail(r, len) ==
    IF CheckSplit(r, len) THEN len - (BufSize - r.tail) ELSE r.tail + len

\* Mutant: the second piece starts with the last byte of the first.
PutOverlapping(r, data) ==
    LET first == BufSize - r.tail
        bytes == IF CheckSplit(r, Len(data))
                 THEN CopyIn(CopyIn(r.bytes, r.tail, SubSeq(data, 1, first)),
                             0, SubSeq(data, first, Len(data)))
                 ELSE CopyIn(r.bytes, r.tail, data)
    IN [bytes |-> bytes, head |-> r.head, tail |-> NextTail(r, Len(data))]

\* PutData, when the data fits.
Put(r, data) ==
    LET first == BufSize - r.tail
        bytes == IF CheckSplit(r, Len(data))
                 THEN CopyIn(CopyIn(r.bytes, r.tail, SubSeq(data, 1, first)),
                             0, SubSeq(data, first + 1, Len(data)))
                 ELSE CopyIn(r.bytes, r.tail, data)
    IN [bytes |-> bytes, head |-> r.head, tail |-> NextTail(r, Len(data))]

\* PutEmptyData, when it fits: room for len bytes, whatever they are.
PutEmpty(r, len) == [r EXCEPT !.tail = NextTail(r, len)]

\* GetData, when there is enough: the first len bytes, which stay.
Get(r, len) ==
    LET first == BufSize - r.head
    IN IF len < first THEN CopyOut(r.bytes, r.head, len)
       ELSE CopyOut(r.bytes, r.head, first) \o CopyOut(r.bytes, 0, len - first)

\* PopData: forgets the first len bytes.  It does not check that there are so
\* many; its callers do.
Pop(r, len) == [r EXCEPT !.head = (r.head + len) % BufSize]

\* The bytes in the buffer, oldest first.
Contents(r) ==
    [i \in 1 .. GetDataLength(r) |->
        r.bytes[IF r.head + i - 1 < BufSize THEN r.head + i - 1 ELSE r.head + i - 1 - BufSize]]
==============================================================================
