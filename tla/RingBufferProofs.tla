---------------------------- MODULE RingBufferProofs ----------------------------
(***************************************************************************)
(* What the operations of a ring buffer of any size do to its contents:    *)
(* Put appends, Get returns a prefix, Pop drops one, wherever the data     *)
(* wraps around the end of the array.                                      *)
(***************************************************************************)
EXTENDS RingBuffer, SequenceTheorems, TLAPS

\* Where the i-th byte of the contents lies.
Slot(r, i) ==
    IF r.head + i - 1 < BufSize THEN r.head + i - 1 ELSE r.head + i - 1 - BufSize

\* Remainders of what is less than two buffers.
LEMMA ModWrap ==
    ASSUME NEW x \in Nat, x < 2 * BufSize
    PROVE  x % BufSize = IF x < BufSize THEN x ELSE x - BufSize
  <1>1. CASE x < BufSize
    BY <1>1, RingAssumption, SMT
  <1>2. CASE x >= BufSize
    BY <1>2, RingAssumption, SMT
  <1> QED BY <1>1, <1>2, RingAssumption

\* The length is that of a proper part of the array, and zero when head and tail
\* coincide.
LEMMA LengthBound ==
    ASSUME NEW r \in Rings
    PROVE  /\ GetDataLength(r) \in 0 .. BufSize - 1
           /\ GetDataLength(r) = 0 <=> r.head = r.tail
  BY RingAssumption DEF Rings, Positions, GetDataLength

\* Every byte of the contents lies inside the array.
LEMMA SlotInside ==
    ASSUME NEW r \in Rings, NEW i \in 1 .. GetDataLength(r)
    PROVE  Slot(r, i) \in Positions
  BY RingAssumption DEF Rings, Positions, GetDataLength, Slot

\* Contents is a sequence of bytes, as long as GetDataLength says.
LEMMA ContentsIs ==
    ASSUME NEW r \in Rings
    PROVE  /\ Contents(r) = [i \in 1 .. GetDataLength(r) |-> r.bytes[Slot(r, i)]]
           /\ Contents(r) \in Seq(Byte)
           /\ Len(Contents(r)) = GetDataLength(r)
  <1>1. Contents(r) = [i \in 1 .. GetDataLength(r) |-> r.bytes[Slot(r, i)]]
    BY DEF Contents, Slot
  <1>2. GetDataLength(r) \in Nat
    BY LengthBound
  <1>3. \A i \in 1 .. GetDataLength(r) : r.bytes[Slot(r, i)] \in Byte
    BY SlotInside DEF Rings
  <1> QED BY <1>1, <1>2, <1>3

\* Where the j-th byte of new data goes.
Room(r, j) ==
    IF r.tail + j - 1 < BufSize THEN r.tail + j - 1 ELSE r.tail + j - 1 - BufSize

\* Data that ends before the end of the array overlaps no byte of the contents.
LEMMA WholeData ==
    ASSUME NEW r \in Rings, NEW m \in Nat, CanPutData(r, m), ~CheckSplit(r, m)
    PROVE  /\ \A j \in 1 .. m : Room(r, j) = r.tail + j - 1 /\ Room(r, j) \in Positions
           /\ \A i \in 1 .. GetDataLength(r) :
                 ~(r.tail <= Slot(r, i) /\ Slot(r, i) < r.tail + m)
  <1>1. /\ r.head \in Int /\ r.tail \in Int /\ BufSize \in Int
        /\ 0 <= r.head /\ r.head < BufSize /\ 0 <= r.tail /\ r.tail < BufSize
    BY RingAssumption DEF Rings, Positions
  <1>2. m + r.tail < BufSize
    BY <1>1 DEF CheckSplit
  <1>3. ASSUME NEW i \in 1 .. GetDataLength(r)
        PROVE  ~(r.tail <= Slot(r, i) /\ Slot(r, i) < r.tail + m)
    <2>1. CASE r.tail < r.head
      <3>1. GetDataLength(r) = BufSize + (r.tail - r.head)
        BY <1>1, <2>1 DEF GetDataLength
      <3> QED BY <1>1, <1>2, <2>1, <3>1 DEF CanPutData, Slot
    <2>2. CASE r.head <= r.tail
      <3>1. GetDataLength(r) = r.tail - r.head
        BY <1>1, <2>2 DEF GetDataLength
      <3> QED BY <1>1, <2>2, <3>1 DEF Slot
    <2> QED BY <1>1, <2>1, <2>2
  <1>4. \A j \in 1 .. m : Room(r, j) = r.tail + j - 1 /\ Room(r, j) \in Positions
    BY <1>1, <1>2 DEF Room, Positions
  <1> QED BY <1>3, <1>4

\* Data that is split fills the array up to its end and goes on at the start,
\* and the contents are what lies between.
LEMMA SplitData ==
    ASSUME NEW r \in Rings, NEW m \in Nat, CanPutData(r, m), CheckSplit(r, m)
    PROVE  /\ BufSize - r.tail <= m
           /\ \A j \in 1 .. m :
                 /\ Room(r, j) \in Positions
                 /\ j <= BufSize - r.tail => /\ Room(r, j) = r.tail + j - 1
                                             /\ ~(Room(r, j) < m - (BufSize - r.tail))
                 /\ ~(j <= BufSize - r.tail) => /\ Room(r, j) = j - (BufSize - r.tail) - 1
                                                /\ Room(r, j) < m - (BufSize - r.tail)
           /\ \A i \in 1 .. GetDataLength(r) :
                 ~(Slot(r, i) < m - (BufSize - r.tail)) /\ ~(r.tail <= Slot(r, i))
  <1>1. /\ r.head \in Int /\ r.tail \in Int /\ BufSize \in Int
        /\ 0 <= r.head /\ r.head < BufSize /\ 0 <= r.tail /\ r.tail < BufSize
    BY RingAssumption DEF Rings, Positions
  <1>2. m + r.tail >= BufSize
    BY <1>1 DEF CheckSplit
  \* Contents that wrapped around leave no room at the end of the array.
  <1>3. r.head <= r.tail /\ GetDataLength(r) = r.tail - r.head
    <2>1. CASE r.tail < r.head
      <3>1. GetDataLength(r) = BufSize + (r.tail - r.head)
        BY <1>1, <2>1 DEF GetDataLength
      <3> QED BY <1>1, <1>2, <2>1, <3>1 DEF CanPutData
    <2> QED BY <1>1, <2>1 DEF GetDataLength
  <1>4. m < BufSize - (r.tail - r.head)
    BY <1>3 DEF CanPutData
  <1>5. \A i \in 1 .. GetDataLength(r) :
           ~(Slot(r, i) < m - (BufSize - r.tail)) /\ ~(r.tail <= Slot(r, i))
    BY <1>1, <1>3, <1>4 DEF Slot
  <1>6. ASSUME NEW j \in 1 .. m
        PROVE  /\ Room(r, j) \in Positions
               /\ j <= BufSize - r.tail => /\ Room(r, j) = r.tail + j - 1
                                           /\ ~(Room(r, j) < m - (BufSize - r.tail))
               /\ ~(j <= BufSize - r.tail) => /\ Room(r, j) = j - (BufSize - r.tail) - 1
                                              /\ Room(r, j) < m - (BufSize - r.tail)
    BY <1>1, <1>3, <1>4 DEF Room, Positions
  <1> QED BY <1>1, <1>2, <1>5, <1>6

\* Put, field by field: the head stays, and the array gets one piece or two.
LEMMA PutFields ==
    ASSUME NEW r, NEW data
    PROVE  /\ Put(r, data) = [bytes |-> Put(r, data).bytes, head |-> r.head,
                              tail |-> NextTail(r, Len(data))]
           /\ ~CheckSplit(r, Len(data)) => Put(r, data).bytes = CopyIn(r.bytes, r.tail, data)
           /\ CheckSplit(r, Len(data)) =>
                 Put(r, data).bytes =
                     CopyIn(CopyIn(r.bytes, r.tail, SubSeq(data, 1, BufSize - r.tail)),
                            0, SubSeq(data, BufSize - r.tail + 1, Len(data)))
  BY DEF Put

\* A piece of a sequence, from behind its first n elements to the m-th.
LEMMA PieceIs ==
    ASSUME NEW data \in Seq(Byte), NEW n \in Nat, NEW m \in 0 .. Len(data), n <= m
    PROVE  /\ Len(SubSeq(data, n + 1, m)) = m - n
           /\ \A k \in 1 .. m - n : SubSeq(data, n + 1, m)[k] = data[n + k]
OBVIOUS

\* The array after Put: the new bytes behind the contents, which stay.
LEMMA PutBytes ==
    ASSUME NEW r \in Rings, NEW data \in Seq(Byte), CanPutData(r, Len(data))
    PROVE  /\ Put(r, data).bytes \in [Positions -> Byte]
           /\ \A j \in 1 .. Len(data) : Put(r, data).bytes[Room(r, j)] = data[j]
           /\ \A i \in 1 .. GetDataLength(r) :
                 Put(r, data).bytes[Slot(r, i)] = r.bytes[Slot(r, i)]
  <1> DEFINE m == Len(data)
             new == Put(r, data).bytes
             first == BufSize - r.tail
  <1>1. /\ m \in Nat /\ first \in Nat /\ first > 0 /\ r.tail \in Nat
        /\ \A p \in Positions : p \in Nat /\ p < BufSize /\ p < r.tail + first
        /\ r.bytes \in [Positions -> Byte]
        /\ \A j \in 1 .. m : data[j] \in Byte
    BY RingAssumption DEF Rings, Positions
  <1>2. \A i \in 1 .. GetDataLength(r) : Slot(r, i) \in Positions
    BY SlotInside
  <1>3. CASE ~CheckSplit(r, m)
    <2>1. new = [p \in Positions |-> IF r.tail <= p /\ p < r.tail + m
                                     THEN data[p - r.tail + 1] ELSE r.bytes[p]]
      BY <1>3, PutFields DEF CopyIn
    <2>2. /\ \A j \in 1 .. m : Room(r, j) = r.tail + j - 1 /\ Room(r, j) \in Positions
          /\ \A i \in 1 .. GetDataLength(r) :
                ~(r.tail <= Slot(r, i) /\ Slot(r, i) < r.tail + m)
      BY <1>1, <1>3, WholeData
    <2>3. \A p \in Positions : r.tail <= p /\ p < r.tail + m => p - r.tail + 1 \in 1 .. m
      BY <1>1
    <2>4. \A j \in 1 .. m : /\ r.tail <= Room(r, j) /\ Room(r, j) < r.tail + m
                            /\ Room(r, j) - r.tail + 1 = j
      BY <1>1, <2>2
    <2> HIDE DEF m, new
    <2>5. \A j \in 1 .. m : new[Room(r, j)] = data[j]
      BY <2>1, <2>2, <2>4
    <2>6. \A i \in 1 .. GetDataLength(r) : new[Slot(r, i)] = r.bytes[Slot(r, i)]
      BY <1>2, <2>1, <2>2
    <2>7. new \in [Positions -> Byte]
      BY <1>1, <2>1, <2>3
    <2> QED BY <2>5, <2>6, <2>7 DEF m, new
  <1>4. CASE CheckSplit(r, m)
    <2> DEFINE one == SubSeq(data, 1, first)
               two == SubSeq(data, first + 1, m)
               inner == CopyIn(r.bytes, r.tail, one)
    <2>1. new = CopyIn(inner, 0, two)
      BY <1>4, PutFields
    <2>2. /\ first <= m
          /\ \A j \in 1 .. m :
                /\ Room(r, j) \in Positions
                /\ j <= first => Room(r, j) = r.tail + j - 1 /\ ~(Room(r, j) < m - first)
                /\ ~(j <= first) => Room(r, j) = j - first - 1 /\ Room(r, j) < m - first
          /\ \A i \in 1 .. GetDataLength(r) :
                ~(Slot(r, i) < m - first) /\ ~(r.tail <= Slot(r, i))
      BY <1>1, <1>4, SplitData
    <2>3. Len(one) = first /\ \A k \in 1 .. first : one[k] = data[k]
      BY <1>1, <2>2
    <2>4. Len(two) = m - first /\ \A k \in 1 .. m - first : two[k] = data[first + k]
      <3>1. first \in Nat /\ m \in 0 .. Len(data) /\ first <= m
        BY <1>1, <2>2
      <3> HIDE DEF first, m
      <3> QED BY ONLY <3>1, PieceIs, data \in Seq(Byte) DEF two
    <2>5. \A p \in Positions :
             inner[p] = IF r.tail <= p THEN data[p - r.tail + 1] ELSE r.bytes[p]
      <3>1. inner = [p \in Positions |-> IF r.tail <= p /\ p < r.tail + first
                                         THEN one[p - r.tail + 1] ELSE r.bytes[p]]
        BY <2>3 DEF CopyIn
      <3>2. \A p \in Positions : r.tail <= p => p - r.tail + 1 \in 1 .. first
        BY <1>1
      <3> HIDE DEF inner, one, first
      <3> QED BY <1>1, <2>3, <3>1, <3>2
    <2>6. new = [p \in Positions |-> IF 0 <= p /\ p < 0 + Len(two)
                                     THEN two[p - 0 + 1] ELSE inner[p]]
      BY <2>1 DEF CopyIn
    <2>7. \A p \in Positions : /\ 0 <= p /\ 0 + (m - first) = m - first
                               /\ p < m - first => /\ p - 0 + 1 \in 1 .. m - first
                                                   /\ first + (p - 0 + 1) = first + p + 1
                                                   /\ first + p + 1 \in 1 .. m
                               /\ r.tail <= p => p - r.tail + 1 \in 1 .. m
      <3> SUFFICES ASSUME NEW p \in Positions
                   PROVE  /\ 0 <= p /\ 0 + (m - first) = m - first
                          /\ p < m - first => /\ p - 0 + 1 \in 1 .. m - first
                                              /\ first + (p - 0 + 1) = first + p + 1
                                              /\ first + p + 1 \in 1 .. m
                          /\ r.tail <= p => p - r.tail + 1 \in 1 .. m
        OBVIOUS
      <3>1. /\ m \in Nat /\ first \in Nat /\ r.tail \in Nat /\ p \in Nat
            /\ p < r.tail + first /\ first <= m
        BY <1>1, <2>2
      <3> HIDE DEF m, first
      <3> QED BY <3>1
    <2>8. \A j \in 1 .. m : /\ j <= first => /\ r.tail <= Room(r, j)
                                             /\ Room(r, j) - r.tail + 1 = j
                            /\ ~(j <= first) => first + Room(r, j) + 1 = j
      BY <1>1, <2>2
    <2> HIDE DEF m, new, inner, one, two, first
    <2>9. \A p \in Positions :
             new[p] = IF p < m - first THEN data[first + p + 1]
                      ELSE IF r.tail <= p THEN data[p - r.tail + 1] ELSE r.bytes[p]
      BY <2>4, <2>5, <2>6, <2>7
    <2>10. \A j \in 1 .. m : new[Room(r, j)] = data[j]
      BY <2>2, <2>8, <2>9
    <2>11. \A i \in 1 .. GetDataLength(r) : new[Slot(r, i)] = r.bytes[Slot(r, i)]
      BY <1>2, <2>2, <2>9
    <2>12. new \in [Positions -> Byte]
      <3>1. \A p \in Positions : new[p] \in Byte
        BY <1>1, <2>7, <2>9
      <3>2. new = [p \in Positions |-> new[p]]
        BY <2>6
      <3> QED BY <3>1, <3>2
    <2> QED BY <2>10, <2>11, <2>12 DEF m, new
  <1> QED BY <1>3, <1>4

\* The tail moves by len, and so does the length: the byte behind the contents
\* is the first of the room for new ones.
LEMMA TailMoves ==
    ASSUME NEW r \in Rings, NEW m \in Nat, CanPutData(r, m), NEW q \in Rings,
           q.head = r.head, q.tail = NextTail(r, m)
    PROVE  /\ GetDataLength(q) = GetDataLength(r) + m
           /\ \A i \in 1 .. GetDataLength(r) : Slot(q, i) = Slot(r, i)
           /\ \A j \in 1 .. m : Slot(q, GetDataLength(r) + j) = Room(r, j)
  <1>1. /\ r.head \in Int /\ r.tail \in Int /\ BufSize \in Int
        /\ 0 <= r.head /\ r.head < BufSize /\ 0 <= r.tail /\ r.tail < BufSize
    BY RingAssumption DEF Rings, Positions
  <1>2. GetDataLength(r) = IF r.tail < r.head THEN BufSize + (r.tail - r.head)
                                              ELSE r.tail - r.head
    BY <1>1 DEF GetDataLength
  <1>3. NextTail(r, m) = IF m + r.tail >= BufSize THEN r.tail + m - BufSize ELSE r.tail + m
    BY <1>1 DEF NextTail, CheckSplit
  <1>4. m < BufSize - GetDataLength(r)
    BY DEF CanPutData
  <1>5. GetDataLength(q) = GetDataLength(r) + m
    BY <1>1, <1>2, <1>3, <1>4 DEF GetDataLength
  <1>6. \A i \in 1 .. GetDataLength(r) : Slot(q, i) = Slot(r, i)
    BY DEF Slot
  <1>7. \A j \in 1 .. m : Slot(q, GetDataLength(r) + j) = Room(r, j)
    BY <1>1, <1>2, <1>4 DEF Slot, Room
  <1> QED BY <1>5, <1>6, <1>7

\* The tail stays inside the array when data that fits is put.
LEMMA NextTailInside ==
    ASSUME NEW r \in Rings, NEW m \in Nat, CanPutData(r, m)
    PROVE  NextTail(r, m) \in Positions
  <1>1. /\ r.head \in Int /\ r.tail \in Int /\ BufSize \in Int
        /\ 0 <= r.head /\ r.head < BufSize /\ 0 <= r.tail /\ r.tail < BufSize
    BY RingAssumption DEF Rings, Positions
  <1>2. m < BufSize - GetDataLength(r) /\ GetDataLength(r) \in Int /\ GetDataLength(r) >= 0
    BY LengthBound, RingAssumption DEF CanPutData
  <1> QED BY <1>1, <1>2 DEF NextTail, CheckSplit, Positions

\* A sequence is a concatenation when its two parts are.
LEMMA ConcatIs ==
    ASSUME NEW S, NEW s \in Seq(S), NEW t \in Seq(S), NEW u \in Seq(S),
           Len(u) = Len(s) + Len(t),
           \A i \in 1 .. Len(s) : u[i] = s[i],
           \A j \in 1 .. Len(t) : u[Len(s) + j] = t[j]
    PROVE  u = s \o t
  <1>1. /\ s \o t \in Seq(S)
        /\ Len(s \o t) = Len(s) + Len(t)
        /\ \A i \in 1 .. Len(s) + Len(t) :
              (s \o t)[i] = IF i <= Len(s) THEN s[i] ELSE t[i - Len(s)]
    BY ConcatProperties
  <1>2. ASSUME NEW i \in 1 .. Len(u) PROVE u[i] = (s \o t)[i]
    <2>1. Len(s) \in Nat /\ Len(t) \in Nat
      OBVIOUS
    <2>2. CASE i <= Len(s)
      BY <1>1, <2>1, <2>2
    <2>3. CASE ~(i <= Len(s))
      <3>1. i - Len(s) \in 1 .. Len(t) /\ Len(s) + (i - Len(s)) = i
        BY <2>1, <2>3
      <3>2. u[Len(s) + (i - Len(s))] = t[i - Len(s)]
        BY <3>1
      <3> QED BY <1>1, <2>3, <3>1, <3>2
    <2> QED BY <2>2, <2>3
  <1> QED BY <1>1, <1>2, SeqEqual

\* Put appends.
LEMMA PutAppends ==
    ASSUME NEW r \in Rings, NEW data \in Seq(Byte), CanPutData(r, Len(data))
    PROVE  /\ Put(r, data) \in Rings
           /\ Contents(Put(r, data)) = Contents(r) \o data
  <1> DEFINE q == Put(r, data)
             n == GetDataLength(r)
             m == Len(data)
  <1>1. q \in Rings /\ q.head = r.head /\ q.tail = NextTail(r, m)
    <2>1. NextTail(r, m) \in Positions /\ r.head \in Positions
      BY NextTailInside DEF Rings
    <2>2. q = [bytes |-> q.bytes, head |-> r.head, tail |-> NextTail(r, m)]
      BY PutFields
    <2>3. q.bytes \in [Positions -> Byte]
      BY PutBytes
    <2> HIDE DEF q
    <2> QED BY <2>1, <2>2, <2>3 DEF Rings
  <1>2. /\ \A i \in 1 .. n : q.bytes[Slot(r, i)] = r.bytes[Slot(r, i)]
        /\ \A j \in 1 .. m : q.bytes[Room(r, j)] = data[j]
    BY PutBytes
  <1> HIDE DEF q
  <1>3. /\ GetDataLength(q) = n + m
        /\ \A i \in 1 .. n : Slot(q, i) = Slot(r, i)
        /\ \A j \in 1 .. m : Slot(q, n + j) = Room(r, j)
    BY <1>1, TailMoves
  <1>4. n \in Nat /\ m \in Nat
    BY LengthBound
  <1>5. /\ Contents(q) \in Seq(Byte) /\ Len(Contents(q)) = n + m
        /\ \A i \in 1 .. n + m : Contents(q)[i] = q.bytes[Slot(q, i)]
    BY <1>1, <1>3, ContentsIs
  <1>6. /\ Contents(r) \in Seq(Byte) /\ Len(Contents(r)) = n
        /\ \A i \in 1 .. n : Contents(r)[i] = r.bytes[Slot(r, i)]
    BY ContentsIs
  <1> HIDE DEF n
  <1>7. \A i \in 1 .. n : Contents(q)[i] = Contents(r)[i]
    <2>1. \A i \in 1 .. n : i \in 1 .. n + m
      BY <1>4
    <2> QED BY <1>2, <1>3, <1>5, <1>6, <2>1
  <1>8. \A j \in 1 .. m : Contents(q)[n + j] = data[j]
    BY <1>2, <1>3, <1>4, <1>5
  <1>9. Contents(q) = Contents(r) \o data
    BY <1>5, <1>6, <1>7, <1>8, ConcatIs
  <1> QED BY <1>1, <1>9 DEF q

\* PutEmpty appends bytes too, whichever the memory holds.
LEMMA PutEmptyAppends ==
    ASSUME NEW r \in Rings, NEW m \in Nat, CanPutData(r, m)
    PROVE  /\ PutEmpty(r, m) \in Rings
           /\ \E data \in [1 .. m -> Byte] : Contents(PutEmpty(r, m)) = Contents(r) \o data
  <1> DEFINE q == PutEmpty(r, m)
             n == GetDataLength(r)
             data == [j \in 1 .. m |-> r.bytes[Room(r, j)]]
  <1>1. q \in Rings /\ q.head = r.head /\ q.tail = NextTail(r, m) /\ q.bytes = r.bytes
    BY NextTailInside DEF PutEmpty, Rings
  <1> HIDE DEF q
  <1>2. /\ GetDataLength(q) = n + m
        /\ \A i \in 1 .. n : Slot(q, i) = Slot(r, i)
        /\ \A j \in 1 .. m : Slot(q, n + j) = Room(r, j)
    BY <1>1, TailMoves
  <1>3. n \in Nat
    BY LengthBound
  <1>4. \A j \in 1 .. m : Room(r, j) \in Positions
    <2>1. ASSUME NEW j \in 1 .. m PROVE Room(r, j) \in Positions
      <3>1. n + j \in 1 .. GetDataLength(q)
        BY <1>2, <1>3
      <3>2. Slot(q, n + j) \in Positions
        BY <1>1, <3>1, SlotInside
      <3> QED BY <1>2, <3>2
    <2> QED BY <2>1
  <1>5. /\ data \in [1 .. m -> Byte] /\ data \in Seq(Byte) /\ Len(data) = m
        /\ \A j \in 1 .. m : data[j] = r.bytes[Room(r, j)]
    BY <1>4 DEF Rings
  <1>6. /\ Contents(q) \in Seq(Byte) /\ Len(Contents(q)) = n + m
        /\ \A i \in 1 .. n + m : Contents(q)[i] = r.bytes[Slot(q, i)]
    BY <1>1, <1>2, ContentsIs
  <1>7. /\ Contents(r) \in Seq(Byte) /\ Len(Contents(r)) = n
        /\ \A i \in 1 .. n : Contents(r)[i] = r.bytes[Slot(r, i)]
    BY ContentsIs
  <1> HIDE DEF data, n
  <1>8. \A i \in 1 .. n : Contents(q)[i] = Contents(r)[i]
    BY <1>2, <1>3, <1>6, <1>7
  <1>9. \A j \in 1 .. m : Contents(q)[n + j] = data[j]
    BY <1>2, <1>3, <1>5, <1>6
  <1>10. Contents(q) = Contents(r) \o data
    BY <1>5, <1>6, <1>7, <1>8, <1>9, ConcatIs
  <1> QED BY <1>1, <1>5, <1>10 DEF q

\* Get copies out the first bytes of the contents.
LEMMA GetIsPrefix ==
    ASSUME NEW r \in Rings, NEW m \in Nat, m <= GetDataLength(r)
    PROVE  Get(r, m) = SubSeq(Contents(r), 1, m) /\ Get(r, m) \in Seq(Byte)
  <1> DEFINE first == BufSize - r.head
  <1>1. /\ Contents(r) \in Seq(Byte) /\ Len(Contents(r)) = GetDataLength(r)
        /\ \A i \in 1 .. GetDataLength(r) : Contents(r)[i] = r.bytes[Slot(r, i)]
    BY ContentsIs
  <1>2. GetDataLength(r) \in Nat /\ first \in Nat /\ r.head \in Nat
    BY LengthBound, RingAssumption DEF Rings, Positions
  <1>3. \A i \in 1 .. m : /\ Slot(r, i) \in Positions
                          /\ i <= first => Slot(r, i) = r.head + i - 1
                          /\ ~(i <= first) => Slot(r, i) = 0 + (i - first) - 1
    <2>1. \A i \in 1 .. m : i \in 1 .. GetDataLength(r)
      BY <1>2
    <2>2. \A i \in 1 .. m : Slot(r, i) \in Positions
      BY <2>1, SlotInside
    <2>3. \A i \in 1 .. m : /\ i <= first => Slot(r, i) = r.head + i - 1
                            /\ ~(i <= first) => Slot(r, i) = 0 + (i - first) - 1
      BY <1>2, RingAssumption DEF Slot
    <2> QED BY <2>2, <2>3
  <1>4. \A i \in 1 .. m : r.bytes[Slot(r, i)] \in Byte
    BY <1>3 DEF Rings
  <1>5. /\ SubSeq(Contents(r), 1, m) \in Seq(Byte)
        /\ Len(SubSeq(Contents(r), 1, m)) = m
        /\ \A i \in 1 .. m : SubSeq(Contents(r), 1, m)[i] = r.bytes[Slot(r, i)]
    BY <1>1, <1>2
  <1>6. CASE m < first
    <2>1. Get(r, m) = [i \in 1 .. m |-> r.bytes[r.head + i - 1]]
      BY <1>6 DEF Get, CopyOut
    <2>2. \A i \in 1 .. m : Slot(r, i) = r.head + i - 1
      BY <1>2, <1>3, <1>6
    <2>3. Get(r, m) = [i \in 1 .. m |-> r.bytes[Slot(r, i)]]
      BY <2>1, <2>2
    <2>4. Get(r, m) \in Seq(Byte) /\ Len(Get(r, m)) = m
      BY <1>4, <2>3
    <2> QED BY <1>5, <2>3, <2>4, SeqEqual
  <1>7. CASE ~(m < first)
    <2> DEFINE one == CopyOut(r.bytes, r.head, first)
               two == CopyOut(r.bytes, 0, m - first)
    <2>1. Get(r, m) = one \o two
      BY <1>7 DEF Get
    <2>2. m - first \in Nat
      BY <1>2, <1>7
    <2>3. one = [i \in 1 .. first |-> r.bytes[Slot(r, i)]]
      <3>1. \A i \in 1 .. first : Slot(r, i) = r.head + i - 1
        BY <1>2, <1>3, <1>7
      <3> QED BY <3>1 DEF CopyOut
    <2>4. two = [j \in 1 .. m - first |-> r.bytes[Slot(r, first + j)]]
      <3>1. ASSUME NEW j \in 1 .. m - first PROVE Slot(r, first + j) = 0 + j - 1
        <4> HIDE DEF first
        <4>1. first + j \in 1 .. m /\ ~(first + j <= first) /\ (first + j) - first = j
          BY <1>2, <2>2
        <4>2. Slot(r, first + j) = 0 + ((first + j) - first) - 1
          BY <1>3, <4>1
        <4> QED BY <4>1, <4>2
      <3> QED BY <3>1 DEF CopyOut
    <2> HIDE DEF first
    <2>5. /\ one \in Seq(Byte) /\ Len(one) = first
          /\ \A i \in 1 .. first : one[i] = r.bytes[Slot(r, i)]
      <3>1. \A i \in 1 .. first : i \in 1 .. m
        BY <1>2, <1>7
      <3> HIDE DEF one
      <3> QED BY <1>2, <1>4, <2>3, <3>1
    <2>6. /\ two \in Seq(Byte) /\ Len(two) = m - first
          /\ \A j \in 1 .. m - first : two[j] = r.bytes[Slot(r, first + j)]
      <3>1. \A j \in 1 .. m - first : first + j \in 1 .. m
        BY <1>2, <2>2
      <3> HIDE DEF two
      <3> QED BY <1>4, <2>2, <2>4, <3>1
    <2> DEFINE u == SubSeq(Contents(r), 1, m)
    <2> HIDE DEF one, two, u
    <2>7. /\ u \in Seq(Byte) /\ Len(u) = Len(one) + Len(two)
          /\ \A i \in 1 .. Len(one) : u[i] = one[i]
          /\ \A j \in 1 .. Len(two) : u[Len(one) + j] = two[j]
      <3>1. /\ \A i \in 1 .. first : i \in 1 .. m
            /\ \A j \in 1 .. m - first : first + j \in 1 .. m
            /\ first + (m - first) = m
        BY <1>2, <2>2
      <3> QED BY <1>5, <2>5, <2>6, <3>1 DEF u
    <2>8. u = one \o two
      BY <2>5, <2>6, <2>7, ConcatIs
    <2> QED BY <1>5, <2>1, <2>8 DEF u
  <1> QED BY <1>6, <1>7

\* Pop drops the first bytes of the contents.
LEMMA PopDrops ==
    ASSUME NEW r \in Rings, NEW m \in Nat, m <= GetDataLength(r)
    PROVE  /\ Pop(r, m) \in Rings
           /\ Contents(Pop(r, m)) = SubSeq(Contents(r), m + 1, Len(Contents(r)))
  <1> DEFINE q == Pop(r, m)
             n == GetDataLength(r)
  <1>1. /\ r.head \in Int /\ r.tail \in Int /\ BufSize \in Int
        /\ 0 <= r.head /\ r.head < BufSize /\ 0 <= r.tail /\ r.tail < BufSize
        /\ n \in Nat /\ n < BufSize
    BY RingAssumption, LengthBound DEF Rings, Positions
  <1> DEFINE x == r.head + m
  <1>2. /\ q.head = x % BufSize /\ q.tail = r.tail /\ q.bytes = r.bytes
        /\ q = [r EXCEPT !.head = x % BufSize]
    BY DEF Pop, Rings
  <1>2a. x \in Nat /\ x < 2 * BufSize /\ x = r.head + m
    BY <1>1
  <1> HIDE DEF q, x
  <1>3. /\ q \in Rings /\ q.bytes = r.bytes /\ q.tail = r.tail
        /\ q.head = IF r.head + m < BufSize THEN r.head + m ELSE r.head + m - BufSize
    <2> DEFINE h == x % BufSize
    <2>1. h = IF x < BufSize THEN x ELSE x - BufSize
      BY <1>2a, ModWrap
    <2>2. q.head = h /\ q = [r EXCEPT !.head = h]
      BY <1>2
    <2> HIDE DEF h
    <2>3. h = IF r.head + m < BufSize THEN r.head + m ELSE r.head + m - BufSize
      BY <1>1, <1>2a, <2>1
    <2>4. h \in Positions
      BY <1>1, <2>3 DEF Positions
    <2>5. q \in Rings
      BY <2>2, <2>4 DEF Rings
    <2> QED BY <1>2, <2>2, <2>3, <2>5
  <1>4. /\ GetDataLength(q) = n - m
        /\ \A i \in 1 .. n - m : Slot(q, i) = Slot(r, m + i)
    <2>1. n = IF r.tail < r.head THEN BufSize + (r.tail - r.head) ELSE r.tail - r.head
      BY <1>1 DEF GetDataLength
    <2>2. GetDataLength(q) = n - m
      BY <1>1, <1>3, <2>1 DEF GetDataLength
    <2>3. \A i \in 1 .. n - m : Slot(q, i) = Slot(r, m + i)
      BY <1>1, <1>3, <2>1 DEF Slot
    <2> QED BY <2>2, <2>3
  <1>5. /\ Contents(r) \in Seq(Byte) /\ Len(Contents(r)) = n
        /\ \A i \in 1 .. n : Contents(r)[i] = r.bytes[Slot(r, i)]
    BY ContentsIs
  <1>6. /\ Contents(q) \in Seq(Byte) /\ Len(Contents(q)) = n - m
        /\ \A i \in 1 .. n - m : Contents(q)[i] = r.bytes[Slot(q, i)]
    BY <1>3, <1>4, ContentsIs
  <1> DEFINE u == SubSeq(Contents(r), m + 1, n)
  <1> HIDE DEF n
  <1>7. /\ u \in Seq(Byte) /\ Len(u) = n - m
        /\ \A i \in 1 .. n - m : u[i] = Contents(r)[m + i]
    <2>1. \A i \in m + 1 .. n : Contents(r)[i] \in Byte
      BY <1>1, <1>5
    <2>2. /\ u \in Seq(Byte) /\ Len(u) = (IF m + 1 <= n THEN n - (m + 1) + 1 ELSE 0)
          /\ \A i \in 1 .. n - (m + 1) + 1 : u[i] = Contents(r)[(m + 1) + i - 1]
      BY <1>1, <2>1, SubSeqProperties
    <2>3. m <= n
      BY DEF n
    <2> HIDE DEF u
    <2> QED BY <1>1, <2>2, <2>3
  <1>8. \A i \in 1 .. n - m : Contents(q)[i] = u[i]
    <2>1. \A i \in 1 .. n - m : m + i \in 1 .. n
      BY <1>1
    <2> QED BY <1>4, <1>5, <1>6, <1>7, <2>1
  <1> HIDE DEF u
  <1>9. Contents(q) = u
    BY <1>6, <1>7, <1>8, SeqEqual
  <1> QED BY <1>3, <1>5, <1>9 DEF q, u

\* Clear leaves an empty buffer.
LEMMA ClearEmpties ==
    ASSUME NEW r \in Rings
    PROVE  Cleared(r) \in Rings /\ Contents(Cleared(r)) = <<>>
  <1> DEFINE q == Cleared(r)
  <1>1. q \in Rings /\ q.head = 0 /\ q.tail = 0
    BY RingAssumption DEF Cleared, Rings, Positions
  <1> HIDE DEF q
  <1>2. Len(Contents(q)) = 0 /\ Contents(q) \in Seq(Byte)
    BY <1>1, ContentsIs, LengthBound
  <1> QED BY <1>1, <1>2 DEF q

------------------------------------------------------------------------------
(* Parts of byte sequences                                                 *)

\* Behind a part of it, a sequence goes on with what is appended.
LEMMA RestGrows ==
    ASSUME NEW c \in Seq(Byte), NEW d \in Seq(Byte), NEW u \in 0 .. Len(c)
    PROVE  SubSeq(c \o d, u + 1, Len(c) + Len(d)) = SubSeq(c, u + 1, Len(c)) \o d
<1>1. /\ c \o d \in Seq(Byte) /\ Len(c \o d) = Len(c) + Len(d)
      /\ \A i \in 1 .. Len(c) + Len(d) :
             (c \o d)[i] = IF i <= Len(c) THEN c[i] ELSE d[i - Len(c)]
      /\ Len(c) \in Nat /\ Len(d) \in Nat
  BY ConcatProperties
<1>. DEFINE whole == SubSeq(c \o d, u + 1, Len(c) + Len(d))
            old == SubSeq(c, u + 1, Len(c))
<1>2. /\ whole \in Seq(Byte) /\ Len(whole) = Len(c) + Len(d) - u
      /\ \A k \in 1 .. Len(c) + Len(d) - u : whole[k] = (c \o d)[u + k]
  BY <1>1
<1>3. /\ old \in Seq(Byte) /\ Len(old) = Len(c) - u
      /\ \A k \in 1 .. Len(c) - u : old[k] = c[u + k]
  BY <1>1
<1>. HIDE DEF whole, old
<1>4. Len(whole) = Len(old) + Len(d)
  BY <1>1, <1>2, <1>3
<1>5. ASSUME NEW i \in 1 .. Len(old) PROVE whole[i] = old[i]
  <2>1. /\ i \in 1 .. Len(c) - u /\ i \in 1 .. Len(c) + Len(d) - u
        /\ u + i \in 1 .. Len(c) + Len(d) /\ u + i <= Len(c)
    BY <1>1, <1>3
  <2>. QED
    BY <1>1, <1>2, <1>3, <2>1
<1>6. ASSUME NEW j \in 1 .. Len(d) PROVE whole[Len(old) + j] = d[j]
  <2>1. /\ Len(old) + j \in 1 .. Len(c) + Len(d) - u
        /\ u + (Len(old) + j) = Len(c) + j /\ Len(c) + j \in 1 .. Len(c) + Len(d)
        /\ ~(Len(c) + j <= Len(c)) /\ Len(c) + j - Len(c) = j
    BY <1>1, <1>3
  <2>2. whole[Len(old) + j] = (c \o d)[Len(c) + j]
    BY <1>2, <2>1
  <2>. QED
    BY <1>1, <2>1, <2>2
<1>7. whole = old \o d
  BY <1>2, <1>3, <1>4, <1>5, <1>6, ConcatIs
<1>. QED
  BY <1>7 DEF whole, old

\* A sequence is what comes up to a place in it and what comes behind it.
LEMMA Halves ==
    ASSUME NEW c \in Seq(Byte), NEW n \in 0 .. Len(c)
    PROVE  SubSeq(c, 1, n) \o SubSeq(c, n + 1, Len(c)) = SubSeq(c, 1, Len(c))
<1>1. Len(c) \in Nat
  OBVIOUS
<1>2. 1 \in 1 .. Len(c) + 1 /\ n \in 1 - 1 .. Len(c) /\ Len(c) \in n .. Len(c)
  BY <1>1
<1>. QED
  BY <1>2, ConcatAdjacentSubSeq

==================================================================================
