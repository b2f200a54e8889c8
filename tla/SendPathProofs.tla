---------------------------- MODULE SendPathProofs ----------------------------
(***************************************************************************)
(* Theorems about SendPath, for a send buffer of any size, any number of   *)
(* application and I/O threads and calls of any length: at most one send   *)
(* is under way, and unless a stale range was posted the peer gets exactly *)
(* what PostSend and PostSendBuffered have taken.                          *)
(***************************************************************************)
EXTENDS SendPath, RingBufferProofs

------------------------------------------------------------------------------
(* The inductive invariant                                                 *)

\* What a thread can still have to do.
Todos == {<<>>, <<"Flush">>, <<"TrySend">>, <<"SendLocked">>, <<"UnlockSend">>,
          <<"UnlockSend", "Disconnect">>, <<"UnlockSend", "Flush">>, <<"Disconnect">>}
Planned == todo \in [Threads -> Todos]

\* Thread t has locked m_SendPending, and no send has been posted since.
Holds(t) == At(t, "SendLocked") \/ At(t, "UnlockSend")

\* Whoever has m_SendPending, a thread, the kernel or a result that is not yet
\* dequeued, is the only one.
OneSender ==
    /\ Len(posted) + Len(completed) <= 1
    /\ posted # <<>> \/ completed # <<>> => sendPending /\ \A t \in Threads : ~Holds(t)
    /\ \A t, u \in Threads : Holds(t) => sendPending /\ (Holds(u) => u = t)

\* A range that was read ends inside the array, however old it is.
Inside(g) == g.offset + g.size <= BufSize
RangesInside ==
    /\ \A t \in Threads : Inside(range[t])
    /\ \A i \in DOMAIN posted : Inside(posted[i])

\* While the session is connected and no stale range has been posted: the kernel
\* sends from the head of the buffer, and what it has sent and what it has yet to
\* send are what was accepted.
Unsent == SubSeq(Contents(ring), Unpopped + 1, GetDataLength(ring))
Streams ==
    /\ posted # <<>> =>
           Head(posted).offset = ring.head /\ Head(posted).size <= FirstDataLen(ring)
    /\ Unpopped <= GetDataLength(ring)
    /\ wire \o Unsent = Numbers(0, accepted)

IInv ==
    /\ SendTypeOK /\ Planned /\ OneSender /\ RangesInside
    /\ connected /\ ~stale => Streams

------------------------------------------------------------------------------
(* Plans                                                                   *)

\* The first step of a plan tells the plan, but for what follows UnlockSend.
LEMMA Plans ==
    ASSUME Planned, NEW t \in Threads
    PROVE  /\ Idle(t) <=> todo[t] = <<>>
           /\ At(t, "Flush") <=> todo[t] = <<"Flush">>
           /\ At(t, "TrySend") <=> todo[t] = <<"TrySend">>
           /\ At(t, "SendLocked") <=> todo[t] = <<"SendLocked">>
           /\ At(t, "Disconnect") <=> todo[t] = <<"Disconnect">>
           /\ At(t, "UnlockSend") <=>
                  todo[t] \in {<<"UnlockSend">>, <<"UnlockSend", "Disconnect">>, <<"UnlockSend", "Flush">>}
BY DEF Planned, Todos, Idle, At

\* What Continue leaves to do.
LEMMA Continues ==
    /\ \A op, k : k \in Todos => k \o Tail(<<op>>) = k
    /\ \A op, next : <<>> \o Tail(<<op, next>>) = <<next>>
<1>1. ASSUME NEW op, NEW k \in Todos PROVE k \o Tail(<<op>>) = k
  BY ConcatEmptySeq DEF Todos
<1>2. ASSUME NEW op, NEW next PROVE <<>> \o Tail(<<op, next>>) = <<next>>
  OBVIOUS
<1>. QED
  BY <1>1, <1>2

------------------------------------------------------------------------------
(* The buffer                                                              *)

\* The first piece of the data is a prefix of it and ends inside the array.
LEMMA FirstPiece ==
    ASSUME NEW r \in Rings
    PROVE  /\ FirstDataLen(r) \in 0 .. GetDataLength(r)
           /\ GetDataLength(r) \in 0 .. BufSize - 1
           /\ r.head + FirstDataLen(r) <= BufSize
           /\ r.head \in Positions
BY RingAssumption DEF Rings, Positions, GetDataLength, FirstDataLen, IsSplit

\* The first piece of the ring is where its contents begin.
LEMMA PieceIsPrefix ==
    ASSUME NEW r \in Rings, NEW n \in Nat, n <= FirstDataLen(r)
    PROVE  CopyOut(r.bytes, r.head, n) = SubSeq(Contents(r), 1, n)
<1>1. /\ Contents(r) \in Seq(Byte) /\ Len(Contents(r)) = GetDataLength(r)
      /\ \A i \in 1 .. GetDataLength(r) : Contents(r)[i] = r.bytes[Slot(r, i)]
  BY ContentsIs
<1>2. /\ n <= GetDataLength(r) /\ GetDataLength(r) \in Nat
      /\ r.head \in Nat /\ r.head + n <= BufSize /\ BufSize \in Nat
  BY FirstPiece, RingAssumption DEF Positions
<1>3. /\ Len(SubSeq(Contents(r), 1, n)) = n
      /\ \A i \in 1 .. n : SubSeq(Contents(r), 1, n)[i] = Contents(r)[i]
      /\ SubSeq(Contents(r), 1, n) \in Seq(Byte)
  BY <1>1, <1>2
<1>4. \A i \in 1 .. n : Slot(r, i) = r.head + i - 1
  BY <1>2 DEF Slot
<1>5. ASSUME NEW i \in 1 .. n
      PROVE  CopyOut(r.bytes, r.head, n)[i] = SubSeq(Contents(r), 1, n)[i]
  BY <1>1, <1>2, <1>3, <1>4 DEF CopyOut
<1>6. ASSUME NEW i \in 1 .. n PROVE SubSeq(Contents(r), 1, n)[i] \in Byte
  BY <1>3, ElementOfSeq
<1>7. CopyOut(r.bytes, r.head, n) \in Seq(Byte) /\ Len(CopyOut(r.bytes, r.head, n)) = n
  BY <1>5, <1>6 DEF CopyOut
<1>. QED
  BY <1>3, <1>5, <1>7, SeqEqual

\* New data makes the first piece no shorter.
LEMMA FirstPieceGrows ==
    ASSUME NEW r \in Rings, NEW m \in Nat, CanPutData(r, m), NEW q \in Rings,
           q.head = r.head, q.tail = NextTail(r, m)
    PROVE  FirstDataLen(q) >= FirstDataLen(r)
BY RingAssumption
DEF Rings, Positions, GetDataLength, FirstDataLen, IsSplit, CanPutData, NextTail, CheckSplit

------------------------------------------------------------------------------
(* The numbers of the bytes                                                *)

\* The numbers of a range of the stream are bytes, as many as the range is long.
LEMMA NumbersTyped ==
    ASSUME NEW from \in Nat, NEW len \in Nat, from + len <= MaxBytes
    PROVE  Numbers(from, len) \in Seq(Byte) /\ Len(Numbers(from, len)) = len
<1>1. \A i \in 1 .. len : from + i \in Byte
  BY SendPathAssumption
<1>. QED
  BY <1>1 DEF Numbers

\* Two ranges that meet make one.
LEMMA NumbersJoin ==
    ASSUME NEW n \in Nat, NEW len \in Nat, n + len <= MaxBytes
    PROVE  Numbers(0, n) \o Numbers(n, len) = Numbers(0, n + len)
<1>1. /\ Numbers(0, n) \in Seq(Byte) /\ Len(Numbers(0, n)) = n
      /\ Numbers(n, len) \in Seq(Byte) /\ Len(Numbers(n, len)) = len
      /\ Numbers(0, n + len) \in Seq(Byte) /\ Len(Numbers(0, n + len)) = n + len
  BY NumbersTyped, SendPathAssumption
<1>2. \A i \in 1 .. n : Numbers(0, n + len)[i] = Numbers(0, n)[i]
  BY DEF Numbers
<1>3. \A i \in 1 .. len : Numbers(0, n + len)[n + i] = Numbers(n, len)[i]
  BY DEF Numbers
<1>. DEFINE u == Numbers(0, n + len)
            a == Numbers(0, n)
            b == Numbers(n, len)
<1>. HIDE DEF u, a, b
<1>4. /\ u \in Seq(Byte) /\ a \in Seq(Byte) /\ b \in Seq(Byte) /\ Len(u) = Len(a) + Len(b)
      /\ \A i \in 1 .. Len(a) : u[i] = a[i]
      /\ \A i \in 1 .. Len(b) : u[Len(a) + i] = b[i]
  BY <1>1, <1>2, <1>3 DEF u, a, b
<1>5. u = a \o b
  BY <1>4, ConcatIs
<1>. QED
  BY <1>5 DEF u, a, b

------------------------------------------------------------------------------
(* Types and ranges                                                        *)

\* The plans whose first step runs with m_SendPending locked.
Holdings == {<<"SendLocked">>, <<"UnlockSend">>, <<"UnlockSend", "Disconnect">>,
             <<"UnlockSend", "Flush">>}

\* A thread that goes to a label of the plan keeps every thread in the plan and
\* changes nobody else's hold of a lock.
LEMMA PlanMoves ==
    ASSUME Planned, NEW t \in Threads, NEW k \in Todos, Goto(t, k)
    PROVE  /\ Planned'
           /\ todo'[t] = k
           /\ \A u \in Threads : Holds(u) <=> todo[u] \in Holdings
           /\ \A u \in Threads : Holds(u)' <=> todo'[u] \in Holdings
           /\ \A u \in Threads : u # t => (Holds(u)' <=> Holds(u))
           /\ Holds(t)' <=> k \in Holdings
<1>1. Planned' /\ todo'[t] = k /\ \A u \in Threads : u # t => todo'[u] = todo[u]
  BY DEF Planned, Goto
<1>2. \A u \in Threads : Holds(u) <=> todo[u] \in Holdings
  BY Plans DEF Holds, Holdings
<1>3. ASSUME NEW u \in Threads PROVE Holds(u)' <=> todo'[u] \in Holdings
  <2>1. todo'[u] \in Todos
    BY <1>1 DEF Planned
  <2>. QED
    BY <2>1 DEF Holds, Holdings, At, Idle, Todos
<1>. QED
  BY <1>1, <1>2, <1>3

\* The plans after the steps of Run.
LEMMA NextPlan ==
    ASSUME Planned, NEW t \in Threads
    PROVE  /\ Flush(t) => Goto(t, <<"TrySend">>) \/ Goto(t, <<>>)
           /\ TrySend(t) => Goto(t, IF sendPending THEN <<>> ELSE <<"SendLocked">>)
           /\ SendLocked(t) =>
                  /\ Holds(t)
                  /\ \/ Goto(t, <<"UnlockSend">>) /\ UNCHANGED <<posted, stale>>
                     \/ Goto(t, <<"UnlockSend", "Disconnect">>) /\ UNCHANGED <<posted, stale>>
                     \/ /\ Goto(t, <<>>)
                        /\ posted' = Append(posted, range[t])
                        /\ stale' = (stale \/ range[t].offset # ring.head
                                           \/ range[t].size > FirstDataLen(ring))
           /\ UnlockSend(t) =>
                  Holds(t) /\ (Goto(t, <<>>) \/ Goto(t, <<"Disconnect">>) \/ Goto(t, <<"Flush">>))
           /\ Disconnect(t) => Goto(t, <<>>)
<1>0. /\ \A op, k : k \in Todos => k \o Tail(<<op>>) = k
      /\ \A op, next : <<>> \o Tail(<<op, next>>) = <<next>>
      /\ <<>> \in Todos /\ <<"TrySend">> \in Todos /\ <<"SendLocked">> \in Todos
      /\ <<"UnlockSend">> \in Todos /\ <<"UnlockSend", "Disconnect">> \in Todos
  BY Continues DEF Todos
<1>1. ASSUME NEW op, NEW k \in Todos, todo[t] = <<op>>, Continue(t, k)
      PROVE  Goto(t, k)
  BY <1>0, <1>1 DEF Continue, Goto
<1>2. ASSUME NEW op, NEW next, todo[t] = <<op, next>>, Continue(t, <<>>)
      PROVE  Goto(t, <<next>>)
  BY <1>0, <1>2 DEF Continue, Goto
<1>3. Flush(t) => Goto(t, <<"TrySend">>) \/ Goto(t, <<>>)
  BY <1>0, <1>1, Plans DEF Flush
<1>4. TrySend(t) => Goto(t, IF sendPending THEN <<>> ELSE <<"SendLocked">>)
  BY <1>0, <1>1, Plans DEF TrySend
<1>5. ASSUME SendLocked(t)
      PROVE  /\ Holds(t)
             /\ \/ Goto(t, <<"UnlockSend">>) /\ UNCHANGED <<posted, stale>>
                \/ Goto(t, <<"UnlockSend", "Disconnect">>) /\ UNCHANGED <<posted, stale>>
                \/ /\ Goto(t, <<>>)
                   /\ posted' = Append(posted, range[t])
                   /\ stale' = (stale \/ range[t].offset # ring.head
                                      \/ range[t].size > FirstDataLen(ring))
  <2>1. todo[t] = <<"SendLocked">> /\ Holds(t)
    BY <1>5, Plans DEF SendLocked, Holds
  <2>. QED
    BY <1>0, <1>1, <1>5, <2>1 DEF SendLocked
<1>6. ASSUME UnlockSend(t)
      PROVE  Holds(t) /\ (Goto(t, <<>>) \/ Goto(t, <<"Disconnect">>) \/ Goto(t, <<"Flush">>))
  <2>1. /\ Continue(t, <<>>) /\ Holds(t)
        /\ todo[t] \in {<<"UnlockSend">>, <<"UnlockSend", "Disconnect">>, <<"UnlockSend", "Flush">>}
    BY <1>6, Plans DEF UnlockSend, Holds
  <2>. QED
    BY <1>0, <1>1, <1>2, <2>1
<1>7. Disconnect(t) => Goto(t, <<>>)
  BY <1>0, <1>1, Plans DEF Disconnect
<1>. QED
  BY <1>3, <1>4, <1>5, <1>6, <1>7

\* What PostSend and PostSendBuffered put into the buffer.
LEMMA MarshallEffect ==
    ASSUME ring \in Rings, accepted \in 0 .. MaxBytes, NEW len \in 1 .. MaxLen,
           accepted + len <= MaxBytes, CanPutData(ring, len), Marshall(len)
    PROVE  /\ ring' \in Rings
           /\ Contents(ring') = Contents(ring) \o Numbers(accepted, len)
           /\ GetDataLength(ring') = GetDataLength(ring) + len
           /\ ring'.head = ring.head /\ FirstDataLen(ring') >= FirstDataLen(ring)
           /\ accepted' = accepted + len /\ accepted' \in 0 .. MaxBytes
<1>1. /\ Numbers(accepted, len) \in Seq(Byte) /\ Len(Numbers(accepted, len)) = len
      /\ len \in Nat
  BY NumbersTyped, SendPathAssumption
<1>2. ring' = Put(ring, Numbers(accepted, len)) /\ accepted' = accepted + len
  BY DEF Marshall
<1>3. /\ ring' \in Rings /\ Contents(ring') = Contents(ring) \o Numbers(accepted, len)
  BY <1>1, <1>2, PutAppends
<1>4. ring'.head = ring.head /\ ring'.tail = NextTail(ring, len)
  BY <1>1, <1>2, PutFields
<1>5. FirstDataLen(ring') >= FirstDataLen(ring) /\ GetDataLength(ring') = GetDataLength(ring) + len
  BY <1>1, <1>3, <1>4, FirstPieceGrows, TailMoves
<1>. QED
  BY <1>2, <1>3, <1>4, <1>5, SendPathAssumption

\* No step takes a variable out of its type, a thread off its plan or a range out of
\* the array.
LEMMA TypeStep ==
    ASSUME SendTypeOK, Planned, RangesInside, [Next]_vars
    PROVE  SendTypeOK' /\ Planned' /\ RangesInside'
<1>. DEFINE Flags == connected \in BOOLEAN /\ sendPending \in BOOLEAN /\ stale \in BOOLEAN
            Queues == posted \in Seq(Ranges) /\ completed \in Seq(0 .. BufSize)
            Bytes == accepted \in 0 .. MaxBytes /\ wire \in Seq(Byte)
            RangesOK == range \in [Threads -> Ranges] /\ RangesInside
            Typed == ring \in Rings /\ Flags /\ Queues /\ Bytes /\ RangesOK /\ Planned
<1>0. Typed /\ <<>> \in Todos /\ <<"Flush">> \in Todos /\ <<"Disconnect">> \in Todos
      /\ AppThreads \subseteq Threads /\ IoThreads \subseteq Threads
      /\ NoRange \in Ranges /\ Inside(NoRange)
  BY RingAssumption
  DEF SendTypeOK, Todos, Threads, NoRange, Ranges, Inside, Positions
<1>00. SUFFICES Typed'
  <2>1. Planned' => todo' \in [Threads -> Seq(Ops)]
    <3>1. \A k \in Todos : k \in Seq(Ops)
      <4>1. /\ "Flush" \in Ops /\ "TrySend" \in Ops /\ "SendLocked" \in Ops
            /\ "UnlockSend" \in Ops /\ "Disconnect" \in Ops
        BY DEF Ops
      <4>2. \A x, y \in Ops : <<>> \in Seq(Ops) /\ <<x>> \in Seq(Ops) /\ <<x, y>> \in Seq(Ops)
        OBVIOUS
      <4>. QED
        BY <4>1, <4>2 DEF Todos
    <3>. QED
      BY <3>1 DEF Planned
  <2>. QED
    BY <2>1 DEF SendTypeOK
<1>. USE <1>0
<1>1. ASSUME NEW t \in Threads, NEW len \in 1 .. MaxLen, Send(t, len)
      PROVE  Typed'
  <2>1. ring' \in Rings /\ accepted' \in 0 .. MaxBytes
    BY <1>1, MarshallEffect DEF Send
  <2>2. Planned'
    BY <1>1, PlanMoves DEF Send, Planned
  <2>. QED
    BY <1>1, <2>1, <2>2 DEF Send, kernelVars, RangesInside
<1>2. ASSUME NEW t \in Threads, NEW len \in 1 .. MaxLen, SendBuffered(t, len)
      PROVE  Typed'
  <2>1. ring' \in Rings /\ accepted' \in 0 .. MaxBytes
    BY <1>2, MarshallEffect DEF SendBuffered
  <2>. QED
    BY <1>2, <2>1 DEF SendBuffered, kernelVars, RangesInside, Planned
<1>3. ASSUME NEW t \in Threads, NEW op \in {"Flush", "Disconnect"}, AppCall(t, op)
      PROVE  Typed'
  <2>1. Planned'
    BY <1>3, PlanMoves DEF AppCall
  <2>. QED
    BY <1>3, <2>1 DEF AppCall, kernelVars, RangesInside
<1>4. ASSUME NEW t \in Threads, Flush(t)
      PROVE  Typed'
  <2>1. Planned'
    BY <1>4, PlanMoves, NextPlan DEF Todos
  <2>2. [offset |-> ring.head, size |-> FirstDataLen(ring)] \in Ranges
        /\ Inside([offset |-> ring.head, size |-> FirstDataLen(ring)])
    BY FirstPiece, RingAssumption DEF Ranges, Inside
  <2>3. RangesOK'
    BY <1>4, <2>2 DEF Flush, RangesInside, kernelVars
  <2>. QED
    BY <1>4, <2>1, <2>3 DEF Flush, kernelVars
<1>5. ASSUME NEW t \in Threads, TrySend(t)
      PROVE  Typed'
  <2>1. Planned'
    BY <1>5, PlanMoves, NextPlan DEF Todos
  <2>2. RangesOK'
    BY <1>5 DEF TrySend, RangesInside, kernelVars
  <2>. QED
    BY <1>5, <2>1, <2>2 DEF TrySend, kernelVars
<1>6. ASSUME NEW t \in Threads, SendLocked(t)
      PROVE  Typed'
  <2>1. Planned'
    BY <1>6, PlanMoves, NextPlan DEF Todos
  <2>2. /\ UNCHANGED posted \/ posted' = Append(posted, range[t])
        /\ range' = [range EXCEPT ![t] = NoRange]
        /\ stale' \in BOOLEAN
        /\ UNCHANGED <<ring, connected, sendPending, completed, wire, accepted>>
    BY <1>6 DEF SendLocked
  <2>3. posted' \in Seq(Ranges) /\ \A i \in DOMAIN posted' : Inside(posted'[i])
    <3>1. CASE UNCHANGED posted
      BY <3>1 DEF RangesInside
    <3>2. CASE posted' = Append(posted, range[t])
      <4>1. range[t] \in Ranges /\ Inside(range[t])
        BY DEF RangesInside
      <4>2. /\ posted' \in Seq(Ranges) /\ DOMAIN posted' = 1 .. Len(posted) + 1
            /\ \A i \in 1 .. Len(posted) : posted'[i] = posted[i]
            /\ posted'[Len(posted) + 1] = range[t]
            /\ DOMAIN posted = 1 .. Len(posted) /\ Len(posted) \in Nat
        BY <3>2, <4>1, AppendProperties, LenProperties
      <4>3. \A i \in DOMAIN posted' : i \in DOMAIN posted \/ i = Len(posted) + 1
        BY <4>2
      <4>. QED
        BY <4>1, <4>2, <4>3 DEF RangesInside
    <3>. QED
      BY <2>2, <3>1, <3>2
  <2>4. RangesOK'
    BY <2>2, <2>3 DEF RangesInside
  <2>. QED
    BY <2>1, <2>2, <2>3, <2>4
<1>7. ASSUME NEW t \in Threads, UnlockSend(t)
      PROVE  Typed'
  <2>1. Planned'
    BY <1>7, PlanMoves, NextPlan DEF Todos
  <2>. QED
    BY <1>7, <2>1 DEF UnlockSend, kernelVars, RangesInside
<1>8. ASSUME NEW t \in Threads, Disconnect(t)
      PROVE  Typed'
  <2>1. Planned'
    BY <1>8, PlanMoves, NextPlan DEF Todos
  <2>. QED
    BY <1>8, <2>1 DEF Disconnect, kernelVars, RangesInside
\* The tail of what is posted.
<1>9. ASSUME posted # <<>>
      PROVE  /\ Tail(posted) \in Seq(Ranges) /\ \A i \in DOMAIN Tail(posted) : Inside(Tail(posted)[i])
             /\ Head(posted) \in Ranges /\ Inside(Head(posted))
  <2>1. /\ Len(posted) \in Nat /\ Len(posted) >= 1 /\ DOMAIN posted = 1 .. Len(posted)
        /\ Tail(posted) \in Seq(Ranges) /\ Head(posted) \in Ranges /\ Head(posted) = posted[1]
        /\ DOMAIN Tail(posted) = 1 .. Len(posted) - 1
        /\ \A i \in 1 .. Len(posted) - 1 : Tail(posted)[i] = posted[i + 1]
    BY <1>9, HeadTailProperties, LenProperties, EmptySeq
  <2>2. \A i \in 1 .. Len(posted) - 1 : i + 1 \in DOMAIN posted
    BY <2>1
  <2>3. 1 \in DOMAIN posted
    BY <2>1
  <2>. QED
    BY <2>1, <2>2, <2>3 DEF RangesInside
<1>10. ASSUME NEW n \in 0 .. BufSize, Transmit(n)
       PROVE  Typed'
  <2>1. /\ posted # <<>> /\ n <= Head(posted).size /\ posted' = Tail(posted)
        /\ wire' = wire \o CopyOut(ring.bytes, Head(posted).offset, n)
        /\ completed' = Append(completed, n)
        /\ UNCHANGED <<ring, connected, sendPending, todo, range, accepted, stale>>
    BY <1>10 DEF Transmit
  <2>2. CopyOut(ring.bytes, Head(posted).offset, n) \in Seq(Byte)
    <3>1. PICK g \in Ranges : g = Head(posted) /\ Inside(g)
      BY <1>9, <2>1
    <3>a. BufSize \in Nat /\ n \in Nat /\ n <= g.size
      BY <2>1, <3>1, RingAssumption
    <3>b. g.offset \in 0 .. BufSize - 1 /\ g.size \in 0 .. BufSize /\ g.offset + g.size <= BufSize
      BY <3>1 DEF Ranges, Inside, Positions
    <3>2. /\ g.offset \in Nat /\ g.size \in Nat /\ g.offset + g.size <= BufSize
          /\ n \in Nat /\ n <= g.size /\ BufSize \in Nat
      BY <3>a, <3>b
    <3>3. \A i \in 1 .. n : g.offset + i - 1 \in Positions
      BY <3>2 DEF Positions
    <3>4. ring.bytes \in [Positions -> Byte]
      BY DEF Rings
    <3>5. \A i \in 1 .. n : ring.bytes[g.offset + i - 1] \in Byte
      BY <3>3, <3>4
    <3>. QED
      BY <3>1, <3>2, <3>5 DEF CopyOut
  <2>3. wire' \in Seq(Byte)
    BY <2>1, <2>2, ConcatProperties
  <2>4. posted' \in Seq(Ranges) /\ completed' \in Seq(0 .. BufSize)
    BY <1>9, <2>1, AppendProperties
  <2>5. RangesOK'
    BY <1>9, <2>1 DEF RangesInside
  <2>. QED
    BY <2>1, <2>3, <2>4, <2>5 DEF Planned
<1>11. ASSUME NEW t \in Threads, CompletedSend(t)
       PROVE  Typed'
  <2>1. Head(completed) \in 0 .. BufSize /\ Tail(completed) \in Seq(0 .. BufSize)
    BY <1>11, HeadTailProperties DEF CompletedSend
  <2>2. ring' \in Rings
    <3>1. GetDataLength(ring) \in Nat
      BY FirstPiece
    <3>2. Pop(ring, GetDataLength(ring)) \in Rings
      BY <3>1, PopDrops
    <3>3. Head(completed) \in 1 .. GetDataLength(ring) => Pop(ring, Head(completed)) \in Rings
      BY <2>1, <3>1, PopDrops
    <3>. QED
      BY <1>11, <3>2, <3>3 DEF CompletedSend
  <2>3. Planned'
    <3>1. <<"UnlockSend">> \in Todos /\ <<"UnlockSend", "Disconnect">> \in Todos
          /\ <<"UnlockSend", "Flush">> \in Todos
      BY DEF Todos
    <3>. QED
      BY <1>11, <3>1, PlanMoves DEF CompletedSend
  <2>. QED
    BY <1>11, <2>1, <2>2, <2>3 DEF CompletedSend, RangesInside
<1>12. ASSUME NEW t \in Threads, SendFailed(t)
       PROVE  Typed'
  <2>1. Planned'
    BY <1>12, PlanMoves DEF SendFailed
  <2>2. posted # <<>> /\ posted' = Tail(posted)
    BY <1>12 DEF SendFailed
  <2>. QED
    BY <1>9, <1>12, <2>1, <2>2 DEF SendFailed, RangesInside
<1>13. CASE UNCHANGED vars
  BY <1>13 DEF vars, kernelVars, RangesInside, Planned
<1>. HIDE DEF Typed
<1>. QED
  BY <1>1, <1>2, <1>3, <1>4, <1>5, <1>6, <1>7, <1>8, <1>10, <1>11, <1>12, <1>13
  DEF Next, Run, AppStep, Kernel

------------------------------------------------------------------------------
(* Who has m_SendPending                                                   *)

\* A step after which thread t does not hold the flag, and that changes nothing
\* else of what OneSender is about.
LEMMA Unheld ==
    ASSUME Planned, OneSender, NEW t \in Threads, NEW k \in Todos \ Holdings, Goto(t, k),
           UNCHANGED <<posted, completed, sendPending>>
    PROVE  OneSender'
<1>1. \A u \in Threads : Holds(u)' => Holds(u)
  BY PlanMoves
<1>. QED
  BY <1>1 DEF OneSender

\* At most one send is on its way, whoever starts it.
LEMMA OneSenderStep ==
    ASSUME SendTypeOK, Planned, OneSender, [Next]_vars
    PROVE  OneSender'
<1>0. /\ posted \in Seq(Ranges) /\ completed \in Seq(0 .. BufSize)
      /\ Len(posted) \in Nat /\ Len(completed) \in Nat
      /\ Len(posted) = 0 <=> posted = <<>>
      /\ Len(completed) = 0 <=> completed = <<>>
      /\ Len(posted) + Len(completed) <= 1
      /\ AppThreads \subseteq Threads /\ IoThreads \subseteq Threads
  BY EmptySeq, LenProperties DEF SendTypeOK, OneSender, Threads
<1>00. /\ {<<>>, <<"Flush">>, <<"TrySend">>, <<"Disconnect">>} \subseteq Todos \ Holdings
       /\ Holdings \subseteq Todos
  BY DEF Todos, Holdings
<1>1. ASSUME NEW t \in Threads, NEW len \in 1 .. MaxLen, Send(t, len) \/ SendBuffered(t, len)
      PROVE  OneSender'
  <2>1. UNCHANGED <<posted, completed, sendPending>> /\ (UNCHANGED todo \/ Goto(t, <<"Flush">>))
    BY <1>1 DEF Send, SendBuffered, kernelVars
  <2>2. CASE UNCHANGED todo
    BY <2>1, <2>2 DEF OneSender, Holds, At, Idle
  <2>. QED
    BY <1>00, <2>1, <2>2, Unheld
<1>2. ASSUME NEW t \in Threads, NEW op \in {"Flush", "Disconnect"}, AppCall(t, op)
      PROVE  OneSender'
  BY <1>00, <1>2, Unheld DEF AppCall, kernelVars
<1>3. ASSUME NEW t \in Threads, Flush(t) \/ Disconnect(t)
      PROVE  OneSender'
  <2>1. UNCHANGED <<posted, completed, sendPending>>
    BY <1>3 DEF Flush, Disconnect, kernelVars
  <2>2. Goto(t, <<"TrySend">>) \/ Goto(t, <<>>)
    BY <1>3, NextPlan
  <2>. QED
    BY <1>00, <2>1, <2>2, Unheld
<1>4. ASSUME NEW t \in Threads, TrySend(t)
      PROVE  OneSender'
  <2>1. UNCHANGED <<posted, completed>> /\ sendPending' = TRUE
    BY <1>4 DEF TrySend, kernelVars
  <2>2. Goto(t, IF sendPending THEN <<>> ELSE <<"SendLocked">>)
    BY <1>4, NextPlan
  <2>3. CASE sendPending
    BY <1>00, <2>1, <2>2, <2>3, Unheld
  <2>4. CASE ~sendPending
    <3>1. posted = <<>> /\ completed = <<>> /\ \A u \in Threads : ~Holds(u)
      BY <2>4 DEF OneSender
    <3>2. \A u \in Threads : Holds(u)' => u = t
      BY <1>00, <2>2, <2>4, <3>1, PlanMoves DEF Todos
    <3>. QED
      BY <1>0, <2>1, <3>1, <3>2 DEF OneSender
  <2>. QED
    BY <2>3, <2>4
<1>5. ASSUME NEW t \in Threads, SendLocked(t)
      PROVE  OneSender'
  <2>1. /\ UNCHANGED <<completed, sendPending>> /\ Holds(t)
        /\ \/ UNCHANGED posted /\ \E k \in Holdings : Goto(t, k)
           \/ posted' = Append(posted, range[t]) /\ Goto(t, <<>>)
    BY <1>5, NextPlan DEF SendLocked, Holdings
  <2>2. /\ posted = <<>> /\ completed = <<>> /\ sendPending
        /\ \A u \in Threads : Holds(u) => u = t
    BY <2>1 DEF OneSender
  <2>3. CASE UNCHANGED posted /\ \E k \in Holdings : Goto(t, k)
    <3>1. \A u \in Threads : Holds(u)' => u = t
      BY <1>00, <2>2, <2>3, PlanMoves
    <3>. QED
      BY <1>0, <2>1, <2>2, <2>3, <3>1 DEF OneSender
  <2>4. CASE posted' = Append(posted, range[t]) /\ Goto(t, <<>>)
    <3>1. \A u \in Threads : ~Holds(u)'
      BY <1>00, <2>2, <2>4, PlanMoves
    <3>2. range[t] \in Ranges
      BY DEF SendTypeOK
    <3>3. Len(posted') = 1
      BY <1>0, <2>2, <2>4, <3>2, AppendProperties
    <3>. QED
      BY <1>0, <2>1, <2>2, <3>1, <3>3 DEF OneSender
  <2>. QED
    BY <2>1, <2>3, <2>4
<1>6. ASSUME NEW t \in Threads, UnlockSend(t)
      PROVE  OneSender'
  <2>1. /\ UNCHANGED <<posted, completed>> /\ Holds(t)
        /\ Goto(t, <<>>) \/ Goto(t, <<"Disconnect">>) \/ Goto(t, <<"Flush">>)
    BY <1>6, NextPlan DEF UnlockSend, kernelVars
  <2>2. /\ posted = <<>> /\ completed = <<>>
        /\ \A u \in Threads : Holds(u) => u = t
    BY <2>1 DEF OneSender
  <2>3. \A u \in Threads : ~Holds(u)'
    BY <1>00, <2>1, <2>2, PlanMoves
  <2>. QED
    BY <1>0, <2>1, <2>2, <2>3 DEF OneSender
<1>7. ASSUME NEW n \in 0 .. BufSize, Transmit(n)
      PROVE  OneSender'
  <2>1. /\ posted # <<>> /\ posted' = Tail(posted) /\ completed' = Append(completed, n)
        /\ UNCHANGED <<sendPending, todo>>
    BY <1>7 DEF Transmit
  <2>2. Len(posted') = Len(posted) - 1 /\ Len(completed') = Len(completed) + 1
    BY <1>0, <2>1, HeadTailProperties, AppendProperties
  <2>3. \A u \in Threads : Holds(u)' <=> Holds(u)
    BY <2>1 DEF Holds, At, Idle
  <2>. QED
    BY <1>0, <2>1, <2>2, <2>3 DEF OneSender
<1>8. ASSUME NEW t \in Threads, CompletedSend(t)
      PROVE  OneSender'
  <2>1. /\ completed # <<>> /\ completed' = Tail(completed) /\ UNCHANGED <<posted, sendPending>>
        /\ \E k \in Holdings : Goto(t, k)
    BY <1>8 DEF CompletedSend, Holdings
  <2>2. sendPending /\ \A u \in Threads : ~Holds(u)
    BY <2>1 DEF OneSender
  <2>3. Len(completed') = Len(completed) - 1 /\ completed' \in Seq(0 .. BufSize)
    BY <1>0, <2>1, HeadTailProperties
  <2>4. posted' = <<>> /\ completed' = <<>>
    BY <1>0, <2>1, <2>3
  <2>5. \A u \in Threads : Holds(u)' => u = t
    BY <1>00, <2>1, <2>2, PlanMoves
  <2>. QED
    BY <1>0, <2>1, <2>2, <2>3, <2>4, <2>5 DEF OneSender
<1>9. ASSUME NEW t \in Threads, SendFailed(t)
      PROVE  OneSender'
  <2>1. /\ posted # <<>> /\ posted' = Tail(posted) /\ UNCHANGED <<completed, sendPending>>
        /\ Goto(t, <<"Disconnect">>)
    BY <1>9 DEF SendFailed
  <2>2. Len(posted') = Len(posted) - 1
    BY <1>0, <2>1, HeadTailProperties
  <2>3. \A u \in Threads : Holds(u)' => Holds(u)
    BY <1>00, <2>1, PlanMoves
  <2>. QED
    BY <1>0, <2>1, <2>2, <2>3 DEF OneSender
<1>10. CASE UNCHANGED vars
  BY <1>10 DEF vars, kernelVars, OneSender, Holds, At, Idle
<1>. QED
  BY <1>0, <1>1, <1>2, <1>3, <1>4, <1>5, <1>6, <1>7, <1>8, <1>9, <1>10
  DEF Next, Run, AppStep, Kernel

------------------------------------------------------------------------------
(* The stream                                                              *)

\* The flags that Streams depends on are never set back.
LEMMA StreamsStep ==
    ASSUME IInv, SendTypeOK', OneSender', connected', ~stale', [Next]_vars
    PROVE  Streams'
<1>0. connected /\ ~stale
  <2>0. connected \in BOOLEAN /\ stale \in BOOLEAN
    BY DEF IInv, SendTypeOK
  <2>1. ASSUME NEW t \in Threads, Run(t) PROVE connected /\ ~stale
    <3>1. CASE Flush(t) \/ TrySend(t) \/ UnlockSend(t)
      BY <2>0, <3>1 DEF Flush, TrySend, UnlockSend
    <3>2. CASE SendLocked(t)
      BY <2>0, <3>2 DEF SendLocked
    <3>3. CASE Disconnect(t)
      BY <3>3 DEF Disconnect
    <3>. QED
      BY <2>1, <3>1, <3>2, <3>3 DEF Run
  <2>2. ASSUME NEW t \in Threads, NEW len, Send(t, len) \/ SendBuffered(t, len)
        PROVE  connected /\ ~stale
    BY <2>0, <2>2 DEF Send, SendBuffered
  <2>3. ASSUME NEW t \in Threads, NEW op, AppCall(t, op) PROVE connected /\ ~stale
    BY <2>0, <2>3 DEF AppCall
  <2>4. ASSUME NEW t \in Threads, CompletedSend(t) \/ SendFailed(t) PROVE connected /\ ~stale
    BY <2>0, <2>4 DEF CompletedSend, SendFailed
  <2>5. ASSUME NEW n, Transmit(n) PROVE connected /\ ~stale
    BY <2>5 DEF Transmit
  <2>6. CASE UNCHANGED vars
    BY <2>6 DEF vars
  <2>. QED
    BY <2>1, <2>2, <2>3, <2>4, <2>5, <2>6 DEF Next, AppStep, Kernel, Threads
<1>1. /\ Streams /\ SendTypeOK /\ OneSender /\ Planned
      /\ ring \in Rings /\ accepted \in 0 .. MaxBytes /\ MaxBytes \in Nat
      /\ wire \in Seq(Byte) /\ posted \in Seq(Ranges) /\ completed \in Seq(0 .. BufSize)
  BY <1>0, SendPathAssumption DEF IInv, SendTypeOK
<1>2. /\ Contents(ring) \in Seq(Byte) /\ Len(Contents(ring)) = GetDataLength(ring)
      /\ GetDataLength(ring) \in Nat
  BY <1>1, ContentsIs, FirstPiece
<1>3. Unpopped \in 0 .. GetDataLength(ring)
  <2>1. completed # <<>> => Head(completed) \in 0 .. BufSize
    BY <1>1, HeadTailProperties
  <2>. QED
    BY <1>1, <1>2, <2>1, RingAssumption DEF Streams, Unpopped
\* A step that leaves the buffer, what is sent and what was accepted.
<1>4. ASSUME UNCHANGED <<ring, wire, accepted, completed, posted>>
      PROVE  Streams'
  BY <1>1, <1>4 DEF Streams, Unsent, Unpopped
<1>5. ASSUME NEW t \in Threads, NEW len \in 1 .. MaxLen, Send(t, len) \/ SendBuffered(t, len)
      PROVE  Streams'
  <2>1. CASE UNCHANGED <<ring, accepted>>
    BY <1>4, <1>5, <2>1 DEF Send, SendBuffered, kernelVars
  <2>2. CASE Marshall(len) /\ CanPutData(ring, len) /\ accepted + len <= MaxBytes
    <3>0. len \in Nat
      BY SendPathAssumption
    <3>1. UNCHANGED <<wire, completed, posted>> /\ len \in Nat
      BY <1>5, <3>0 DEF Send, SendBuffered, kernelVars
    <3>2. /\ ring' \in Rings
          /\ Contents(ring') = Contents(ring) \o Numbers(accepted, len)
          /\ GetDataLength(ring') = GetDataLength(ring) + len
          /\ ring'.head = ring.head /\ FirstDataLen(ring') >= FirstDataLen(ring)
          /\ accepted' = accepted + len
      BY <1>1, <2>2, MarshallEffect
    <3>3. /\ Numbers(accepted, len) \in Seq(Byte) /\ Len(Numbers(accepted, len)) = len
          /\ Numbers(0, accepted) \o Numbers(accepted, len) = Numbers(0, accepted')
      <4>1. accepted \in Nat /\ len \in Nat /\ accepted + len <= MaxBytes
        BY <1>1, <2>2, <3>0
      <4>. QED
        BY <3>2, <4>1, NumbersTyped, NumbersJoin
    <3>4. Unpopped' = Unpopped
      BY <3>1 DEF Unpopped
    <3>5. Unsent' = Unsent \o Numbers(accepted, len)
      BY <1>2, <1>3, <3>2, <3>3, <3>4, RestGrows DEF Unsent
    <3>6. Unsent \in Seq(Byte)
      BY <1>2, <1>3 DEF Unsent
    <3>7. wire' \o Unsent' = Numbers(0, accepted')
      <4>1. (wire \o Unsent) \o Numbers(accepted, len) = wire \o (Unsent \o Numbers(accepted, len))
        BY <1>1, <3>3, <3>6, ConcatAssociative
      <4>2. wire \o Unsent = Numbers(0, accepted)
        BY <1>1 DEF Streams
      <4>. QED
        BY <3>1, <3>3, <3>5, <4>1, <4>2
    <3>8. Unpopped' <= GetDataLength(ring')
      BY <1>2, <1>3, <3>1, <3>2, <3>4
    <3>9. posted' # <<>> =>
              Head(posted').offset = ring'.head /\ Head(posted').size <= FirstDataLen(ring')
      <4>1. posted # <<>> => Head(posted) \in Ranges
        BY <1>1, HeadTailProperties
      <4>2. FirstDataLen(ring) \in Int /\ FirstDataLen(ring') \in Int
        BY <1>1, <3>2, FirstPiece
      <4>3. posted # <<>> => Head(posted).size \in Int
        BY <4>1, RingAssumption DEF Ranges
      <4>. QED
        BY <1>1, <3>1, <3>2, <4>2, <4>3 DEF Streams
    <3>. QED
      BY <3>7, <3>8, <3>9 DEF Streams
  <2>. QED
    BY <1>5, <2>1, <2>2 DEF Send, SendBuffered
<1>6. ASSUME NEW t \in Threads, SendLocked(t)
      PROVE  Streams'
  <2>1. /\ UNCHANGED <<ring, wire, accepted, completed>> /\ Holds(t)
        /\ \/ UNCHANGED posted
           \/ /\ posted' = Append(posted, range[t])
              /\ stale' = (stale \/ range[t].offset # ring.head
                                 \/ range[t].size > FirstDataLen(ring))
    BY <1>1, <1>6, NextPlan DEF SendLocked
  <2>2. CASE UNCHANGED posted
    BY <1>4, <2>1, <2>2
  <2>3. CASE posted' = Append(posted, range[t]) /\ range[t].offset = ring.head
                 /\ ~(range[t].size > FirstDataLen(ring))
    <3>1. posted = <<>>
      BY <1>1, <2>1 DEF OneSender
    <3>2. Head(posted') = range[t] /\ range[t] \in Ranges
      BY <1>1, <2>3, <3>1, HeadTailAppend DEF SendTypeOK
    <3>3. range[t].size \in Int /\ FirstDataLen(ring) \in Int
      BY <1>1, <3>2, FirstPiece, RingAssumption DEF Ranges
    <3>4. Unsent' = Unsent /\ Unpopped' = Unpopped
      BY <2>1 DEF Unsent, Unpopped
    <3>. QED
      BY <1>1, <2>1, <2>3, <3>2, <3>3, <3>4 DEF Streams
  <2>. QED
    BY <2>1, <2>2, <2>3
<1>7. ASSUME NEW n \in 0 .. BufSize, Transmit(n)
      PROVE  Streams'
  <2>1. /\ posted # <<>> /\ n <= Head(posted).size /\ posted' = Tail(posted)
        /\ wire' = wire \o CopyOut(ring.bytes, Head(posted).offset, n)
        /\ completed' = Append(completed, n)
        /\ UNCHANGED <<ring, accepted>>
    BY <1>7 DEF Transmit
  <2>2. /\ Len(posted) \in Nat /\ Len(posted) >= 1 /\ Len(completed) \in Nat
        /\ Len(posted) + Len(completed) <= 1
    BY <1>1, <2>1, LenProperties, EmptySeq DEF OneSender
  <2>3. completed = <<>> /\ posted' = <<>>
    <3>1. completed = <<>>
      BY <1>1, <2>2, EmptySeq
    <3>2. Len(posted') = Len(posted) - 1 /\ posted' \in Seq(Ranges)
      BY <1>1, <2>1, HeadTailProperties
    <3>3. Len(posted') = 0
      BY <2>2, <3>2
    <3>. QED
      BY <3>1, <3>2, <3>3, EmptySeq
  <2>4. PICK g \in Ranges : g = Head(posted)
    BY <1>1, <2>1, HeadTailProperties
  <2>5. /\ g.offset = ring.head /\ n <= FirstDataLen(ring) /\ n \in Nat
        /\ n \in 0 .. GetDataLength(ring)
    <3>1. /\ g.offset = ring.head /\ g.size <= FirstDataLen(ring) /\ n <= g.size
      BY <1>1, <2>1, <2>4 DEF Streams
    <3>2. g.size \in Int /\ n \in Nat /\ FirstDataLen(ring) \in 0 .. GetDataLength(ring)
          /\ GetDataLength(ring) \in Nat
      BY <1>1, <1>2, <2>4, FirstPiece, RingAssumption DEF Ranges
    <3>. QED
      BY <3>1, <3>2
  <2>6. wire' = wire \o SubSeq(Contents(ring), 1, n)
    BY <1>1, <2>1, <2>4, <2>5, PieceIsPrefix
  <2>7. Unpopped = 0 /\ Unpopped' = n
    <3>1. Head(completed') = n /\ completed' # <<>>
      BY <1>1, <2>1, <2>3, HeadTailAppend, AppendProperties
    <3>. QED
      BY <2>3, <3>1 DEF Unpopped
  <2>8. Unsent = SubSeq(Contents(ring), 1, n) \o Unsent'
    <3>1. /\ Unsent = SubSeq(Contents(ring), 1, Len(Contents(ring)))
          /\ Unsent' = SubSeq(Contents(ring), n + 1, Len(Contents(ring)))
      BY <1>2, <2>1, <2>7 DEF Unsent
    <3>. QED
      BY <1>2, <2>5, <3>1, Halves
  <2>9. SubSeq(Contents(ring), 1, n) \in Seq(Byte) /\ Unsent' \in Seq(Byte)
    BY <1>2, <2>1, <2>5, <2>7 DEF Unsent
  <2>10. wire' \o Unsent' = Numbers(0, accepted')
    <3>0. \A a, b, c \in Seq(Byte) : (a \o b) \o c = a \o (b \o c)
      BY ConcatAssociative
    <3>1. (wire \o SubSeq(Contents(ring), 1, n)) \o Unsent'
              = wire \o (SubSeq(Contents(ring), 1, n) \o Unsent')
      BY <1>1, <2>9, <3>0, Zenon
    <3>2. wire \o Unsent = Numbers(0, accepted)
      BY <1>1 DEF Streams
    <3>. QED
      BY <2>1, <2>6, <2>8, <3>1, <3>2
  <2>. QED
    BY <2>1, <2>3, <2>5, <2>7, <2>10 DEF Streams
<1>8. ASSUME NEW t \in Threads, CompletedSend(t)
      PROVE  Streams'
  <2>1. /\ completed # <<>> /\ completed' = Tail(completed)
        /\ UNCHANGED <<posted, wire, accepted>>
        /\ \/ Head(completed) = 0 /\ UNCHANGED ring
           \/ Head(completed) > GetDataLength(ring)
           \/ ring' = Pop(ring, Head(completed))
    BY <1>0, <1>8 DEF CompletedSend
  <2>2. /\ Len(posted) \in Nat /\ Len(completed) >= 1 /\ Len(completed) \in Nat
        /\ Len(posted) + Len(completed) <= 1
    BY <1>1, <2>1, LenProperties, EmptySeq DEF OneSender
  <2>3. posted' = <<>> /\ completed' = <<>> /\ Unpopped' = 0
    <3>1. posted = <<>>
      BY <1>1, <2>2, EmptySeq
    <3>2. Len(completed') = Len(completed) - 1 /\ completed' \in Seq(0 .. BufSize)
      BY <1>1, <2>1, HeadTailProperties
    <3>3. Len(completed') = 0
      BY <2>2, <3>2
    <3>4. completed' = <<>>
      BY <3>2, <3>3, EmptySeq
    <3>. QED
      BY <2>1, <3>1, <3>4 DEF Unpopped
  <2>4. PICK n \in 0 .. GetDataLength(ring) : n = Head(completed) /\ n = Unpopped
    BY <1>3, <2>1 DEF Unpopped
  <2>5. ring' \in Rings /\ Contents(ring') = SubSeq(Contents(ring), n + 1, Len(Contents(ring)))
    <3>0. n \in Nat /\ n <= GetDataLength(ring)
      BY <1>2, <2>4
    <3>1. CASE Head(completed) = 0 /\ UNCHANGED ring
      <4>1. n = 0 /\ n + 1 = 1
        BY <2>4, <3>1
      <4>2. SubSeq(Contents(ring), 1, Len(Contents(ring))) = Contents(ring)
        BY <1>2, SubSeqFull
      <4>. QED
        BY <1>1, <3>1, <4>1, <4>2
    <3>2. CASE ring' = Pop(ring, Head(completed))
      <4>1. ring' = Pop(ring, n)
        BY <2>4, <3>2
      <4>. QED
        BY <1>1, <3>0, <4>1, PopDrops
    <3>. QED
      BY <1>2, <2>1, <2>4, <3>1, <3>2
  <2>6. Contents(ring') \in Seq(Byte) /\ Len(Contents(ring')) = GetDataLength(ring')
        /\ GetDataLength(ring') \in Nat
    BY <2>5, ContentsIs, FirstPiece
  <2>7. Unsent' = Unsent
    <3>1. Unsent' = Contents(ring')
      BY <2>3, <2>6, SubSeqFull DEF Unsent
    <3>. QED
      BY <1>2, <2>4, <2>5, <3>1 DEF Unsent
  <2>. QED
    BY <1>1, <2>1, <2>3, <2>6, <2>7 DEF Streams
<1>9. ASSUME NEW t \in Threads, SendFailed(t)
      PROVE  Streams'
  <2>1. /\ posted # <<>> /\ posted' = Tail(posted)
        /\ UNCHANGED <<ring, wire, accepted, completed>>
    BY <1>9 DEF SendFailed
  <2>2. posted' = <<>>
    <3>1. /\ Len(posted) \in Nat /\ Len(posted) >= 1 /\ Len(completed) \in Nat
          /\ Len(posted) + Len(completed) <= 1
      BY <1>1, <2>1, LenProperties, EmptySeq DEF OneSender
    <3>2. Len(posted') = Len(posted) - 1 /\ posted' \in Seq(Ranges)
      BY <1>1, <2>1, HeadTailProperties
    <3>3. Len(posted') = 0
      BY <3>1, <3>2
    <3>. QED
      BY <3>2, <3>3, EmptySeq
  <2>3. Unsent' = Unsent /\ Unpopped' = Unpopped
    BY <2>1 DEF Unsent, Unpopped
  <2>. QED
    BY <1>1, <2>1, <2>2, <2>3 DEF Streams
<1>10. ASSUME NEW t \in Threads, Flush(t) \/ TrySend(t) \/ UnlockSend(t) \/ Disconnect(t)
                                \/ \E op : AppCall(t, op)
       PROVE  Streams'
  BY <1>4, <1>10 DEF Flush, TrySend, UnlockSend, Disconnect, AppCall, kernelVars
<1>11. CASE UNCHANGED vars
  BY <1>4, <1>11 DEF vars, kernelVars
<1>. QED
  BY <1>5, <1>6, <1>7, <1>8, <1>9, <1>10, <1>11 DEF Next, Run, AppStep, Kernel, Threads

------------------------------------------------------------------------------
(* The theorems                                                            *)

\* Init satisfies the invariant.
LEMMA IInvInit == Init => IInv
<1>. SUFFICES ASSUME Init PROVE IInv
  OBVIOUS
<1>1. 0 \in Byte /\ 0 \in Positions /\ BufSize \in Nat /\ MaxBytes \in Nat
  BY SendPathAssumption, RingAssumption DEF Positions
<1>2. ring \in Rings /\ GetDataLength(ring) = 0
  BY <1>1 DEF Init, Rings, GetDataLength
<1>3. Planned /\ \A t \in Threads : todo[t] = <<>>
  BY DEF Init, Planned, Todos
<1>4. SendTypeOK
  <2>1. NoRange \in Ranges
    BY <1>1 DEF NoRange, Ranges
  <2>2. /\ <<>> \in Seq(Ranges) /\ <<>> \in Seq(0 .. BufSize) /\ <<>> \in Seq(Ops)
        /\ <<>> \in Seq(Byte)
    BY EmptySeq
  <2>. QED
    BY <1>1, <1>2, <2>1, <2>2 DEF Init, SendTypeOK
<1>5. OneSender
  <2>1. Len(<<>>) = 0
    OBVIOUS
  <2>. QED
    BY <1>3, <2>1 DEF Init, OneSender, Holds, At, Idle
<1>6. RangesInside
  <2>1. DOMAIN <<>> = {}
    OBVIOUS
  <2>2. Inside(NoRange)
    BY <1>1 DEF NoRange, Inside
  <2>. QED
    BY <2>1, <2>2 DEF Init, RangesInside
<1>7. Streams
  <2>1. Unpopped = 0
    BY DEF Init, Unpopped
  <2>2. Unsent = <<>>
    BY <1>2, <2>1, SubSeqEmpty DEF Unsent
  <2>3. Numbers(0, accepted) = <<>>
    BY DEF Init, Numbers
  <2>. QED
    BY <1>2, <2>1, <2>2, <2>3 DEF Init, Streams
<1>. QED
  BY <1>3, <1>4, <1>5, <1>6, <1>7 DEF IInv

\* Every step keeps it.
LEMMA IInvNext == IInv /\ [Next]_vars => IInv'
<1>. SUFFICES ASSUME IInv, [Next]_vars PROVE IInv'
  OBVIOUS
<1>1. SendTypeOK' /\ Planned' /\ RangesInside'
  BY TypeStep DEF IInv
<1>2. OneSender'
  BY OneSenderStep DEF IInv
<1>3. connected' /\ ~stale' => Streams'
  BY <1>1, <1>2, StreamsStep
<1>. QED
  BY <1>1, <1>2, <1>3 DEF IInv

\* The invariant from which the theorems follow.
THEOREM SendPathInvariant == Spec => []IInv
BY IInvInit, IInvNext, PTL DEF Spec

\* Type correctness: no range ends behind the array, whatever was read before.
THEOREM SendPathTyped == Spec => []SendTypeOK
<1>1. IInv => SendTypeOK
  BY DEF IInv
<1>. QED
  BY <1>1, SendPathInvariant, PTL

\* The stream is exact, for a buffer of any size, any number of threads and
\* calls of any length.
THEOREM StreamIsExact == Spec => []StreamExact
<1>1. IInv => StreamExact
  BY DEF IInv, StreamExact, OneSender, Streams, Unsent
<1>. QED
  BY <1>1, SendPathInvariant, PTL

==============================================================================
