------------------------------- MODULE SendPath -------------------------------
(***************************************************************************)
(* The bytes of one incarnation of a session on their way from PostSend to *)
(* the peer: NetLib/NetLib/Session.cpp:545-706 with the ring buffer        *)
(* m_SendBuffer, the flag m_SendPending and the kernel, which sends from   *)
(* the memory of m_SendBuffer itself.  The reference count and the reuse   *)
(* of the session are in Session and Network.                              *)
(*                                                                         *)
(* The k-th byte that a call has put into the buffer is the number k, and  *)
(* fresh memory holds 0.  todo[t] is what thread t still has to do, first  *)
(* step first.                                                             *)
(***************************************************************************)
EXTENDS RingBuffer

CONSTANTS AppThreads,  \* threads that call PostSend, PostSendBuffered, DisconnectSession
          IoThreads,   \* RunIOWorker
          AppCalls,    \* what the application threads call
          MaxLen,      \* bound on the bytes of one call
          MaxBytes     \* bound on the bytes of the incarnation

Threads == AppThreads \cup IoThreads
Ops == {"Flush", "TrySend", "SendLocked", "UnlockSend", "Disconnect"}
Ranges == [offset : Positions, size : 0 .. BufSize]
NoRange == [offset |-> 0, size |-> 0]

ASSUME SendPathAssumption ==
    /\ AppCalls \subseteq {"Send", "SendBuffered", "Flush", "Disconnect"}
    /\ MaxLen \in Nat
    /\ MaxBytes \in Nat
    /\ 0 .. MaxBytes \subseteq Byte

VARIABLES
    ring,         \* m_SendBuffer
    connected,    \* m_Connect
    sendPending,  \* m_SendPending is locked
    posted,       \* the ranges of m_SendBuffer that the kernel has to send
    completed,    \* the results of sends, not yet dequeued: bytes transferred
    todo,
    range,        \* what thread t has read from m_SendBuffer to send
    accepted,     \* how many bytes PostSend and PostSendBuffered have taken
    wire,         \* the bytes the kernel has sent
    stale         \* some send was posted for bytes that were not at the head any more

kernelVars == <<posted, completed, wire>>
vars == <<ring, connected, sendPending, kernelVars, todo, range, accepted, stale>>

Init ==
    /\ ring = [bytes |-> [p \in Positions |-> 0], head |-> 0, tail |-> 0]
    /\ connected = TRUE
    /\ sendPending = FALSE
    /\ posted = <<>> /\ completed = <<>>
    /\ todo = [t \in Threads |-> <<>>]
    /\ range = [t \in Threads |-> NoRange]
    /\ accepted = 0
    /\ wire = <<>>
    /\ stale = FALSE

------------------------------------------------------------------------------
Idle(t) == todo[t] = <<>>
At(t, op) == ~Idle(t) /\ Head(todo[t]) = op
\* Thread t goes on with the steps of k.
Goto(t, k) == todo' = [todo EXCEPT ![t] = k]
Continue(t, k) == Goto(t, k \o Tail(todo[t]))

\* Marshall with the next len numbers.
Numbers(from, len) == [i \in 1 .. len |-> from + i]
Marshall(len) ==
    /\ ring' = Put(ring, Numbers(accepted, len))
    /\ accepted' = accepted + len

\* PostSend(Data, Len): takes the bytes or refuses them, and flushes only when
\* they are all that the buffer holds.
Send(t, len) ==
    /\ Idle(t) /\ accepted + len <= MaxBytes
    /\ \/ /\ connected /\ CanPutData(ring, len)
          /\ Marshall(len)
          /\ IF GetDataLength(ring') = len THEN Goto(t, <<"Flush">>) ELSE UNCHANGED todo
       \/ /\ ~connected \/ ~CanPutData(ring, len)
          /\ UNCHANGED <<ring, accepted, todo>>
    /\ UNCHANGED <<connected, sendPending, kernelVars, range, stale>>

\* PostSendBuffered.
SendBuffered(t, len) ==
    /\ Idle(t) /\ accepted + len <= MaxBytes
    /\ connected /\ CanPutData(ring, len)
    /\ Marshall(len)
    /\ UNCHANGED <<connected, sendPending, kernelVars, todo, range, stale>>

\* The application calls PostSend() or DisconnectSession.
AppCall(t, op) ==
    /\ Idle(t)
    /\ Goto(t, <<op>>)
    /\ UNCHANGED <<ring, connected, sendPending, kernelVars, range, accepted, stale>>

\* PostSend(): reads, under m_SendPacketLock, where the first piece of the
\* data lies and how long it is ...
Flush(t) ==
    /\ At(t, "Flush")
    /\ IF connected /\ GetDataLength(ring) # 0
       THEN /\ range' = [range EXCEPT ![t] =
                            [offset |-> ring.head, size |-> FirstDataLen(ring)]]
            /\ Continue(t, <<"TrySend">>)
       ELSE Continue(t, <<>>) /\ UNCHANGED range
    /\ UNCHANGED <<ring, connected, sendPending, kernelVars, accepted, stale>>

\* ... takes m_SendPending after that, or returns ...
TrySend(t) ==
    /\ At(t, "TrySend")
    /\ sendPending' = TRUE
    /\ IF sendPending THEN Continue(t, <<>>) /\ range' = [range EXCEPT ![t] = NoRange]
                      ELSE Continue(t, <<"SendLocked">>) /\ UNCHANGED range
    /\ UNCHANGED <<ring, connected, kernelVars, accepted, stale>>

\* ... and posts, under m_ClientSessionLock, what it has read.
SendLocked(t) ==
    /\ At(t, "SendLocked")
    /\ \/ /\ ~connected
          /\ Continue(t, <<"UnlockSend">>)
          /\ UNCHANGED <<posted, stale>>
       \/ /\ connected
          /\ posted' = Append(posted, range[t])
          /\ stale' = (stale \/ range[t].offset # ring.head
                             \/ range[t].size > FirstDataLen(ring))
          /\ Continue(t, <<>>)
       \/ /\ connected                \* WSASend or RIOSend fails
          /\ Continue(t, <<"UnlockSend", "Disconnect">>)
          /\ UNCHANGED <<posted, stale>>
    /\ range' = [range EXCEPT ![t] = NoRange]
    /\ UNCHANGED <<ring, connected, sendPending, completed, wire, accepted>>

UnlockSend(t) ==
    /\ At(t, "UnlockSend")
    /\ sendPending' = FALSE
    /\ Continue(t, <<>>)
    /\ UNCHANGED <<ring, connected, kernelVars, range, accepted, stale>>

Disconnect(t) ==
    /\ At(t, "Disconnect")
    /\ connected' = FALSE
    /\ Continue(t, <<>>)
    /\ UNCHANGED <<ring, sendPending, kernelVars, range, accepted, stale>>

------------------------------------------------------------------------------
\* The kernel sends the first n bytes of what was posted, as they are in the
\* buffer at that time.
Transmit(n) ==
    /\ posted # <<>> /\ n <= Head(posted).size
    /\ wire' = wire \o CopyOut(ring.bytes, Head(posted).offset, n)
    /\ completed' = Append(completed, n)
    /\ posted' = Tail(posted)
    /\ UNCHANGED <<ring, connected, sendPending, todo, range, accepted, stale>>

\* Mutant: pops all the data, although the kernel has taken only a part.
CompletedSendPopsAll(t) ==
    /\ Idle(t) /\ completed # <<>>
    /\ connected /\ Head(completed) # 0
    /\ ring' = Pop(ring, GetDataLength(ring))
    /\ Goto(t, <<"UnlockSend", "Flush">>)
    /\ completed' = Tail(completed)
    /\ UNCHANGED <<connected, sendPending, posted, wire, range, accepted, stale>>

\* Mutant: flushes before it unlocks.
CompletedSendFlushesFirst(t) ==
    /\ Idle(t) /\ completed # <<>>
    /\ \/ /\ ~connected \/ Head(completed) = 0
          /\ Goto(t, <<"UnlockSend", "Disconnect">>)
          /\ UNCHANGED ring
       \/ /\ connected /\ Head(completed) # 0
          /\ ring' = Pop(ring, Head(completed))
          /\ Goto(t, <<"Flush", "UnlockSend">>)
    /\ completed' = Tail(completed)
    /\ UNCHANGED <<connected, sendPending, posted, wire, range, accepted, stale>>

\* CompletedSend: the bytes transferred leave the buffer; then the thread
\* unlocks and flushes the rest, or the bytes of callers that found
\* m_SendPending locked.
CompletedSend(t) ==
    /\ Idle(t) /\ completed # <<>>
    /\ LET transferred == Head(completed) IN
       \/ /\ ~connected
          /\ Goto(t, <<"UnlockSend">>)
          /\ UNCHANGED ring
       \/ /\ connected /\ transferred = 0
          /\ Goto(t, <<"UnlockSend", "Disconnect">>)
          /\ UNCHANGED ring
       \/ /\ connected /\ transferred > GetDataLength(ring)
          /\ ring' = Pop(ring, GetDataLength(ring))
          /\ Goto(t, <<"UnlockSend", "Disconnect">>)
       \/ /\ connected /\ transferred \in 1 .. GetDataLength(ring)
          /\ ring' = Pop(ring, transferred)
          /\ Goto(t, <<"UnlockSend", "Flush">>)
    /\ completed' = Tail(completed)
    /\ UNCHANGED <<connected, sendPending, posted, wire, range, accepted, stale>>

\* The worker on an IOCP dequeues the send as failed.
SendFailed(t) ==
    /\ Idle(t) /\ posted # <<>>
    /\ posted' = Tail(posted)
    /\ Goto(t, <<"Disconnect">>)
    /\ UNCHANGED <<ring, connected, sendPending, completed, wire, range, accepted, stale>>

------------------------------------------------------------------------------
Run(t) == Flush(t) \/ TrySend(t) \/ SendLocked(t) \/ UnlockSend(t) \/ Disconnect(t)

AppStep(t) ==
    \/ \E len \in 1 .. MaxLen : "Send" \in AppCalls /\ Send(t, len)
    \/ \E len \in 1 .. MaxLen : "SendBuffered" \in AppCalls /\ SendBuffered(t, len)
    \/ \E op \in AppCalls \cap {"Flush", "Disconnect"} : AppCall(t, op)

Kernel == \E n \in 0 .. BufSize : Transmit(n)

Next ==
    \/ \E t \in Threads : Run(t)
    \/ \E t \in AppThreads : AppStep(t)
    \/ \E t \in IoThreads : CompletedSend(t) \/ SendFailed(t)
    \/ Kernel

Spec == Init /\ [][Next]_vars

\* Every thread is scheduled, the kernel answers every send with some result,
\* and an idle I/O thread dequeues it.  Applications owe nothing.
FairSpec ==
    /\ Spec
    /\ \A t \in Threads : WF_vars(Run(t))
    /\ WF_vars(Kernel)
    /\ WF_vars(\E t \in IoThreads : CompletedSend(t))

------------------------------------------------------------------------------
(* Properties                                                              *)

SendTypeOK ==
    /\ ring \in Rings
    /\ connected \in BOOLEAN /\ sendPending \in BOOLEAN /\ stale \in BOOLEAN
    /\ posted \in Seq(Ranges) /\ completed \in Seq(0 .. BufSize)
    /\ todo \in [Threads -> Seq(Ops)]
    /\ range \in [Threads -> Ranges]
    /\ accepted \in 0 .. MaxBytes
    /\ wire \in Seq(Byte)

\* Sent, but not yet taken out of the buffer.
Unpopped == IF completed = <<>> THEN 0 ELSE Head(completed)

\* At most one send is under way and, unless one was posted with a stale
\* range, the stream is exact: the bytes on the wire and the bytes still to be
\* sent are those that PostSend and PostSendBuffered have taken, each once and
\* in order, however the data wraps around in the buffer and however little
\* the kernel sends at a time.
StreamExact ==
    /\ Len(posted) + Len(completed) <= 1
    /\ connected /\ ~stale =>
          wire \o SubSeq(Contents(ring), Unpopped + 1, GetDataLength(ring)) = Numbers(0, accepted)

\* The peer gets the bytes in order, each once: DummyClient.cpp:75 asserts that
\* the packet number it receives follows the last one.
WireInOrder == wire = Numbers(0, Len(wire))

\* A flush sends all that the buffer held when it began, in as many pieces as
\* it takes, also when it finds m_SendPending locked and leaves the work to the
\* worker that completes the send under way; unless the session is disconnected
\* or a stale range was posted.
Drained ==
    \A n \in 1 .. MaxBytes :
        accepted >= n /\ (\E t \in Threads : At(t, "Flush"))
            ~> Len(wire) >= n \/ ~connected \/ stale
==============================================================================
