------------------------------- MODULE RecvPath -------------------------------
(***************************************************************************)
(* The bytes of one incarnation of a session on their way from the peer to *)
(* OnDispatch: NetLib/NetLib/Session.cpp:420-540 and 708-802 with the ring *)
(* buffer m_RecvBuffer, the buffer m_RecvIOBuffer that the kernel fills,   *)
(* and the flags m_RecvPending and m_ProcPending.  The reference count and *)
(* the reuse of the session are in Session and Network.                    *)
(*                                                                         *)
(* The peer sends well-formed packets: two bytes of size, low byte first,  *)
(* which count themselves, and a body.  Every byte of the body of the k-th *)
(* packet is k, and fresh memory holds 0.  todo[t] is what thread t still  *)
(* has to do, first step first.                                            *)
(***************************************************************************)
EXTENDS RingBuffer

CONSTANTS Allocator,    \* posts the first receive
          IoThreads,    \* RunIOWorker
          ProcThreads,  \* ProcessWorkerThreadEntry
          App,          \* calls ProcessPacket, in PROCESS_MODE_USER, and DisconnectSession
          IoBufSize,    \* the size of m_RecvIOBuffer
          Sizes,        \* the sizes of the peer's packets
          MaxPackets    \* bound on the packets of the incarnation

Threads == {Allocator, App} \cup IoThreads \cup ProcThreads
Ops == {"PostRecv", "PostRecvLocked", "UnlockRecv", "Disconnect", "PostProcess", "TryProc",
        "PostProcessLocked", "Unmarshall", "Dispatch", "UnlockProc"}

ASSUME RecvPathAssumption ==
    /\ IoThreads \cap ProcThreads = {} /\ Allocator # App
    /\ {Allocator, App} \cap (IoThreads \cup ProcThreads) = {}
    /\ IoBufSize \in Nat /\ MaxPackets \in Nat
    /\ Sizes \subseteq 2 .. BufSize - 1 /\ \A size \in Sizes : size < 256
    /\ 0 .. MaxPackets \subseteq Byte /\ Sizes \subseteq Byte

VARIABLES
    ring,         \* m_RecvBuffer
    ownMode,      \* m_ProcessMode = PROCESS_MODE_OWN
    connected,    \* m_Connect
    recvPending,  \* m_RecvPending is locked
    procPending,  \* m_ProcPending is locked
    posted,       \* receives that the kernel has to complete
    completed,    \* the results of receives, not yet dequeued: bytes transferred
    ioBuffer,     \* what the last receive has put into m_RecvIOBuffer
    procQ,        \* entries of m_ProcessIOCP
    todo,
    packet,       \* the packet that thread t has taken out of the buffer
    sent,         \* the packets of the peer
    wire,         \* the bytes of them that no receive has taken yet
    dispatched    \* the packets passed to OnDispatch

flagVars == <<recvPending, procPending>>
kernelVars == <<posted, completed, ioBuffer, wire>>
vars == <<ring, ownMode, connected, flagVars, kernelVars, procQ, todo, packet, sent, dispatched>>

\* OnAccept has returned: the allocating thread posts a receive.
Init ==
    /\ ring = [bytes |-> [p \in Positions |-> 0], head |-> 0, tail |-> 0]
    /\ ownMode \in BOOLEAN
    /\ connected = TRUE
    /\ recvPending = FALSE /\ procPending = FALSE
    /\ posted = 0 /\ completed = <<>> /\ ioBuffer = <<>>
    /\ procQ = 0
    /\ todo = [t \in Threads |-> IF t = Allocator THEN <<"PostRecv">> ELSE <<>>]
    /\ packet = [t \in Threads |-> <<>>]
    /\ sent = <<>> /\ wire = <<>> /\ dispatched = <<>>

------------------------------------------------------------------------------
Idle(t) == todo[t] = <<>>
At(t, op) == ~Idle(t) /\ Head(todo[t]) = op
\* Thread t goes on with the steps of k.
Goto(t, k) == todo' = [todo EXCEPT ![t] = k]
Continue(t, k) == Goto(t, k \o Tail(todo[t]))

------------------------------------------------------------------------------
(* The peer and the kernel                                                 *)

Packet(k, size) == <<size, 0>> \o [i \in 1 .. size - 2 |-> k]

PeerSends(size) ==
    /\ Len(sent) < MaxPackets
    /\ LET new == Packet(Len(sent) + 1, size) IN
       sent' = Append(sent, new) /\ wire' = wire \o new
    /\ UNCHANGED <<ring, ownMode, connected, flagVars, posted, completed, ioBuffer, procQ, todo,
                   packet, dispatched>>

\* A receive takes the first n bytes of what has arrived, wherever packets
\* begin and end in it, or no byte, when either side has closed the connection.
Receive(n) ==
    /\ posted > 0 /\ n <= Len(wire)
    /\ posted' = posted - 1
    /\ ioBuffer' = SubSeq(wire, 1, n)
    /\ completed' = Append(completed, n)
    /\ wire' = SubSeq(wire, n + 1, Len(wire))
    /\ UNCHANGED <<ring, ownMode, connected, flagVars, procQ, todo, packet, sent, dispatched>>

------------------------------------------------------------------------------
(* Receiving                                                               *)

\* What RunIOWorker does after CompletedRecv.
AfterRecv == (IF ownMode THEN <<"PostProcess">> ELSE <<>>) \o <<"PostRecv">>

\* CompletedRecv: the bytes go into the ring buffer as a whole; without room
\* for them, or without bytes, the session is disconnected.
CompletedRecv(t) ==
    /\ Idle(t) /\ completed # <<>>
    /\ LET transferred == Head(completed) IN
       \/ /\ transferred > 0 /\ CanPutData(ring, transferred)
          /\ ring' = Put(ring, SubSeq(ioBuffer, 1, transferred))
          /\ recvPending' = FALSE
          /\ Goto(t, AfterRecv)
       \/ /\ transferred > 0 /\ ~CanPutData(ring, transferred)
          /\ Goto(t, <<"Disconnect", "UnlockRecv">> \o AfterRecv)
          /\ UNCHANGED <<ring, recvPending>>
       \/ /\ transferred = 0
          /\ recvPending' = FALSE
          /\ Goto(t, <<"Disconnect">> \o AfterRecv)
          /\ UNCHANGED ring
    /\ completed' = Tail(completed)
    /\ UNCHANGED <<ownMode, connected, procPending, posted, ioBuffer, wire, procQ, packet, sent,
                   dispatched>>

\* The worker on an IOCP dequeues the receive as failed.
RecvFailed(t) ==
    /\ Idle(t) /\ posted > 0
    /\ posted' = posted - 1
    /\ Goto(t, <<"Disconnect">>)
    /\ UNCHANGED <<ring, ownMode, connected, flagVars, completed, ioBuffer, wire, procQ, packet,
                   sent, dispatched>>

\* PostRecv: m_RecvPending.try_lock() ...
PostRecv(t) ==
    /\ At(t, "PostRecv")
    /\ recvPending' = TRUE
    /\ Continue(t, IF recvPending THEN <<>> ELSE <<"PostRecvLocked">>)
    /\ UNCHANGED <<ring, ownMode, connected, procPending, kernelVars, procQ, packet, sent,
                   dispatched>>

\* ... and the receive itself, under m_ClientSessionLock.
PostRecvLocked(t) ==
    /\ At(t, "PostRecvLocked")
    /\ \/ ~connected /\ Continue(t, <<"UnlockRecv">>) /\ UNCHANGED posted
       \/ connected /\ posted' = posted + 1 /\ Continue(t, <<>>)
       \/ connected /\ Continue(t, <<"UnlockRecv", "Disconnect">>) /\ UNCHANGED posted
    /\ UNCHANGED <<ring, ownMode, connected, flagVars, completed, ioBuffer, wire, procQ, packet,
                   sent, dispatched>>

UnlockRecv(t) ==
    /\ At(t, "UnlockRecv")
    /\ recvPending' = FALSE
    /\ Continue(t, <<>>)
    /\ UNCHANGED <<ring, ownMode, connected, procPending, kernelVars, procQ, packet, sent,
                   dispatched>>

Disconnect(t) ==
    /\ At(t, "Disconnect")
    /\ connected' = FALSE
    /\ Continue(t, <<>>)
    /\ UNCHANGED <<ring, ownMode, flagVars, kernelVars, procQ, packet, sent, dispatched>>

------------------------------------------------------------------------------
(* Packets                                                                 *)

\* The size that the first two bytes of the buffer name.
PacketSize == LET header == Get(ring, 2) IN header[1] + 256 * header[2]

\* Mutant: one byte of the header is enough.  GetData then copies nothing, and
\* the size stays 0.
IsCompletedHeadless ==
    /\ GetDataLength(ring) >= 1
    /\ GetDataLength(ring) >= IF GetDataLength(ring) < 2 THEN 0 ELSE PacketSize

IsCompletedPacket == GetDataLength(ring) >= 2 /\ GetDataLength(ring) >= PacketSize

\* PostProcess: is there a packet to dispatch? ...
PostProcess(t) ==
    /\ At(t, "PostProcess")
    /\ Continue(t, IF IsCompletedPacket THEN <<"TryProc">> ELSE <<>>)
    /\ UNCHANGED <<ring, ownMode, connected, flagVars, kernelVars, procQ, packet, sent,
                   dispatched>>

\* ... then m_ProcPending.try_lock() ...
TryProc(t) ==
    /\ At(t, "TryProc")
    /\ procPending' = TRUE
    /\ Continue(t, IF procPending THEN <<>> ELSE <<"PostProcessLocked">>)
    /\ UNCHANGED <<ring, ownMode, connected, recvPending, kernelVars, procQ, packet, sent,
                   dispatched>>

\* ... and, under m_ClientSessionLock, the entry for a process thread.
PostProcessLocked(t) ==
    /\ At(t, "PostProcessLocked")
    /\ \/ ~connected /\ procPending' = FALSE /\ UNCHANGED procQ
       \/ connected /\ procQ' = procQ + 1 /\ UNCHANGED procPending
    /\ Continue(t, <<>>)
    /\ UNCHANGED <<ring, ownMode, connected, recvPending, kernelVars, packet, sent, dispatched>>

\* ProcessCompletion begins.
DequeueProcess(t) ==
    /\ Idle(t) /\ procQ > 0
    /\ procQ' = procQ - 1
    /\ Goto(t, <<"Unmarshall">>)
    /\ UNCHANGED <<ring, ownMode, connected, flagVars, kernelVars, packet, sent, dispatched>>

\* Mutant: looks for more packets before it unlocks.
RecheckFirst(t, disconnect) ==
    IF t \in ProcThreads THEN <<"PostProcess", "UnlockProc">> \o disconnect ELSE disconnect

\* The end of ProcessCompletion, and of ProcessPacket.
AfterPackets(t, disconnect) ==
    IF t \in ProcThreads THEN <<"UnlockProc">> \o disconnect \o <<"PostProcess">> ELSE disconnect

\* UnmarshallRaw, under m_RecvPacketLock: takes the first packet, if it is
\* complete.
Unmarshall(t) ==
    /\ At(t, "Unmarshall")
    /\ \/ /\ IsCompletedPacket
          /\ packet' = [packet EXCEPT ![t] = Get(ring, PacketSize)]
          /\ ring' = Pop(ring, PacketSize)
          /\ Continue(t, <<"Dispatch">>)
       \/ /\ ~IsCompletedPacket
          /\ Continue(t, AfterPackets(t, <<>>))
          /\ UNCHANGED <<packet, ring>>
    /\ UNCHANGED <<ownMode, connected, flagVars, kernelVars, procQ, sent, dispatched>>

\* OnDispatch, which returns or throws.
Dispatch(t) ==
    /\ At(t, "Dispatch")
    /\ dispatched' = Append(dispatched, packet[t])
    /\ packet' = [packet EXCEPT ![t] = <<>>]
    /\ \E rest \in {<<"Unmarshall">>, AfterPackets(t, <<"Disconnect">>)} : Continue(t, rest)
    /\ UNCHANGED <<ring, ownMode, connected, flagVars, kernelVars, procQ, sent>>

UnlockProc(t) ==
    /\ At(t, "UnlockProc")
    /\ procPending' = FALSE
    /\ Continue(t, <<>>)
    /\ UNCHANGED <<ring, ownMode, connected, recvPending, kernelVars, procQ, packet, sent,
                   dispatched>>

\* The application calls ProcessPacket or DisconnectSession.
AppCall(op) ==
    /\ Idle(App)
    /\ Goto(App, <<op>>)
    /\ UNCHANGED <<ring, ownMode, connected, flagVars, kernelVars, procQ, packet, sent,
                   dispatched>>

------------------------------------------------------------------------------
Run(t) ==
    \/ PostRecv(t) \/ PostRecvLocked(t) \/ UnlockRecv(t) \/ Disconnect(t)
    \/ PostProcess(t) \/ TryProc(t) \/ PostProcessLocked(t)
    \/ Unmarshall(t) \/ Dispatch(t) \/ UnlockProc(t)

Arrival == \E n \in 1 .. IoBufSize : Receive(n)

Next ==
    \/ \E t \in Threads : Run(t)
    \/ \E t \in IoThreads : CompletedRecv(t) \/ RecvFailed(t)
    \/ \E t \in ProcThreads : DequeueProcess(t)
    \/ ~ownMode /\ AppCall("Unmarshall")
    \/ AppCall("Disconnect")
    \/ \E size \in Sizes : PeerSends(size)
    \/ Arrival \/ Receive(0)

Spec == Init /\ [][Next]_vars

\* Every thread is scheduled, bytes that have arrived are received, and idle
\* workers dequeue.  The peer and the application owe nothing.
FairSpec ==
    /\ Spec
    /\ \A t \in Threads : WF_vars(Run(t))
    /\ WF_vars(Arrival)
    /\ WF_vars(\E t \in IoThreads : CompletedRecv(t))
    /\ WF_vars(\E t \in ProcThreads : DequeueProcess(t))

------------------------------------------------------------------------------
(* Properties                                                              *)

RecvTypeOK ==
    /\ ring \in Rings
    /\ ownMode \in BOOLEAN /\ connected \in BOOLEAN
    /\ recvPending \in BOOLEAN /\ procPending \in BOOLEAN
    /\ posted \in Nat /\ completed \in Seq(0 .. IoBufSize) /\ ioBuffer \in Seq(Byte)
    /\ procQ \in Nat
    /\ todo \in [Threads -> Seq(Ops)]
    /\ packet \in [Threads -> Seq(Byte)]
    /\ sent \in Seq(Seq(Byte)) /\ wire \in Seq(Byte) /\ dispatched \in Seq(Seq(Byte))

\* OnDispatch sees the packets of the peer whole, once each and in order, in
\* both process modes, wherever receives cut the stream, headers included, and
\* wherever it wraps around in the buffer; and after a receive that found no
\* room it sees nothing from behind the gap.
FramesExact ==
    /\ Len(dispatched) <= Len(sent)
    /\ \A i \in DOMAIN dispatched : dispatched[i] = sent[i]

\* In PROCESS_MODE_OWN every packet sent is dispatched, although a worker whose
\* PostProcess finds m_ProcPending locked leaves it to the thread that is
\* dispatching; unless the session is disconnected.
Delivered ==
    \A n \in 1 .. MaxPackets :
        ownMode /\ Len(sent) >= n ~> Len(dispatched) >= n \/ ~connected
==============================================================================
