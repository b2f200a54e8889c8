------------------------------- MODULE Session -------------------------------
(***************************************************************************)
(* NetLib/NetLib/Session.cpp: one TCP connection slot of the network, its  *)
(* reference count, its three "pending" flags and the handlers that the    *)
(* network's threads run on it.                                            *)
(*                                                                         *)
(* A thread is the stack of calls it still has to finish.  A frame         *)
(* [op, on] names a handler, or the rest of one after a step that other    *)
(* threads can see, and the session it works on; the last element of the   *)
(* sequence runs next.  Whatever the code does under one spin lock is one  *)
(* step.                                                                   *)
(*                                                                         *)
(* Buffer contents are abstracted to what the control depends on:          *)
(* packets[s] is the number of complete packets in m_RecvBuffer, sendData  *)
(* tells whether m_SendBuffer holds any byte.                              *)
(***************************************************************************)
EXTENDS Integers, Sequences, FiniteSets

CONSTANTS Sessions,       \* the slots of the session pool
          Threads,        \* every thread that runs session code
          MaxPackets,     \* bound on the complete packets buffered per session
          OwnMode,        \* PROCESS_MODE_OWN (TRUE) or PROCESS_MODE_USER
          AttachMayFail,  \* RIOCreateRequestQueue may fail
          CallbackCalls   \* session calls that OnAccept, OnDispatch, OnClose make

\* The calls of iSessionProxy, and iNetwork::DisconnectSession, that an
\* application makes.
ApiCalls == {"Send", "SendBuffered", "Flush", "Disconnect", "ProcessPacket"}

Ops == ApiCalls \cup
       {"OnAccept", "OnDispatch", "OnClose", "Close", "ReleaseSession",
        "PostRecv", "PostRecvLocked", "UnlockRecv", "CompletedRecv",
        "PostProcess", "TryProc", "PostProcessLocked", "ProcessCompletion", "UnlockProc",
        "TrySend", "SendLocked", "UnlockSend", "CompletedSend",
        "ReleaseRef", "AddClosing"}

ASSUME SessionAssumption ==
    /\ IsFiniteSet(Sessions)
    /\ IsFiniteSet(Threads)
    /\ MaxPackets \in Nat
    /\ OwnMode \in BOOLEAN
    /\ AttachMayFail \in BOOLEAN
    /\ CallbackCalls \subseteq ApiCalls

VARIABLES
    connected,    \* m_Connect
    socketOpen,   \* m_Socket # INVALID_SOCKET
    refCount,     \* m_RefCount
    recvPending,  \* m_RecvPending is locked
    sendPending,  \* m_SendPending is locked
    procPending,  \* m_ProcPending is locked
    recvIO,       \* receives posted to the kernel and not yet dequeued
    sendIO,       \* sends posted to the kernel and not yet dequeued
    procQ,        \* entries of m_ProcessIOCP that carry this session
    packets,      \* complete packets in m_RecvBuffer
    sendData,     \* m_SendBuffer->GetDataLength() # 0
    stack         \* what each thread still has to do

connVars == <<connected, socketOpen>>
flagVars == <<recvPending, sendPending, procPending>>
ioVars   == <<recvIO, sendIO, procQ>>
bufVars  == <<packets, sendData>>
sessionVars == <<connVars, refCount, flagVars, ioVars, bufVars, stack>>

------------------------------------------------------------------------------
Frame(op, s) == [op |-> op, on |-> s]
Frames == [op : Ops, on : Sessions]

\* The call that thread t executes next.
Top(t) == stack[t][Len(stack[t])]
At(t, op, s) == stack[t] # <<>> /\ Top(t) = Frame(op, s)

\* Thread t finishes its top frame and has the frames of k to run, last first.
Continue(t, k) ==
    stack' = [stack EXCEPT ![t] = SubSeq(@, 1, Len(@) - 1) \o k]
Return(t) == Continue(t, <<>>)

\* An idle thread takes up the frames of k.
Idle(t) == stack[t] = <<>>
Begin(t, k) == Idle(t) /\ stack' = [stack EXCEPT ![t] = k]

\* The positions of the stacks at which frame f waits or runs.
Holders(f) ==
    UNION {{t} \X {i \in DOMAIN stack[t] : stack[t][i] = f} : t \in Threads}
Waiting(f) == Cardinality(Holders(f))
\* Some thread has one of the handlers in ops to run on session s.
Busy(s, ops) == \E t \in Threads : \E i \in DOMAIN stack[t] :
                    stack[t][i].on = s /\ stack[t][i].op \in ops

SessionInit ==
    /\ connected = [s \in Sessions |-> FALSE]
    /\ socketOpen = [s \in Sessions |-> FALSE]
    /\ refCount = [s \in Sessions |-> 0]
    /\ recvPending = [s \in Sessions |-> FALSE]
    /\ sendPending = [s \in Sessions |-> FALSE]
    /\ procPending = [s \in Sessions |-> FALSE]
    /\ recvIO = [s \in Sessions |-> 0]
    /\ sendIO = [s \in Sessions |-> 0]
    /\ procQ = [s \in Sessions |-> 0]
    /\ packets = [s \in Sessions |-> 0]
    /\ sendData = [s \in Sessions |-> FALSE]
    /\ stack = [t \in Threads |-> <<>>]

------------------------------------------------------------------------------
(* Attach, Disconnect, the reference count and Close                       *)

\* Attach under m_ClientSessionLock: a fresh incarnation owned by one
\* reference, or, when the request queue cannot be created, a socket with
\* nothing else initialised.
Attach(s) ==
    \/ /\ socketOpen' = [socketOpen EXCEPT ![s] = TRUE]
       /\ connected' = [connected EXCEPT ![s] = TRUE]
       /\ refCount' = [refCount EXCEPT ![s] = 1]
       /\ recvPending' = [recvPending EXCEPT ![s] = FALSE]
       /\ sendPending' = [sendPending EXCEPT ![s] = FALSE]
       /\ procPending' = [procPending EXCEPT ![s] = FALSE]
       /\ packets' = [packets EXCEPT ![s] = 0]
       /\ sendData' = [sendData EXCEPT ![s] = FALSE]
    \/ /\ AttachMayFail
       /\ socketOpen' = [socketOpen EXCEPT ![s] = TRUE]
       /\ UNCHANGED <<connected, refCount, flagVars, bufVars>>

\* Mutant: without the check of IsConnected.
DisconnectTwice(t, s) ==
    /\ At(t, "Disconnect", s)
    /\ connected' = [connected EXCEPT ![s] = FALSE]
    /\ socketOpen' = [socketOpen EXCEPT ![s] = FALSE]
    /\ Continue(t, <<Frame("ReleaseRef", s)>>)
    /\ UNCHANGED <<refCount, flagVars, ioVars, bufVars>>

\* Disconnect: the first caller closes the socket and gives back the
\* reference that Attach took; every later caller returns.
Disconnect(t, s) ==
    /\ At(t, "Disconnect", s)
    /\ \/ ~connected[s] /\ Return(t) /\ UNCHANGED connVars
       \/ /\ connected[s]
          /\ connected' = [connected EXCEPT ![s] = FALSE]
          /\ socketOpen' = [socketOpen EXCEPT ![s] = FALSE]
          /\ Continue(t, <<Frame("ReleaseRef", s)>>)
    /\ UNCHANGED <<refCount, flagVars, ioVars, bufVars>>

\* Mutant: the reference is not counted.
AddRefForgotten(s) == UNCHANGED refCount

AddRef(s) == refCount' = [refCount EXCEPT ![s] = @ + 1]

\* ReleaseRef: whoever takes the count to zero hands the session to the
\* closing thread.
ReleaseRef(t, s) ==
    /\ At(t, "ReleaseRef", s)
    /\ refCount' = [refCount EXCEPT ![s] = @ - 1]
    /\ Continue(t, IF refCount[s] = 1 THEN <<Frame("AddClosing", s)>> ELSE <<>>)
    /\ UNCHANGED <<connVars, flagVars, ioVars, bufVars>>

\* Mutant: the reference taken for the operation is not given back.
GiveUpLeaking(s, unlock) == <<Frame("Disconnect", s), Frame(unlock, s)>>

\* What is left of PostRecv or PostSend when the kernel refuses the operation.
GiveUp(s, unlock) ==
    <<Frame("ReleaseRef", s), Frame("Disconnect", s), Frame(unlock, s)>>

\* Close, after OnClose has returned: both buffers are cleared.
Close(t, s) ==
    /\ At(t, "Close", s)
    /\ packets' = [packets EXCEPT ![s] = 0]
    /\ sendData' = [sendData EXCEPT ![s] = FALSE]
    /\ Return(t)
    /\ UNCHANGED <<connVars, refCount, flagVars, ioVars>>

\* OnAccept, OnConnect, OnDispatch and OnClose belong to the application: a
\* callback returns, or makes one more call on the session it was given.
Callback(t, s) ==
    /\ \E op \in {"OnAccept", "OnDispatch", "OnClose"} :
          /\ At(t, op, s)
          /\ \/ Return(t)
             \/ \E call \in CallbackCalls : Continue(t, <<Frame(call, s)>>)
    /\ UNCHANGED <<connVars, refCount, flagVars, ioVars, bufVars>>

------------------------------------------------------------------------------
(* Receiving                                                               *)

\* PostRecv: m_RecvPending.try_lock().
PostRecv(t, s) ==
    /\ At(t, "PostRecv", s)
    /\ recvPending' = [recvPending EXCEPT ![s] = TRUE]
    /\ IF recvPending[s] THEN Return(t) ELSE Continue(t, <<Frame("PostRecvLocked", s)>>)
    /\ UNCHANGED <<connVars, refCount, sendPending, procPending, ioVars, bufVars>>

\* Mutant: without the check of IsConnected.
PostRecvUnchecked(t, s) ==
    /\ At(t, "PostRecvLocked", s)
    /\ AddRef(s)
    /\ recvIO' = [recvIO EXCEPT ![s] = @ + 1]
    /\ Return(t)
    /\ UNCHANGED <<connVars, flagVars, sendIO, procQ, bufVars>>

\* PostRecv under m_ClientSessionLock.  The flag is unlocked only after the
\* lock is released, so UnlockRecv is a step of its own.
PostRecvLocked(t, s) ==
    /\ At(t, "PostRecvLocked", s)
    /\ \/ /\ ~connected[s]
          /\ Continue(t, <<Frame("UnlockRecv", s)>>)
          /\ UNCHANGED <<refCount, recvIO>>
       \/ /\ connected[s]
          /\ AddRef(s)
          /\ recvIO' = [recvIO EXCEPT ![s] = @ + 1]
          /\ Return(t)
       \/ /\ connected[s]             \* WSARecv or RIOReceive fails
          /\ AddRef(s)
          /\ Continue(t, GiveUp(s, "UnlockRecv"))
          /\ UNCHANGED recvIO
    /\ UNCHANGED <<connVars, flagVars, sendIO, procQ, bufVars>>

UnlockRecv(t, s) ==
    /\ At(t, "UnlockRecv", s)
    /\ recvPending' = [recvPending EXCEPT ![s] = FALSE]
    /\ Return(t)
    /\ UNCHANGED <<connVars, refCount, sendPending, procPending, ioVars, bufVars>>

\* CompletedRecv: bytes arrive and complete some packets or none, or
\* m_RecvBuffer has no room for them, or the peer has closed (0 bytes).
CompletedRecv(t, s) ==
    /\ At(t, "CompletedRecv", s)
    /\ \/ /\ \E n \in packets[s]..MaxPackets : packets' = [packets EXCEPT ![s] = n]
          /\ recvPending' = [recvPending EXCEPT ![s] = FALSE]
          /\ Return(t)
       \/ /\ Continue(t, <<Frame("UnlockRecv", s), Frame("Disconnect", s)>>)
          /\ UNCHANGED <<packets, recvPending>>
       \/ /\ recvPending' = [recvPending EXCEPT ![s] = FALSE]
          /\ Continue(t, <<Frame("Disconnect", s)>>)
          /\ UNCHANGED packets
    /\ UNCHANGED <<connVars, refCount, sendPending, procPending, ioVars, sendData>>

------------------------------------------------------------------------------
(* Dispatching packets                                                     *)

\* PostProcess: is there a complete packet?
PostProcess(t, s) ==
    /\ At(t, "PostProcess", s)
    /\ IF packets[s] = 0 THEN Return(t) ELSE Continue(t, <<Frame("TryProc", s)>>)
    /\ UNCHANGED <<connVars, refCount, flagVars, ioVars, bufVars>>

\* Mutant: m_ProcPending does not exclude.
TryProcIgnored(t, s) ==
    /\ At(t, "TryProc", s)
    /\ procPending' = [procPending EXCEPT ![s] = TRUE]
    /\ Continue(t, <<Frame("PostProcessLocked", s)>>)
    /\ UNCHANGED <<connVars, refCount, recvPending, sendPending, ioVars, bufVars>>

\* PostProcess: m_ProcPending.try_lock().
TryProc(t, s) ==
    /\ At(t, "TryProc", s)
    /\ procPending' = [procPending EXCEPT ![s] = TRUE]
    /\ IF procPending[s] THEN Return(t) ELSE Continue(t, <<Frame("PostProcessLocked", s)>>)
    /\ UNCHANGED <<connVars, refCount, recvPending, sendPending, ioVars, bufVars>>

\* PostProcess under m_ClientSessionLock, with the EnqueueProcess that
\* follows it: nobody can tell the two apart, since only the entry of the
\* queue lets another thread go on with the reference taken here.
PostProcessLocked(t, s) ==
    /\ At(t, "PostProcessLocked", s)
    /\ \/ /\ ~connected[s]
          /\ procPending' = [procPending EXCEPT ![s] = FALSE]
          /\ UNCHANGED <<refCount, procQ>>
       \/ /\ connected[s]
          /\ AddRef(s)
          /\ procQ' = [procQ EXCEPT ![s] = @ + 1]
          /\ UNCHANGED procPending
    /\ Return(t)
    /\ UNCHANGED <<connVars, recvPending, sendPending, recvIO, sendIO, bufVars>>

\* Mutant: looks for more packets before it unlocks.
RecheckBeforeUnlock(s, hasError) ==
    <<Frame("UnlockProc", s)>> \o (IF hasError THEN <<Frame("Disconnect", s)>> ELSE <<>>)
        \o <<Frame("PostProcess", s)>>

\* ProcessCompletion after its loop: unlock, disconnect after an exception,
\* then look once more, since a receive may have found m_ProcPending locked.
AfterDispatch(s, hasError) ==
    <<Frame("PostProcess", s)>> \o (IF hasError THEN <<Frame("Disconnect", s)>> ELSE <<>>)
        \o <<Frame("UnlockProc", s)>>

\* The loop of ProcessCompletion: leave when no packet is complete, or take one
\* and dispatch it, whose callback may throw.  (The exceptions of Unmarshall
\* need a packet of more than 65535 bytes, or fewer bytes than were counted
\* under the same lock.)
ProcessCompletion(t, s) ==
    /\ At(t, "ProcessCompletion", s)
    /\ \/ /\ packets[s] = 0
          /\ Continue(t, AfterDispatch(s, FALSE))
          /\ UNCHANGED packets
       \/ /\ packets[s] > 0
          /\ packets' = [packets EXCEPT ![s] = @ - 1]
          /\ \E rest \in {<<Frame("ProcessCompletion", s)>>, AfterDispatch(s, TRUE)} :
                Continue(t, Append(rest, Frame("OnDispatch", s)))
    /\ UNCHANGED <<connVars, refCount, flagVars, ioVars, sendData>>

UnlockProc(t, s) ==
    /\ At(t, "UnlockProc", s)
    /\ procPending' = [procPending EXCEPT ![s] = FALSE]
    /\ Return(t)
    /\ UNCHANGED <<connVars, refCount, recvPending, sendPending, ioVars, bufVars>>

\* ProcessPacket, called by the application in PROCESS_MODE_USER: the same
\* loop without m_ProcPending and without a reference.
ProcessPacket(t, s) ==
    /\ At(t, "ProcessPacket", s)
    /\ \/ (OwnMode \/ packets[s] = 0) /\ Return(t) /\ UNCHANGED packets
       \/ /\ ~OwnMode /\ packets[s] > 0
          /\ packets' = [packets EXCEPT ![s] = @ - 1]
          /\ \E op \in {"ProcessPacket", "Disconnect"} :
                Continue(t, <<Frame(op, s), Frame("OnDispatch", s)>>)
    /\ UNCHANGED <<connVars, refCount, flagVars, ioVars, sendData>>

------------------------------------------------------------------------------
(* Sending                                                                 *)

\* PostSend(Data, Len) under m_SendPacketLock: refused when disconnected or
\* full; flushes only when its own bytes are all the buffer holds.  (A message
\* longer than the whole buffer changes nothing and is left out.)
Send(t, s) ==
    /\ At(t, "Send", s)
    /\ \/ ~connected[s] /\ Return(t) /\ UNCHANGED sendData
       \/ connected[s] /\ sendData[s] /\ Return(t) /\ UNCHANGED sendData
       \/ /\ connected[s] /\ ~sendData[s]
          /\ sendData' = [sendData EXCEPT ![s] = TRUE]
          /\ Continue(t, <<Frame("Flush", s)>>)
    /\ UNCHANGED <<connVars, refCount, flagVars, ioVars, packets>>

\* PostSendBuffered: into the buffer only.
SendBuffered(t, s) ==
    /\ At(t, "SendBuffered", s)
    /\ sendData' = [sendData EXCEPT ![s] = @ \/ connected[s]]
    /\ Return(t)
    /\ UNCHANGED <<connVars, refCount, flagVars, ioVars, packets>>

\* PostSend(): reads what there is to send under m_SendPacketLock ...
Flush(t, s) ==
    /\ At(t, "Flush", s)
    /\ IF connected[s] /\ sendData[s] THEN Continue(t, <<Frame("TrySend", s)>>)
                                      ELSE Return(t)
    /\ UNCHANGED <<connVars, refCount, flagVars, ioVars, bufVars>>

\* Mutant: m_SendPending does not exclude.
TrySendIgnored(t, s) ==
    /\ At(t, "TrySend", s)
    /\ sendPending' = [sendPending EXCEPT ![s] = TRUE]
    /\ Continue(t, <<Frame("SendLocked", s)>>)
    /\ UNCHANGED <<connVars, refCount, recvPending, procPending, ioVars, bufVars>>

\* ... then tries m_SendPending ...
TrySend(t, s) ==
    /\ At(t, "TrySend", s)
    /\ sendPending' = [sendPending EXCEPT ![s] = TRUE]
    /\ IF sendPending[s] THEN Return(t) ELSE Continue(t, <<Frame("SendLocked", s)>>)
    /\ UNCHANGED <<connVars, refCount, recvPending, procPending, ioVars, bufVars>>

\* ... and posts under m_ClientSessionLock what it read before.
SendLocked(t, s) ==
    /\ At(t, "SendLocked", s)
    /\ \/ /\ ~connected[s]
          /\ Continue(t, <<Frame("UnlockSend", s)>>)
          /\ UNCHANGED <<refCount, sendIO>>
       \/ /\ connected[s]
          /\ AddRef(s)
          /\ sendIO' = [sendIO EXCEPT ![s] = @ + 1]
          /\ Return(t)
       \/ /\ connected[s]             \* WSASend or RIOSend fails
          /\ AddRef(s)
          /\ Continue(t, GiveUp(s, "UnlockSend"))
          /\ UNCHANGED sendIO
    /\ UNCHANGED <<connVars, flagVars, recvIO, procQ, bufVars>>

UnlockSend(t, s) ==
    /\ At(t, "UnlockSend", s)
    /\ sendPending' = [sendPending EXCEPT ![s] = FALSE]
    /\ Return(t)
    /\ UNCHANGED <<connVars, refCount, recvPending, procPending, ioVars, bufVars>>

\* Mutant: flushes before it unlocks.
FlushBeforeUnlock(s) == <<Frame("UnlockSend", s), Frame("Flush", s)>>

\* CompletedSend after it has popped what was sent: unlock, then flush the
\* bytes of senders that found m_SendPending locked.
AfterSend(s) == <<Frame("Flush", s), Frame("UnlockSend", s)>>

\* CompletedSend: nothing was sent, more than the buffer holds was sent, or
\* the sent bytes leave the buffer and the rest is flushed.
CompletedSend(t, s) ==
    /\ At(t, "CompletedSend", s)
    /\ \/ /\ ~connected[s]
          /\ Continue(t, <<Frame("UnlockSend", s)>>)
          /\ UNCHANGED sendData
       \/ /\ connected[s]
          /\ Continue(t, <<Frame("Disconnect", s), Frame("UnlockSend", s)>>)
          /\ UNCHANGED sendData
       \/ /\ connected[s]
          /\ sendData' = [sendData EXCEPT ![s] = FALSE]
          /\ Continue(t, <<Frame("Disconnect", s), Frame("UnlockSend", s)>>)
       \/ /\ connected[s] /\ sendData[s]
          /\ \E left \in BOOLEAN : sendData' = [sendData EXCEPT ![s] = left]
          /\ Continue(t, AfterSend(s))
    /\ UNCHANGED <<connVars, refCount, flagVars, ioVars, packets>>

------------------------------------------------------------------------------
\* One step of whatever thread t has on top of its stack, AddClosing and
\* ReleaseSession excepted: those belong to the network.
SessionStep(t, s) ==
    \/ Disconnect(t, s)
    \/ ReleaseRef(t, s)
    \/ Close(t, s)
    \/ Callback(t, s)
    \/ PostRecv(t, s)
    \/ PostRecvLocked(t, s)
    \/ UnlockRecv(t, s)
    \/ CompletedRecv(t, s)
    \/ PostProcess(t, s)
    \/ TryProc(t, s)
    \/ PostProcessLocked(t, s)
    \/ ProcessCompletion(t, s)
    \/ UnlockProc(t, s)
    \/ ProcessPacket(t, s)
    \/ Send(t, s)
    \/ SendBuffered(t, s)
    \/ Flush(t, s)
    \/ TrySend(t, s)
    \/ SendLocked(t, s)
    \/ UnlockSend(t, s)
    \/ CompletedSend(t, s)
==============================================================================
