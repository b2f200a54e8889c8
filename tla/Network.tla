------------------------------- MODULE Network -------------------------------
(***************************************************************************)
(* NetLib/NetLib/Network.cpp while the network runs: the pool of sessions, *)
(* the thread that closes them, the I/O and process workers, the threads   *)
(* that accept or connect, and application threads that call into the      *)
(* sessions.  The handlers they run are those of Session.  Start and       *)
(* Shutdown are not part of this module.                                   *)
(*                                                                         *)
(* accept and connect succeed at any time; without a free session          *)
(* AllocateSession returns nullptr and no session changes (AcceptThread    *)
(* closes the socket, ConnectSession leaks it), so that case is no step    *)
(* here.  An entry of the process queue was posted by EnqueueProcess, and  *)
(* dequeueing it does not fail.                                            *)
(***************************************************************************)
EXTENDS Session

CONSTANTS Allocators,     \* callers of AllocateSession: AcceptThread, ConnectSession
          AppThreads,     \* application threads that hold session pointers
          IoThreads,      \* RunIOWorker
          ProcThreads,    \* ProcessWorkerThreadEntry
          ClosingThread,  \* ClosingThreadEntry
          SupportRIO,     \* RIO (TRUE) or IOCP
          AppCalls        \* session calls that the application threads make

ASSUME NetworkAssumption ==
    /\ Allocators \cup AppThreads \cup IoThreads \cup ProcThreads \subseteq Threads
    /\ IoThreads # {}
    /\ ClosingThread \in Threads
    /\ ClosingThread \notin Allocators \cup AppThreads \cup IoThreads \cup ProcThreads
    /\ SupportRIO \in BOOLEAN
    /\ AppCalls \subseteq ApiCalls

VARIABLES
    freeList,        \* m_FreeSessionList
    active,          \* the sessions in m_ActiveSessionList
    closingList,     \* m_ClosingSessionList
    sessionCount,    \* m_SessionCount
    threadOf,        \* Session::m_ThreadId
    countPerThread,  \* m_SessionCountPerThread
    associating,     \* {<<t, s>>} while t, in AllocateSession, is between the
                     \* Attach and the Associate of s, {} otherwise
    lostRecv,        \* the receives of recvIO whose completion is never queued
    lostSend         \* the sends of sendIO whose completion is never queued

poolVars == <<freeList, active, sessionCount, threadOf, countPerThread>>
portVars == <<associating, lostRecv, lostSend>>
networkVars == <<poolVars, closingList, portVars>>
vars == <<sessionVars, networkVars>>

\* CreateSessionPool fills the free list in the order of the session numbers.
NetworkInit ==
    /\ freeList \in {f \in [1..Cardinality(Sessions) -> Sessions] :
                        {f[i] : i \in DOMAIN f} = Sessions}
    /\ active = {}
    /\ closingList = <<>>
    /\ sessionCount = 0
    /\ threadOf \in [Sessions -> IoThreads]
    /\ countPerThread = [t \in IoThreads |-> 0]
    /\ associating = {}
    /\ lostRecv = [s \in Sessions |-> 0]
    /\ lostSend = [s \in Sessions |-> 0]

Init == SessionInit /\ NetworkInit

------------------------------------------------------------------------------
(* The pool                                                                *)

\* GetProperThreadIDAndIncCount: a thread with the fewest sessions.
LeastLoaded == {i \in IoThreads :
                   \A j \in IoThreads : countPerThread[i] <= countPerThread[j]}

\* Mutant: the accept callback and the first receive do not wait for Associate.
AllocatingUnnoticed(t) == FALSE

\* Thread t holds m_SessionListLock between two steps of AllocateSession.
Allocating(t) == \E s \in Sessions : <<t, s>> \in associating
\* Session s is attached, but its socket not yet associated.
Associating(s) == \E t \in Allocators : <<t, s>> \in associating

\* AllocateSession up to Attach, with m_SessionListLock, for AcceptThread or
\* ConnectSession, which afterwards run the accept callback and post a receive
\* without holding a reference.  From here on the session is connected: a
\* thread with an old pointer to it can use it, since only AllocateSession
\* and ReleaseSession take the lock.
AllocateSession(t, s) ==
    /\ associating = {}
    /\ freeList # <<>> /\ s = Head(freeList)
    /\ Begin(t, <<Frame("PostRecv", s), Frame("OnAccept", s)>>)
    /\ freeList' = Tail(freeList)
    /\ active' = active \cup {s}
    /\ \E i \in LeastLoaded :
          /\ threadOf' = [threadOf EXCEPT ![s] = i]
          /\ countPerThread' = [countPerThread EXCEPT ![i] = @ + 1]
    /\ Attach(s)
    /\ associating' = {<<t, s>>}
    /\ UNCHANGED <<sessionCount, closingList, lostRecv, lostSend, ioVars>>

\* The rest of AllocateSession.  If the session has been disconnected meanwhile
\* its socket is closed: CreateIoCompletionPort fails, which nobody looks at,
\* and no operation posted so far will ever be queued.
Associate(t, s) ==
    /\ <<t, s>> \in associating
    /\ associating' = {}
    /\ sessionCount' = sessionCount + 1
    /\ IF SupportRIO \/ socketOpen[s]
       THEN UNCHANGED <<lostRecv, lostSend>>
       ELSE /\ lostRecv' = [lostRecv EXCEPT ![s] = recvIO[s]]
            /\ lostSend' = [lostSend EXCEPT ![s] = sendIO[s]]
    /\ UNCHANGED <<sessionVars, freeList, active, threadOf, countPerThread, closingList>>

\* The kernel completes operations of a socket that is not associated with the
\* port yet: no entry is queued.
CompleteUnqueued(s) ==
    /\ ~SupportRIO /\ Associating(s)
    /\ \E n \in lostRecv[s]..recvIO[s] : lostRecv' = [lostRecv EXCEPT ![s] = n]
    /\ \E n \in lostSend[s]..sendIO[s] : lostSend' = [lostSend EXCEPT ![s] = n]
    /\ UNCHANGED <<sessionVars, poolVars, closingList, associating>>

\* AddClosingSession.
AddClosing(t, s) ==
    /\ At(t, "AddClosing", s)
    /\ closingList' = Append(closingList, s)
    /\ Return(t)
    /\ UNCHANGED <<poolVars, portVars, connVars, refCount, flagVars, ioVars, bufVars>>

\* ClosingThreadEntry takes the oldest closing session and releases it.
TakeClosing(s) ==
    /\ closingList # <<>> /\ s = Head(closingList)
    /\ Begin(ClosingThread, <<Frame("ReleaseSession", s), Frame("Close", s),
                              Frame("OnClose", s)>>)
    /\ closingList' = Tail(closingList)
    /\ UNCHANGED <<poolVars, portVars, connVars, refCount, flagVars, ioVars, bufVars>>

\* Mutant: DecSessionCountPerThread is forgotten.
ReleaseUncounted(t, s) ==
    /\ At(t, "ReleaseSession", s)
    /\ associating = {}
    /\ s \in active
    /\ active' = active \ {s}
    /\ freeList' = Append(freeList, s)
    /\ sessionCount' = sessionCount - 1
    /\ Return(t)
    /\ UNCHANGED <<threadOf, countPerThread, closingList, portVars, connVars, refCount,
                   flagVars, ioVars, bufVars>>

\* ReleaseSession, after Close, under m_SessionListLock.
ReleaseSession(t, s) ==
    /\ At(t, "ReleaseSession", s)
    /\ associating = {}
    /\ \/ s \notin active /\ UNCHANGED poolVars
       \/ /\ s \in active
          /\ active' = active \ {s}
          /\ freeList' = Append(freeList, s)
          /\ sessionCount' = sessionCount - 1
          /\ countPerThread' = [countPerThread EXCEPT ![threadOf[s]] = @ - 1]
          /\ UNCHANGED threadOf
    /\ Return(t)
    /\ UNCHANGED <<closingList, portVars, connVars, refCount, flagVars, ioVars, bufVars>>

------------------------------------------------------------------------------
(* The workers                                                             *)

\* RIO gives each session the completion queue of its thread; the IOCP is
\* shared by all of them and gets what completes after Associate.
Serves(t, s) == IF SupportRIO THEN threadOf[s] = t ELSE ~Associating(s)

\* Mutant: posts the next receive before the last one is completed.
PostRecvFirst(s) ==
    <<Frame("ReleaseRef", s), Frame("CompletedRecv", s), Frame("PostRecv", s)>>

\* What a worker does with a completed receive.
OnRecv(s) ==
    <<Frame("ReleaseRef", s), Frame("PostRecv", s)>>
        \o (IF OwnMode THEN <<Frame("PostProcess", s)>> ELSE <<>>)
        \o <<Frame("CompletedRecv", s)>>

DequeueRecv(t, s) ==
    /\ Serves(t, s)
    /\ recvIO[s] > lostRecv[s] /\ recvIO' = [recvIO EXCEPT ![s] = @ - 1]
    /\ Begin(t, OnRecv(s))
    /\ UNCHANGED <<connVars, refCount, flagVars, sendIO, procQ, bufVars, networkVars>>

DequeueSend(t, s) ==
    /\ Serves(t, s)
    /\ sendIO[s] > lostSend[s] /\ sendIO' = [sendIO EXCEPT ![s] = @ - 1]
    /\ Begin(t, <<Frame("ReleaseRef", s), Frame("CompletedSend", s)>>)
    /\ UNCHANGED <<connVars, refCount, flagVars, recvIO, procQ, bufVars, networkVars>>

\* GetQueuedCompletionStatus fails for an operation of this session.  Its
\* pending flag stays locked.
DequeueFailed(t, s) ==
    /\ ~SupportRIO /\ Serves(t, s)
    /\ \/ /\ recvIO[s] > lostRecv[s] /\ recvIO' = [recvIO EXCEPT ![s] = @ - 1]
          /\ UNCHANGED sendIO
       \/ /\ sendIO[s] > lostSend[s] /\ sendIO' = [sendIO EXCEPT ![s] = @ - 1]
          /\ UNCHANGED recvIO
    /\ Begin(t, <<Frame("ReleaseRef", s), Frame("Disconnect", s)>>)
    /\ UNCHANGED <<connVars, refCount, flagVars, procQ, bufVars, networkVars>>

DequeueProcess(t, s) ==
    /\ procQ[s] > 0 /\ procQ' = [procQ EXCEPT ![s] = @ - 1]
    /\ Begin(t, <<Frame("ReleaseRef", s), Frame("ProcessCompletion", s)>>)
    /\ UNCHANGED <<connVars, refCount, flagVars, recvIO, sendIO, bufVars, networkVars>>

\* An application thread uses a session pointer, at whatever stage of its
\* life the session is.
AppCall(t, s) ==
    /\ \E call \in AppCalls : Begin(t, <<Frame(call, s)>>)
    /\ UNCHANGED <<connVars, refCount, flagVars, ioVars, bufVars, networkVars>>

------------------------------------------------------------------------------
IoDequeue(t, s) == DequeueRecv(t, s) \/ DequeueSend(t, s) \/ DequeueFailed(t, s)

\* Thread t goes on with the handler it is in, unless it is still allocating.
Run(t, s) ==
    /\ ~Allocating(t)
    /\ \/ SessionStep(t, s) /\ UNCHANGED networkVars
       \/ AddClosing(t, s)
       \/ ReleaseSession(t, s)

Next == \E s \in Sessions :
    \/ \E t \in Threads : Run(t, s)
    \/ \E t \in Allocators : AllocateSession(t, s) \/ Associate(t, s)
    \/ CompleteUnqueued(s)
    \/ \E t \in IoThreads : IoDequeue(t, s)
    \/ \E t \in ProcThreads : DequeueProcess(t, s)
    \/ \E t \in AppThreads : AppCall(t, s)
    \/ TakeClosing(s)

Spec == Init /\ [][Next]_vars

(* Fairness: the operating system schedules every thread; it completes the *)
(* operations of a socket that has been closed; completion queues are FIFO *)
(* and their workers come back for more, hence strong fairness per session *)
(* of dequeueing.  A connected peer owes nothing: its receives need never  *)
(* complete.                                                               *)
Fairness ==
    /\ \A t \in Threads : WF_vars(\E s \in Sessions : Run(t, s))
    /\ \A t \in Allocators : WF_vars(\E s \in Sessions : Associate(t, s))
    /\ WF_vars(\E s \in Sessions : TakeClosing(s))
    /\ \A s \in Sessions :
          /\ SF_vars(\E t \in ProcThreads : DequeueProcess(t, s))
          /\ SF_vars(~connected[s] /\ \E t \in IoThreads : IoDequeue(t, s))

FairSpec == Spec /\ Fairness

------------------------------------------------------------------------------
(* Properties                                                              *)

PortTypeOK ==
    /\ associating \in {{}} \cup {{<<t, s>>} : t \in Allocators, s \in Sessions}
    /\ lostRecv \in [Sessions -> Nat]
    /\ lostSend \in [Sessions -> Nat]

TypeOK ==
    /\ connected \in [Sessions -> BOOLEAN]
    /\ socketOpen \in [Sessions -> BOOLEAN]
    /\ refCount \in [Sessions -> Nat]
    /\ recvPending \in [Sessions -> BOOLEAN]
    /\ sendPending \in [Sessions -> BOOLEAN]
    /\ procPending \in [Sessions -> BOOLEAN]
    /\ recvIO \in [Sessions -> Nat]
    /\ sendIO \in [Sessions -> Nat]
    /\ procQ \in [Sessions -> Nat]
    /\ packets \in [Sessions -> 0..MaxPackets]
    /\ sendData \in [Sessions -> BOOLEAN]
    /\ stack \in [Threads -> Seq(Frames)]
    /\ freeList \in Seq(Sessions)
    /\ active \in SUBSET Sessions
    /\ closingList \in Seq(Sessions)
    /\ sessionCount \in Int
    /\ threadOf \in [Sessions -> IoThreads]
    /\ countPerThread \in [IoThreads -> Int]
    /\ PortTypeOK

\* The references that are out: the connection's own, one for each operation
\* posted to the kernel or queued for a process thread, and one for each
\* ReleaseRef that a thread still has to run.
RefsOut(s) ==
    (IF connected[s] THEN 1 ELSE 0) + recvIO[s] + sendIO[s] + procQ[s]
        + Waiting(Frame("ReleaseRef", s))

\* m_RefCount is exactly the number of references that are out, so no early
\* close can come from the AddRef/ReleaseRef pairs that are spread over
\* Session.cpp and the workers of Network.cpp, and no leak, except that nobody
\* gives back the reference of an operation that was lost (NothingLost).
RefCountExact == \A s \in Sessions : refCount[s] = RefsOut(s)

Listed(s) == Cardinality({i \in DOMAIN closingList : closingList[i] = s})

\* How often the session is on its way through the closing thread: decided by
\* the last ReleaseRef, listed, or being released.
ClosingSteps(s) ==
    Waiting(Frame("AddClosing", s)) + Listed(s) + Waiting(Frame("ReleaseSession", s))

\* A session goes to the closing thread at most once per incarnation, and only
\* while it is active, disconnected and unreferenced (the assertions of
\* AddClosingSession and ReleaseSession).
ClosingOnce ==
    \A s \in Sessions :
        /\ ClosingSteps(s) <= 1
        /\ ClosingSteps(s) = 1 => s \in active /\ ~connected[s] /\ refCount[s] = 0

\* While a session is being closed nobody else works on it: the assertions of
\* Close hold, no operation is outstanding whose completion would reach the
\* next incarnation, and no worker is inside one of its handlers.
CloseIsQuiescent ==
    \A s \in Sessions : Busy(s, {"OnClose", "Close", "ReleaseSession"}) =>
        /\ refCount[s] = 0 /\ ~socketOpen[s] /\ ~connected[s]
        /\ recvIO[s] = 0 /\ sendIO[s] = 0 /\ procQ[s] = 0
        /\ ~Busy(s, {"CompletedRecv", "CompletedSend", "ProcessCompletion",
                     "UnlockProc", "ReleaseRef"})
        /\ OwnMode => ~Busy(s, {"OnDispatch"})

\* Every session is either free, once, or active, and the counters that
\* AllocateSession and ReleaseSession keep agree with the active sessions, but
\* for the one whose AllocateSession has not reached ++m_SessionCount.
PoolConsistent ==
    /\ \A i, j \in DOMAIN freeList : freeList[i] = freeList[j] => i = j
    /\ {freeList[i] : i \in DOMAIN freeList} = Sessions \ active
    /\ sessionCount = Cardinality(active) - Cardinality(associating)
    /\ \A i \in IoThreads :
          countPerThread[i] = Cardinality({s \in active : threadOf[s] = i})

\* In PROCESS_MODE_OWN at most one process thread has a session to dispatch,
\* counting the queued entry (Session.h: m_ProcPending, "process only once"),
\* so OnDispatch sees the packets of a session one at a time and in order.
SerialDispatch ==
    OwnMode => \A s \in Sessions :
        procQ[s] + Cardinality({t \in Threads :
                        \E i \in DOMAIN stack[t] :
                            stack[t][i] \in {Frame("ProcessCompletion", s), Frame("OnDispatch", s)}})
            <= 1

\* At most one receive is posted per session (Session.h: m_RecvPending,
\* "receive only once"; all receives of a session use one m_RecvIOBuffer).
OneRecv == \A s \in Sessions : recvIO[s] <= 1

\* At most one send is posted per session (Session.h: m_SendPending).
OneSend == \A s \in Sessions : sendIO[s] <= 1

\* A connected session is never deaf: a receive is posted, or a thread is on
\* its way to post one or to disconnect the session.
RecvArmed ==
    \A s \in Sessions : connected[s] =>
        recvIO[s] > 0 \/ Busy(s, {"PostRecv", "PostRecvLocked", "Disconnect"})

\* No lost wakeup between PostProcess and ProcessCompletion: a connected
\* session with a complete packet is queued for a process thread, or a thread
\* is on its way to look at its buffer.
PacketsWatched ==
    OwnMode => \A s \in Sessions : connected[s] /\ packets[s] > 0 =>
        \/ procQ[s] > 0
        \/ Busy(s, {"PostProcess", "TryProc", "PostProcessLocked", "ProcessCompletion",
                    "Disconnect"})

\* A send is posted, or a thread is on its way to flush or to disconnect.
SendAttended(s) ==
    \/ sendIO[s] > 0
    \/ Busy(s, {"Flush", "TrySend", "SendLocked", "CompletedSend", "Disconnect"})

\* No lost wakeup between PostSend and CompletedSend: bytes that a PostSend
\* left in the buffer of a connected session are being sent, or a thread is on
\* its way to flush them.
SendWatched == \A s \in Sessions : connected[s] /\ sendData[s] => SendAttended(s)

\* Seen one session at a time, the network is an abstract session life.
Phase(s) ==
    IF s \notin active THEN "free"
    ELSE IF connected[s] THEN "open"
    ELSE IF socketOpen[s] THEN "stillborn"
    ELSE IF refCount[s] > 0 THEN "draining" ELSE "closing"

Life == INSTANCE SessionLife WITH phase <- [s \in Sessions |-> Phase(s)], refs <- refCount

\* The network implements the life of every session: references are taken only
\* while it is open, and it is closed by the last release and by nothing else.
LifeSpec == Life!Spec

\* No operation is posted on a socket that is not associated with the port
\* yet, or left over from the session's last socket: every completion finds a
\* worker.  It takes callers that hold a reference; an application thread with
\* an old session pointer breaks it (Session.cpp:281 before Network.cpp:575).
NothingLost == \A s \in Sessions : lostRecv[s] = 0 /\ lostSend[s] = 0

\* A session that has been disconnected goes back to the pool, unless an
\* operation of it was posted before Associate and its completion lost: the
\* reference of that operation is never given back.
Reclaimed ==
    \A s \in Sessions : (s \in active /\ ~socketOpen[s])
                            ~> (s \notin active \/ lostRecv[s] + lostSend[s] > 0)
==============================================================================
