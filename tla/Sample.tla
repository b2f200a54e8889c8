-------------------------------- MODULE Sample --------------------------------
(***************************************************************************)
(* The two programs of NetLibExample: DummyServer (its sessions, acceptor, *)
(* workers and main loop) and DummyClient (its sessions), over connections *)
(* as NetLib makes them: OnAccept or OnConnect returns before anything is  *)
(* dispatched, dispatches of a session do not overlap, OnClose comes when  *)
(* nothing runs for the session any more (Network.tla).  What PostSend     *)
(* accepts arrives once and in order until either side posts a stale range *)
(* (StreamExact in SendPath.tla, and RecvPath.tla); the flush can do that, *)
(* as SendPathOrder.cfg shows, and StaleSend is that step here.            *)
(***************************************************************************)
EXTENDS Integers, Sequences, FiniteSets

CONSTANTS SlotCount,    \* the server's sessions
          ClientCount,  \* the client's
          MaxConns,     \* bound on the connections
          Room,         \* packets that PostSend accepts before the peer has taken any
          MaxSeq,       \* bound on the broadcasts of main
          MaxChat,      \* bound on the requests of one client object
          MaxStale      \* bound on the connections on which a stale range is posted

ASSUME SampleAssumption ==
    /\ SlotCount \in Nat \ {0} /\ ClientCount \in Nat \ {0} /\ MaxConns \in Nat
    /\ Room \in Nat \ {0} /\ MaxSeq \in Nat /\ MaxChat \in Nat /\ MaxStale \in Nat

Slots == 1 .. SlotCount
Clients == 1 .. ClientCount
Conns == 1 .. MaxConns
None == 0

VARIABLES
    \* connections, numbered as they are made
    made,     \* how many there have been
    state,    \* "new"; "pending" until accepted; "open"; "shut" when either side has shut it
    up, down, \* the packets on their way to the server, to the client
    refused,  \* history: PostSend to the client has returned false for want of room
    stale,    \* history: either side has posted a range that was not at the head any more
    \* server
    free,     \* the free slots, the next one first
    stage,    \* of a slot: "free", "accepting", "registered" (AddNet has run), "receiving"
              \* (PostRecv has run), "removed" (RemoveNet has run)
    conn,     \* its connection
    sNo,      \* its m_No
    ready,    \* m_Proxy and m_PingReceivedTime are set
    maxNo,    \* m_MaxNo
    netMap,   \* m_mapNet: pairs of a number and a slot
    seq,      \* Seq of main
    todo,     \* the numbers that Broadcast, which holds m_Lock, has yet to send to
    \* client
    cFree,    \* the free client objects, the next one first
    cConn,    \* the connection of a client object
    cNo,      \* its m_No
    cSeq      \* its m_Seq

connVars == <<made, state, up, down, refused, stale>>
slotVars == <<free, stage, conn, sNo, ready>>
mapVars == <<maxNo, netMap, seq, todo>>
clientVars == <<cFree, cConn, cNo, cSeq>>
vars == <<connVars, slotVars, mapVars, clientVars>>

Ask(n) == [id |-> "ask_chat_msg", no |-> n]
Ans(n) == [id |-> "ans_chat_msg", no |-> n]
Ans1(n) == [id |-> "ans_chat_msg1", no |-> n]

Init ==
    /\ made = 0 /\ state = [k \in Conns |-> "new"]
    /\ up = [k \in Conns |-> <<>>] /\ down = [k \in Conns |-> <<>>]
    /\ refused = [k \in Conns |-> FALSE] /\ stale = [k \in Conns |-> FALSE]
    /\ free = [i \in Slots |-> i] /\ stage = [s \in Slots |-> "free"]
    /\ conn = [s \in Slots |-> None]
    /\ sNo = [s \in Slots |-> 0] /\ ready = [s \in Slots |-> FALSE]
    /\ maxNo = 0 /\ netMap = {} /\ seq = 0 /\ todo = {}
    /\ cFree = [i \in Clients |-> i] /\ cConn = [c \in Clients |-> None]
    /\ cNo = [c \in Clients |-> 0] /\ cSeq = [c \in Clients |-> 0]

\* m_Lock is free.
Unlocked == todo = {}

\* PostSend of a slot: returns false without room, or when it is disconnected.
\* The packet is the next one of the stream as far as no stale range is posted.
PostSend(k, p) ==
    /\ down' = IF state[k] = "open" /\ Len(down[k]) < Room
               THEN [down EXCEPT ![k] = Append(@, p)] ELSE down
    /\ refused' = IF state[k] = "open" /\ Len(down[k]) >= Room
                  THEN [refused EXCEPT ![k] = TRUE] ELSE refused

\* Either side disconnects (DisconnectNet on the server, Close and Shutdown on the
\* client), or the network does.
Shut(k) ==
    /\ state[k] \in {"pending", "open"}
    /\ state' = [state EXCEPT ![k] = "shut"]
    /\ UNCHANGED <<made, up, down, refused, stale, slotVars, mapVars, clientVars>>

\* What becomes of the packets d under way when p is sent a second time: it
\* goes in the place of one that is then never sent, or, when there is none left,
\* after all of them.
Repeated(d, p) == {Append(d, p)} \cup {[d EXCEPT ![i] = p] : i \in DOMAIN d}

\* A flush has read its range before a completion popped it, and posts it
\* afterwards: ChatMsg, Broadcast and the flush of CompletedSend on the server,
\* ResChatMsg and that flush on the client.  Old packets are sent again and
\* CompletedSend pops as many bytes that were never sent.  Once for each
\* connection, as nothing is claimed for its packets afterwards.
StaleSend(c) ==
    LET k == cConn[c]
    IN  /\ k # None /\ state[k] = "open" /\ ~stale[k]
        /\ Cardinality({j \in Conns : stale[j]}) < MaxStale
        /\ stale' = [stale EXCEPT ![k] = TRUE]
        /\ \/ \E n \in 1 .. cNo[c] : \E d \in Repeated(up[k], Ask(n)) :
                  up' = [up EXCEPT ![k] = d] /\ UNCHANGED down
           \/ /\ \E s \in Slots : conn[s] = k /\ stage[s] \in {"registered", "receiving"}
              /\ \E p \in {Ans(n) : n \in 1 .. cNo[c]} \cup {Ans1(n) : n \in 0 .. seq - 1} :
                     \E d \in Repeated(down[k], p) :
                         down' = [down EXCEPT ![k] = d] /\ UNCHANGED up
        /\ UNCHANGED <<made, state, refused, slotVars, mapVars, clientVars>>

------------------------------------------------------------------------------
(* DummyServer                                                             *)

\* AcceptThread: a slot for the next connection; without one it is closed.
Accept(k) ==
    /\ state[k] = "pending"
    /\ \A s \in Slots : stage[s] \notin {"accepting", "registered"}
    /\ \/ /\ free # <<>>
          /\ free' = Tail(free)
          /\ stage' = [stage EXCEPT ![Head(free)] = "accepting"]
          /\ conn' = [conn EXCEPT ![Head(free)] = k]
          /\ state' = [state EXCEPT ![k] = "open"]
       \/ /\ free = <<>>
          /\ state' = [state EXCEPT ![k] = "shut"]
          /\ UNCHANGED <<free, stage, conn>>
    /\ UNCHANGED <<made, up, down, refused, stale, sNo, ready, mapVars, clientVars>>

\* OnAccept as far as AddNet, in which nobody else can reach the slot yet.
OnAccept(s) ==
    /\ stage[s] = "accepting" /\ ~ready[s]
    /\ ready' = [ready EXCEPT ![s] = TRUE]
    /\ UNCHANGED <<connVars, free, stage, conn, sNo, mapVars, clientVars>>

\* Mutant: registers before m_Proxy and m_PingReceivedTime are set.
AddNetEarly(s) ==
    /\ stage[s] = "accepting" /\ Unlocked
    /\ maxNo' = maxNo + 1
    /\ sNo' = [sNo EXCEPT ![s] = maxNo']
    /\ netMap' = netMap \cup {<<maxNo', s>>}
    /\ stage' = [stage EXCEPT ![s] = "registered"]
    /\ UNCHANGED <<connVars, free, conn, ready, seq, todo, clientVars>>

\* Mutant: m_MaxNo++.
AddNetPostIncrement(s) ==
    /\ stage[s] = "accepting" /\ ready[s] /\ Unlocked
    /\ maxNo' = maxNo + 1
    /\ sNo' = [sNo EXCEPT ![s] = maxNo]
    /\ netMap' = netMap \cup {<<maxNo, s>>}
    /\ stage' = [stage EXCEPT ![s] = "registered"]
    /\ UNCHANGED <<connVars, free, conn, ready, seq, todo, clientVars>>

\* AddNet, under m_Lock.
AddNet(s) ==
    /\ stage[s] = "accepting" /\ ready[s] /\ Unlocked
    /\ maxNo' = maxNo + 1
    /\ sNo' = [sNo EXCEPT ![s] = maxNo']
    /\ netMap' = netMap \cup {<<maxNo', s>>}
    /\ stage' = [stage EXCEPT ![s] = "registered"]
    /\ UNCHANGED <<connVars, free, conn, ready, seq, todo, clientVars>>

\* OnAccept has returned: AcceptThread posts the first receive.
PostRecv(s) ==
    /\ stage[s] = "registered"
    /\ stage' = [stage EXCEPT ![s] = "receiving"]
    /\ UNCHANGED <<connVars, free, conn, sNo, ready, mapVars, clientVars>>

\* Mutant: answers with the slot's own number.
ChatMsgOwnNo(s) ==
    /\ stage[s] = "receiving" /\ up[conn[s]] # <<>>
    /\ up' = [up EXCEPT ![conn[s]] = Tail(@)]
    /\ PostSend(conn[s], Ans(sNo[s]))
    /\ UNCHANGED <<made, state, stale, slotVars, mapVars, clientVars>>

\* Mutant: takes a request and does not answer it.
ChatMsgSilent(s) ==
    /\ stage[s] = "receiving" /\ up[conn[s]] # <<>>
    /\ up' = [up EXCEPT ![conn[s]] = Tail(@)]
    /\ UNCHANGED <<made, state, down, refused, stale, slotVars, mapVars, clientVars>>

\* OnDispatch, ChatMsg: echoes the number, and does not look at what PostSend
\* returns.  It may still run when the connection has been shut.
ChatMsg(s) ==
    /\ stage[s] = "receiving" /\ up[conn[s]] # <<>>
    /\ up' = [up EXCEPT ![conn[s]] = Tail(@)]
    /\ PostSend(conn[s], Ans(Head(up[conn[s]]).no))
    /\ UNCHANGED <<made, state, stale, slotVars, mapVars, clientVars>>

\* OnClose as far as RemoveNet, under m_Lock.  A session that is still on its way
\* to AddNet cannot be closed: nothing is posted for it, nobody finds it in the
\* map, and DummyServer disconnects no session (DisconnectNet has no caller).
RemoveNet(s) ==
    /\ stage[s] \in {"registered", "receiving"} /\ state[conn[s]] = "shut" /\ Unlocked
    /\ stage' = [stage EXCEPT ![s] = "removed"]
    /\ netMap' = {e \in netMap : e[1] # sNo[s]}
    /\ UNCHANGED <<connVars, free, conn, sNo, ready, maxNo, seq, todo, clientVars>>

\* OnClose, the rest, and the release of the session with what it has received.
OnClose(s) ==
    /\ stage[s] = "removed"
    /\ ready' = [ready EXCEPT ![s] = FALSE]
    /\ free' = Append(free, s)
    /\ stage' = [stage EXCEPT ![s] = "free"]
    /\ conn' = [conn EXCEPT ![s] = None]
    /\ up' = [up EXCEPT ![conn[s]] = <<>>]
    /\ UNCHANGED <<made, state, down, refused, stale, sNo, mapVars, clientVars>>

\* main: the next number, and Broadcast takes m_Lock.
Broadcast ==
    /\ Unlocked /\ seq < MaxSeq
    /\ seq' = seq + 1
    /\ todo' = {e[1] : e \in netMap}
    /\ UNCHANGED <<connVars, slotVars, maxNo, netMap, clientVars>>

\* Broadcast, one session: in the order of the numbers.
BroadcastNext ==
    \E e \in netMap :
        /\ e[1] \in todo /\ \A n \in todo : e[1] <= n
        /\ todo' = todo \ {e[1]}
        /\ PostSend(conn[e[2]], Ans1(seq - 1))
        /\ UNCHANGED <<made, state, up, stale, slotVars, maxNo, netMap, seq, clientVars>>

------------------------------------------------------------------------------
(* DummyClient                                                             *)

\* Mutant: m_Seq is not reset.
OnConnectKeepsSeq ==
    /\ made < MaxConns /\ cFree # <<>> /\ cNo[Head(cFree)] < MaxChat
    /\ made' = made + 1
    /\ state' = [state EXCEPT ![made'] = "pending"]
    /\ LET c == Head(cFree)
       IN  /\ cFree' = Tail(cFree)
           /\ cConn' = [cConn EXCEPT ![c] = made']
           /\ cNo' = [cNo EXCEPT ![c] = @ + 1]
           /\ up' = [up EXCEPT ![made'] = <<Ask(cNo'[c])>>]
    /\ UNCHANGED <<down, refused, stale, slotVars, mapVars, cSeq>>

\* ConnectSession and OnConnect, whose request goes out before any receive.
OnConnect ==
    /\ made < MaxConns /\ cFree # <<>> /\ cNo[Head(cFree)] < MaxChat
    /\ made' = made + 1
    /\ state' = [state EXCEPT ![made'] = "pending"]
    /\ LET c == Head(cFree)
       IN  /\ cFree' = Tail(cFree)
           /\ cConn' = [cConn EXCEPT ![c] = made']
           /\ cNo' = [cNo EXCEPT ![c] = @ + 1]
           /\ cSeq' = [cSeq EXCEPT ![c] = 0]
           /\ up' = [up EXCEPT ![made'] = <<Ask(cNo'[c])>>]
    /\ UNCHANGED <<down, refused, stale, slotVars, mapVars>>

\* The packet that OnDispatch looks at.
Received(c) == Head(down[cConn[c]])
HasPacket(c) == cConn[c] # None /\ down[cConn[c]] # <<>>
Take(c) == down' = [down EXCEPT ![cConn[c]] = Tail(@)]

\* The echo: the next request, whatever PostSend returns.
ResChatMsg(c) ==
    /\ HasPacket(c) /\ Received(c).id = "ans_chat_msg" /\ cNo[c] < MaxChat
    /\ Take(c)
    /\ cNo' = [cNo EXCEPT ![c] = @ + 1]
    /\ up' = [up EXCEPT ![cConn[c]] =
                 IF state[cConn[c]] = "open" /\ Len(@) < Room
                 THEN Append(@, Ask(cNo[c] + 1)) ELSE @]
    /\ UNCHANGED <<made, state, refused, stale, slotVars, mapVars, cFree, cConn, cSeq>>

\* A broadcast.
ResChatMsg1(c) ==
    /\ HasPacket(c) /\ Received(c).id = "ans_chat_msg1"
    /\ Take(c)
    /\ cSeq' = [cSeq EXCEPT ![c] = Received(c).no]
    /\ UNCHANGED <<made, state, up, refused, stale, slotVars, mapVars, cFree, cConn, cNo>>

\* OnClose of the client; what has not been dispatched is lost.
ClientOnClose(c) ==
    /\ cConn[c] # None /\ state[cConn[c]] = "shut"
    /\ cFree' = Append(cFree, c)
    /\ cConn' = [cConn EXCEPT ![c] = None]
    /\ down' = [down EXCEPT ![cConn[c]] = <<>>]
    /\ UNCHANGED <<made, state, up, refused, stale, slotVars, mapVars, cNo, cSeq>>

------------------------------------------------------------------------------
Acceptor == (\E k \in Conns : Accept(k)) \/ \E s \in Slots : OnAccept(s) \/ AddNet(s) \/ PostRecv(s)
Closing(s) == RemoveNet(s) \/ OnClose(s)
ClientWorker(c) == ResChatMsg(c) \/ ResChatMsg1(c)

Next ==
    \/ Acceptor
    \/ \E s \in Slots : ChatMsg(s) \/ Closing(s)
    \/ Broadcast \/ BroadcastNext
    \/ \E c \in Clients : ClientWorker(c) \/ ClientOnClose(c)
    \/ OnConnect
    \/ \E k \in Conns : Shut(k)
    \/ \E c \in Clients : StaleSend(c)

Spec == Init /\ [][Next]_vars

\* All threads are scheduled; nobody needs to connect or to disconnect.
FairSpec ==
    /\ Spec
    /\ WF_vars(Acceptor)
    /\ \A s \in Slots : WF_vars(ChatMsg(s)) /\ WF_vars(Closing(s))
    /\ WF_vars(BroadcastNext)
    /\ \A c \in Clients : WF_vars(ClientWorker(c))

------------------------------------------------------------------------------
(* Properties                                                              *)

Packets == [id : {"ask_chat_msg", "ans_chat_msg", "ans_chat_msg1"},
            no : 0 .. MaxSeq + MaxChat]

SampleTypeOK ==
    /\ made \in 0 .. MaxConns
    /\ state \in [Conns -> {"new", "pending", "open", "shut"}]
    /\ up \in [Conns -> Seq(Packets)] /\ down \in [Conns -> Seq(Packets)]
    /\ refused \in [Conns -> BOOLEAN] /\ stale \in [Conns -> BOOLEAN]
    /\ free \in Seq(Slots) /\ cFree \in Seq(Clients)
    /\ stage \in [Slots -> {"free", "accepting", "registered", "receiving", "removed"}]
    /\ conn \in [Slots -> Conns \cup {None}]
    /\ sNo \in [Slots -> Nat] /\ ready \in [Slots -> BOOLEAN]
    /\ maxNo \in 0 .. Cardinality(Conns)
    /\ netMap \subseteq (1 .. Cardinality(Conns)) \X Slots
    /\ seq \in 0 .. MaxSeq /\ todo \subseteq 1 .. Cardinality(Conns)
    /\ cConn \in [Clients -> Conns \cup {None}]
    /\ cNo \in [Clients -> 0 .. MaxChat] /\ cSeq \in [Clients -> 0 .. MaxSeq]

\* The map holds each session that OnAccept has registered and OnClose has not
\* removed, once, with a number of its own (GetNo asserts that it has one) and
\* with m_Proxy and m_PingReceivedTime set, as Broadcast and Check expect; and
\* no other session, however slots are reused.
MapExact ==
    /\ netMap = {<<sNo[s], s>> : s \in {t \in Slots : stage[t] \in {"registered", "receiving"}}}
    /\ \A e, f \in netMap : e[1] = f[1] => e = f
    /\ \A e \in netMap : e[1] # 0 /\ ready[e[2]]

\* The assertion at DummyClient.cpp:61 holds on a connection as long as neither
\* side has posted a stale range: an echo has the number of the latest request,
\* also when the client object has been used before, so at most one request is
\* under way.  After a stale range an echo can come twice.
EchoMatches ==
    \A c \in Clients : cConn[c] # None /\ ~stale[cConn[c]] =>
        LET k == cConn[c]
        IN  \A i \in DOMAIN down[k] : down[k][i].id = "ans_chat_msg" =>
                /\ down[k][i].no = cNo[c] /\ up[k] = <<>>
                /\ \A j \in DOMAIN down[k] : down[k][j].id = "ans_chat_msg" => j = i

\* Where the broadcasts are among the packets d.
BroadcastsIn(d) == {i \in DOMAIN d : d[i].id = "ans_chat_msg1"}

\* The broadcasts among d follow one another, and the first one follows number q.
Follow(d, q) ==
    /\ \A i \in BroadcastsIn(d) :
           q # 0 /\ (\A j \in BroadcastsIn(d) : i <= j) => d[i].no = q + 1
    /\ \A i, j \in BroadcastsIn(d) :
           i < j /\ (\A l \in BroadcastsIn(d) : l <= i \/ j <= l) => d[j].no = d[i].no + 1

\* The assertion at DummyClient.cpp:75 holds on a connection as long as no
\* PostSend to the client is refused and no stale range posted: the broadcasts
\* that are under way follow one another and the last one received, so none is
\* lost, repeated or overtaken between the map, the lock and the reuse of slots.
BroadcastsFollow ==
    \A c \in Clients :
        cConn[c] # None /\ ~refused[cConn[c]] /\ ~stale[cConn[c]] =>
            Follow(down[cConn[c]], cSeq[c])

\* The connection of a client object has ended or lost a packet.
Excused(c) ==
    LET k == cConn[c] IN k = None \/ state[k] = "shut" \/ refused[k] \/ stale[k]

\* The exchange goes on: a request is answered and the answer makes the next
\* request, unless the connection is shut, a PostSend was refused or a stale range
\* posted: then the request or the answer may be lost and nobody asks again.
ChatGoesOn ==
    \A c \in Clients, n \in 1 .. MaxChat - 1 :
        cConn[c] # None /\ cNo[c] = n ~> cNo[c] > n \/ Excused(c)
==============================================================================
