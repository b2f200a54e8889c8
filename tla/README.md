# Formal model of rio_network

`src/NetLib` is a Windows TCP library on Registered I/O (RIO) or, where RIO is
missing, on an I/O completion port. It gives an application a pool of sessions,
threads that complete their I/O, threads that dispatch their packets
(`PROCESS_MODE_OWN`) or a call that does so on the application's own thread
(`PROCESS_MODE_USER`), and callbacks `OnAccept`, `OnConnect`, `OnDispatch`,
`OnClose`. `src/NetLibExample` holds a sample server and a load client. This
directory models the library in TLA+, checks the models with TLC and proves
theorems about them with TLAPS.

## 1. Inventory

| Component | State | Operations | Interaction |
|---|---|---|---|
| `Session` | `m_Connect`, `m_Socket`, `m_RefCount`, flags `m_RecvPending`, `m_SendPending`, `m_ProcPending`, ring buffers for receiving and sending, three spin locks | `Attach`, `Disconnect`, `AddRef`, `ReleaseRef`, `Close`, `PostRecv`, `CompletedRecv`, `PostProcess`, `ProcessCompletion`, `ProcessPacket`, `PostSend` (both), `PostSendBuffered`, `CompletedSend` | called by every thread; posts I/O; hands itself to the closing thread |
| `Network` | free list, active array, closing list, session counts, thread vectors, `m_Running`, listen socket | `Start`, `Shutdown`, `AllocateSession`, `ReleaseSession`, `AddClosingSession`, workers, acceptor, `ConnectSession`, `DisconnectSession` | owns the threads and the pool |
| `IOCompletionPort`, `RIOCompletionQueue` | completions not yet dequeued | post, dequeue | workers |
| `RingBuffer`, `Buffer` | positions and length over a byte array | `PutData`, `GetData`, `PopData`, `GetFirstData*`, `Clear` | one receive and one send buffer per session |
| `SpinLock` | one flag | `lock`, `try_lock`, `unlock` | mutexes and pending flags |
| `Allocator` | per size class: chunks from the heap, a list of free blocks threaded through them, a lock | `alloc`, `free`, `free_all` | `SmallObj`, the containers with `SmallObjectAllocPolicy`, the pools |
| `LinkedList` | the pointers of nodes in a circle through the head | insert, erase, `clear`, iterate | the pools |
| `ObjectPool` | a list of free objects, an allocator for objects and one for list nodes | `Allocate`, `Free`, destructor | applications |
| `SocketUtils`, `Log` | none of interest | wrappers | everywhere |
| `DummyServer`, `DummyClient` | map of sessions, counters | connect, echo, broadcast, close | applications of the library |

What is hard in this code is concurrency: a session has no owner thread.
Workers, the process threads, the accepting and connecting threads, the closing
thread and application threads run its handlers at the same time, and only an
atomic counter, three flags and short spin locks keep them apart. Slots are
reused, so whatever outlives an incarnation meets the next one.

Correctness, by component:

* `Session`: the reference count is the number of references somebody will give
  back; exactly one step takes it to zero, and only after a disconnect; closing
  has the session for itself; at most one receive, one send, one dispatcher;
  nothing that could be received, dispatched or sent is forgotten.
* `Network`: every session is free once or active; counters agree with the
  lists; a disconnected session returns to the pool; `Shutdown` ends.
* `RingBuffer`: a bounded FIFO of bytes for every sequence of calls.
* `Allocator`, `ObjectPool`: no block is given out twice, lost or too small; no object and
  no list node leaks. `LinkedList`: both directions are the order asked for.
* Send and receive path: bytes leave once, in order; packets are framed by their
  size and dispatched in order.
* `DummyServer`, `DummyClient`: the map holds the sessions that are registered and no
  other; what the client asserts of the numbers it receives holds.
* Locks: no cycle among the spin locks.

## 2. Modules

| Module | Models | State |
|---|---|---|
| `SessionLife` | abstract: a slot is free, open, draining, closing or stillborn (its `Attach` failed), with a count of references | phase and count per slot |
| `Session` | `Session.cpp`, one action per handler or per part of a handler between two points that other threads can observe | the fields of a session, posted operations, and a stack of calls per thread |
| `Network` | `Network.cpp` while it runs: the pool, the closing thread, the workers, accept and connect, application threads; extends `Session` | lists and counters |
| `MCNetwork` | symmetry for TLC | |
| `NetworkProofs` | the reference count of `Session` and `Network`, and the shape of the stacks | |
| `DispatchProofs` | who dispatches, receives and sends; `Network` implements `SessionLife`; the pool and its counters are consistent | |
| `ByteQueue` | abstract: a bounded queue of bytes | the bytes |
| `RingBuffer` | `Buffer.h` as operators on a value `[bytes, head, tail]` | none |
| `RingBufferProofs` | lemmas on the operators of `RingBuffer` | |
| `RingFifo` | every sequence of calls on one `RingBuffer` | the buffer, the last result |
| `SendPath` | the bytes of one incarnation from `PostSend` to the peer; extends `RingBuffer` | send buffer, `m_SendPending`, posted ranges, the wire |
| `SendPathProofs` | the stream of bytes, for any buffer, threads and calls | |
| `RecvPath` | the bytes of one incarnation from the peer to `OnDispatch`; extends `RingBuffer` | receive buffer, both flags, the wire, dispatched packets |
| `RecvPathProofs` | the frames, for any buffers, threads, packets and receives | |
| `FixedAllocator` | `FastFixedAllocator` of `Allocator.h` as operators on a value `[chunks, free]` | none |
| `GeneralAllocator` | `FastGeneralAllocator` and its callers, every sequence of calls; extends `FixedAllocator` | one fixed allocator per class, the blocks callers have |
| `LinkedList` | `LinkedList.h` as operators on a value `[prev, next, data]` | none |
| `NodeList` | every sequence of calls on one list; extends `LinkedList` | the pointers, the order asked for |
| `ObjectStore` | abstract: objects given back are handed out again, the one that has waited longest first | idle and used objects |
| `ObjectPool` | `ReusableObjectPool` over two fixed allocators and one linked list; implements `ObjectStore` | both allocators, the links, the constructed objects |
| `MCContainers` | `RingFifo`, `GeneralAllocator`, `NodeList` and `ObjectPool` side by side for TLC, one of them active in a behaviour | which one |
| `ContainerProofs` | theorems on these four, for every size and every sequence of calls | |
| `Sample` | `DummyServer.cpp` and `DummyClient.cpp` over connections as the library makes them, stale ranges included | connections, slots, map, broadcast, client objects |
| `SampleProofs` | the map and the numbers the client asserts, for any number of sessions and connections | |
| `NetworkLife` | `Start`, `StartAcceptor`, `StopAcceptor`, `Shutdown` and the threads they start and join; sessions are those of `SessionLife` | `m_Running`, queues of entries, closing list, a label per thread |
| `NetworkLifeProofs` | reference count and pool while the threads start and stop, for any number of sessions and workers | |

`Network` is the core. It is proved to implement `SessionLife`, and `NetworkLife`
is built on `SessionLife`, so that `Shutdown` is checked against sessions that are
allowed no more than those of `Network` are proved to need, in a state space that
Start and Shutdown would otherwise multiply. `SendPath` and `RecvPath` take the
opposite cut: one incarnation, without the reference count, with every byte.

### How `Session` and `Network` correspond to the code

A thread is the stack of calls it still has to finish; a frame `[op, on]` names
a handler, or the rest of one, and its session. `Continue` replaces the top
frame, `Begin` starts an idle thread. Thus the order of calls inside a handler
is kept, and between any two of them every other thread may run:

* what is done under one spin lock is one action (`PostRecvLocked` is
  `Session.cpp:426-453`); taking a flag (`PostRecv`, `TryProc`, `TrySend`) and
  releasing it (`UnlockRecv`, `UnlockProc`, `UnlockSend`) are actions of their own
  where the code does them outside the lock;
* `Disconnect` and the `ReleaseRef` after it are two actions;
* a worker's frame list is the body of its loop: `OnRecv` is `CompletedRecv`,
  then `PostProcess` (OWN mode), then `PostRecv`, then `ReleaseRef`;
* a callback returns or makes one call on its session (`CallbackCalls`), and an
  application thread makes any of `AppCalls` at any time, also on a session that
  has been closed or reused since it got the pointer.

Kernel, sockets and completion queues are external and modelled by what the code
expects of them: a posted operation is dequeued at most once, by a worker of the
session's thread on RIO or any worker on IOCP, with any outcome. Windows queues a
completion only if the socket is associated with the port when it comes. Data is
abstracted: `packets[s]` counts complete packets in the receive buffer and
`sendData[s]` tells whether the send buffer holds bytes.

In the code `IsConnected` is read without the session lock by `PostSend`,
`Marshall` and `CompletedSend`. The model reads it in the same step as the
buffer. That loses no behaviour: `Disconnect` does not touch the buffers, so a
disconnect between the two reads gives the same state as one right after them.

Some outcomes cannot be told apart by the rest of the model and are one step:
`PostProcessLocked` includes `EnqueueProcess`, since only the entry of the queue
lets another thread go on. `AllocateSession` is two steps: up to `Attach`, which
connects the session, and `Associate` with `++m_SessionCount`. Between them the
thread holds `m_SessionListLock` (`associating`), which keeps `AllocateSession` and
`ReleaseSession` of others away but not a thread that has an old pointer to the session. What the kernel
completes meanwhile on an IOCP (`CompleteUnqueued`), or would complete on a socket that was closed before
`Associate`, is queued nowhere: `lostRecv` and `lostSend` count those operations, and
no worker dequeues them. RIO has no such step: the request queue is made in `Attach`.

### How the other modules correspond to the code

* `RingBuffer`: one operator per method; a call that returns `false` changes
  nothing and is decided by `CanPutData` or the length, as in the code. `CopyIn`
  and `CopyOut` are the `memcpy`s, on an array, so a range that leaves the array
  is an error of the model and not silently truncated.
* `SendPath`, `RecvPath`: `todo[t]` lists the steps that thread `t` has left, first
  step first; a step is what the code does under one lock or with one flag. Bytes
  are numbers that tell where they come from: the k-th byte taken (`SendPath`),
  the number of the packet (`RecvPath`). In `SendPath` the kernel reads the array
  when it sends, not when the send is posted, as a zero-copy send does. `stale` is
  a history variable: it records that a send was posted for a range that was not
  the head of the data any more. In `RecvPath` the peer sends well-formed packets:
  their two bytes of size count the header.
* `FixedAllocator`: the list of free blocks is the sequence of the blocks, although the code
  threads it through the blocks' own bytes: nobody writes into a block he has given back.
  The `Chunks` are what the heap can return; `Refilled` and `Popped` are the two halves of
  `alloc`, `Pushed` is `free`. The order of blocks is the code's, latest first.
* `LinkedList`: a node has its two pointers and its data, and every statement of the code that
  sets a pointer is one component of the result. `NodeList` keeps in `order` what the
  callers asked for and walks both directions of the circle to compare. `ObjectPool`
  instantiates `LinkedList` with the blocks of its node allocator as nodes, so that a node that
  is not given back, and an object in a list whose node has been destroyed, are states.
* `Sample`: a connection is a pair of packet queues with a state; what a callback does under
  `m_Lock` is one step, except `Broadcast`, which holds the lock over one step per session (`todo`).
  `OnAccept` is cut at `AddNet` and `OnClose` at `RemoveNet`, since it is there that the other threads
  see them. A packet is its kind and its number. `PostSend` accepts `Room` packets until the
  peer takes one, and otherwise refuses, which the samples do not look at. Any flush of a
  session may have read its range before a completion popped it. `StaleSend` is that step, on
  either side of a connection: an old packet is sent again, in the place of one that is then popped
  without having been sent, or behind the last one (`Repeated`). `stale` records on which
  connections it has happened.
* `NetworkLife`: a thread has a label instead of a stack. The condition variable of
  the closing thread is modelled with its lock: `CloserCheck` tests the condition,
  `CloserWait` begins to wait, and between the two `AddClosingSession`, which needs
  the lock, cannot run, but `Shutdown`, which does not take it, can. `SupportRIO` is
  found out once per process, so `supportRIO` is chosen in `Init`. A session has
  at most one operation of each kind here; `Network` is where several are.

## 3. Runs

| Run | Instance | Shows |
|---|---|---|
| `own` | 1 session, 2 I/O and 2 process workers, IOCP, `PROCESS_MODE_OWN`, callbacks send and disconnect, 2 packets | the reference count is exact, a session is closed once and quiescently, dispatch is serial, at most one receive and one send are posted, and neither a receive, a packet nor bytes to send are forgotten, and no operation is posted where its completion would be lost |
| `user` | 2 sessions, 2 I/O workers, RIO, `PROCESS_MODE_USER`, an application thread, `Attach` may fail | the pool and its counters agree; every session implements `SessionLife` |
| `live` | 1 session, 1 worker of each kind, an application thread | a disconnected session returns to the pool, unless the application thread posted an operation before `Associate` |
| `containers` | ring: array of 4, 2 byte values, calls of up to 4 bytes; allocator: 3 chunks of 2 blocks, 2 classes of 2 and 4 bytes, requests of 0 to 5; list: 4 nodes; pool: the same chunks | `RingFifo` implements `ByteQueue`; blocks are exclusive, large enough and never lost; the list is the order asked for in both directions; the pool implements `ObjectStore`, leaks nothing |
| `send` | 2 application threads, 1 worker, array of 3, 4 bytes in all, calls of 1 or 2 bytes | unless a stale range is posted: every byte once and in order; a flush sends all it found |
| `recv` | 1 I/O and 2 process workers, array of 5, 2 packets of 3 or 4 bytes | packets reach `OnDispatch` whole, once, in order; in `PROCESS_MODE_OWN` all of them |
| `sample` | 2 slots, 1 client object, 3 connections one after the other, 2 packets of room, 4 broadcasts, 3 requests, a stale range on one of the connections | the map is exact; until a stale range is posted on the connection, echoes answer the latest request, broadcasts follow one another unless a `PostSend` was refused, and the exchange of requests goes on unless the connection ends or a `PostSend` was refused |
| `life` | 2 sessions, 1 worker of each kind, acceptor, application, one `Start` | the pool outlives its users; no worker is left waiting; `Shutdown` gets to the join of the closing thread |
| `two_allocators`, `send_order`, `life_closer`, `life_restart` | | violated: section 6 |

Why these bounds are enough for what is claimed:

* the properties of `own` speak of one session. What happens to it in later
  incarnations happens in one slot, which is reused without bound. Two workers of a
  kind are needed for two handlers of the same kind to race, and a third adds no
  new pair. The theorems (section 5) cover every number of sessions and threads for all of
  them: `OneRecv` with one allocating thread, `OneSend` also with callers that hold a
  reference, `SendWatched` for applications without `PostSendBuffered`.
  The same holds of the other passing runs: what section 5 proves does not depend on the
  bounds below, which are for the liveness properties and for TLC to reach every step;
* `user` has a second session, so that the free list has an order and the counts per
  worker can differ;
* an array of 4 (`containers`) has every position of head and tail relative to each other
  and to the end;
* `send` and `recv` put more bytes than the array holds, so that data wraps around;
  calls, partial sends and receives cut it at every place, the header included.
  In `recv` the I/O buffer is as large as the array, as in the code, so a receive
  may bring more than there is room for;
* in `containers` a class needs a second chunk while another class has one, and the third is
  the last: heap exhaustion is a case of both `alloc` and, half way through, of the pool's `Free`, which
  needs a list node. Requests cover no bytes, both ends of each class and beyond the largest.
  Four nodes put a node between two others that are neither it nor the head;
* in `sample` the slots and the client object are used by a second and third connection while
  the broadcast still walks the map, and two packets of room are exceeded. A stale range on any one of
  the three connections (`MaxStale`) can disturb what is claimed of the other two through the slot, the map
  and the client object; of its own connection nothing is claimed afterwards, so a second one there
  would say no more;
* `life` starts and stops once with two sessions, so that the loops of `Shutdown`
  and `WaitForClosedSession` have something behind them; `life_restart` starts twice.

Deadlock is checked except in `send_order`, where the application may have used up
its bytes, in `sample`, which ends when its connections, broadcasts and requests are used up,
and in the three runs of `NetworkLife`, which may end: after the last
`Shutdown` all threads but the main one are gone. Symmetry is used in `own` and `user`
only, which check no liveness.

Each property is paired with a change of the code that breaks it (the operators
commented "Mutant"): a reference that is not counted, a check of `IsConnected` that
is dropped, an unlock after the second look instead of before, a send that pops all
instead of what was sent, and so on. Each change is one that a maintainer could make
without any single-threaded test noticing.

## 4. Fairness

* `Network`: every thread that has a call to finish goes on (weak fairness of `Run`);
  the closing thread takes what is listed; every entry of the process queue, and
  every operation of a *disconnected* session, is dequeued (strong fairness: workers
  are busy now and then, but queues are FIFO and workers come back); a thread between `Attach` and `Associate`
  goes on. The closing thread needs `m_SessionListLock`, which an allocating thread holds over one step at
  a time; with the one session of `live` nobody allocates while it is waiting to be released, so weak
  fairness is enough. Windows completes
  the operations of a closed socket. Nothing is assumed of connected peers.
* `SendPath`: threads go on, the kernel answers each send somehow, an idle worker
  dequeues the answer. Applications need not call anything.
* `RecvPath`: threads go on, bytes that have arrived are received, idle workers
  dequeue. The peer and the application owe nothing.
* `Sample`: the acceptor, the workers of both programs, the closing of a session and a broadcast that has
  begun go on (weak fairness). Nobody has to connect, to disconnect or to begin a broadcast.
  `StaleSend` has no fairness: that it happens is never relied on.
* `NetworkLife`: threads go on, `Shutdown` once begun goes on, operations of a
  disconnected session complete. `accept` returns when the listening socket is closed
  and need not before. Nobody has to call `Shutdown`.

## 5. Theorems

### Sessions and the pool

`NetworkProofs` (for any finite sets of sessions and threads, any bound on packets,
either process mode, RIO or IOCP, any calls of callbacks and applications; from
`SessionAssumption` and `NetworkAssumption`):

* `TypeCorrect`: `Spec => []TypeOK`;
* `RefCountIsExact`: `Spec => []RefCountExact`, which makes `NET_ASSERT(RefCount >= 0)` of
  `ReleaseRef` true: a reference is the connection's, that of an operation or a `ReleaseRef` to come. (An
  operation whose completion is lost keeps its reference for good; `NothingLost` says when there is none.);
* `ClosedOnce`: `Spec => []ClosingOnce`, the assertions of `AddClosingSession` and
  `ReleaseSession`.

All three follow from `Invariance`, `Spec => []IInv`, with
`IInv == TypeOK /\ RefCountExact /\ ClosingOnce /\ FreeIsQuiet /\ FreeListed`. None of the
first three is inductive by itself: when `AllocateSession` sets the count of the head of the free
list to one, that session must have had no reference and must not be on its way through
the closing thread. `FreeListed` says that it is not active, `FreeIsQuiet` that it is
not referenced, and `ClosingOnce` that what is closing is active.

The count is compared with a number of stack frames of all threads. The first part of the module
shows how `Continue`, `Return` and `Begin` change that number (`ContinueWaiting`,
`ReturnWaiting`, `BeginWaiting`, on finite sets of stack positions). Upon them stand two
general lemmas, `PlainStep` for a step that takes a reference with each operation it starts, or none,
and `GivingStep` for one that leaves a `ReleaseRef` to its thread, then one lemma per handler, then
`NextIInv`.

From the same assumptions follows what the reference count is for, the first in `NetworkProofs`, the
others in `DispatchProofs`:

* `ClosesQuiescently`: `Spec => []CloseIsQuiescent`;
* `DispatchIsSerial`: `Spec => []SerialDispatch`;
* `PacketsAreWatched`: `Spec => []PacketsWatched`;
* `ReceivesAreArmed`: `Spec => []RecvArmed`;
* `SendsAreWatched`: `Spec => []SendWatched`, for applications that never call
  `PostSendBuffered`, neither from a thread of their own nor from a callback;
* `ReceivesOnce`: `Spec => []OneRecv`, with one allocating thread;
* `SendsOnce`: `Spec => []OneSend`, with one allocating thread, when application threads do no
  more than disconnect and buffer packets (workers and callbacks do what they like);
* `LivesAreImplemented`: `Spec => LifeSpec`, the refinement of `SessionLife`;
* `PoolIsConsistent`: `Spec => []PoolConsistent`.

The invariant of the first is `HInv == IInv /\ Shaped /\ SocketInv`. `Shaped` says what a
stack can look like: a handler that works for an operation (`CompletedRecv`, `ProcessCompletion`, ...)
stands above the `ReleaseRef` that ends the worker's loop, `OnClose` and `Close` above the
`ReleaseSession` of the closing thread, `UnlockProc` above the second look at the buffer. With the
exact count it follows that a session being closed has no worker. What a handler goes on with *fits* the
place of the frame it replaces (`Fits`, `StepFits`), and `ShapeStep` shows once that replacing a
frame by what fits keeps every shape. `SocketInv` relates sockets to connections.

`DInv` adds the turn to dispatch. `HasTurn(t, s)` holds of a thread that has taken `m_ProcPending`, or
an entry of the process queue, and not yet unlocked it. `OneTurn` says that the flag is locked exactly
while one queue entry or one thread has the turn, `InTurn` that `OnDispatch` runs in the turn of its
thread. Both need `Shaped`: a thread passes the turn on inside its stack, and when `UnlockProc`
returns no other frame of it may still have the turn. `PacketsWatched` needs that whoever finds the
flag locked leaves somebody behind who will look again after `UnlockProc`. For receives, `RecvInv` says
that while `m_RecvPending` of a connected session is locked a receive is posted, or a handler will post
or end it, hence a `PostRecv` that gives up leaves the session armed.

`SendsAreWatched` has an invariant of its own, `SInv`. While `m_SendPending` of a connected session is
locked, a send is posted, or a handler will post or end it or disconnect (`Senders`), or a thread is
about to unlock with a `Flush` below it on its stack (`FlushFollows`). A `PostSend()` that finds the
flag locked and gives up can therefore leave its bytes. The assumption is needed: `PostSendBuffered`
puts bytes without a flush, which is then up to the application. The calls of `PostSend` may come from
threads without a reference, at any stage of the session's life.

`ReceivesOnce` and `SendsOnce` have the invariants `RecvOnce` and `SendOnce`, of the same form. A thread
*owns* the flag while a handler that runs with it locked is on its stack (`Owners`). `Single` says that
the flag is locked for the one posted operation or for its one owner, `Lone` that a thread
does not begin a second turn inside its first. They are kept by every step of a session in use
(`OnceGoesOn`, `OnceBegins`), but `AllocateSession` unlocks the flag whoever owns it. So `Backed` says
what no `PostRecv` or `PostSend()` can do: outlive its session. It runs above the `ReleaseRef` of its
worker, and with `RefCountExact` a session in the free list has none (`AllocateFresh`), or it runs on the one
allocating thread, which is idle when it allocates. For sends this needs one more fact: the close
callback runs above `ReleaseSession`, without a reference, but `PostSend()` finds the session
disconnected (`FlushBacked`). Without the assumptions both properties are false: section 6 shows it for two
allocating threads, and an application thread in `PostSend()` does the same to `m_SendPending`.

The refinement has one lemma per handler: a step leaves the four variables of the mapping alone
(`PhaseKept`), or moves one session along one edge of `SessionLife`. It needs `HInv`: `ReleaseRef`
to zero is the step to closing only because the session is disconnected then and its `Attach` has not
failed. `PoolIsConsistent` adds the two counters, as cardinalities of sets that `AllocateSession`
and `ReleaseSession` change by one session that was not, or was, active; `m_SessionCount` lags behind by
the session that is being associated.

### Containers

`ContainerProofs` on the ring buffer (any size above zero, any set of bytes, any bound on calls):

* `RingTyped`: head and tail stay inside the array;
* `RingIsFifo`: the ring buffer implements `ByteQueue` with capacity `BufSize - 1`, under the
  mapping `queue <- Contents(ring)`.

The argument is in `RingBufferProofs`: `PutBytes` tells what the array holds after `PutData` with and without a
split (`WholeData`, `SplitData`: new data overlaps nothing that is still unread), hence
`PutAppends`, `PutEmptyAppends`, `GetIsPrefix`, `PopDrops`; `RingStep` puts them together.

On the allocator (any chunks, any number of blocks per chunk, any classes), for every sequence of calls
of `GeneralAllocator`:

* `AllocTyped`: `AllocSpec => []AllocTypeOK`;
* `BlocksAreExclusive`: `AllocSpec => []BlocksExclusive`;
* `BlocksAreLarge`: `AllocSpec => []BlocksFit`;
* `BlocksAreConserved`: `AllocSpec => []BlocksConserved`.

The invariant `AInv` says that the free list of every class holds blocks of its own chunks, once each
(`Sound`), that no two classes share a chunk, and that every block a caller has is in use in the
class of the size it asked for, or came from `malloc` (`Kept`). None of the three properties is inductive
without the last part: `free` pushes the block to the class of the size it is *told*. A refill adds a new
chunk and keeps what is in use; a pop and a push move one block between the list and the callers.

On the list (any nodes; one of them is the head):

* `ListIsExact`: `ListSpec => []ListExact`, the list is the order asked for in both directions and every
  other node is tied off.

Its invariant `LInv` is `ListExact` with the types, stated by the place in the circle (`At`, `Ringed`):
the successor of the place k is k + 1 for k from the head round to the head. Linking a node in behind
the place k (`BetweenKeeps`) and out (`RemoveKeeps`) change two pointers each, wherever k is, and so
does `clear`.

On the object pool (any finite memory, any number of blocks per chunk; the head of the list and
`nullptr` are no blocks, which is `PoolAssumption`):

* `PoolTyped`: `PoolSpec => []PoolTypeOK`;
* `BuiltAsPeak`: `PoolSpec => []BuiltIsPeak`, no more objects are constructed than were in use at a time
  (proved only: no run checks it);
* `PoolLeaksNothing`: `PoolSpec => []NothingLeaks`, after the destructor both allocators are empty;
* `PoolIsObjectStore`: `PoolSpec => PoolIsStore`, the refinement of `ObjectStore`.

The invariant `PInv` says that both allocators are `Sound` and share no chunk, and that there is a
sequence of nodes that is the circle through the head and accounts for every block in use (`Accounts`):
the node allocator's used blocks are exactly the nodes of the circle, the object allocator's are
the constructed objects, and those are in the hands of callers or stored in the list, never both. A node
that is not given back, or an object freed while a node refers to it, would break it. The abstract
store is read off by a walk along the pointers; that the walk meets the sequence is an argument by least
counterexample (`WFMin` over the natural numbers), since the walk is a recursive function.

### Bytes of one incarnation

`SendPathProofs` (any buffer, any finite sets of threads, any lengths of calls, any partial sends):

* `SendPathTyped`: `Spec => []SendTypeOK`;
* `StreamIsExact`: `Spec => []StreamExact`.

The invariant is `SendTypeOK /\ Planned /\ OneSender /\ RangesInside`, with `Streams` while the
session is connected and no stale range has been posted. `Planned` lists what a thread can still have to do,
`OneSender` says that `m_SendPending` is held by one thread, or one posted send, or one result that
has not been dequeued. Then `Streams` can say that what was sent, followed by what is in
the buffer behind what the kernel has sent but `CompletedSend` not yet popped, is what was accepted. The ring lemmas
give what put and pop do to it. `RangesInside` holds of stale ranges, too: a range that was read once stays
inside the array, so the kernel reads wrong bytes but no others' memory.

`RecvPathProofs` (any buffers, any I/O and process threads, any packets and cuts of the stream, both
process modes):

* `RecvPathTyped`: `Spec => []RecvTypeOK`;
* `FramesAreExact`: `Spec => []FramesExact`.

The invariant is `Typed /\ Planned /\ OneReceiver /\ OneProcessor /\ Streams`. `Streams` says that
there is a continuation such that the contents of the buffer followed by it are the packets not yet
taken, each at its place (`Framed`); while bytes may still be put, the continuation is what
has been received and not put, followed by the wire. Where packets end in the buffer is a witness function of
places (`EndsAt`) and not a sum over packets, which would need induction. When there is no room for what was
received the session is disconnected and the thread that dropped the bytes still holds `m_RecvPending`
(`GapPlans`): nothing is put behind the gap, and the packets in front of it are still whole.

### Threads that start and stop

`NetworkLifeProofs` (any finite sets of sessions and workers, any bound on calls of `Start`):

* `NetworkLifeTyped`: `Spec => []NetworkLifeTypeOK`;
* `PoolOutlives`: `Spec => []PoolOutlivesItsUsers`, nobody can reach a session when `Shutdown` destroys the pool;
* `EntriesAreEnough`: `Spec => []EntriesSuffice`, every worker still to stop finds an empty entry;
* `ReleasesAreCovered`: `Spec => []ReleasesCovered`, each `ReleaseRef` finds the session with the reference
  it gives back: a step `SessionLife` has.

The invariant adds `RefsExact` (the count of a session is its connection, its operations and the threads that
hold or owe a reference), `PhasesSound` (no reference exactly when free or closing),
`OneReceiver`, `ListSound` (what is listed for closing is closing and listed once), `Placed` (at which
labels a thread can be) and `Stages`: how far `Shutdown` is and what that implies,
for example that all sessions below `slot` are free while it waits, and that the threads it has joined
are gone. `PoolOutlivesItsUsers` needs all of it: when every session is free no
reference exists, so no worker, callback or application has a session left.

### The samples

`SampleProofs` (any slots, client objects, connections, packets of room, broadcasts and requests):

* `SampleTyped`: `Spec => []SampleTypeOK`;
* `MapIsExact`: `Spec => []MapExact`, the server's map has the registered sessions and no other;
* `EchoesMatch`: `Spec => []EchoMatches`, an answer that arrives is that of the latest request, on a
  connection on which neither side has posted a stale range;
* `BroadcastsAreFollowed`: `Spec => []BroadcastsFollow`, the assertion of `DummyClient.cpp:75`, unless
  a `PostSend` was refused or a stale range posted on that connection.

The specification has the step `StaleSend` at any time. `MapIsExact` and the agreement of slots, map and client
objects do not depend on it; the two assertions hold of a connection until it happens there, and of all others after it.

The last needs most: broadcasts on their way have consecutive numbers, and the next one for a session follows
the last one sent (`NextIsAwaited`), where the next one is that of the broadcast under way
if the session is still in `todo`, and the one after it otherwise (`Expected`). Slots and client
objects are reused, so `SlotsOK` and `ClientsOK` say that each connection is one slot's and one client's, and
`QuietUntilAdded` that a connection begins without a broadcast: whichever number comes first is right.

### Only model-checked

Out of the prover's reach: every liveness property, since fairness speaks of `ENABLED`; these
stay with the runs. Not proved although it is a safety property: `NothingLost`, which holds for callers that
have a reference and needs who they are.

## 6. Where the code differs from what it says

* `two_allocators`: `AcceptThread` and `ConnectSession` go on with their new session
  without a reference (`Network.cpp:822`, `871`). If it is disconnected, closed and attached
  again by the other one meanwhile, two receives are posted into one buffer, although
  `m_RecvPending` exists "to receive only once" (`Session.h:68`). The same holds for an
  application thread in `PostSend` (`Session.cpp:669-682`) and `m_SendPending`. With one
  allocating thread, and calls only from threads that hold a reference, `OneRecv` and
  `OneSend` hold (`own`, and `ReceivesOnce` and `SendsOnce` in general).
* `send_order`: `PostSend()` reads what to send before it takes `m_SendPending`; a flush
  that completes in between makes the range stale, and bytes are sent twice.
  `DummyClient.cpp:75` asserts that packets arrive consecutively. `StreamExact` shows that
  this is the only way to disturb the stream. In the samples `Broadcast`, `ChatMsg` and the flush of
  `CompletedSend` race on one session, so that its client may see an echo or a broadcast twice, or
  lose one: both assertions of `DummyClient` (`:61`, `:75`) can fail. `Sample` has that step
  (`StaleSend`), and its properties about packets hold of a connection until it happens there.
* `life_closer`: `Shutdown` writes `m_Running` and notifies without the lock of the
  condition, so the closing thread can miss it and the join never ends. For the same
  reason `WorkersStop` only promises that `Shutdown` gets as far as that join.
* `life_restart`: a worker that leaves because `m_Running` is false leaves its empty entry
  in the queue, where it stops a worker of the next `Start`.

Two more things are in the models without a run of their own. `AllocateSession` connects the session
(`Session.cpp:281`) before it associates the socket with the port (`Network.cpp:575`). On an IOCP an
application thread that calls `SendBuffered` and `Flush` with an old session pointer can post a send in between; if
that completes, or the session is disconnected, before `Associate`, its completion is lost, its
reference is never given back, and the slot is never reclaimed. `live` has such a thread, which is why `Reclaimed`
excepts a session that lost a completion; `NothingLost` (`own`) shows that workers, callbacks and the
allocating thread itself cannot do it. No document speaks of the case. And `PostSend(Data, Len)` "puts into the
buffer and flushes" (`Session.cpp:572`), but does not flush when `PostSendBuffered` has left bytes
there (`:585`). `SendPath` promises of a flush what it finds, no more.

## 7. Not modelled

* Failures of `Start`; `Attach` that fails during `Shutdown` (a stillborn session makes
  `WaitForClosedSession` wait for ever, which is what `SessionLife` says of it);
  `ConnectSession` during or after `Shutdown`; `Shutdown` before `Start` or twice, which
  reads a null `m_ActiveSessionList`.
* `CreateSessionPool` counts with an `unsigned short` (`Network.cpp:617`) and does not end
  with more than 65535 sessions; `iNetwork` has no virtual destructor.
* What no property covers although the models have it: in `PROCESS_MODE_USER` `OnDispatch` may run while
  the session is being closed (`CloseIsQuiescent` does not claim otherwise); a `PostSend` behind a
  `PostSendBuffered` that does not flush (`Drained` does not ask for it). What the models cannot have: in the
  samples `OnClose` never overtakes `AddNet`, since nothing is posted for the session before, nobody else
  has its pointer and `DummyServer` disconnects no session.
* The nesting of mutexes. `CompletedRecv` calls `Disconnect` under `m_RecvPacketLock`
  (`Session.cpp:467`), `Attach` and `Close` take the locks in the other order; they cannot
  meet because the worker holds a reference (`RefCountExact`, `CloseIsQuiescent`).
* `free_all` of the allocators while callers have blocks; `find` of `cLinkedList`, which does not compile
  when it is used; `SmallObj`'s `operator new(nothrow)`, which takes memory from `malloc` that a plain
  `delete` would put into a free list (`Allocator.h:409-411`): nothing here makes an object that way.
* In the samples: `Check`, whose call is commented out, `GetPlayerNet`, which nothing calls, the
  keyboard loop and the session IDs that `DummyClient` keeps for `Close`.
* `ConnectSession` leaks its socket when it fails (`Network.cpp:850`, `865`): no state of the library
  depends on it.
* `Log`, `SocketUtils`: output and thin wrappers; `GlowBuffer` and
  `GetFirstDataPtr` of `Buffer.h`, which nothing calls; addresses and the disconnect reason;
  packet sizes below two.

## 8. Plan

In this order; what is above is done.

1. Core: `Session`, `Network`, `SessionLife`; the theorems on the reference count. *Done.*
2. `RingBuffer`, `ByteQueue`, their refinement and its proof. *Done.*
3. `SendPath`, `RecvPath`, `NetworkLife`. *Done.*
4. The samples: the map of sessions, the broadcast under its lock, slots that are reused. *Done.*
5. `Allocator`, `LinkedList` and `ObjectPool`. *Done.*
6. Proofs: closing is quiescent, dispatch is serial, no packet, no receive and no bytes to send are
   forgotten, the pool is consistent, `Network` implements `SessionLife`, the blocks of the
   allocators are exclusive. *Done.*
7. `AllocateSession` with `Associate` as a step of its own: *done*. Left: `ConnectSession` during
   `Shutdown`, and a proof of `NothingLost`.
8. Proofs: the list, the object pool, `StreamExact`, `FramesExact`, the safety part of `NetworkLife` and
   of `Sample`. *Done.*
9. Proofs: `OneSend` and `OneRecv` under the conditions of `own`: who holds a reference
   across incarnations. *Done.*
