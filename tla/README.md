# A verification of SocketLibrary

TLA+ models, TLC runs and TLAPS proofs of the socket library in
`src/src/SocketLibrary/SocketLibrary`: a C++ library for Windows that offers TCP
and UDP servers and clients on I/O completion ports, a task with worker threads
and a message queue, and the pools and threads they stand on. File names below
are relative to that directory.

## 1. The system

| Component | State | Operations | Meets | Hard about it |
|---|---|---|---|---|
| **TCP server** `TcpServer` | map handle -> session block, free pool of blocks, lock, send pool, listen socket and thread | Open, Close, Disconnect, Send, PostRecv, PostSend, Set/GetAttachInfo; the listen thread | calls the application's `CSocketEvent`; its sockets belong to the port of the TCP runner | handles and blocks are reused while packets and callers still name them |
| **TCP runner** `TcpRunner`, `SocketRunner` | completion port, worker threads | Open, Close, AssociateSocket; the workers' loop | calls OnRecv, PostRecv, PostSend and Disconnect of the source named by a packet | reads the session block of a packet without a lock |
| **Send pool** `SocketSendPool` | free list of send objects, lock | pop, push, init, clear | server, client, UDP source | objects keep the pointers of earlier sends |
| **Task** `SLTask` | queue, semaphore, thread group | PostMessage, Push, Pop, Activate, Close; the workers' loop | the application posts from its callbacks | two counts (queue and semaphore) that are not changed together; threads are killed |
| **Task over a port** `SLTaskEx` | queue, completion port, threads | as the task | as the task | a message without a packet |
| **Message queue** `SLMessageQueue` | linked nodes, node pool, size, limit, lock | Init, Enqueue, Dequeue, Clear | the tasks | nodes and buffers change hands |
| **Session framing** `SLTcpSession` | partial packet | OnRecv, SplitPacket | fed by OnRecv of the server | headers and bodies split anywhere |
| **TCP client** `TcpClient` | socket, state, list of server addresses, reconnect thread and event | Open, Connect, Disconnect, Send, SetAutoConnect | runner | reconnecting while the application connects and disconnects |
| **UDP** `UdpSource`, `UdpRunner` | receive objects in use and free | Open, Send, PostRecv, Close | runner | a chain of receives that must not break |
| **Blocking TCP** `SLBlockTcp*` | queue of accepted sockets, runner threads | Push, Pop, Attach, Detach | its own listen thread | ownership of sockets |
| **Blocking calls** `SLBlockObject*`, `SLBlockSession*` | map key -> waiting caller | Wait, Result, Push, Find, Remove | callers and the threads that bring answers | answers after the timeout |
| **Active list** `SLSession_ActiveList` | list of sessions, scan thread | Append, ScanProc, Close | sessions | scanned without the lock |
| **Pools** `slext/*Pool.h`, `SLAlloc.h`, `SL*MemoryPool.h` | free lists | init, push, pop, clear | everything above | limits, double frees |
| **Threads and locks** `sync/*` | handles, stop command | Start, Stop, Kill; Lock, UnLock | everything above | Kill is TerminateThread |
| Application frame, log, service, helpers | - | - | - | input and output; not modelled |

How a message goes through: the listen thread accepts a socket, takes or
allocates a session block, associates socket and block with the completion
port, enters them into the map and posts the first receive. A worker dequeues
the receive's packet, calls OnRecv and posts the next one; the application
posts what it received to a task, whose worker answers with Send. When a packet
comes without bytes, or an operation fails, or the application wants it,
Disconnect closes the socket, recycles or frees the block and reports to
OnDisconnect.

What makes each component correct:

- server and runner: every block in one place, every socket closed exactly once
  and reported at most once, limits kept, packets delivered to the connection they
  belong to, and a client's leaving noticed;
- task: every accepted message processed while the task is active, Close returns;
- queue and pools: first in first out, no node or buffer with two owners, limits;
- framing: the packets handed on are those that were sent, however they arrive;
- client: with reconnecting switched on, a lost connection is tried again;
- UDP: a source that is open has a receive outstanding;
- blocking calls: a caller gets its own answer or a timeout, never a freed object.

`PROJECT.json` lists the hazards behind these at their lines.

## 2. The plan

| # | Modules | State |
|---|---|---|
| 1 | `TcpServer`, `TcpServer_proofs`: server, runner and Winsock between Open and Close | done |
| 2 | `SLTask`, `SLTask_proofs`: task, semaphore, thread group, queue as a sequence | done |
| 3 | `SLTcpSession`: SplitPacket over every way of cutting a stream into receives | done, with proofs (second part of `SLBlockTcp_proofs`) |
| 4 | `SLMessageQueue`: nodes, node pool and buffers, shown to implement the abstract `BoundedQueue` | done, with proofs (`SLMessageQueue_proofs`) |
| 5 | `TcpClient`, `TcpClient_proofs`: connect, disconnect, reconnect thread; liveness of reconnecting | done |
| 6 | `Udp`, `Udp_proofs`: the chain of receives | done |
| 7 | `SendPool`, `Pools`: the send pool with the sends that use it, and the six other pools | done, with proofs (`SendPool_proofs`, and the second part of `SLTask_proofs` for `Pools`) |
| 8 | `TcpLifecycle`, `TcpLifecycle_proofs`: Open and Close of server and runner, with killed threads | done |
| 9 | `SLBlockTcp`, `SLBlockTcp_proofs`: the blocking server, its queue and its threads | done |
| 10 | `SLTcpSession` composed with `TcpServer`: a session that is recycled while it unpacks | open; the product of the two is too large for TLC as they stand |

Runs stay small: two or three of each kind of thing. Theorems follow each
module: its type invariant first, then the safety invariants its runs check.

## 3. The modules

How they fit together: `TcpServer` counts the objects of the send pool, and
`SendPool` tells them apart; `TcpServer` begins where a successful Open ends, and
`TcpLifecycle` has Open, Close and as much of the listen thread and the workers as
can be caught by a Close; `SLTask` has the queue as a sequence, with the lock, and
`SLMessageQueue` shows that the nodes behind it behave like one, and when they do not. Each
pair is two views of the same code, because the state of one multiplied by that
of the other is beyond what TLC finishes.

### TcpServer

The server and its runner at work, from the state that a successful Open leaves
(`m_lstFreePool` holds `DefaultFreePoolNum` blocks). Steps of the model are the
stretches of code between two points at which another thread can matter: a
critical section of `m_lock` is one step where nothing in it is visible outside,
and two for Disconnect, whose `closesocket` lets the system give the handle out
again before the entry is erased.

| State | Code |
|---|---|
| `m_mapSocketSession`, `m_lstFreePool`, `m_lock` | the members of `CTcpServer` |
| `heap`, `hSocket`, `pAttachInfo` | which session blocks are allocated, and the fields of `PER_HANDLE_DATA` |
| `nSendFree` | the length of the free list of `m_sendPool` |
| `listener`, `thread` | where ListenProc, the workers and the application's threads are, with their locals |
| `open`, `client`, `key`, `recv`, `sends` | Winsock: the connection on each handle, what its peer did, its completion key, its outstanding operations |
| `known`, `told` | handles the application has seen; calls of OnDisconnect |
| `crossed` | history: something was reused or freed while the library was not done with it |

Connections are numbered, the code numbers nothing: the number only serves to
say in a property which connection a handle or a block stands for, and in the
guards of the system's own actions. Freed memory holds anything (`HandleIn`).
`listener` follows ListenProc step by step (WSAAccept, OnAccept, CheckSize,
TakeFromPool, AllocSession, AssociateSocket, InsertSession, OnInitSocket,
FirstRecv); a worker dequeues a packet (DequeueEndedRecv, DequeueEndedSend,
PostSend, OnRecv), then posts again (PostRecv) or not (StopRecv), or goes
through DisconnectFind, DisconnectErase and OnDisconnect. The application's
threads send, disconnect and set the attached object with any handle they ever
saw. The set `Answers` says which unlikely answers a run allows: a refusal, a
failed allocation, a failed association, OnRecv returning a negative number, a
broken connection.

The application may disconnect while operations of the connection are under way;
their packets are handled later, by the handle that stands in the block then. In most
orders that does no harm: the handle is closed, or the block is still that of the
connection. `crossed` becomes true in exactly four steps: WSAAccept gives out a
handle, TakeFromPool a block, or DisconnectErase frees a block, that something the
library has begun still leads to (an outstanding receive or send, a worker between
a packet and what it does about it: `NamedBlocks`, `NamedHandles`); or a connection is closed between
its entry into the map and OnInitSocket. `ReceiveOwnsItsBlock`, `OnlyLostClientsAreDropped`
and `AttachFollowsConnection` hold until then, with any application; without any one of
the four steps in it, one of them fails in `TcpServer_faults`. That such steps do happen is
a disagreement described in 6, and `LibraryCrossesNothing` says that they take an application
that disconnects or sends from a thread of its own.

Abstracted: the bytes (a receive has got some or not), the segments of a Send
(each asynchronous packet is one call), blocking sends (they fail like the
others), and addresses. Open and Close are in `TcpLifecycle`.

### SLTask

A task with its queue, semaphore and thread group; posts and pops may be made at any
time by any poster, Activate and Close by one owner in any order, Activate also while
the threads of an earlier one live, and with a Start that begins only some of the
threads ("fewer"). `m_msgQueue` is the
sequence of its messages, numbered in the order of posting; Enqueue and the
Dequeue of Pop are one step under the queue's lock, and the Dequeue of a worker is two
(GetMessage enters the lock, Dequeue takes the message and leaves it), because
a worker may be killed between them. `UnLock` is a release of the system's
semaphore: it wakes a waiting worker, or counts, or is lost at the maximum or
without a handle. Close is CloseUnLock for each thread, CloseSemaphore, Stop
(set the command), StopWait for each thread, Kill, ClearQueue.

Assumed: the 200 ms for which Stop waits run out only on a worker that waits for
the semaphore or is inside ProcessMessage; the few instructions between two
of those take less. Start of a group that is running waits for nothing: it terminates the
threads wherever they are (`ClearThreads`), and one inside Dequeue leaves the queue's lock
locked for ever (`DeadThread`). The semaphore is replaced before that, so a worker that
waits for the old one is `stuck` until it is terminated. `nUnsignalled` is a history variable:
messages that were accepted without a release of an existing semaphore (Push, early or late
posts) or whose signal was lost with a terminated worker or a replaced semaphore; `killed`
remembers an Activate that has terminated threads. Nothing is promised to
messages once the lock is with a dead thread, and `LockHolderIsAlive` says that nothing but
such an Activate brings that about.

### SLTcpSession

One session object, used by one connection after another. A byte is its position
in the stream, so a property can say which bytes were handed to ProcessMessage;
the head of a message is the only content the code reads, and `GetMsgSize` gives
the size of the message whose head it is shown, or `misread` for any other
bytes. `m_nLastMsgLeft` is the length of `m_szBuffer`. SplitPacket calls
itself last of all, so each call is an action and its cases are LongMessage
(m_nNeedMsgSize > 0), NewMessage, HeadContinues and MessageContinues; `p` and `nLen` are
the arguments of the call to come, and nLen may be larger than what is left in
`p`: bytes from behind the receive are 0. The buffer has no end in the model;
NothingHeldBack says that it would not be reached. The arithmetic on uint32
wraps at `Word`. The history variable `clean` remembers whether a receive began
within a head, or within a long message and went beyond its end: then the code
goes wrong (see 6), and the passing run claims nothing more for that connection.
Two assumptions on the constants come from the code: a size is read as a uint32 and kept
in an int (`SLTcpSession.cpp:96, 100, 153`), so sizes are taken to be below half of `Word`,
which is 2^31 (a larger one is a negative nMsgSize, and is taken for a short message; no such size is
modelled), and the buffer holds at least a head (the comment at
`SLTcpSession.h:23-24` asks for more than that). `MaxMessages` and `MaxPeers` bound what
TLC explores. The names of the specification as a whole are qualified (`UnpackInit`,
`UnpackNext`, `UnpackSpec`, `UnpackTypeOK`), so that a module of proofs can extend this
module beside another.

### SLMessageQueue and BoundedQueue

`BoundedQueue` is the promise: messages are taken in the order in which they
were accepted, whole, each by one reader, and never more than the limit wait.
`SLMessageQueue` is the code: nodes with `next`, a node pool (`CSmallObjectPool`)
that hands out its oldest node, and in each node a `CByteBuffer` with pointer,
size, capacity and owner flag, over a heap whose blocks may get any free address. Enqueue,
Dequeue and Clear hold the queue's lock throughout and are one step each. Init takes no lock
(SLMessageQueue.h:53-57); it is one step here, too, so the model has it only where nothing else runs
on the queue (see 7). A reader's own
node lives as long as its thread (`ReaderEnds`). The refinement maps the queue to the
messages along `next` from `m_pHead`, and a reader's message to what the bytes
at its node's address are.

The promise ends at three uses, and `broken` says that one of them has come:
a message of no bytes (`CByteBuffer::data` returns early, and the two nodes then own one
block), a message handed over from memory at an address that a recycled
node still points to (`data` takes it for its own bytes and returns early, too), and a Clear once a
message has left the queue (`next` of a recycled node is not reset, so the walk
goes beyond the tail and round). Nothing is claimed after them.

### SendPool

`CSocketSendPool` with what uses it: `CUdpSource::Send` (the TCP sources have the same
loop), the workers' PostSend, and Open and Close of the source. An object has a
buffer of its own behind it (`nLen`, `own`) and a pointer (`szBuffer`) that may
lead elsewhere. `lost` names the two ways in which an object is given back by nobody:
the packet of an aborted send has no bytes and the runner takes it for
something else, and an object that is to be enlarged is forgotten when HeapReAlloc fails.
`BytesStayAsGiven` claims something only as long as nobody sends without a
copy (`unbuffered`): then a recycled object keeps the caller's pointer.

### Pools

One behaviour is a pool of one of six kinds: `CSmallObjectPool`, `CSmallObjectPoolEx`,
`CFixedObjectPool`, `CSLBlockAlloc`, `CSLNormalMemoryPool`, `CSLScopeMemoryPool`.
Memory is counted in cells: an object is a range of cells of an allocation.
Push and pop are one step under the mutex, init is two (clear, then
allocate). `undefined` remembers uses after which the pool is no longer one, and they
are part of what the model says of the code: clearing a pool while its objects are in
use (harmless in the pools of single objects and in the block pool), giving back the
oldest object of the fixed pool while others are out (its list of users loses
its head), and a normal pool's free list after clear, which still points into
what clear has freed. `CSmallObjectPoolEx` ignores its `m_nMaxCount`. `HandOut` and
`TakeBack` are the pop and push of whichever kind the pool is of, and the names of the
specification as a whole are qualified here, too (`PoolInit`, `PoolNext`, `PoolSpec`,
`PoolTypeOK`).

### TcpClient

Connect runs under `m_lock`, Close without it; the reconnect thread (`AutoConnect`) is a
loop over an event, with Disconnect as the one that sets it, or over
`IsRealConnected` at the interval. Close and Disconnect, Connect and WaitReturns are
subroutines of several threads: `pc` says where a thread is and `ret` where
it goes on. Sockets are numbered to tell two on the same handle apart; `deaf` are those
that OnRecv gave up, or whose first receive had no buffer. The reconnect thread can be killed
(SetAutoConnect stops it with a time limit) with the lock (`Killed`), and it waits for ever
if it reads `m_nCheckIntervalTime` before that is set: SetAutoConnect starts the
thread first and assigns the interval after it. `LossIsRetried` names both.

### Udp

Open posts `nPostRecv` receives; a worker that dequeues one calls OnRecv and posts
the object again. The object of a packet without bytes stays with nobody, a
failed WSARecvFrom gives it back to the pool, and one in the hands of a worker that is
killed is lost: `dropped` counts these, and `ReceivesKept` says that there is no other loss. After as many empty
datagrams as there are receives the source is deaf.

### SLBlockTcp

The listen thread accepts and pushes sockets to the runner's list, whose semaphore
wakes a thread that pops, attaches the socket to its client object and has the application process it.
The runner is opened and closed in any state. Open of an open one replaces the semaphore
and terminates the threads wherever they are (`ClearThreads`): inside Pop with the lock
(`DeadThread`), or between Pop and Attach with a socket in the hand. It may start
fewer threads than it was asked for. Close of a closed one still clears the list.
`lost` are sockets that nobody will close: those in the list when Close
clears it, and those in the hand or the client of a thread that is terminated. Sockets pushed before
the runner's Open has made the semaphore, and those whose signal went with a
terminated thread, are `unsignalled` and wait
for a signal of another. A processed socket stays open until the same thread's
next one is attached. Recv of a number of bytes goes on when `recv` returns
0, so a thread is `Stuck` in it when the client has closed.

### TcpLifecycle

Server and runner opened and closed in any order by one thread, twice each, with
their failures. Close of the runner posts the packets to quit, closes the port,
waits and kills; Close of the server closes the listening socket, waits and
kills the listen thread, then frees the blocks of the map and the pool without the lock.
`worker` and `listener` are cut where a killed thread matters: with the lock
held, with a socket or a block in hand, between closesocket and the erase.
Where the code does what C++ leaves undefined, the behaviour ends (`undefined`).
`torn` says what went wrong before: "worker" (killed inside Disconnect: `m_lock` is
held for ever, and the server's Close may free its block again), "listener" (killed with an
accepted connection: socket and block are lost), "socket" (Open after a failed Open
overwrites the listening socket), "order" (the server closed while the runner is
open; the test server closes the runner first, TestServerApp.cpp:55-56).
`CloseIsClean` says that these are all as long as no thread of the application disconnects or
sends while Close runs (the model has none that does): nothing is used after its release
unless the order was wrong or a worker was caught, and a closed server with none of the
four has nothing left. Worth knowing from the code: Open of the runner compares the
result of CreateIoCompletionPort with INVALID_HANDLE_VALUE, so a failure, NULL, is not
noticed (TcpRunner.cpp:59), nor is that of the thread group's Start; OnDisconnect is not
called for what a killed worker was disconnecting. Not in the model: the
process heap's lock and the send pool's, which a killed thread may hold too, and a handle
that is closed twice after it was given out again.

## 4. The runs

| Run | Expect | Shows |
|---|---|---|
| `TcpServer_faults` | pass | `TypeOK`, `SessionsOwnedOnce`, `HandlesAccounted`, `OnDisconnectOnce` with refusals, failed associations, broken connections, sends and an application thread that may use old handles; and `ReceiveOwnsItsBlock`, `OnlyLostClientsAreDropped`, `AttachFollowsConnection` until connections are crossed |
| `TcpServer_quiet` | pass | no application thread: `AtMostMaxSocketNum`, `LibraryCrossesNothing`, and, under fairness, `WatchedClientIsReleased`; three connections pass one after the other through two handles |
| `SLTask_life` | pass | `TypeOK`, `NoMessageUnsignalled`, `LockHolderIsAlive`, and, under fairness, `EveryMessageIsTaken`, `CloseReturns`, through two activations, the second also of a live task or after a Start that failed half way |
| `SLTcpSession_cuts` | pass | `UnpackTypeOK`, `HandedInOrder`, `NothingHeldBack` for every cut of two messages of three sizes, on two connections in turn |
| `SLTcpSession_head` | violation | `MessagesAreUnpacked`: see 6 |
| `SLMessageQueue_nodes` | pass | `TypeOK`, `NodeInOnePlace`, `BlockHasOneOwner`, and `ImplementsQueue`: the queue implements `BoundedQueue` up to the three uses that break it |
| `SendPool_sends` | pass | `TypeOK`, `SendObjectInOnePlace`, `BytesStayAsGiven` for two senders and a worker while the source is closed and opened |
| `Pools_kinds` | pass | `PoolTypeOK`, `ObjectHasOneUser`, `NothingLeaks` for each of the six kinds of pool |
| `TcpClient_calls` | pass | `TypeOK`, `ClientListens`, and, under fairness, `LossIsRetried` |
| `Udp_reopen` | pass | `TypeOK`, `ReceiveHasOneOwner`, `ReceivesKept`, and, under fairness, `DatagramIsTaken` |
| `SLBlockTcp_handover` | pass | `TypeOK`, `SocketHasOneOwner`, and, under fairness, `QueuedSocketIsTaken`, with a runner opened and closed in any state |
| `TcpLifecycle_close` | pass | `TypeOK`, `CloseIsClean` |

Bounds. Two handles and two blocks are the fewest with which a handle or a block
can be reused by a connection while another holds the second one. In `TcpServer_faults` two
connections are at work at once, or the second follows in the handle or the block of the first, and the
pool keeps one block, so that one is freed while packets still name it (that the pool
keeps its limit, or what Open put there, is a theorem and not checked here). In `TcpServer_quiet`
connections compete for one place of the map, and the third lets a reuse follow a reuse; with two
places it holds as well, but the limit is then out of reach. Two workers (`quiet`) or a worker
and an application thread (`faults`) race for one connection. `MaxConns` ends a behaviour's supply of connections, `MaxSends`
the sends under way at one time; the two are the only bounds that the code does
not have. For the task, a queue of two with three messages makes it and the semaphore full
and empty again, and two activations show what one leaves to the next.
For the session, a head of four bytes can be cut in several places and continued more than
once; the sizes are that of a head alone, of the buffer, and larger than the buffer;
two messages meet in every way, and the second connection finds what the first left.
The same run with three messages (17 million states) holds too but takes too long to
be kept.

For the message queue, three messages in nodes of a pool of two with three addresses
make nodes and blocks come back in every order, to either of two readers.
Pools have limits of none and two, and blocks of three cells with requests of up to
four: a request fits, fits with a rest, or needs memory of its own. Two
sends of two segments each compete for two objects. Two handles and two sockets make
the client connect again on the same and on another handle, with every call in between.
Udp has two receives and an object more than those, and opens twice. The blocking server has two
connections, threads and places in its list: one thread may be terminated or caught in Recv while the other
goes on, and the runner is opened twice. With three connections `TypeOK` and
`SocketHasOneOwner` hold, too. In `TcpLifecycle` the second Open finds
what the first Close left; two connections and two workers let one thread be caught with a
connection while another works, and a pool of one block overflows.

Fairness. Threads run (the scheduler is fair to a thread that can go on) and
callbacks return: weak fairness of the listener, of Disconnect in each thread,
of what follows OnRecv, of posters between Enqueue and the release, of workers
and of the owner inside Activate's Start and Close. A completion port hands out its packets in
order and any idle worker takes the next: strong fairness of the handling of each
receive's packet. Nothing is assumed of clients, of the application's
calls. A queue lock that is held by a killed thread is
never released, and CloseReturns claims something only of a Close that does not begin
with such a lock: that it leaves none behind itself. It fails when Stop does not give
its command. In `TcpClient` the two threads that call Connect need strong fairness,
because they take turns at its lock (a mutex is got by a thread that goes on asking
for it), and waits, sleeps and connect come to an end; in `Udp` and
`SLBlockTcp` a packet or a released semaphore goes to some idle thread, and the
application's OnProcess is assumed to return (strong, since it may go through Recv any number of times). Nothing is
assumed of clients, of datagrams, or of the calls an application makes.

`CHECK_DEADLOCK FALSE` is used where the clients may all be gone and the bound on
connections is reached, or no call is left to be made: then the system rests. In
`SLTask_life` everyone may also wait for a lock that a second Activate left with a thread it
terminated.

Each property comes with a variant of one definition, a plausible slip in the
code (written above the definition it varies, with the comment "Variant"),
under which TLC finds the property violated.

## 5. The proofs

Each invariant that a passing run checks, `LibraryCrossesNothing` excepted, is also a theorem, for any sets of handles, blocks, workers, threads and nodes and any
limits; so is the refinement of `BoundedQueue`. Of the constants only the named assumptions
are used: limits are natural numbers, the null values are no members of the sets they stand
beside, the sets whose members are counted are finite, and message sizes are below half a
word. No theorem has a further hypothesis: those about the server hold for any set of application
threads. Every inductive
invariant named below was first checked by TLC on the instance of the module's run.

- `TcpServer_proofs`. `TypeCorrect`: `TypeOK`, strengthened by what the threads hold
  (`TypeInv`: a thread that erases has found a block, the listener has a handle once it has
  accepted and a block once it has taken one). `SessionsOwnedOnceCorrect` and
  `HandlesAccountedCorrect` from one inductive invariant `OwnInv`. Neither is inductive
  alone: the erase needs that the entry found is still there, which follows from the lock
  (`LockInv`: a thread at "erase" holds `m_lock`, and its entry is unchanged), and that no
  second entry holds the block; the insert needs that the handle it inserts is not
  connected, which is `HandlesAccounted`. `AtMostMaxSocketNumCorrect` adds `RoomHeld`: from
  the test of the size to the insert there is room for one more, because only the listen
  thread inserts. `FreePoolBoundedCorrect`, and `OnDisconnectOnceCorrect` with `ReportInv`:
  a connection is on one handle at most, and numbers not given out yet have not been
  reported.
- `TcpServer_proofs`, from "Places" on: `ReceiveOwnsItsBlockCorrect`,
  `OnlyLostClientsAreDroppedCorrect` and `AttachFollowsConnectionCorrect`, whatever the
  application sends and disconnects, from two invariants beside `OwnInv` and `ReportInv`.
  `PlaceInv` holds always: an entry of the map leads to a block that leads back to its
  handle, an open socket that is set up has the completion key and the object of its block, and
  the listen thread knows what it is setting up unless that was closed under it. `TokenInv`
  holds until connections are crossed: what the library has begun for a connection is a
  token (an outstanding receive or send, the packet of one in a worker's hands, the
  handle a worker has read), and a token leads to a block that is allocated, and by that to the
  connection's handle or, once it is closed, to a handle that nobody has. A step
  keeps where all tokens lead (`TokensStay`) unless it gives out or frees what one of them names, and
  that is what `crossed` records (`TokensName`); a new token leads rightly because
  of `PlaceInv`. `PlaceInv` may not be left out: only because an entry leads back to its handle does a token
  that leads to a connected handle lead to the block that serves it.
- `TcpClient_proofs`: `ClientTypeCorrect` and `ClientListensCorrect` from `ClientInv`. The
  lock of Connect is held by the one thread inside it (`LockOK`), also when a kill leaves it
  held for ever; that thread invalidated `m_hSocket` when it began, nobody else assigns a
  handle to it, and PerHandle is set first, so `m_hSocket` names what PerHandle names or
  nothing (`StateOK`). The handle of a new socket may be closed under it by another thread's
  Close, but no other socket can get it meanwhile, since only Connect creates one
  (`ConnectOK`). What PerHandle names listens, or a worker or the connecting thread is about
  to post the receive (`ListensOK`); without PerHandle the claim is not inductive, since
  OnRecv posts on PerHandle whichever socket the packet was for. `CountOK` bounds the
  receives: a connection brings one into the world, which is outstanding, in the hands of a
  worker or still to be posted, so that they are never more than the sockets created.
- `TcpLifecycle_proofs`: `TypeCorrect`, and `CloseIsCleanCorrect` from `LifeInv`, which is
  three invariants for three sets of circumstances. Until a behaviour has ended in something
  undefined: who is inside a critical section has the lock, and as long as nobody was killed
  there, what is in the map is allocated and not free (`BlockInv`). If the runner is always
  closed first and no worker was caught in Disconnect: a receive that can still leave the
  port belongs to a connection whose block is in the map, and a worker that took one is
  alone with its block (`UsedInv`); this is why nothing is used after its release. If
  nothing is torn: what is allocated and open is what the map, the pool and the listen
  thread account for (`Account`).
- `SLTask_proofs`: `TypeCorrect`; `LockHolderIsAliveCorrect` from `LockInv` (the holder of
  the lock is exactly the worker inside Dequeue, or a dead thread once an Activate has
  terminated one; a worker that Stop has waited for cannot
  get there again, since the command is given and no release wakes it);
  `NoMessageUnsignalledCorrect` from `SignalInv`, which adds `QueueFits`: when the semaphore
  is full and a release is lost, its count alone covers the queue, which is no longer than
  its maximum.
- `SLMessageQueue_proofs`: `TypeCorrect`, `NodeInOnePlaceCorrect`, `BlockHasOneOwnerCorrect`
  and `ImplementsQueueCorrect` from `QueueInv`, which claims, until one of the three uses
  has broken the queue: chain and pool share out the nodes (`Linked`), every node of the
  chain holds a message (`Filled`), every block has one owner (`OneOwner`), and until a
  message has left the queue the pool's nodes are as new (`Unused`), so that an early Clear
  ends at the tail. Types depend on the rest: that a next pointer leads to a node needs
  `Linked`. The chain is a recursive function; what an Enqueue does to it is proved from the
  smallest place at which it would differ (`Least`, a number smaller than all others with a
  property, from the library's well-foundedness of the naturals), since induction itself is
  out of the prover's reach. The refinement is one lemma for each of Init, Enqueue, Dequeue,
  Clear and the end of a reader: the step is one of `BoundedQueue`, or leaves what the
  mapping shows as it was.
- `SendPool_proofs`: `TypeCorrect`, `SendObjectInOnePlaceCorrect` and
  `BytesStayAsGivenCorrect` from `PoolInv`. The places are sets here (pooled, sending, out,
  working, lost) that split what is allocated, with no hand holding what another holds
  (`OnePlace`); the bytes need in addition that a sender's object has room for its packet
  (`SenderOK`), and that a recycled object points to its own buffer as long as nobody sends
  without a copy (`BytesOK`).
- `Udp_proofs`: `TypeCorrect`, from what the application's thread knows where it is
  (`AppKnows`: among it that exit packets and the closing of the port are one call) and
  `Holding` (a worker has an object exactly in OnRecv); and `ReceiveHasOneOwnerCorrect`. One
  owner is not inductive as a count of places, so `OwnerInv` says it as a relation: the free
  pool has each object once, what is in it is allocated, not outstanding and in nobody's
  hands (`Owned`), what is outstanding is in nobody's hands, and no two threads hold the
  same object (`HandsApart`). One lemma for each thing that happens to an object (taken from
  the pool, allocated, posted or given back, dequeued, freed by Close) shows that `Owned` is
  kept for any set of held objects; the actions only say which. `ReceivesKeptCorrect` adds
  the count: Open has posted or given up a receive for each time round its loop
  (`OpenKeeps`), an object that is posted was not outstanding (`Owned`, so that the count
  does grow), and StartThreads meets no worker that has one (`WorkersKnow`).
- `SLBlockTcp_proofs`: `TypeCorrect` and `SocketHasOneOwnerCorrect` from `OwnInv`: listen
  thread, list and clients hold different sockets (`HandsApart`), what is open is what they
  hold, and connections that are new, wait to be accepted or are lost are none of theirs
  (`Strangers`), so accepting one adds a socket that nobody has. A terminated thread may take the
  head of the list with it, which is then lost and no longer in the list.
- `SLBlockTcp_proofs`, second part, about `SLTcpSession`. `UnpackTypeCorrect` from
  `UnpackTypeInv`: a call never has more bytes in `p` than `nLen` says, and the buffer never
  holds a whole message (`BufferNotWhole`), without which MessageContinues would
  step forward by a negative number. `HandedInOrderCorrect` and `NothingHeldBackCorrect` from
  `UnpackInv`, which says in terms of the stream where a clean session stands (`Standing`): what
  was handed on, the buffer and the bytes of the call are three stretches of the stream, one
  behind the other, and the call is within a long message of which exactly
  m_nNeedMsgSize bytes are missing, or in the middle of one message
  in the buffer, or between two messages (`At`). Nothing less is inductive: NewMessage reads a
  size wherever it is called, which is the size of a message only because the call stands at the end of
  one. `MessagesUnpackedWhereNoHeadIsCut` adds `InTurn` (where no message is long, the
  n-th piece is the n-th message): the comment that `SLTcpSession_head` refutes is true of
  receives that do not cut a head. The ends of the messages and FlattenSeq are recursive
  functions; that they exist, and grow with each message or piece, is proved from the
  smallest place at which they would not (`Least`), as for the chain of the queue.
- `SLTask_proofs`, second part, about `Pools`: `PoolTypeCorrect`,
  `ObjectHasOneUserCorrect` and `NothingLeaksCorrect` from `PoolInv`. Until something undefined
  has been done, no two objects overlap, whether free or held (`FreeApart`, `HeldApart`,
  `FreeNotHeld`), and all lie in what is allocated. That what a user holds stays
  allocated needs `ChunksAreWhole`: `CSmallObjectPool` and `CSLBlockAlloc` free the chunk of
  one object, and it must have no other object in it. That nothing leaks is `AllCovered`:
  every cell that is allocated is in a free object or in a held one (of the object pools and
  `CSLBlockAlloc`; the other two give memory up on purpose). Kind by kind, no held object
  reaches into what a scope has left (`ScopeLeftIsFree`), and the fixed pool's list of users
  has each object in use once (`UserListIsHeld`). The numbers of new chunks are
  chosen by rank; that such a choice exists is a lemma on finite sets of naturals (`Ranked`).

Only model-checked: `LibraryCrossesNothing` (a connection's tokens have one turn as long as only
workers disconnect, which would need an invariant of its own), and liveness,
everywhere, which the prover cannot treat
(`WatchedClientIsReleased`, `EveryMessageIsTaken`, `CloseReturns`, `LossIsRetried`,
`DatagramIsTaken`, `QueuedSocketIsTaken`). Induction itself is out of the prover's reach, too;
where a proof needs it, it goes by the least counterexample.

## 6. Where the code and its comments disagree

One disagreement is kept as a run:

- **A message is handed on before it is complete** (`SLTcpSession_head`). Where a
  receive completes a head that the one before had begun, `SLTcpSession.cpp:147-150`
  steps over the head and leaves nLen as it was. A cut head is the only cause as long as
  messages fit the buffer (`MessagesUnpackedWhereNoHeadIsCut`). The same holds without a cut head for
  messages longer than the buffer (lines 90-91 and 191-192 reset a variable and
  then use it), of which the comment says only that the layer above unpacks
  them.
Others show in the models as what a property has to leave out, and
can be seen by widening the property named:

- **A healthy client is dropped**: without `~crossed`, `OnlyLostClientsAreDropped` fails in
  `TcpServer_faults`. `TcpRunner.cpp:103` reads
  the handle from the session block of a packet when it handles the packet. After a
  Disconnect by an application thread the block may serve the next connection, and
  the packet of the old connection's aborted receive disconnects that one. The
  comment at line 99 says the client has disconnected or the connection is in
  error. The test server can come here: its connections are disconnected by the threads of a
  task when a Send fails (TestTask.cpp:18). A block or handle that is reused too early is the only cause
  (`OnlyLostClientsAreDroppedCorrect`), and a server whose application leaves the
  disconnecting to the library does not reuse one too early (`LibraryCrossesNothing`).
- **A lost client is kept**: `WatchedClientIsReleased` speaks of connections with
  a receive outstanding, because `TcpServer.cpp:234` ignores the
  result of the first WSARecv; if the connection is broken by then, no packet ever comes, and nothing
  ever tells. The comment at line 226 says that the exit notification will be had. One that is
  closed in order is noticed also then.
- **An early message is stranded**: `EveryMessageIsTaken` needs `nUnsignalled = 0`.
  PostMessage before Activate is accepted, and no signal for it survives. The test server opens its TCP server
  before it activates the task that OnRecv posts to (TestServerApp.cpp:41, 49).
- **A failed port is not noticed** (TcpRunner.cpp:59), **a thread inside Disconnect is
  killed with the lock** (TcpRunner.cpp:40-41), **a thread inside the queue or the list is
  killed with the lock by a second Activate or Open** (ThreadGroup.cpp:45), **a reconnect thread waits on an
  unset interval** (TcpClient.cpp:241, 254), **Recv of a closed client never returns**
  (SLBlockTcpClient.cpp:70): see `TcpLifecycle`, `TcpClient` and `SLBlockTcp` above.

## 7. Not modelled

The Windows service (`NTService`), the application frame and the log (`AppBase`,
`AppLog`) are input and output of the system; `SocketAPI`, `util`, the singleton and the basic
types have no state of their own. `SLTaskEx`, the blocking calls (`SLBlockObject`,
`SLBlockSession`), the active list and `TimerQueue` have no caller in the library or
its tests, so how they are meant to be used is not in the code. Of the modelled parts,
the reading of an attached object after its lock is released, the list of server addresses
of the client, an Init of the message queue that runs into an Enqueue, message sizes that an
int does not hold, an application thread that disconnects or sends while the server closes, a
failed allocation of a pool, the composition of a session with
the server that recycles it, and all addresses and bytes that no property tells apart are left out.
A hazard that no property covers carries a note that says why.
