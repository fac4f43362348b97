----------------------------- MODULE TcpServer -----------------------------
(***************************************************************************)
(* The TCP server of the library at work: CTcpServer (the listen thread,   *)
(* the map of connected sockets, the pool of free session blocks,          *)
(* Disconnect, Send and PostRecv) and the worker threads of CTcpRunner     *)
(* that serve its completion port, together with as much of Winsock and of *)
(* the application as they meet.                                           *)
(*                                                                         *)
(* A SOCKET is a number the system reuses as soon as it is closed, and a   *)
(* session block is memory that is recycled as soon as its connection is   *)
(* gone; completion packets name both.  To tell a connection from the next *)
(* one on the same handle the model numbers the connections (Conns); the   *)
(* code has no such number, so no guard below reads one except where the   *)
(* kernel itself tells connections apart.                                  *)
(*                                                                         *)
(* The state after a successful Open is the initial state; Close is not    *)
(* modelled here.                                                          *)
(***************************************************************************)
EXTENDS Integers, FiniteSets, SequencesExt

CONSTANTS
  Sockets,             \* the handles the system may give out
  Sessions,            \* the heap addresses a SOCKET_SESSION may have
  Workers,             \* the threads of the CTcpRunner
  Apps,                \* the application threads that call the server
  MaxConns,            \* bound: connections accepted in one behaviour
  MaxSends,            \* bound: sends outstanding at one time
  MaxSocketNum,        \* m_nMaxSocketNum
  MaxFreePoolNum,      \* m_nMaxFreePoolNum
  DefaultFreePoolNum,  \* m_nDefaultFreePoolNum
  Answers,             \* which unlikely answers callbacks and calls may give
  NoSocket, NoSession, NoThread

Conns   == 1 .. MaxConns
Threads == Workers \cup Apps

(* "refuse": OnAccept returns FALSE; "oom": HeapAlloc fails; "assoc": the  *)
(* ignored result of AssociateSocket is a failure; "stop": OnRecv returns  *)
(* a negative number; "reset": a client breaks the connection instead of   *)
(* closing it.                                                             *)
AnswerKinds == {"refuse", "oom", "assoc", "stop", "reset"}

ASSUME BoundsAssumption ==
  /\ MaxConns \in Nat /\ MaxSends \in Nat
  /\ MaxSocketNum \in Nat /\ MaxFreePoolNum \in Nat /\ DefaultFreePoolNum \in Nat
  /\ Answers \subseteq AnswerKinds
ASSUME NamesAssumption ==
  NoSocket \notin Sockets /\ NoSession \notin Sessions /\ NoThread \notin Threads
ASSUME FiniteAssumption == IsFiniteSet(Sockets)

VARIABLES
  m_mapSocketSession,  \* handle -> session block, NoSession where there is no entry
  m_lstFreePool,       \* the free session blocks, oldest first
  m_lock,              \* the thread inside m_lock across steps, or NoThread
  heap,                \* the session blocks that are allocated
  hSocket,             \* PerHandle.hSocket of each block
  pAttachInfo,         \* PerHandle.pAttachInfo: the object of connection c is c, none is 0
  nSendFree,           \* the length of m_sendPool's free list
  listener,            \* the listen thread: where it is and its locals
  thread,              \* the other threads: where they are and their locals
  open,                \* Winsock: the connection on each handle, 0 where it is closed
  nConns,              \*   how many connections were accepted
  client,              \*   what the peer of each connection did
  key,                 \*   the completion key each connection is associated with
  recv,                \*   the outstanding receive of each chain of receives
  sends,               \*   how many sends are outstanding on each connection
  known,               \* the handles the application has been told of
  told,                \* how often OnDisconnect was called for each connection
  crossed              \* history: a handle or a block was given out again, or a block
                       \*   freed, while something the library had begun still led to
                       \*   it; or a connection was closed before OnInitSocket

serverVars == <<m_mapSocketSession, m_lstFreePool, m_lock>>
blockVars  == <<heap, hSocket, pAttachInfo>>
netVars    == <<open, nConns, client, key>>
ioVars     == <<recv, sends, nSendFree>>
appVars    == <<known, told, crossed>>
vars == <<serverVars, blockVars, netVars, ioVars, appVars, listener, thread>>

----------------------------------------------------------------------------
(* Winsock and the heap, as the code uses them.                            *)

IsOpen(c) == \E h \in Sockets : open[h] = c

(* A receive is posted by the listen thread for a new connection and again *)
(* by the worker that handled its completion.  That succession is a chain, *)
(* numbered by the connection it was started for.  `on' is the connection  *)
(* the receive is posted on, `io' the block whose OVERLAPPED and buffer it *)
(* uses, `got' that bytes have arrived for it.                             *)
NoRecv == [on |-> 0, io |-> NoSession, got |-> FALSE]

IsSocket(h) == h \in Sockets /\ open[h] # 0
CallFails(h) == IF IsSocket(h) THEN client[open[h]] = "reset" ELSE TRUE

(* What a read of a block's hSocket may give: memory that was freed holds  *)
(* anything.                                                               *)
HandleIn(s) == IF s \in heap THEN {hSocket[s]} ELSE Sockets \cup {NoSocket}

(* An aborted or failed operation completes with no bytes, and so does a   *)
(* receive when the peer has closed.                                       *)
Ended(c) == ~IsOpen(c) \/ client[c] # "up"

(* What the library has begun and not done leads to blocks, and by them to *)
(* handles: an outstanding receive by its OVERLAPPED and its key, a send   *)
(* by its key, a worker by the packet it holds or the handle it has read.  *)
NamedBlocks ==
  {s \in Sessions :
     \/ \E c \in Conns : recv[c].on # 0 /\ s \in {recv[c].io, key[recv[c].on]}
     \/ \E c \in Conns : sends[c] > 0 /\ s = key[c]
     \/ \E t \in Threads : thread[t].pc = "onrecv" /\ s \in {thread[t].s, thread[t].io}}
NamedHandles ==
  {hSocket[s] : s \in NamedBlocks \cap heap}
    \cup {thread[t].h : t \in {u \in Threads : /\ thread[u].pc = "disconnect"
                                             /\ thread[u].why \in {"ended", "recv"}}}
CrossedIf(early) == crossed' = (crossed \/ early)

----------------------------------------------------------------------------
(* The listen thread, CTcpServer::ListenProc.                              *)

Accepting == [pc |-> "accept", h |-> NoSocket, s |-> NoSession, c |-> 0]

At(label)     == listener.pc = label
Goto(label)   == listener' = [listener EXCEPT !.pc = label]
CloseSocket   == open' = [open EXCEPT ![listener.h] = 0]

WSAAccept ==
  /\ At("accept")
  /\ nConns < MaxConns
  /\ \E h \in Sockets :
       /\ open[h] = 0
       /\ open' = [open EXCEPT ![h] = nConns + 1]
       /\ listener' = [pc |-> "accepted", h |-> h, s |-> NoSession, c |-> nConns + 1]
       /\ CrossedIf(h \in NamedHandles)
  /\ nConns' = nConns + 1
  /\ UNCHANGED <<serverVars, blockVars, client, key, ioVars, known, told, thread>>

OnAccept ==
  /\ At("accepted")
  /\ known' = known \cup {listener.h}
  /\ \/ /\ Goto("size")
        /\ UNCHANGED open
     \/ /\ "refuse" \in Answers
        /\ CloseSocket
        /\ listener' = Accepting
  /\ UNCHANGED <<serverVars, blockVars, nConns, client, key, ioVars, told, crossed, thread>>

Connected == {h \in Sockets : m_mapSocketSession[h] # NoSession}

(* Variant: one connection too many is let in.                             *)
CheckSizeOffByOne ==
  /\ At("size")
  /\ IF Cardinality(Connected) > MaxSocketNum
       THEN CloseSocket /\ listener' = Accepting
       ELSE Goto("take") /\ UNCHANGED open
  /\ UNCHANGED <<serverVars, blockVars, nConns, client, key, ioVars, appVars, thread>>

(* The size of the map is read without the lock.                           *)
CheckSize ==
  /\ At("size")
  /\ IF Cardinality(Connected) >= MaxSocketNum
       THEN CloseSocket /\ listener' = Accepting
       ELSE Goto("take") /\ UNCHANGED open
  /\ UNCHANGED <<serverVars, blockVars, nConns, client, key, ioVars, appVars, thread>>

(* Variant: a recycled block keeps the handle of its last connection.      *)
TakeFromPoolOldHandle ==
  /\ At("take")
  /\ m_lock = NoThread
  /\ IF m_lstFreePool # <<>>
       THEN /\ m_lstFreePool' = Tail(m_lstFreePool)
            /\ listener' = [listener EXCEPT !.pc = "associate", !.s = Head(m_lstFreePool)]
            /\ CrossedIf(Head(m_lstFreePool) \in NamedBlocks)
       ELSE Goto("alloc") /\ UNCHANGED <<m_lstFreePool, crossed>>
  /\ UNCHANGED <<m_mapSocketSession, m_lock, blockVars, netVars, ioVars, known, told, thread>>

TakeFromPool ==
  /\ At("take")
  /\ m_lock = NoThread
  /\ IF m_lstFreePool # <<>>
       THEN LET s == Head(m_lstFreePool)
            IN  /\ m_lstFreePool' = Tail(m_lstFreePool)
                /\ hSocket' = [hSocket EXCEPT ![s] = listener.h]
                /\ listener' = [listener EXCEPT !.pc = "associate", !.s = s]
                /\ CrossedIf(s \in NamedBlocks)
       ELSE Goto("alloc") /\ UNCHANGED <<m_lstFreePool, hSocket, crossed>>
  /\ UNCHANGED <<m_mapSocketSession, m_lock, heap, pAttachInfo, netVars, ioVars, known, told, thread>>

AllocSession ==
  /\ At("alloc")
  /\ \/ \E s \in Sessions \ heap :
          /\ heap' = heap \cup {s}
          /\ hSocket' = [hSocket EXCEPT ![s] = listener.h]
          /\ pAttachInfo' = [pAttachInfo EXCEPT ![s] = 0]
          /\ listener' = [listener EXCEPT !.pc = "associate", !.s = s]
          /\ UNCHANGED open
     \/ /\ "oom" \in Answers \/ heap = Sessions
        /\ CloseSocket
        /\ listener' = Accepting
        /\ UNCHANGED blockVars
  /\ UNCHANGED <<serverVars, nConns, client, key, ioVars, appVars, thread>>

AssociateSocket ==
  /\ At("associate")
  /\ \/ key' = [key EXCEPT ![listener.c] = listener.s]
     \/ "assoc" \in Answers /\ UNCHANGED key
  /\ Goto("insert")
  /\ UNCHANGED <<serverVars, blockVars, open, nConns, client, ioVars, appVars, thread>>

(* std::map::insert leaves an existing entry alone.                        *)
InsertSession ==
  /\ At("insert")
  /\ m_lock = NoThread
  /\ m_mapSocketSession' =
       IF listener.h \in Connected THEN m_mapSocketSession
       ELSE [m_mapSocketSession EXCEPT ![listener.h] = listener.s]
  /\ Goto("init")
  /\ UNCHANGED <<m_lstFreePool, m_lock, blockVars, netVars, ioVars, appVars, thread>>

(* Variant: the object is stored only where none is attached yet.          *)
OnInitSocketIfEmpty ==
  /\ At("init")
  /\ pAttachInfo' = IF listener.s \in heap /\ pAttachInfo[listener.s] = 0
                      THEN [pAttachInfo EXCEPT ![listener.s] = listener.c]
                      ELSE pAttachInfo
  /\ Goto("recv")
  /\ UNCHANGED <<serverVars, heap, hSocket, netVars, ioVars, appVars, thread>>

(* The application stores its object for the connection in the session.    *)
OnInitSocket ==
  /\ At("init")
  /\ pAttachInfo' = IF listener.s \in heap
                      THEN [pAttachInfo EXCEPT ![listener.s] = listener.c]
                      ELSE pAttachInfo
  /\ Goto("recv")
  /\ UNCHANGED <<serverVars, heap, hSocket, netVars, ioVars, appVars, thread>>

(* The first receive; the result of WSARecv is not looked at.              *)
FirstRecv ==
  /\ At("recv")
  /\ \/ /\ IsSocket(listener.h)
        /\ recv' = [recv EXCEPT ![listener.c] =
                      [on |-> open[listener.h], io |-> listener.s, got |-> FALSE]]
     \/ /\ CallFails(listener.h)
        /\ UNCHANGED recv
  /\ listener' = Accepting
  /\ UNCHANGED <<serverVars, blockVars, netVars, sends, nSendFree, appVars, thread>>

ListenProc ==
  \/ WSAAccept \/ OnAccept \/ CheckSize \/ TakeFromPool \/ AllocSession
  \/ AssociateSocket \/ InsertSession \/ OnInitSocket \/ FirstRecv

----------------------------------------------------------------------------
(* CTcpServer::Disconnect, run by workers and by application threads.      *)
(* `why' is what made the thread call it, `s', `a' and `c' are the block,  *)
(* the attached object and the connection it found.                        *)

Idle == [pc |-> "idle", h |-> NoSocket, force |-> FALSE, why |-> "none",
         s |-> NoSession, io |-> NoSession, a |-> 0, c |-> 0]

Becomes(t, state)        == thread' = [thread EXCEPT ![t] = state]
Disconnecting(h, why, f) == [Idle EXCEPT !.pc = "disconnect", !.h = h, !.why = why, !.force = f]

(* Variant: a socket that is not in the map is reported all the same.      *)
DisconnectFindNoReturn(t) ==
  /\ thread[t].pc = "disconnect"
  /\ m_lock = NoThread
  /\ LET h == thread[t].h
     IN  IF h \in Connected
           THEN /\ m_lock' = t
                /\ open' = [open EXCEPT ![h] = 0]
                /\ Becomes(t, [thread[t] EXCEPT !.pc = "erase",
                                                !.s = m_mapSocketSession[h],
                                                !.a = pAttachInfo[m_mapSocketSession[h]],
                                                !.c = open[h]])
           ELSE /\ Becomes(t, IF IsSocket(h) THEN [thread[t] EXCEPT !.pc = "notify", !.c = open[h]]
                              ELSE Idle)
                /\ UNCHANGED <<m_lock, open>>
  /\ UNCHANGED <<m_mapSocketSession, m_lstFreePool, blockVars, nConns, client, key,
                 ioVars, appVars, listener>>

(* Variant: the lock is given back between the closesocket, whose result   *)
(* is looked at, and the erase.                                            *)
DisconnectFindUnlocks(t) ==
  /\ thread[t].pc = "disconnect"
  /\ m_lock = NoThread
  /\ LET h == thread[t].h
     IN  IF h \in Connected /\ IsSocket(h)
           THEN /\ open' = [open EXCEPT ![h] = 0]
                /\ Becomes(t, [thread[t] EXCEPT !.pc = "erase",
                                                !.s = m_mapSocketSession[h],
                                                !.a = pAttachInfo[m_mapSocketSession[h]],
                                                !.c = open[h]])
                /\ CrossedIf(listener.pc = "init" /\ listener.h = h)
           ELSE /\ Becomes(t, Idle)
                /\ UNCHANGED <<open, crossed>>
  /\ UNCHANGED <<m_mapSocketSession, m_lstFreePool, m_lock, blockVars, nConns, client, key,
                 ioVars, known, told, listener>>

(* Lock, find and, when the socket is there, close it.                     *)
DisconnectFind(t) ==
  /\ thread[t].pc = "disconnect"
  /\ m_lock = NoThread
  /\ LET h == thread[t].h
     IN  IF h \in Connected
           THEN /\ m_lock' = t
                /\ open' = [open EXCEPT ![h] = 0]
                /\ Becomes(t, [thread[t] EXCEPT !.pc = "erase",
                                                !.s = m_mapSocketSession[h],
                                                !.a = pAttachInfo[m_mapSocketSession[h]],
                                                !.c = open[h]])
                /\ CrossedIf(listener.pc = "init" /\ listener.h = h)
           ELSE /\ Becomes(t, Idle)
                /\ UNCHANGED <<m_lock, open, crossed>>
  /\ UNCHANGED <<m_mapSocketSession, m_lstFreePool, blockVars, nConns, client, key,
                 ioVars, known, told, listener>>

(* Variant: the entry is erased only when the block is freed.              *)
DisconnectEraseKeepsEntry(t) ==
  /\ thread[t].pc = "erase"
  /\ IF Len(m_lstFreePool) >= MaxFreePoolNum
       THEN /\ heap' = heap \ {thread[t].s}
            /\ m_mapSocketSession' = [m_mapSocketSession EXCEPT ![thread[t].h] = NoSession]
            /\ UNCHANGED m_lstFreePool
       ELSE /\ m_lstFreePool' = Append(m_lstFreePool, thread[t].s)
            /\ UNCHANGED <<heap, m_mapSocketSession>>
  /\ m_lock' = NoThread
  /\ Becomes(t, IF thread[t].force THEN Idle ELSE [thread[t] EXCEPT !.pc = "notify"])
  /\ UNCHANGED <<hSocket, pAttachInfo, netVars, ioVars, appVars, listener>>

(* Recycle or free the block, erase the entry, unlock.                     *)
DisconnectErase(t) ==
  /\ thread[t].pc = "erase"
  /\ LET s == thread[t].s
     IN  IF Len(m_lstFreePool) >= MaxFreePoolNum
           THEN /\ heap' = heap \ {s}
                /\ hSocket' = [hSocket EXCEPT ![s] = NoSocket]
                /\ pAttachInfo' = [pAttachInfo EXCEPT ![s] = 0]
                /\ CrossedIf(s \in NamedBlocks)
                /\ UNCHANGED m_lstFreePool
           ELSE /\ m_lstFreePool' = Append(m_lstFreePool, s)
                /\ UNCHANGED <<blockVars, crossed>>
  /\ m_mapSocketSession' = [m_mapSocketSession EXCEPT ![thread[t].h] = NoSession]
  /\ m_lock' = NoThread
  /\ Becomes(t, IF thread[t].force THEN Idle ELSE [thread[t] EXCEPT !.pc = "notify"])
  /\ UNCHANGED <<netVars, ioVars, known, told, listener>>

OnDisconnect(t) ==
  /\ thread[t].pc = "notify"
  /\ told' = [told EXCEPT ![thread[t].c] = @ + 1]
  /\ Becomes(t, Idle)
  /\ UNCHANGED <<serverVars, blockVars, netVars, ioVars, known, crossed, listener>>

Disconnect(t) == DisconnectFind(t) \/ DisconnectErase(t) \/ OnDisconnect(t)

----------------------------------------------------------------------------
(* A worker of CTcpRunner: the body of the loop of Run.  A packet carries  *)
(* the key of its socket, and the handle is read from the block it names.  *)

DequeueEndedRecv(w, c) ==
  /\ thread[w] = Idle
  /\ recv[c].on # 0 /\ ~recv[c].got
  /\ Ended(recv[c].on) /\ key[recv[c].on] # NoSession
  /\ \E h \in HandleIn(key[recv[c].on]) : Becomes(w, Disconnecting(h, "ended", FALSE))
  /\ recv' = [recv EXCEPT ![c] = NoRecv]
  /\ UNCHANGED <<serverVars, blockVars, netVars, sends, nSendFree, appVars, listener>>

(* The send object of an aborted send is not given back to the pool.       *)
DequeueEndedSend(w, c) ==
  /\ thread[w] = Idle
  /\ sends[c] > 0 /\ Ended(c) /\ key[c] # NoSession
  /\ \E h \in HandleIn(key[c]) : Becomes(w, Disconnecting(h, "ended", FALSE))
  /\ sends' = [sends EXCEPT ![c] = @ - 1]
  /\ UNCHANGED <<serverVars, blockVars, netVars, recv, nSendFree, appVars, listener>>

(* CSocketSendPool: push frees the object when the list is full, pop       *)
(* allocates one when it is empty.                                         *)
PushSend == nSendFree' = IF nSendFree < MaxSocketNum THEN nSendFree + 1 ELSE nSendFree

(* Variant: the free list is not tested before the pop.                    *)
PopSendUntested == nSendFree' = nSendFree - 1

PopSend == nSendFree' = IF nSendFree > 0 THEN nSendFree - 1 ELSE nSendFree

PostSend(w, c) ==
  /\ thread[w] = Idle
  /\ sends[c] > 0 /\ key[c] # NoSession
  /\ sends' = [sends EXCEPT ![c] = @ - 1]
  /\ PushSend
  /\ UNCHANGED <<serverVars, blockVars, netVars, recv, appVars, listener, thread>>

OnRecv(w, c) ==
  /\ thread[w] = Idle
  /\ recv[c].on # 0 /\ recv[c].got
  /\ key[recv[c].on] # NoSession
  /\ Becomes(w, [Idle EXCEPT !.pc = "onrecv", !.s = key[recv[c].on], !.io = recv[c].io, !.c = c])
  /\ recv' = [recv EXCEPT ![c] = NoRecv]
  /\ UNCHANGED <<serverVars, blockVars, netVars, sends, nSendFree, appVars, listener>>

(* Variant: a receive that is pending counts as failed.                    *)
PostRecvPendingIsFailure(w) ==
  /\ thread[w].pc = "onrecv"
  /\ \E h \in HandleIn(thread[w].s) :
       /\ \/ /\ IsSocket(h)
             /\ recv' = [recv EXCEPT ![thread[w].c] =
                           [on |-> open[h], io |-> thread[w].io, got |-> FALSE]]
          \/ CallFails(h) /\ UNCHANGED recv
       /\ Becomes(w, Disconnecting(h, "recv", FALSE))
  /\ UNCHANGED <<serverVars, blockVars, netVars, sends, nSendFree, appVars, listener>>

(* Variant: a receive that cannot be posted is not noticed.                *)
PostRecvUnchecked(w) ==
  /\ thread[w].pc = "onrecv"
  /\ \E h \in HandleIn(thread[w].s) :
       \/ /\ IsSocket(h)
          /\ recv' = [recv EXCEPT ![thread[w].c] =
                        [on |-> open[h], io |-> thread[w].io, got |-> FALSE]]
       \/ CallFails(h) /\ UNCHANGED recv
  /\ Becomes(w, Idle)
  /\ UNCHANGED <<serverVars, blockVars, netVars, sends, nSendFree, appVars, listener>>

(* OnRecv has returned; the handle is read from the block once more.       *)
PostRecv(w) ==
  /\ thread[w].pc = "onrecv"
  /\ \E h \in HandleIn(thread[w].s) :
       \/ /\ IsSocket(h)
          /\ recv' = [recv EXCEPT ![thread[w].c] =
                        [on |-> open[h], io |-> thread[w].io, got |-> FALSE]]
          /\ Becomes(w, Idle)
       \/ /\ CallFails(h)
          /\ Becomes(w, Disconnecting(h, "recv", FALSE))
          /\ UNCHANGED recv
  /\ UNCHANGED <<serverVars, blockVars, netVars, sends, nSendFree, appVars, listener>>

(* Variant: a connection whose OnRecv asks for no more is taken for lost.  *)
StopRecvDisconnects(w) ==
  /\ thread[w].pc = "onrecv"
  /\ "stop" \in Answers
  /\ \E h \in HandleIn(thread[w].s) : Becomes(w, Disconnecting(h, "recv", FALSE))
  /\ UNCHANGED <<serverVars, blockVars, netVars, ioVars, appVars, listener>>

StopRecv(w) ==
  /\ thread[w].pc = "onrecv"
  /\ "stop" \in Answers
  /\ Becomes(w, Idle)
  /\ UNCHANGED <<serverVars, blockVars, netVars, ioVars, appVars, listener>>

Run(w) ==
  \/ PostRecv(w) \/ StopRecv(w)
  \/ \E c \in Conns :
       DequeueEndedRecv(w, c) \/ DequeueEndedSend(w, c) \/ PostSend(w, c) \/ OnRecv(w, c)

----------------------------------------------------------------------------
(* The application, on its own threads, with handles it has been told of:  *)
(* they may have been closed since, and given out again.                   *)

Outstanding == SumFunction(sends)

(* One packet of Send.  On failure the send object goes back to the pool   *)
(* and the socket is disconnected.                                         *)
Send(t, h) ==
  /\ thread[t] = Idle
  /\ \/ /\ IsSocket(h)
        /\ Outstanding < MaxSends
        /\ sends' = [sends EXCEPT ![open[h]] = @ + 1]
        /\ PopSend
        /\ UNCHANGED thread
     \/ /\ CallFails(h)
        /\ nSendFree' = IF nSendFree = 0 /\ MaxSocketNum > 0 THEN 1 ELSE nSendFree
        /\ Becomes(t, Disconnecting(h, "send", FALSE))
        /\ UNCHANGED sends
  /\ UNCHANGED <<serverVars, blockVars, netVars, recv, appVars, listener>>

AppDisconnect(t, h) ==
  /\ thread[t] = Idle
  /\ \E force \in BOOLEAN : Becomes(t, Disconnecting(h, "app", force))
  /\ UNCHANGED <<serverVars, blockVars, netVars, ioVars, appVars, listener>>

(* The application takes its object away before it frees it.               *)
SetAttachInfo(t, h) ==
  /\ thread[t] = Idle
  /\ m_lock = NoThread
  /\ h \in Connected
  /\ pAttachInfo' = [pAttachInfo EXCEPT ![m_mapSocketSession[h]] = 0]
  /\ UNCHANGED <<serverVars, heap, hSocket, netVars, ioVars, appVars, listener, thread>>

App(t) == \E h \in known : Send(t, h) \/ AppDisconnect(t, h) \/ SetAttachInfo(t, h)

----------------------------------------------------------------------------
(* The peers.                                                              *)

ClientSends(c) ==
  /\ IsOpen(c) /\ client[c] = "up"
  /\ \E r \in Conns :
       /\ recv[r].on = c /\ ~recv[r].got
       /\ recv' = [recv EXCEPT ![r].got = TRUE]
  /\ UNCHANGED <<serverVars, blockVars, netVars, sends, nSendFree, appVars, listener, thread>>

ClientLeaves(c) ==
  /\ IsOpen(c) /\ client[c] = "up"
  /\ \E how \in {"closed"} \cup (Answers \cap {"reset"}) : client' = [client EXCEPT ![c] = how]
  /\ UNCHANGED <<serverVars, blockVars, open, nConns, key, ioVars, appVars, listener, thread>>

----------------------------------------------------------------------------

(* Open has filled the free pool and started the listen thread.            *)
Init ==
  /\ m_mapSocketSession = [h \in Sockets |-> NoSession]
  /\ m_lstFreePool \in [1 .. DefaultFreePoolNum -> Sessions]
  /\ IsInjective(m_lstFreePool)
  /\ m_lock = NoThread
  /\ heap = ToSet(m_lstFreePool)
  /\ hSocket = [s \in Sessions |-> NoSocket]
  /\ pAttachInfo = [s \in Sessions |-> 0]
  /\ nSendFree = 0
  /\ listener = Accepting
  /\ thread = [t \in Threads |-> Idle]
  /\ open = [h \in Sockets |-> 0]
  /\ nConns = 0
  /\ client = [c \in Conns |-> "up"]
  /\ key = [c \in Conns |-> NoSession]
  /\ recv = [c \in Conns |-> NoRecv]
  /\ sends = [c \in Conns |-> 0]
  /\ known = {}
  /\ told = [c \in Conns |-> 0]
  /\ crossed = FALSE

Next ==
  \/ ListenProc
  \/ \E t \in Threads : Disconnect(t)
  \/ \E w \in Workers : Run(w)
  \/ \E t \in Apps : App(t)
  \/ \E c \in Conns : ClientSends(c) \/ ClientLeaves(c)

Spec == Init /\ [][Next]_vars

(* The scheduler runs every thread; a completion port hands its packets    *)
(* out in order, so the packet of a receive is not passed over for ever;   *)
(* callbacks return.  What clients and the application do is their own     *)
(* affair.                                                                 *)
Fairness ==
  /\ WF_vars(ListenProc)
  /\ \A t \in Threads : WF_vars(Disconnect(t))
  /\ \A w \in Workers : WF_vars(PostRecv(w) \/ StopRecv(w))
  /\ \A c \in Conns : SF_vars(\E w \in Workers : DequeueEndedRecv(w, c) \/ OnRecv(w, c))

FairSpec == Spec /\ Fairness

----------------------------------------------------------------------------
(* What holds whatever the application does.                               *)

ListenerStates ==
  [pc : {"accept", "accepted", "size", "take", "alloc", "associate", "insert", "init", "recv"},
   h : Sockets \cup {NoSocket}, s : Sessions \cup {NoSession}, c : 0 .. MaxConns]

ThreadStates ==
  [pc : {"idle", "disconnect", "erase", "notify", "onrecv"},
   h : Sockets \cup {NoSocket}, force : BOOLEAN, why : {"none", "ended", "recv", "send", "app"},
   s : Sessions \cup {NoSession}, io : Sessions \cup {NoSession},
   a : 0 .. MaxConns, c : 0 .. MaxConns]

Receives == [on : 0 .. MaxConns, io : Sessions \cup {NoSession}, got : BOOLEAN]

TypeOK ==
  /\ m_mapSocketSession \in [Sockets -> Sessions \cup {NoSession}]
  /\ m_lstFreePool \in Seq(Sessions)
  /\ m_lock \in Threads \cup {NoThread}
  /\ heap \subseteq Sessions
  /\ hSocket \in [Sessions -> Sockets \cup {NoSocket}]
  /\ pAttachInfo \in [Sessions -> 0 .. MaxConns]
  /\ nSendFree \in 0 .. MaxSocketNum
  /\ listener \in ListenerStates
  /\ thread \in [Threads -> ThreadStates]
  /\ open \in [Sockets -> 0 .. MaxConns]
  /\ nConns \in 0 .. MaxConns
  /\ client \in [Conns -> {"up", "closed", "reset"}]
  /\ key \in [Conns -> Sessions \cup {NoSession}]
  /\ recv \in [Conns -> Receives]
  /\ sends \in [Conns -> Nat]
  /\ known \subseteq Sockets
  /\ told \in [Conns -> Nat]
  /\ crossed \in BOOLEAN

(* The blocks of the map, and the one the listen thread has taken for a    *)
(* connection that is not in the map yet.                                  *)
InMap  == {m_mapSocketSession[h] : h \in Connected}
InHand == IF listener.pc \in {"associate", "insert"} THEN {listener.s} ELSE {}

(* Every allocated session block is in exactly one place: one entry of the *)
(* map, one place of the free pool, or the listen thread's hand.  So no    *)
(* block serves two connections, none is freed while it is in use by the   *)
(* map, none is freed twice and none is lost (TcpServer.cpp:185-220,       *)
(* 389-428).                                                               *)
SessionsOwnedOnce ==
  /\ \A g, h \in Connected : m_mapSocketSession[g] = m_mapSocketSession[h] => g = h
  /\ IsInjective(m_lstFreePool)
  /\ InMap \cap ToSet(m_lstFreePool) = {}
  /\ InHand \cap (InMap \cup ToSet(m_lstFreePool)) = {}
  /\ heap = InMap \cup ToSet(m_lstFreePool) \cup InHand

(* The handle Disconnect has closed and not yet erased, and the one the    *)
(* listen thread has accepted and not yet inserted.                        *)
Closing == {thread[t].h : t \in {u \in Threads : thread[u].pc = "erase"}}
Arriving == IF listener.pc \in {"accepted", "size", "take", "alloc", "associate", "insert"}
              THEN {listener.h} ELSE {}

(* The open sockets are those of the map and the one being accepted, and   *)
(* the latter is not in the map except while Disconnect is about to erase  *)
(* the entry of the closed socket that had the same handle: no socket      *)
(* leaks, and an insert never meets an old entry.                          *)
HandlesAccounted ==
  /\ {h \in Sockets : open[h] # 0} = (Connected \ Closing) \cup Arriving
  /\ Arriving \cap (Connected \ Closing) = {}

(* The number of connections stays within m_nMaxSocketNum although the     *)
(* size of the map is read without the lock that changes it, several steps *)
(* before the insert (TcpServer.cpp:164).                                  *)
AtMostMaxSocketNum == Cardinality(Connected) <= MaxSocketNum

(* The free pool never grows beyond m_nMaxFreePoolNum, or beyond what Open *)
(* put there.                                                              *)
FreePoolBounded ==
  Len(m_lstFreePool) <= MaxFreePoolNum \/ Len(m_lstFreePool) <= DefaultFreePoolNum

(* A connection is reported to the application at most once, by one        *)
(* thread, and only after its socket was closed, however many threads      *)
(* disconnect it at the same time.                                         *)
Reporters(c) == {t \in Threads : thread[t].pc \in {"erase", "notify"} /\ thread[t].c = c}
OnDisconnectOnce ==
  \A c \in Conns :
    /\ told[c] \in {0, 1}
    /\ \A t, u \in Reporters(c) : t = u
    /\ told[c] = 1 => Reporters(c) = {}
    /\ IsOpen(c) => told[c] = 0 /\ Reporters(c) = {}

----------------------------------------------------------------------------
(* What holds until connections are crossed: until a handle or a block is  *)
(* given out again, or a block freed, that a packet still to come or a     *)
(* worker leads to, or a connection is closed between its entry in the map *)
(* and OnInitSocket.  The application may send, disconnect and take its    *)
(* objects away at any time, and the packets of the connections it breaks  *)
(* off are still handled.                                                  *)

ConnectedAs(c, s) ==
  \E h \in Sockets : open[h] = c /\ m_mapSocketSession[h] = s /\ hSocket[s] = h

(* An outstanding receive is on the connection whose chain it continues,   *)
(* its OVERLAPPED and buffer are in a block that is not freed, and the     *)
(* completion key leads to the same block.  While the connection is open   *)
(* that is its block in the map; once it is closed the block is in no use. *)
(* So no two receives share an OVERLAPPED, and none writes into memory     *)
(* that is free or serves another connection.                              *)
ReceiveOwnsItsBlock ==
  ~crossed =>
    \A c \in Conns :
      recv[c].on # 0 =>
        /\ recv[c].on = c /\ recv[c].io \in heap
        /\ key[c] \in {recv[c].io, NoSession}
        /\ IF IsOpen(c) THEN ConnectedAs(c, recv[c].io)
           ELSE /\ recv[c].io \notin InHand
                /\ \A h \in Connected : m_mapSocketSession[h] = recv[c].io => h \in Closing

(* A socket that a worker disconnects because an operation on it ended or  *)
(* failed is one whose client had left: the handle it reads from the block *)
(* is still that of the connection, or of none (TcpRunner.cpp:86-122).     *)
OnlyLostClientsAreDropped ==
  ~crossed =>
    \A t \in Threads :
      thread[t].pc = "erase" /\ thread[t].why \in {"ended", "recv"} => client[thread[t].c] # "up"

(* OnRecv and OnDisconnect are handed the object that OnInitSocket         *)
(* attached for the same connection, or none where the application has     *)
(* taken it away, although the block that carries it is recycled with the  *)
(* object of its last connection still in it.                              *)
AttachFollowsConnection ==
  ~crossed =>
    /\ \A t \in Threads : thread[t].pc = "notify" => thread[t].a \in {thread[t].c, 0}
    /\ \A c \in Conns : recv[c].got => key[c] = NoSession \/ pAttachInfo[key[c]] \in {c, 0}

(* The library on its own crosses no connections: without a thread of the  *)
(* application that sends or disconnects, a worker closes a socket only    *)
(* with the last thing that led to it or its block.                        *)
LibraryCrossesNothing == Apps = {} => ~crossed

(* Once a receive is outstanding on a connection, the client's leaving is  *)
(* noticed: the connection leaves the map and its handle is closed.        *)
WatchedClientIsReleased ==
  \A c \in Conns :
    (recv[c].on = c /\ key[c] # NoSession /\ client[c] # "up") ~> ~IsOpen(c)
=============================================================================
