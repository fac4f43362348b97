---------------------------- MODULE TcpLifecycle ----------------------------
(***************************************************************************)
(* CTcpServer and CTcpRunner from one Open to the next: what Close does to *)
(* threads that are at work, and what it leaves behind.  TcpServer shows   *)
(* the server between Open and Close with every operation; here is so much *)
(* of the listen thread and the workers as holds a lock, a socket or a     *)
(* session block when it is killed, or uses one that Close has freed.      *)
(*                                                                         *)
(* The application opens and closes both in any order, and opens a server  *)
(* again only when it was closed or its last Open failed.  It has one      *)
(* thread here, and neither sends nor disconnects.  A connection stands    *)
(* for its socket, too.  Where the code does what C++ leaves        *)
(* undefined the behaviour ends.                                           *)
(***************************************************************************)
EXTENDS Integers, FiniteSets

CONSTANTS
  MaxConns,            \* bound: the connections that are made
  MaxOpens,            \* bound: calls of Open of the server, and of the runner
  Sessions,            \* the heap addresses a SOCKET_SESSION may have
  Workers,             \* the threads of the runner
  m_nMaxFreePoolNum, m_nDefaultFreePoolNum,
  Answers,             \* which calls may fail
  NoSession

Conns  == 1 .. MaxConns
NoConn == 0

(* Threads by name, for m_lock: the listen thread is one.                  *)
Listener == "listener"
NoThread == "none"

ASSUME BoundsAssumption ==
  /\ MaxConns \in Nat /\ MaxOpens \in Nat
  /\ m_nMaxFreePoolNum \in Nat /\ m_nDefaultFreePoolNum \in Nat
  /\ Answers \subseteq {"socketfails", "bindfails", "oom", "portfails", "threadfails"}
  /\ NoSession \notin Sessions
ASSUME NamesAssumption == Listener \notin Workers /\ NoThread \notin Workers

VARIABLES
  m_hCompletionPort,   \* the port of the runner, 0 is NULL
  worker,              \* where each worker is
  at,                  \*   and the session block it works on
  m_hListenSocket,     \* the listening socket of the server, 0 is NULL, -1 INVALID_SOCKET
  listening,           \* the listening sockets that are open
  listener,            \* where the listen thread is
  hClientSocket,       \*   the connection it holds
  pSocketSession,      \*   and the block
  stopListen,          \*   its m_ThreadCmd is stop
  m_lock,              \* the thread that holds the server's lock
  m_mapSocketSession,  \* the block of each connection in the map
  m_lstFreePool,       \* the free session blocks
  heap,                \* the session blocks that are allocated
  hSocket,             \* PerHandle.hSocket of each block
  open,                \* the connections whose socket is open
  left,                \* the connections the client has closed
  key,                 \* the block each connection was associated with, and the port
  recv,                \* the receive of each connection
  nConns, opened,      \* how many connections were made, how often Open was called
  owner,               \* where the thread is that opens and closes
  torn,                \* history: what went wrong with a Close or an Open
  undefined            \* what C++ leaves undefined has been done

runnerVars == <<m_hCompletionPort, worker, at>>
listenVars == <<listener, hClientSocket, pSocketSession>>
blockVars  == <<m_mapSocketSession, m_lstFreePool, heap, hSocket>>
ioVars     == <<key, recv>>
ownerVars  == <<m_hListenSocket, listening, stopListen, opened, owner, torn>>
vars == <<runnerVars, listenVars, blockVars, ioVars, ownerVars, m_lock, open, left, nConns, undefined>>

Alive   == {w \in Workers : worker[w] # "none"}
InMap   == {m_mapSocketSession[c] : c \in Conns} \ {NoSession}
Walking == owner = "walk"

Goes(w, label) == worker' = [worker EXCEPT ![w] = label]
Listens(label) == listener' = label

----------------------------------------------------------------------------
(* The listen thread, CTcpServer::ListenProc.                              *)

IsStop ==
  /\ listener = "check"
  /\ Listens(IF stopListen THEN "none" ELSE "accept")
  /\ UNCHANGED <<hClientSocket, pSocketSession, runnerVars, blockVars, ioVars, ownerVars, m_lock, open, left,
                 nConns, undefined>>

(* WSAAccept waits for a client, and fails when there is no socket.        *)
WSAAccept ==
  /\ listener = "accept"
  /\ \/ /\ m_hListenSocket \in listening /\ nConns < MaxConns
        /\ nConns' = nConns + 1
        /\ hClientSocket' = nConns' /\ open' = open \cup {nConns'}
        /\ Listens("take")
     \/ /\ m_hListenSocket \notin listening
        /\ Listens("check")
        /\ UNCHANGED <<nConns, hClientSocket, open>>
  /\ UNCHANGED <<pSocketSession, runnerVars, blockVars, ioVars, ownerVars, m_lock, left, undefined>>

TakeFromPool ==
  /\ listener = "take" /\ m_lock = NoThread
  /\ m_lock' = Listener
  /\ \/ /\ m_lstFreePool # {}
        /\ \E s \in m_lstFreePool :
             /\ m_lstFreePool' = m_lstFreePool \ {s} /\ pSocketSession' = s
             /\ hSocket' = [hSocket EXCEPT ![s] = hClientSocket]
     \/ m_lstFreePool = {} /\ UNCHANGED <<m_lstFreePool, pSocketSession, hSocket>>
  /\ Listens("taken")
  /\ UNCHANGED <<hClientSocket, runnerVars, m_mapSocketSession, heap, ioVars, ownerVars, open, left, nConns,
                 undefined>>

UnLockTaken ==
  /\ listener = "taken"
  /\ m_lock' = NoThread
  /\ Listens(IF pSocketSession = NoSession THEN "alloc" ELSE "associate")
  /\ UNCHANGED <<hClientSocket, pSocketSession, runnerVars, blockVars, ioVars, ownerVars, open, left, nConns,
                 undefined>>

AllocSession ==
  /\ listener = "alloc"
  /\ \/ \E s \in Sessions \ heap :
          /\ heap' = heap \cup {s} /\ pSocketSession' = s
          /\ hSocket' = [hSocket EXCEPT ![s] = hClientSocket]
          /\ Listens("associate")
          /\ UNCHANGED <<open, hClientSocket>>
     \/ /\ "oom" \in Answers
        /\ open' = open \ {hClientSocket} /\ hClientSocket' = NoConn
        /\ Listens("check")
        /\ UNCHANGED <<heap, pSocketSession, hSocket>>
  /\ UNCHANGED <<runnerVars, m_mapSocketSession, m_lstFreePool, ioVars, ownerVars, m_lock, left, nConns,
                 undefined>>

(* With no port CreateIoCompletionPort makes one, which nobody asks.       *)
AssociateSocket ==
  /\ listener = "associate"
  /\ key' = [key EXCEPT ![hClientSocket] = [s |-> pSocketSession, port |-> m_hCompletionPort]]
  /\ Listens("insert")
  /\ UNCHANGED <<hClientSocket, pSocketSession, runnerVars, blockVars, recv, ownerVars, m_lock, open, left,
                 nConns, undefined>>

InsertSession ==
  /\ listener = "insert" /\ m_lock = NoThread
  /\ m_lock' = Listener
  /\ m_mapSocketSession' = [m_mapSocketSession EXCEPT ![hClientSocket] = pSocketSession]
  /\ Listens("inserted")
  /\ UNCHANGED <<hClientSocket, pSocketSession, runnerVars, m_lstFreePool, heap, hSocket, ioVars, ownerVars,
                 open, left, nConns, undefined>>

(* Unlock, OnInitSocket and the first receive.                             *)
FirstRecv ==
  /\ listener = "inserted"
  /\ m_lock' = NoThread
  /\ recv' = [recv EXCEPT ![hClientSocket] = "posted"]
  /\ hClientSocket' = NoConn /\ pSocketSession' = NoSession
  /\ Listens("check")
  /\ UNCHANGED <<runnerVars, blockVars, key, ownerVars, open, left, nConns, undefined>>

ListenProc ==
  \/ IsStop \/ WSAAccept \/ TakeFromPool \/ UnLockTaken \/ AllocSession
  \/ AssociateSocket \/ InsertSession \/ FirstRecv

----------------------------------------------------------------------------
(* The clients, and the receives they complete.                            *)

ClientSends(c) ==
  /\ recv[c] = "posted" /\ c \in open \ left
  /\ recv' = [recv EXCEPT ![c] = "got"]
  /\ UNCHANGED <<runnerVars, listenVars, blockVars, key, ownerVars, m_lock, open, left, nConns, undefined>>

ClientLeaves(c) ==
  /\ c \in open \ left
  /\ left' = left \cup {c}
  /\ UNCHANGED <<runnerVars, listenVars, blockVars, ioVars, ownerVars, m_lock, open, nConns, undefined>>

Ended(c) == recv[c] = "posted" /\ (c \notin open \/ c \in left)

----------------------------------------------------------------------------
(* A worker: CTcpRunner::Run, and the Disconnect and PostRecv it calls.    *)

Dequeue(w, c) ==
  /\ worker[w] = "wait"
  /\ m_hCompletionPort # 0 /\ key[c].port = m_hCompletionPort
  /\ \/ Ended(c) /\ Goes(w, "find")
     \/ recv[c] = "got" /\ Goes(w, "onrecv")
  /\ recv' = [recv EXCEPT ![c] = "none"]
  /\ at' = [at EXCEPT ![w] = key[c].s]
  /\ undefined' = (key[c].s \notin heap)
  /\ UNCHANGED <<m_hCompletionPort, listenVars, blockVars, key, ownerVars, m_lock, open, left, nConns>>

(* OnRecv returns; below 0 no receive is posted.                           *)
PostRecv(w) ==
  /\ worker[w] = "onrecv"
  /\ \/ /\ at[w] \in heap /\ hSocket[at[w]] \in open
        /\ recv' = [recv EXCEPT ![hSocket[at[w]]] = "posted"]
        /\ Goes(w, "wait")
     \/ /\ at[w] \in heap /\ hSocket[at[w]] \notin open
        /\ Goes(w, "find")
        /\ UNCHANGED recv
     \/ Goes(w, "wait") /\ UNCHANGED recv
  /\ undefined' = (at[w] \notin heap /\ worker'[w] = "wait")
  /\ UNCHANGED <<m_hCompletionPort, at, listenVars, blockVars, key, ownerVars, m_lock, open, left, nConns>>

(* Disconnect: the socket is found and closed with m_lock held.  The map   *)
(* is no longer what it was if Close walks through it meanwhile.           *)
DisconnectFind(w) ==
  /\ worker[w] = "find" /\ m_lock = NoThread
  /\ LET c == hSocket[at[w]]
     IN  \/ /\ c \in Conns /\ m_mapSocketSession[c] # NoSession
            /\ m_lock' = w /\ open' = open \ {c}
            /\ at' = [at EXCEPT ![w] = m_mapSocketSession[c]]
            /\ Goes(w, "free")
         \/ /\ c \in Conns => m_mapSocketSession[c] = NoSession
            /\ Goes(w, "wait")
            /\ UNCHANGED <<m_lock, open, at>>
  /\ undefined' = Walking
  /\ UNCHANGED <<m_hCompletionPort, listenVars, blockVars, ioVars, ownerVars, left, nConns>>

(* Variant: a block that was freed is put into the pool, too.              *)
DisconnectFreeTwice(w) ==
  /\ worker[w] = "free"
  /\ heap' = IF Cardinality(m_lstFreePool) >= m_nMaxFreePoolNum THEN heap \ {at[w]} ELSE heap
  /\ m_lstFreePool' = m_lstFreePool \cup {at[w]}
  /\ Goes(w, "erase")
  /\ undefined' = (Walking \/ at[w] \notin heap)
  /\ UNCHANGED <<m_hCompletionPort, at, listenVars, m_mapSocketSession, hSocket, ioVars, ownerVars, m_lock, open,
                 left, nConns>>

DisconnectFree(w) ==
  /\ worker[w] = "free"
  /\ \/ /\ Cardinality(m_lstFreePool) >= m_nMaxFreePoolNum
        /\ heap' = heap \ {at[w]}
        /\ UNCHANGED m_lstFreePool
     \/ /\ Cardinality(m_lstFreePool) < m_nMaxFreePoolNum
        /\ m_lstFreePool' = m_lstFreePool \cup {at[w]}
        /\ UNCHANGED heap
  /\ Goes(w, "erase")
  /\ undefined' = (Walking \/ at[w] \notin heap)
  /\ UNCHANGED <<m_hCompletionPort, at, listenVars, m_mapSocketSession, hSocket, ioVars, ownerVars, m_lock, open,
                 left, nConns>>

(* Erase the entry, unlock and report.                                     *)
DisconnectErase(w) ==
  /\ worker[w] = "erase"
  /\ m_mapSocketSession' =
       [c \in Conns |-> IF m_mapSocketSession[c] = at[w] THEN NoSession ELSE m_mapSocketSession[c]]
  /\ undefined' = (Walking \/ at[w] \notin InMap)
  /\ m_lock' = NoThread
  /\ Goes(w, "wait")
  /\ UNCHANGED <<m_hCompletionPort, at, listenVars, m_lstFreePool, heap, hSocket, ioVars, ownerVars, open, left,
                 nConns>>

(* A packet of -1 bytes, or a port that is closed.                         *)
Quit(w) ==
  /\ worker[w] = "wait" /\ m_hCompletionPort = 0
  /\ Goes(w, "none")
  /\ UNCHANGED <<m_hCompletionPort, at, listenVars, blockVars, ioVars, ownerVars, m_lock, open, left, nConns,
                 undefined>>

Run(w) ==
  \/ \E c \in Conns : Dequeue(w, c)
  \/ PostRecv(w) \/ DisconnectFind(w) \/ DisconnectFree(w) \/ DisconnectErase(w) \/ Quit(w)

----------------------------------------------------------------------------
(* The runner is opened and closed.                                        *)

(* Close posts the packets to quit and closes the port.                    *)
ClosePort(then) ==
  /\ m_hCompletionPort # 0
  /\ m_hCompletionPort' = 0
  /\ owner' = then
  /\ UNCHANGED <<worker, at, listenVars, blockVars, ioVars, m_hListenSocket, listening, stopListen, torn, m_lock,
                 open, left, nConns, undefined>>

RunnerClose ==
  /\ owner = "idle"
  /\ ClosePort("stop")
  /\ UNCHANGED opened

RunnerOpen ==
  /\ owner = "idle" /\ opened.runner < MaxOpens
  /\ opened' = [opened EXCEPT !.runner = @ + 1]
  /\ \/ ClosePort("restop")
     \/ /\ m_hCompletionPort = 0
        /\ owner' = "start"
        /\ UNCHANGED <<runnerVars, listenVars, blockVars, ioVars, m_hListenSocket, listening, stopListen, torn,
                       m_lock, open, left, nConns, undefined>>

(* CThreadGroup::Clear: every thread is killed, wherever it is.            *)
Inside == {w \in Workers : worker[w] \in {"free", "erase"}}
Clear  == torn' = IF Inside = {} THEN torn ELSE torn \cup {"worker"}

(* Variant: a thread that has not ended in time is left alone.             *)
KillNobody ==
  /\ owner \in {"stop", "restop"}
  /\ owner' = IF owner = "stop" THEN "idle" ELSE "start"
  /\ UNCHANGED <<runnerVars, listenVars, blockVars, ioVars, m_hListenSocket, listening, stopListen, opened, torn,
                 m_lock, open, left, nConns, undefined>>

(* Stop waits for each thread for WAIT_TIMEOUT, that is 258, milliseconds. *)
Kill ==
  /\ owner \in {"stop", "restop"}
  /\ Clear
  /\ worker' = [w \in Workers |-> "none"]
  /\ at' = [w \in Workers |-> NoSession]
  /\ owner' = IF owner = "stop" THEN "idle" ELSE "start"
  /\ UNCHANGED <<m_hCompletionPort, listenVars, blockVars, ioVars, m_hListenSocket, listening, stopListen, opened,
                 m_lock, open, left, nConns, undefined>>

(* The failure to make a port is a NULL, which is not what Open looks for; *)
(* the result of Start is not looked at either.                            *)
Start ==
  /\ owner = "start"
  /\ \/ m_hCompletionPort' = opened.runner
     \/ "portfails" \in Answers /\ m_hCompletionPort' = 0
  /\ Clear
  /\ \E W \in {Workers} \cup (IF "threadfails" \in Answers THEN SUBSET Workers ELSE {}) :
       worker' = [w \in Workers |-> IF w \in W THEN "wait" ELSE "none"]
  /\ at' = [w \in Workers |-> NoSession]
  /\ owner' = "idle"
  /\ UNCHANGED <<listenVars, blockVars, ioVars, m_hListenSocket, listening, stopListen, opened, m_lock, open, left,
                 nConns, undefined>>

----------------------------------------------------------------------------
(* The server is opened and closed.                                        *)

(* Blocks for the free pool: all, or fewer when the memory runs out.       *)
FillPool(n) ==
  \E new \in SUBSET (Sessions \ heap) :
    /\ Cardinality(new) = n
    /\ heap' = heap \cup new /\ m_lstFreePool' = m_lstFreePool \cup new

(* CThread::Clear, and Start, which calls it: the command is taken back.   *)
ClearListen == stopListen' = FALSE
StartListen == ClearListen /\ Listens("check")

ServerOpen ==
  /\ owner = "idle" /\ listener = "none" /\ opened.server < MaxOpens
  /\ opened' = [opened EXCEPT !.server = @ + 1]
  /\ torn' = IF m_hListenSocket \in listening THEN torn \cup {"socket"} ELSE torn
  /\ \/ /\ "socketfails" \in Answers
        /\ m_hListenSocket' = -1
        /\ UNCHANGED <<listening, listener, stopListen, heap, m_lstFreePool>>
     \/ /\ m_hListenSocket' = opened'.server
        /\ listening' = listening \cup {opened'.server}
        /\ \/ /\ "bindfails" \in Answers
              /\ UNCHANGED <<listener, stopListen, heap, m_lstFreePool>>
           \/ /\ "oom" \in Answers
              /\ \E n \in 0 .. m_nDefaultFreePoolNum - 1 : FillPool(n)
              /\ UNCHANGED <<listener, stopListen>>
           \/ FillPool(m_nDefaultFreePoolNum) /\ StartListen
  /\ undefined' = (Inside # {})
  /\ UNCHANGED <<runnerVars, hClientSocket, pSocketSession, m_mapSocketSession, hSocket, ioVars, m_lock, owner,
                 open, left, nConns>>

(* Close: the listening socket goes, and the thread has 200 ms to end.     *)
ServerClose ==
  /\ owner = "idle" /\ m_hListenSocket # 0
  /\ listening' = listening \ {m_hListenSocket}
  /\ m_hListenSocket' = 0 /\ stopListen' = TRUE
  /\ torn' = IF m_hCompletionPort # 0 THEN torn \cup {"order"} ELSE torn
  /\ owner' = "killlisten"
  /\ UNCHANGED <<runnerVars, listenVars, blockVars, ioVars, opened, m_lock, open, left, nConns, undefined>>

(* The thread is killed with the lock, the socket and the block it holds.  *)
KillListen ==
  /\ owner = "killlisten"
  /\ torn' = IF hClientSocket # NoConn /\ listener # "inserted" THEN torn \cup {"listener"} ELSE torn
  /\ Listens("none") /\ hClientSocket' = NoConn /\ pSocketSession' = NoSession
  /\ owner' = "walk"
  /\ UNCHANGED <<runnerVars, blockVars, ioVars, m_hListenSocket, listening, stopListen, opened, m_lock, open, left,
                 nConns, undefined>>

(* The blocks of the map and of the pool are freed, without the lock.      *)
FreeSessions ==
  /\ Walking
  /\ undefined' = ~(InMap \cup m_lstFreePool \subseteq heap /\ InMap \cap m_lstFreePool = {})
  /\ open' = open \ {c \in Conns : m_mapSocketSession[c] # NoSession}
  /\ heap' = heap \ (InMap \cup m_lstFreePool)
  /\ m_mapSocketSession' = [c \in Conns |-> NoSession] /\ m_lstFreePool' = {}
  /\ owner' = "idle"
  /\ UNCHANGED <<runnerVars, listenVars, hSocket, ioVars, m_hListenSocket, listening, stopListen, opened, torn,
                 m_lock, left, nConns>>

Owner ==
  \/ RunnerClose \/ RunnerOpen \/ Kill \/ Start
  \/ ServerOpen \/ ServerClose \/ KillListen \/ FreeSessions

----------------------------------------------------------------------------

RunnerInit ==
  /\ m_hCompletionPort = 0
  /\ worker = [w \in Workers |-> "none"] /\ at = [w \in Workers |-> NoSession]

Init ==
  /\ RunnerInit
  /\ m_hListenSocket = 0 /\ listening = {}
  /\ listener = "none" /\ hClientSocket = NoConn /\ pSocketSession = NoSession /\ stopListen = FALSE
  /\ m_lock = NoThread
  /\ m_mapSocketSession = [c \in Conns |-> NoSession] /\ m_lstFreePool = {}
  /\ heap = {} /\ hSocket = [s \in Sessions |-> NoConn]
  /\ open = {} /\ left = {} /\ nConns = 0
  /\ key = [c \in Conns |-> [s |-> NoSession, port |-> 0]]
  /\ recv = [c \in Conns |-> "none"]
  /\ opened = [runner |-> 0, server |-> 0] /\ owner = "idle"
  /\ torn = {} /\ undefined = FALSE

Next ==
  /\ ~undefined
  /\ \/ ListenProc
     \/ \E c \in Conns : ClientSends(c) \/ ClientLeaves(c)
     \/ \E w \in Workers : Run(w)
     \/ Owner

Spec == Init /\ [][Next]_vars

----------------------------------------------------------------------------

TypeOK ==
  /\ m_hCompletionPort \in 0 .. MaxOpens
  /\ worker \in [Workers -> {"none", "wait", "onrecv", "find", "free", "erase"}]
  /\ at \in [Workers -> Sessions \cup {NoSession}]
  /\ m_hListenSocket \in -1 .. MaxOpens /\ listening \subseteq 1 .. MaxOpens
  /\ listener \in {"none", "check", "accept", "take", "taken", "alloc", "associate", "insert", "inserted"}
  /\ hClientSocket \in Conns \cup {NoConn} /\ pSocketSession \in Sessions \cup {NoSession}
  /\ m_lock \in Workers \cup {Listener, NoThread}
  /\ m_mapSocketSession \in [Conns -> Sessions \cup {NoSession}]
  /\ heap \subseteq Sessions /\ m_lstFreePool \subseteq Sessions
  /\ m_lstFreePool \subseteq heap \/ undefined
  /\ hSocket \in [Sessions -> Conns \cup {NoConn}]
  /\ open \cup left \subseteq Conns /\ nConns \in 0 .. MaxConns
  /\ key \in [Conns -> [s : Sessions \cup {NoSession}, port : 0 .. MaxOpens]]
  /\ recv \in [Conns -> {"none", "posted", "got"}]
  /\ opened \in [runner : 0 .. MaxOpens, server : 0 .. MaxOpens]
  /\ owner \in {"idle", "stop", "restop", "start", "killlisten", "walk"}
  /\ torn \subseteq {"worker", "socket", "order", "listener"}
  /\ stopListen \in BOOLEAN /\ undefined \in BOOLEAN

(* No thread touches a session block that is freed, none is freed twice,   *)
(* and the map is not changed while Close walks through it without the     *)
(* lock, as long as the runner is closed before the server, as the test    *)
(* server does (TestServerApp.cpp:55), and no worker had to be killed      *)
(* between the closesocket and the erase of Disconnect.                    *)
NothingIsUsedAfterClose == undefined => torn \cap {"order", "worker"} # {}

(* And a server that is closed has left no block, no connection and no     *)
(* listening socket, unless the listen thread was killed with a connection *)
(* in hand, or Open was called again after it had failed.                  *)
NothingIsLeft ==
  owner = "idle" /\ m_hListenSocket = 0 /\ ~undefined /\ torn = {} =>
    heap = {} /\ open = {} /\ listening = {}

(* What Close may do to threads that are at work, and what it leaves       *)
(* (TcpServer.cpp:343-383, TcpRunner.cpp:27-43), when no thread of the     *)
(* application sends or disconnects meanwhile: the model has the listen    *)
(* thread and the workers only.                                            *)
CloseIsClean == NothingIsUsedAfterClose /\ NothingIsLeft
=============================================================================
