----------------------------- MODULE SLBlockTcp -----------------------------
(***************************************************************************)
(* The blocking TCP server: CSLBlockTcpServer accepts connections on a     *)
(* thread of its own and hands their sockets to CSLBlockTcpRunner, whose   *)
(* threads take them from a list and have the application process them     *)
(* through a CSLBlockTcpClient each thread has.  The application opens and *)
(* closes the server and the runner in any order; the runner is also       *)
(* opened while it is open, which terminates its threads wherever they     *)
(* are, and closed while it is not.                                        *)
(*                                                                         *)
(* A connection stands for its socket, too.                                *)
(***************************************************************************)
EXTENDS Integers, Sequences, FiniteSets

CONSTANTS
  MaxConns,       \* bound: the connections that are made
  Threads,        \* the threads of the runner
  m_nQueueMaxSize,
  MaxOpens, MaxServerOpens,  \* bounds: calls of Open of the runner, and of the server
  Answers,        \* which calls may fail, and what the application does
  NoThread, DeadThread

(* Connections are numbered in the order in which they are made.           *)
Conns  == 1 .. MaxConns
NoConn == 0

ASSUME BoundsAssumption ==
  /\ MaxConns \in Nat /\ m_nQueueMaxSize \in Nat \ {0} /\ MaxOpens \in Nat /\ MaxServerOpens \in Nat
  /\ Answers \subseteq {"openfails", "fewer", "refuse", "recv"}
ASSUME ThreadsAssumption ==
  /\ IsFiniteSet(Threads)
  /\ {NoThread, DeadThread} \cap Threads = {} /\ NoThread # DeadThread

VARIABLES
  client,         \* of each connection: "new", "up" or "closed" by the client
  backlog,        \* the connections that wait to be accepted
  open,           \* the sockets that are open
  m_hListenSocket, \* whether the listening socket is open
  listener,       \* where the listen thread is
  accepted,       \*   and the socket it holds
  stopListen,     \*   its m_ThreadCmd is stop
  m_lstSocket,    \* the sockets waiting for a thread
  m_lock,         \* the thread inside Pop's lock, DeadThread where that one was
                  \*   terminated, or NoThread
  m_hSemaphore,   \* whether the semaphore exists
  nCount,         \*   and its count
  m_ThreadCmd,    \* the command of the runner's threads
  worker,         \* where each of them is
  m_hSocket,      \*   and the socket of its CSLBlockTcpClient
  owner,          \* where the thread is that opens and closes
  nUnLocks,       \*   the UnLocks that Close has left
  opened,         \* how often the runner and the server were opened
  lost,           \* history: open sockets that nobody can close any more
  unsignalled     \* history: a socket in the list has no signal, or has lost it

serverVars == <<m_hListenSocket, backlog, listener, accepted, stopListen>>
semaphoreVars == <<m_hSemaphore, nCount>>
runnerVars == <<m_lstSocket, m_lock, semaphoreVars, m_ThreadCmd, unsignalled>>
workerVars == <<worker, m_hSocket>>
ownerVars  == <<owner, nUnLocks, opened>>
sockVars   == <<open, lost>>
vars == <<client, serverVars, runnerVars, workerVars, ownerVars, sockVars>>

Alive          == {w \in Threads : worker[w] # "none"}
Listens(label) == listener' = label
Goes(w, label) == worker' = [worker EXCEPT ![w] = label]

(* closesocket of a socket, where there is one.                            *)
closesocket(c) == open' = open \ {c}

----------------------------------------------------------------------------
(* The clients.                                                            *)

ClientConnects(c) ==
  /\ client[c] = "new" /\ m_hListenSocket
  /\ \A d \in Conns : d < c => client[d] # "new"
  /\ client' = [client EXCEPT ![c] = "up"]
  /\ backlog' = backlog \cup {c}
  /\ UNCHANGED <<m_hListenSocket, listener, accepted, stopListen, runnerVars, workerVars, ownerVars, sockVars>>

ClientLeaves(c) ==
  /\ client[c] = "up" /\ c \in backlog \cup open
  /\ client' = [client EXCEPT ![c] = "closed"]
  /\ UNCHANGED <<serverVars, runnerVars, workerVars, ownerVars, sockVars>>

----------------------------------------------------------------------------
(* CSLBlockTcpServer: the listen thread.                                   *)

ListenIsStop ==
  /\ listener = "check"
  /\ Listens(IF stopListen THEN "none" ELSE "accept")
  /\ UNCHANGED <<client, m_hListenSocket, backlog, accepted, stopListen, runnerVars, workerVars, ownerVars,
                 sockVars>>

(* accept blocks while there is no connection, and fails without a socket. *)
accept ==
  /\ listener = "accept"
  /\ \/ /\ m_hListenSocket
        /\ \E c \in backlog :
             /\ \A d \in backlog : c <= d
             /\ accepted' = c /\ backlog' = backlog \ {c} /\ open' = open \cup {c}
        /\ Listens("event")
     \/ /\ ~m_hListenSocket
        /\ Listens("check")
        /\ UNCHANGED <<accepted, backlog, open>>
  /\ UNCHANGED <<client, m_hListenSocket, stopListen, runnerVars, workerVars, ownerVars, lost>>

OnAccept ==
  /\ listener = "event"
  /\ \/ Listens("push") /\ UNCHANGED <<accepted, open>>
     \/ /\ "refuse" \in Answers
        /\ closesocket(accepted) /\ accepted' = NoConn
        /\ Listens("check")
  /\ UNCHANGED <<client, m_hListenSocket, backlog, stopListen, runnerVars, workerVars, ownerVars, lost>>

----------------------------------------------------------------------------
(* CSLBlockTcpRunner.                                                      *)

Waiting == {w \in Threads : worker[w] = "wait"}

(* Variant: the count has no maximum.                                      *)
UnLockNoMaximum ==
  \/ /\ m_hSemaphore
     /\ \E w \in Waiting : Goes(w, "pop")
     /\ UNCHANGED nCount
  \/ /\ m_hSemaphore /\ Waiting = {}
     /\ nCount' = nCount + 1
     /\ UNCHANGED worker
  \/ /\ ~m_hSemaphore
     /\ UNCHANGED <<nCount, worker>>

UnLock ==
  \/ /\ m_hSemaphore
     /\ \E w \in Waiting : Goes(w, "pop")
     /\ UNCHANGED nCount
  \/ /\ m_hSemaphore /\ Waiting = {}
     /\ nCount' = IF nCount < m_nQueueMaxSize THEN nCount + 1 ELSE nCount
     /\ UNCHANGED worker
  \/ /\ ~m_hSemaphore
     /\ UNCHANGED <<nCount, worker>>

(* Variant: only a socket that finds the list empty is signalled.          *)
PushSignalsFirst ==
  /\ listener = "push" /\ m_lock = NoThread
  /\ \/ /\ m_nQueueMaxSize > Len(m_lstSocket)
        /\ m_lstSocket' = Append(m_lstSocket, accepted)
        /\ IF m_lstSocket = <<>> THEN UnLock ELSE UNCHANGED <<nCount, worker>>
        /\ unsignalled' = (unsignalled \/ ~m_hSemaphore)
        /\ UNCHANGED open
     \/ /\ m_nQueueMaxSize <= Len(m_lstSocket)
        /\ closesocket(accepted)
        /\ UNCHANGED <<m_lstSocket, nCount, worker, unsignalled>>
  /\ accepted' = NoConn /\ Listens("check")
  /\ UNCHANGED <<client, m_hListenSocket, backlog, stopListen, m_lock, m_hSemaphore, m_ThreadCmd, m_hSocket,
                 ownerVars, lost>>

(* A socket that finds the list full is closed by the listen thread.       *)
Push ==
  /\ listener = "push" /\ m_lock = NoThread
  /\ \/ /\ m_nQueueMaxSize > Len(m_lstSocket)
        /\ m_lstSocket' = Append(m_lstSocket, accepted)
        /\ UnLock
        /\ unsignalled' = (unsignalled \/ ~m_hSemaphore)
        /\ UNCHANGED open
     \/ /\ m_nQueueMaxSize <= Len(m_lstSocket)
        /\ closesocket(accepted)
        /\ UNCHANGED <<m_lstSocket, nCount, worker, unsignalled>>
  /\ accepted' = NoConn /\ Listens("check")
  /\ UNCHANGED <<client, m_hListenSocket, backlog, stopListen, m_lock, m_hSemaphore, m_ThreadCmd, m_hSocket,
                 ownerVars, lost>>

(* A thread that ends destroys its client, which closes its socket.        *)
IsStop(w) ==
  /\ worker[w] = "check"
  /\ IF m_ThreadCmd = "stop"
       THEN /\ Goes(w, "none")
            /\ closesocket(m_hSocket[w])
            /\ m_hSocket' = [m_hSocket EXCEPT ![w] = NoConn]
       ELSE Goes(w, "lock") /\ UNCHANGED <<open, m_hSocket>>
  /\ UNCHANGED <<client, serverVars, runnerVars, ownerVars, lost>>

(* The result of Lock is not looked at.                                    *)
Lock(w) ==
  /\ worker[w] = "lock"
  /\ \/ m_hSemaphore /\ nCount > 0 /\ nCount' = nCount - 1 /\ Goes(w, "pop")
     \/ m_hSemaphore /\ nCount = 0 /\ Goes(w, "wait") /\ UNCHANGED nCount
     \/ ~m_hSemaphore /\ Goes(w, "pop") /\ UNCHANGED nCount
  /\ UNCHANGED <<client, serverVars, m_lstSocket, m_lock, m_hSemaphore, m_ThreadCmd, unsignalled, m_hSocket,
                 ownerVars, sockVars>>

(* Variant: the socket the client had is not closed.                       *)
AttachOver(w, c) == m_hSocket' = [m_hSocket EXCEPT ![w] = c] /\ UNCHANGED open

Attach(w, c) == closesocket(m_hSocket[w]) /\ m_hSocket' = [m_hSocket EXCEPT ![w] = c]

(* Pop, and Attach, which closes the socket the client had.                *)
EnterPop(w) ==
  /\ worker[w] = "pop" /\ m_lock = NoThread
  /\ m_lock' = w
  /\ Goes(w, "popping")
  /\ UNCHANGED <<client, serverVars, m_lstSocket, semaphoreVars, m_ThreadCmd, unsignalled, m_hSocket, ownerVars,
                 sockVars>>

Pop(w) ==
  /\ worker[w] = "popping"
  /\ m_lock' = NoThread
  /\ \/ /\ m_lstSocket = <<>>
        /\ Goes(w, "check")
        /\ UNCHANGED <<m_lstSocket, m_hSocket, open>>
     \/ /\ m_lstSocket # <<>>
        /\ m_lstSocket' = Tail(m_lstSocket)
        /\ Attach(w, Head(m_lstSocket))
        /\ Goes(w, "process")
  /\ UNCHANGED <<client, serverVars, semaphoreVars, m_ThreadCmd, unsignalled, ownerVars, lost>>

(* OnProcess returns: below 0, the socket is closed; otherwise it stays    *)
(* with the client.  (An application that detaches it closes it itself.)   *)
OnProcess(w) ==
  /\ worker[w] = "process"
  /\ \/ closesocket(m_hSocket[w]) /\ m_hSocket' = [m_hSocket EXCEPT ![w] = NoConn]
     \/ UNCHANGED <<open, m_hSocket>>
  /\ Goes(w, "check")
  /\ UNCHANGED <<client, serverVars, runnerVars, ownerVars, lost>>

(* OnProcess calls Recv for a number of bytes.  It asks again for what is  *)
(* missing as long as recv does not fail: a connection the client has      *)
(* closed yields no bytes and no error for ever.                           *)
Recv(w) ==
  /\ worker[w] = "process" /\ "recv" \in Answers
  /\ Goes(w, "recv")
  /\ UNCHANGED <<client, serverVars, runnerVars, m_hSocket, ownerVars, sockVars>>

RecvReturns(w) ==
  /\ worker[w] = "recv" /\ client[m_hSocket[w]] # "closed"
  /\ Goes(w, "process")
  /\ UNCHANGED <<client, serverVars, runnerVars, m_hSocket, ownerVars, sockVars>>

----------------------------------------------------------------------------
(* The application's thread.                                               *)

(* The handle of an old semaphore is overwritten: a thread that waits for  *)
(* that one is never woken.                                                *)
Create ==
  /\ m_hSemaphore' = TRUE /\ nCount' = 0
  /\ worker' = [w \in Threads |-> IF worker[w] = "wait" THEN "stuck" ELSE worker[w]]

Open ==
  /\ owner = "idle"
  /\ opened.runner < MaxOpens
  /\ opened' = [opened EXCEPT !.runner = @ + 1]
  /\ Create
  /\ unsignalled' = (m_lstSocket # <<>>)
  /\ owner' = "start"
  /\ UNCHANGED <<client, serverVars, m_lstSocket, m_lock, m_ThreadCmd, m_hSocket, nUnLocks, sockVars>>

Loses(S) == lost' = lost \cup S /\ open' = open \ lost'

(* CThreadGroup::Clear terminates the threads wherever they are.  None     *)
(* destroys its client.  One in Pop leaves the lock locked, and may have   *)
(* taken a socket already; after it has unlocked, it has still to attach   *)
(* that.                                                                   *)
ClearThreads ==
  LET sockets == {m_hSocket[w] : w \in Threads} \ {NoConn}
  IN  /\ \/ /\ m_lock' = IF m_lock \in Threads THEN DeadThread ELSE m_lock
            /\ Loses(sockets)
            /\ UNCHANGED m_lstSocket
         \/ /\ m_lock \in Threads /\ m_lstSocket # <<>>
            /\ m_lock' \in {DeadThread, NoThread}
            /\ m_lstSocket' = Tail(m_lstSocket)
            /\ Loses(sockets \cup {Head(m_lstSocket)})
      /\ m_hSocket' = [w \in Threads |-> NoConn]
      /\ m_ThreadCmd' = "nothing"

(* Start clears the group first.  Of the threads it begins then, the first *)
(* that cannot be started ends it; those before it run.  The signal of a   *)
(* thread that has not reached the list yet is lost with it.               *)
StartThreads ==
  /\ owner = "start"
  /\ ClearThreads
  /\ \E S \in IF "fewer" \in Answers THEN SUBSET Threads ELSE {Threads} :
       worker' = [w \in Threads |-> IF w \in S THEN "check" ELSE "none"]
  /\ unsignalled' = (unsignalled \/ \E w \in Threads : worker[w] \in {"pop", "popping"})
  /\ owner' = "idle"
  /\ UNCHANGED <<client, serverVars, semaphoreVars, nUnLocks, opened>>

(* Close of the runner: a release for each thread, and then the end of the *)
(* semaphore, the command to stop, the wait for each thread, the end of    *)
(* those that are left, and of the list.                                   *)
Close ==
  /\ owner = "idle"
  /\ nUnLocks' = Cardinality(Alive)
  /\ owner' = "unlock"
  /\ UNCHANGED <<client, serverVars, runnerVars, workerVars, opened, sockVars>>

CloseUnLock ==
  /\ owner = "unlock" /\ nUnLocks > 0
  /\ UnLock
  /\ nUnLocks' = nUnLocks - 1
  /\ UNCHANGED <<client, serverVars, m_lstSocket, m_lock, m_hSemaphore, m_ThreadCmd, unsignalled, m_hSocket,
                 owner, opened, sockVars>>

CloseSemaphore ==
  /\ owner = "unlock" /\ nUnLocks = 0
  /\ m_hSemaphore' = FALSE /\ nCount' = 0
  /\ owner' = "stop"
  /\ UNCHANGED <<client, serverVars, m_lstSocket, m_lock, m_ThreadCmd, unsignalled, workerVars,
                 nUnLocks, opened, sockVars>>

Stop ==
  /\ owner = "stop"
  /\ m_ThreadCmd' = "stop"
  /\ owner' = "wait"
  /\ UNCHANGED <<client, serverVars, m_lstSocket, m_lock, semaphoreVars, unsignalled, workerVars, nUnLocks,
                 opened, sockVars>>

(* Stop waits for each thread until it has ended or for 200 ms.  That is   *)
(* taken to be long enough for what a thread does on its own: it runs out  *)
(* only on one that waits for the semaphore or, for ever, for the lock, or *)
(* is in OnProcess, and Kill finds no other.                               *)
Kill ==
  /\ owner = "wait"
  /\ \A w \in Threads :
       \/ worker[w] \in {"none", "wait", "process", "recv"}
       \/ worker[w] = "pop" /\ m_lock = DeadThread
  /\ ClearThreads
  /\ worker' = [w \in Threads |-> "none"]
  /\ owner' = "clear"
  /\ UNCHANGED <<client, serverVars, semaphoreVars, unsignalled, nUnLocks, opened>>

(* The list is cleared without the lock, and without closing the sockets   *)
(* in it.                                                                  *)
ClearList ==
  /\ owner = "clear"
  /\ Loses({m_lstSocket[i] : i \in DOMAIN m_lstSocket})
  /\ m_lstSocket' = <<>> /\ unsignalled' = FALSE
  /\ owner' = "idle"
  /\ UNCHANGED <<client, serverVars, m_lock, semaphoreVars, m_ThreadCmd, workerVars, nUnLocks, opened>>

(* Open of the server.  It may fail with the listening socket made, or     *)
(* not notice that the thread could not be started.                        *)
ServerOpen ==
  /\ owner = "idle" /\ ~m_hListenSocket /\ listener = "none"
  /\ opened.server < MaxServerOpens
  /\ opened' = [opened EXCEPT !.server = @ + 1]
  /\ m_hListenSocket' = TRUE /\ stopListen' = FALSE
  /\ \/ Listens("check")
     \/ "openfails" \in Answers /\ UNCHANGED listener
  /\ UNCHANGED <<client, backlog, accepted, runnerVars, workerVars, owner, nUnLocks, sockVars>>

ServerClose ==
  /\ owner = "idle" /\ m_hListenSocket
  /\ m_hListenSocket' = FALSE /\ backlog' = {}
  /\ owner' = "stoplisten"
  /\ UNCHANGED <<client, listener, accepted, stopListen, runnerVars, workerVars, nUnLocks, opened,
                 sockVars>>

StopListen ==
  /\ owner = "stoplisten"
  /\ stopListen' = TRUE
  /\ owner' = "waitlisten"
  /\ UNCHANGED <<client, m_hListenSocket, backlog, listener, accepted, runnerVars, workerVars,
                 nUnLocks, opened, sockVars>>

(* The wait for the listen thread runs out only on one in OnAccept, or one *)
(* that waits for the runner's lock for ever; it is killed with the socket *)
(* it holds.                                                               *)
KillListen ==
  /\ owner = "waitlisten"
  /\ listener \in {"none", "event"} \/ (listener = "push" /\ m_lock = DeadThread)
  /\ Loses({accepted} \ {NoConn})
  /\ accepted' = NoConn /\ Listens("none")
  /\ owner' = "idle"
  /\ UNCHANGED <<client, m_hListenSocket, backlog, stopListen, runnerVars, workerVars, nUnLocks, opened>>

----------------------------------------------------------------------------

Init ==
  /\ client = [c \in Conns |-> "new"] /\ backlog = {} /\ open = {} /\ lost = {}
  /\ m_hListenSocket = FALSE /\ listener = "none" /\ accepted = NoConn /\ stopListen = FALSE
  /\ m_lstSocket = <<>> /\ m_hSemaphore = FALSE /\ nCount = 0 /\ m_ThreadCmd = "nothing"
  /\ m_lock = NoThread /\ unsignalled = FALSE
  /\ worker = [w \in Threads |-> "none"] /\ m_hSocket = [w \in Threads |-> NoConn]
  /\ owner = "idle" /\ nUnLocks = 0 /\ opened = [runner |-> 0, server |-> 0]

ListenProc == ListenIsStop \/ accept \/ OnAccept \/ Push
Run(w)     == IsStop(w) \/ Lock(w) \/ EnterPop(w) \/ Pop(w) \/ OnProcess(w) \/ RecvReturns(w)
Closing    == \/ CloseUnLock \/ CloseSemaphore \/ Stop \/ Kill \/ ClearList \/ StopListen \/ KillListen

Next ==
  \/ \E c \in Conns : ClientConnects(c) \/ ClientLeaves(c)
  \/ ListenProc
  \/ \E w \in Threads : Run(w) \/ Recv(w)
  \/ Open \/ StartThreads \/ Close \/ ServerOpen \/ ServerClose \/ Closing

Spec == Init /\ [][Next]_vars

(* The scheduler runs every thread, and OnAccept and OnProcess return: the *)
(* application does not call Recv for ever.                                *)
Fairness ==
  /\ WF_vars(ListenProc) /\ WF_vars(StartThreads \/ Closing)
  /\ \A w \in Threads : WF_vars(Run(w)) /\ SF_vars(OnProcess(w))

FairSpec == Spec /\ Fairness

----------------------------------------------------------------------------

WorkerStates == {"none", "check", "lock", "wait", "stuck", "pop", "popping", "process", "recv"}

TypeOK ==
  /\ client \in [Conns -> {"new", "up", "closed"}]
  /\ backlog \subseteq Conns /\ open \subseteq Conns /\ lost \subseteq Conns
  /\ m_hListenSocket \in BOOLEAN /\ stopListen \in BOOLEAN
  /\ listener \in {"none", "check", "accept", "event", "push"}
  /\ accepted \in Conns \cup {NoConn}
  /\ m_lstSocket \in Seq(Conns) /\ Len(m_lstSocket) <= m_nQueueMaxSize
  /\ m_lock \in Threads \cup {NoThread, DeadThread}
  /\ m_hSemaphore \in BOOLEAN /\ nCount \in 0 .. m_nQueueMaxSize
  /\ m_ThreadCmd \in {"nothing", "stop"} /\ unsignalled \in BOOLEAN
  /\ worker \in [Threads -> WorkerStates]
  /\ m_hSocket \in [Threads -> Conns \cup {NoConn}]
  /\ owner \in {"idle", "start", "unlock", "stop", "wait", "clear", "stoplisten", "waitlisten"}
  /\ nUnLocks \in 0 .. Cardinality(Threads)
  /\ opened \in [runner : 0 .. MaxOpens, server : 0 .. MaxServerOpens]

(* Every socket that is open has one owner who can close it: the listen    *)
(* thread, the list, or the client of one thread.  Sockets get lost only   *)
(* with a thread that is terminated, and with the list that Close clears.  *)
Owners(c) ==
  {<<"listener", c>> : x \in {accepted} \cap {c}}
  \cup {<<"list", i>> : i \in {i \in DOMAIN m_lstSocket : m_lstSocket[i] = c}}
  \cup {<<"thread", w>> : w \in {w \in Threads : m_hSocket[w] = c}}
SocketHasOneOwner ==
  \A c \in Conns : Cardinality(Owners(c)) = IF c \in open THEN 1 ELSE 0

(* A socket in the list is taken by a thread, unless the runner is closed  *)
(* or opened once more, or every thread there is asks a client for bytes   *)
(* that has closed its connection, or a socket in the list has no signal,  *)
(* or the lock was left with a terminated thread.                          *)
Stuck(w) == worker[w] = "recv" /\ client[m_hSocket[w]] = "closed"
Queued(c) == \E i \in DOMAIN m_lstSocket : m_lstSocket[i] = c
QueuedSocketIsTaken ==
  \A c \in Conns :
    Queued(c) /\ m_hSemaphore /\ ~unsignalled /\ m_lock # DeadThread
      ~> ~Queued(c) \/ ~m_hSemaphore \/ owner = "start" \/ \A w \in Alive : Stuck(w)
=============================================================================
