-------------------------------- MODULE Udp --------------------------------
(***************************************************************************)
(* CUdpSource and CUdpRunner: a UDP socket with a number of receives       *)
(* outstanding, the workers that handle their packets and post them again, *)
(* and the pool of receive objects.  One application thread opens and      *)
(* closes runner and source, in any order.                                 *)
(*                                                                         *)
(* Sockets and completion ports are numbered in the order of their         *)
(* creation; 0 stands for NULL and INVALID_SOCKET.  Sending and its pool   *)
(* are the subject of SendPool.                                            *)
(***************************************************************************)
EXTENDS Integers, FiniteSets, SequencesExt

CONSTANTS
  Workers,      \* the threads of the runner
  nPostRecv,    \* GetWorkThreadNum()*2+2: the receives that Open posts
  PoolLimits,   \* the values m_nMaxFreeRecvPoolNum may have
  MaxObjects,   \* bound: receive objects the heap has room for
  MaxOpens,     \* bound: sockets created, and completion ports created
  MaxEmpty,     \* bound: empty datagrams
  Answers       \* which calls may fail

Recvs == 1 .. MaxObjects
Socks == 1 .. MaxOpens
Ports == 1 .. MaxOpens

AnswerKinds == {"nosocket", "bind", "assoc", "oom", "nobufs", "fewer"}

ASSUME BoundsAssumption ==
  /\ nPostRecv \in Nat /\ PoolLimits \subseteq Nat
  /\ MaxObjects \in Nat /\ MaxOpens \in Nat /\ MaxEmpty \in Nat
  /\ Answers \subseteq AnswerKinds
ASSUME WorkersAssumption == IsFiniteSet(Workers)

VARIABLES
  m_hSocket,
  m_lstFreeRecvPool,      \* the free receive objects, oldest first
  m_nMaxFreeRecvPoolNum,  \* not set by the constructor that is given it
  m_hCompletionPort,
  app,                    \* the application's thread: where it is, and the locals of Open
  worker,                 \* the workers: where they are, their object and its socket
  heap,                   \* the receive objects that are allocated
  posted,                 \* the socket each receive object is outstanding on, or 0
  got,                    \* what it completed with, once it did
  open,                   \* the sockets that are open
  assoc,                  \* the port of each socket
  nSocks, nPorts, nEmpty, \* how many sockets, ports and empty datagrams there were
  nExit,                  \* how many exit packets are in the port
  ready,                  \* history: Open returned TRUE for m_hSocket
  dropped                 \* history: how many of its receives were given up

sourceVars == <<m_hSocket, m_lstFreeRecvPool, m_nMaxFreeRecvPoolNum>>
recvVars   == <<heap, posted, got>>
netVars    == <<open, assoc, nSocks, nEmpty>>
portVars   == <<m_hCompletionPort, nPorts, nExit>>
history    == <<ready, dropped>>
vars == <<sourceVars, recvVars, netVars, portVars, history, app, worker>>

AppAt(label)    == app.pc = label
AppGoes(label)  == app' = [app EXCEPT !.pc = label]
Idle            == [pc |-> "idle", p |-> 0, n |-> 0]
Becomes(w, s)   == worker' = [worker EXCEPT ![w] = s]
GivenUp(n)      == dropped' = IF n = m_hSocket THEN dropped + 1 ELSE dropped

----------------------------------------------------------------------------
(* The pool of receive objects.  Which address the heap gives out does not *)
(* matter.                                                                 *)

HeapAlloc == CHOOSE r \in Recvs \ heap : TRUE

GetRecvObj ==
  \/ /\ m_lstFreeRecvPool # <<>>
     /\ m_lstFreeRecvPool' = Tail(m_lstFreeRecvPool)
     /\ app' = [app EXCEPT !.pc = "post", !.p = Head(m_lstFreeRecvPool)]
     /\ UNCHANGED heap
  \/ /\ m_lstFreeRecvPool = <<>> /\ heap # Recvs
     /\ heap' = heap \cup {HeapAlloc}
     /\ app' = [app EXCEPT !.pc = "post", !.p = HeapAlloc]
     /\ UNCHANGED m_lstFreeRecvPool
  \/ /\ m_lstFreeRecvPool = <<>> /\ (heap = Recvs \/ "oom" \in Answers)
     /\ AppGoes("idle")
     /\ UNCHANGED <<m_lstFreeRecvPool, heap>>

FreeRecvObj(r) ==
  IF Len(m_lstFreeRecvPool) >= m_nMaxFreeRecvPoolNum
    THEN heap' = heap \ {r} /\ UNCHANGED m_lstFreeRecvPool
    ELSE m_lstFreeRecvPool' = Append(m_lstFreeRecvPool, r) /\ UNCHANGED heap

(* Variant: a receive that is pending is taken for a failure.              *)
PostRecvPendingIsFailure(r, from) ==
  \/ /\ m_hSocket # 0
     /\ posted' = [posted EXCEPT ![r] = m_hSocket]
     /\ got' = [got EXCEPT ![r] = "nothing"]
     /\ FreeRecvObj(r)
     /\ UNCHANGED dropped
  \/ /\ m_hSocket = 0
     /\ FreeRecvObj(r)
     /\ UNCHANGED <<posted, got, dropped>>

(* The receive is posted on the source's socket as it is now, whichever it *)
(* was posted on before (`from'); where that fails it is given back.       *)
PostRecv(r, from) ==
  \/ /\ m_hSocket # 0
     /\ posted' = [posted EXCEPT ![r] = m_hSocket]
     /\ got' = [got EXCEPT ![r] = "nothing"]
     /\ UNCHANGED <<m_lstFreeRecvPool, heap, dropped>>
  \/ /\ m_hSocket = 0 \/ "nobufs" \in Answers
     /\ FreeRecvObj(r)
     /\ GivenUp(from)
     /\ UNCHANGED <<posted, got>>

----------------------------------------------------------------------------
(* CUdpSource::Close, and Open, which begins with it.  `then' is what the  *)
(* thread goes on with.                                                    *)

Close ==
  /\ AppAt("idle")
  /\ app' = [app EXCEPT !.pc = "closepool", !.then = "idle"]
  /\ UNCHANGED <<sourceVars, recvVars, netVars, portVars, history, worker>>

CloseRecvPool ==
  /\ AppAt("closepool")
  /\ heap' = heap \ ToSet(m_lstFreeRecvPool)
  /\ m_lstFreeRecvPool' = <<>>
  /\ AppGoes("closesocket")
  /\ UNCHANGED <<m_hSocket, m_nMaxFreeRecvPoolNum, posted, got, netVars, portVars, history, worker>>

(* What is outstanding on the socket completes, without bytes.             *)
CloseSocket ==
  /\ AppAt("closesocket")
  /\ m_hSocket' = 0
  /\ open' = open \ {m_hSocket}
  /\ got' = [r \in Recvs |-> IF m_hSocket # 0 /\ posted[r] = m_hSocket /\ got[r] = "nothing"
                               THEN "empty" ELSE got[r]]
  /\ ready' = FALSE /\ dropped' = 0
  /\ app' = [app EXCEPT !.pc = app.then, !.then = "idle"]
  /\ UNCHANGED <<m_lstFreeRecvPool, m_nMaxFreeRecvPoolNum, heap, posted,
                 assoc, nSocks, nEmpty, portVars, worker>>

Open ==
  /\ AppAt("idle")
  /\ nSocks < MaxOpens
  /\ app' = [app EXCEPT !.pc = "closepool", !.then = "socket"]
  /\ UNCHANGED <<sourceVars, recvVars, netVars, portVars, history, worker>>

(* The failure leaves INVALID_SOCKET, the others leave the socket open.    *)
OpenSocket ==
  /\ AppAt("socket")
  /\ \/ /\ m_hSocket' = nSocks + 1
        /\ open' = open \cup {nSocks + 1}
        /\ nSocks' = nSocks + 1
        /\ AppGoes("bind")
     \/ /\ "nosocket" \in Answers
        /\ AppGoes("idle")
        /\ UNCHANGED <<m_hSocket, open, nSocks>>
  /\ UNCHANGED <<m_lstFreeRecvPool, m_nMaxFreeRecvPoolNum, recvVars, assoc, nEmpty,
                 portVars, history, worker>>

(* The server's name, bind or connect, and WSAIoctl.                       *)
OpenBind ==
  /\ AppAt("bind")
  /\ \/ AppGoes("associate")
     \/ "bind" \in Answers /\ AppGoes("idle")
  /\ UNCHANGED <<sourceVars, recvVars, netVars, portVars, history, worker>>

(* The result is not looked at.  With no port, the system makes one that   *)
(* nobody waits on.                                                        *)
OpenAssociate ==
  /\ AppAt("associate")
  /\ \/ assoc' = [assoc EXCEPT ![m_hSocket] = m_hCompletionPort]
     \/ "assoc" \in Answers /\ UNCHANGED assoc
  /\ app' = [app EXCEPT !.pc = "get", !.i = 0]
  /\ UNCHANGED <<sourceVars, recvVars, open, nSocks, nEmpty, portVars, history, worker>>

(* Variant: one receive more than that.                                    *)
OpenGetOneMore ==
  /\ AppAt("get") /\ app.i <= nPostRecv
  /\ GetRecvObj
  /\ UNCHANGED <<m_hSocket, m_nMaxFreeRecvPoolNum, posted, got, netVars,
                 portVars, history, worker>>

OpenGet ==
  /\ AppAt("get") /\ app.i < nPostRecv
  /\ GetRecvObj
  /\ UNCHANGED <<m_hSocket, m_nMaxFreeRecvPoolNum, posted, got, netVars,
                 portVars, history, worker>>

OpenPost ==
  /\ AppAt("post")
  /\ PostRecv(app.p, m_hSocket)
  /\ app' = [app EXCEPT !.pc = "get", !.p = 0, !.i = app.i + 1]
  /\ UNCHANGED <<m_hSocket, m_nMaxFreeRecvPoolNum, netVars, portVars, ready, worker>>

OpenReturns ==
  /\ AppAt("get") /\ app.i = nPostRecv
  /\ ready' = TRUE
  /\ app' = [app EXCEPT !.pc = "idle", !.i = 0]
  /\ UNCHANGED <<sourceVars, recvVars, netVars, portVars, dropped, worker>>

----------------------------------------------------------------------------
(* Datagrams arrive.                                                       *)

Outstanding(r) == posted[r] \in open /\ got[r] = "nothing"

Datagram(r) ==
  /\ Outstanding(r)
  /\ got' = [got EXCEPT ![r] = "bytes"]
  /\ UNCHANGED <<sourceVars, heap, posted, netVars, portVars, history, app, worker>>

EmptyDatagram(r) ==
  /\ Outstanding(r) /\ nEmpty < MaxEmpty
  /\ got' = [got EXCEPT ![r] = "empty"]
  /\ nEmpty' = nEmpty + 1
  /\ UNCHANGED <<sourceVars, heap, posted, open, assoc, nSocks, portVars, history, app, worker>>

----------------------------------------------------------------------------
(* CUdpRunner::Run.                                                        *)

(* A packet in the port that the workers wait on.                          *)
InPort(r, what) ==
  /\ posted[r] # 0 /\ got[r] = what
  /\ m_hCompletionPort # 0 /\ assoc[posted[r]] = m_hCompletionPort

Dequeue(w, r) ==
  /\ worker[w].pc = "idle"
  /\ InPort(r, "bytes")
  /\ posted' = [posted EXCEPT ![r] = 0]
  /\ got' = [got EXCEPT ![r] = "nothing"]
  /\ Becomes(w, [pc |-> "onrecv", p |-> r, n |-> posted[r]])
  /\ UNCHANGED <<sourceVars, heap, netVars, portVars, history, app>>

(* Variant: a packet without bytes ends the worker, as an exit packet does.*)
DequeueEmptyExits(w, r) ==
  /\ worker[w].pc = "idle"
  /\ InPort(r, "empty")
  /\ posted' = [posted EXCEPT ![r] = 0]
  /\ got' = [got EXCEPT ![r] = "nothing"]
  /\ GivenUp(posted[r])
  /\ Becomes(w, [Idle EXCEPT !.pc = "none"])
  /\ UNCHANGED <<sourceVars, heap, netVars, portVars, ready, app>>

(* Nothing is posted in the place of a packet without bytes, and its       *)
(* object is given up: it stays allocated and nobody has it.               *)
DequeueEmpty(w, r) ==
  /\ worker[w].pc = "idle"
  /\ InPort(r, "empty")
  /\ posted' = [posted EXCEPT ![r] = 0]
  /\ got' = [got EXCEPT ![r] = "nothing"]
  /\ GivenUp(posted[r])
  /\ UNCHANGED <<sourceVars, heap, netVars, portVars, ready, app, worker>>

(* Variant: nothing is posted in the place of a packet the application     *)
(* does not want.                                                          *)
OnRecvMayStop(w) ==
  /\ worker[w].pc = "onrecv"
  /\ \/ PostRecv(worker[w].p, worker[w].n)
     \/ UNCHANGED <<m_lstFreeRecvPool, recvVars, dropped>>
  /\ Becomes(w, Idle)
  /\ UNCHANGED <<m_hSocket, m_nMaxFreeRecvPoolNum, netVars, portVars, ready, app>>

(* OnRecv, whose result is not looked at, and PostRecv.                    *)
OnRecv(w) ==
  /\ worker[w].pc = "onrecv"
  /\ PostRecv(worker[w].p, worker[w].n)
  /\ Becomes(w, Idle)
  /\ UNCHANGED <<m_hSocket, m_nMaxFreeRecvPoolNum, netVars, portVars, ready, app>>

(* An exit packet, or the port closed: both leave nByteTransferred at -1.  *)
Exit(w) ==
  /\ worker[w].pc = "idle"
  /\ nExit > 0 \/ m_hCompletionPort = 0
  /\ nExit' = IF nExit > 0 THEN nExit - 1 ELSE 0
  /\ Becomes(w, [Idle EXCEPT !.pc = "none"])
  /\ UNCHANGED <<sourceVars, recvVars, netVars, m_hCompletionPort, nPorts, history, app>>

----------------------------------------------------------------------------
(* CUdpRunner::Open and Close.                                             *)

RunnerClose ==
  /\ AppAt("idle") /\ m_hCompletionPort # 0
  /\ nExit' = nExit + Cardinality(Workers)
  /\ app' = [app EXCEPT !.pc = "closeport", !.then = "idle"]
  /\ UNCHANGED <<sourceVars, recvVars, netVars, m_hCompletionPort, nPorts, history, worker>>

RunnerOpen ==
  /\ AppAt("idle") /\ nPorts < MaxOpens
  /\ IF m_hCompletionPort # 0
       THEN /\ nExit' = nExit + Cardinality(Workers)
            /\ app' = [app EXCEPT !.pc = "closeport", !.then = "port"]
       ELSE AppGoes("port") /\ UNCHANGED nExit
  /\ UNCHANGED <<sourceVars, recvVars, netVars, m_hCompletionPort, nPorts, history, worker>>

ClosePort ==
  /\ AppAt("closeport")
  /\ m_hCompletionPort' = 0
  /\ nExit' = 0
  /\ AppGoes("stop")
  /\ UNCHANGED <<sourceVars, recvVars, netVars, nPorts, history, worker>>

(* Stop waits for every thread, for 258 ms at most: they run out only on a *)
(* thread that is in OnRecv.  Kill ends it, and with it the object it has. *)
StopKill ==
  /\ AppAt("stop")
  /\ \A w \in Workers : worker[w].pc \in {"none", "onrecv"}
  /\ worker' = [w \in Workers |-> [Idle EXCEPT !.pc = "none"]]
  /\ dropped' = dropped + Cardinality({w \in Workers : m_hSocket # 0 /\ worker[w].n = m_hSocket})
  /\ app' = [app EXCEPT !.pc = app.then, !.then = "idle"]
  /\ UNCHANGED <<sourceVars, recvVars, netVars, portVars, ready>>

(* At least one thread can be started.                                     *)
StartThreads ==
  /\ AppAt("port")
  /\ m_hCompletionPort' = nPorts + 1
  /\ nPorts' = nPorts + 1
  /\ \E S \in (SUBSET Workers) \ {{}} :
       /\ S = Workers \/ "fewer" \in Answers
       /\ worker' = [w \in Workers |-> IF w \in S THEN Idle ELSE [Idle EXCEPT !.pc = "none"]]
  /\ AppGoes("idle")
  /\ UNCHANGED <<sourceVars, recvVars, netVars, nExit, history>>

----------------------------------------------------------------------------

Init ==
  /\ m_hSocket = 0
  /\ m_lstFreeRecvPool = <<>> /\ m_nMaxFreeRecvPoolNum \in PoolLimits
  /\ m_hCompletionPort = 0
  /\ app = [pc |-> "idle", then |-> "idle", p |-> 0, i |-> 0]
  /\ worker = [w \in Workers |-> [Idle EXCEPT !.pc = "none"]]
  /\ heap = {} /\ posted = [r \in Recvs |-> 0] /\ got = [r \in Recvs |-> "nothing"]
  /\ open = {} /\ assoc = [n \in Socks |-> 0]
  /\ nSocks = 0 /\ nPorts = 0 /\ nEmpty = 0 /\ nExit = 0
  /\ ready = FALSE /\ dropped = 0

AppRuns ==
  \/ CloseRecvPool \/ CloseSocket
  \/ OpenSocket \/ OpenBind \/ OpenAssociate \/ OpenGet \/ OpenPost \/ OpenReturns
  \/ ClosePort \/ StopKill \/ StartThreads

(* What the workers do with a packet, and how they end.                    *)
Run(w) == OnRecv(w) \/ Exit(w) \/ \E r \in Recvs : DequeueEmpty(w, r)

Next ==
  \/ Close \/ Open \/ RunnerClose \/ RunnerOpen \/ AppRuns
  \/ \E w \in Workers : Run(w) \/ \E r \in Recvs : Dequeue(w, r)
  \/ \E r \in Recvs : Datagram(r) \/ EmptyDatagram(r)

Spec == Init /\ [][Next]_vars

(* Threads run, callbacks return, and an idle worker gets a packet.        *)
Fairness ==
  /\ WF_vars(AppRuns)
  /\ \A w \in Workers : WF_vars(OnRecv(w) \/ Exit(w))
  /\ WF_vars(\E w \in Workers, r \in Recvs : Dequeue(w, r))

FairSpec == Spec /\ Fairness

----------------------------------------------------------------------------

AppPlaces  == {"idle", "closepool", "closesocket", "socket", "bind", "associate",
               "get", "post", "closeport", "stop", "port"}
AppType    == [pc : AppPlaces, then : {"idle", "socket", "port"}, p : 0 .. MaxObjects, i : 0 .. nPostRecv]
WorkerType == [pc : {"none", "idle", "onrecv"}, p : 0 .. MaxObjects, n : 0 .. MaxOpens]

TypeOK ==
  /\ m_hSocket \in 0 .. MaxOpens
  /\ m_lstFreeRecvPool \in Seq(Recvs) /\ m_nMaxFreeRecvPoolNum \in PoolLimits
  /\ m_hCompletionPort \in 0 .. MaxOpens
  /\ app \in AppType /\ worker \in [Workers -> WorkerType]
  /\ heap \subseteq Recvs
  /\ posted \in [Recvs -> 0 .. MaxOpens]
  /\ got \in [Recvs -> {"nothing", "bytes", "empty"}]
  /\ open \subseteq Socks /\ assoc \in [Socks -> 0 .. MaxOpens]
  /\ nSocks \in 0 .. MaxOpens /\ nPorts \in 0 .. MaxOpens
  /\ nEmpty \in 0 .. MaxEmpty /\ nExit \in 0 .. Cardinality(Workers)
  /\ ready \in BOOLEAN /\ dropped \in Nat

(* A receive object is in one place at most, and where it is in one it is  *)
(* allocated: in the free pool (once), outstanding or in a packet, in the  *)
(* hands of Open or in those of one worker.                                *)
Places(r) ==
  {<<"pool", i>> : i \in {i \in DOMAIN m_lstFreeRecvPool : m_lstFreeRecvPool[i] = r}}
  \cup {<<"posted", n>> : n \in {n \in {posted[r]} : n # 0}}
  \cup {<<"open", q>> : q \in {app.p} \cap {r}}
  \cup {<<"worker", w>> : w \in {w \in Workers : worker[w].p = r}}

ReceiveHasOneOwner ==
  \A r \in Recvs : Cardinality(Places(r)) <= IF r \in heap THEN 1 ELSE 0

(* A source that Open opened never has fewer receives than Open posted,    *)
(* outstanding or with a worker, save for those that were given up: after  *)
(* an empty datagram, a failed WSARecvFrom or the killing of a worker.     *)
ReceivesKept ==
  ready =>
    Cardinality({r \in Recvs : posted[r] = m_hSocket})
      + Cardinality({w \in Workers : worker[w].n = m_hSocket})
      + dropped >= nPostRecv

(* While the port is open and a datagram waits in it, a worker takes one.  *)
DatagramIsTaken ==
  (\E r \in Recvs : InPort(r, "bytes"))
    ~> \/ \E w \in Workers : worker[w].pc = "onrecv"
       \/ \A r \in Recvs : ~InPort(r, "bytes")
=============================================================================
