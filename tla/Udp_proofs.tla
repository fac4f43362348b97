----------------------------- MODULE Udp_proofs -----------------------------
(***************************************************************************)
(* Proofs about Udp: its state is well typed, a receive object never has   *)
(* two owners, and the chain of receives does not break, however source    *)
(* and runner are opened and closed and their calls fail.                  *)
(***************************************************************************)
EXTENDS Udp, FiniteSetTheorems, SequenceTheorems, TLAPS

(* What the application's thread knows where it is: the bounds it tested   *)
(* when it began, and that exit packets are posted and the port is closed  *)
(* in one call of Close.                                                   *)
AppKnows ==
  /\ app.pc \in {"closepool", "closesocket"} => app.then \in {"idle", "socket"}
  /\ app.pc \in {"closeport", "stop"} => app.then \in {"idle", "port"}
  /\ (app.pc \in {"closepool", "closesocket"} /\ app.then = "socket") \/ app.pc = "socket"
       => nSocks < MaxOpens
  /\ (app.pc \in {"closeport", "stop"} /\ app.then = "port") \/ app.pc = "port"
       => nPorts < MaxOpens
  /\ app.pc # "closeport" => nExit = 0

(* Open has an object exactly while it posts it, a worker while it is in   *)
(* OnRecv.                                                                 *)
Holding ==
  /\ app.pc = "post" => app.p # 0 /\ app.i < nPostRecv
  /\ \A w \in Workers : worker[w].pc = "onrecv" <=> worker[w].p # 0

TypeInv == TypeOK /\ AppKnows /\ Holding

LEMMA Bounds ==
  /\ MaxObjects \in Nat /\ MaxOpens \in Nat /\ MaxEmpty \in Nat /\ nPostRecv \in Nat
  /\ Cardinality(Workers) \in Nat
BY BoundsAssumption, WorkersAssumption, FS_CardinalityType

LEMMA InitType == Init => TypeInv
<1>. SUFFICES ASSUME Init PROVE TypeInv
  OBVIOUS
<1>. USE Bounds
<1>1. app \in AppType /\ worker \in [Workers -> WorkerType]
  BY DEF Init, Idle, AppType, WorkerType, AppPlaces
<1>2. m_lstFreeRecvPool \in Seq(Recvs)
  BY DEF Init
<1>3. heap \subseteq Recvs /\ open \subseteq Socks
  BY DEF Init
<1>4. posted \in [Recvs -> 0 .. MaxOpens] /\ assoc \in [Socks -> 0 .. MaxOpens]
  BY DEF Init
<1>5. got \in [Recvs -> {"nothing", "bytes", "empty"}]
  BY DEF Init
<1>6. /\ m_hSocket \in 0 .. MaxOpens /\ m_hCompletionPort \in 0 .. MaxOpens
      /\ nSocks \in 0 .. MaxOpens /\ nPorts \in 0 .. MaxOpens
      /\ nEmpty \in 0 .. MaxEmpty /\ nExit \in 0 .. Cardinality(Workers)
  BY DEF Init
<1>7. TypeOK
  BY <1>1, <1>2, <1>3, <1>4, <1>5, <1>6 DEF Init, TypeOK
<1>8. AppKnows /\ Holding
  BY DEF Init, Idle, AppKnows, Holding
<1>. QED BY <1>7, <1>8 DEF TypeInv

(* The free pool and the heap after a receive object is given back.        *)
LEMMA FreeRecvObjType ==
  ASSUME TypeOK, NEW r \in Recvs, FreeRecvObj(r)
  PROVE  m_lstFreeRecvPool' \in Seq(Recvs) /\ heap' \subseteq Recvs
<1>1. m_lstFreeRecvPool \in Seq(Recvs) /\ heap \subseteq Recvs
  BY DEF TypeOK
<1>2. Append(m_lstFreeRecvPool, r) \in Seq(Recvs)
  BY <1>1, AppendProperties
<1>. QED BY <1>1, <1>2 DEF FreeRecvObj

LEMMA PostRecvType ==
  ASSUME TypeOK, NEW r \in Recvs, NEW from, PostRecv(r, from)
  PROVE  /\ m_lstFreeRecvPool' \in Seq(Recvs) /\ heap' \subseteq Recvs
         /\ posted' \in [Recvs -> 0 .. MaxOpens]
         /\ got' \in [Recvs -> {"nothing", "bytes", "empty"}]
         /\ dropped' \in Nat
<1>1. CASE UNCHANGED <<m_lstFreeRecvPool, heap, dropped>>
  BY <1>1 DEF PostRecv, TypeOK, GivenUp
<1>2. CASE FreeRecvObj(r) /\ GivenUp(from) /\ UNCHANGED <<posted, got>>
  BY <1>2, FreeRecvObjType DEF TypeOK, GivenUp
<1>. QED BY <1>1, <1>2 DEF PostRecv

LEMMA GetRecvObjType ==
  ASSUME TypeOK, app.pc = "get", GetRecvObj
  PROVE  /\ m_lstFreeRecvPool' \in Seq(Recvs) /\ heap' \subseteq Recvs
         /\ \/ app' = [app EXCEPT !.pc = "idle"]
            \/ \E r \in Recvs : app' = [app EXCEPT !.pc = "post", !.p = r]
<1>1. CASE m_lstFreeRecvPool # <<>>
  <2>1. Head(m_lstFreeRecvPool) \in Recvs /\ Tail(m_lstFreeRecvPool) \in Seq(Recvs)
    BY <1>1, HeadTailProperties DEF TypeOK
  <2>. QED BY <1>1, <2>1 DEF GetRecvObj, TypeOK
<1>2. CASE m_lstFreeRecvPool = <<>> /\ heap # Recvs /\ app' = [app EXCEPT !.pc = "post", !.p = HeapAlloc]
           /\ heap' = heap \cup {HeapAlloc} /\ UNCHANGED m_lstFreeRecvPool
  <2>1. HeapAlloc \in Recvs
    BY <1>2 DEF TypeOK, HeapAlloc
  <2>. QED BY <1>2, <2>1 DEF TypeOK
<1>3. CASE AppGoes("idle") /\ UNCHANGED <<m_lstFreeRecvPool, heap>>
  BY <1>3 DEF AppGoes, TypeOK
<1>. QED BY <1>1, <1>2, <1>3 DEF GetRecvObj

(* What Open, Close and the runner's Open and Close do one after another.  *)
LEMMA CloseType ==
  ASSUME TypeInv,
         \/ Close \/ Open \/ CloseRecvPool \/ CloseSocket \/ OpenSocket \/ OpenBind \/ OpenAssociate
  PROVE  TypeInv'
<1>. USE Bounds DEF sourceVars, recvVars, netVars, portVars, history, AppAt, AppGoes
<1>0. TypeOK /\ AppKnows /\ Holding
  BY DEF TypeInv
<1>. USE <1>0
<1>1. CASE Close
  <2>1. app' \in AppType
    BY <1>1 DEF Close, TypeOK, AppType, AppPlaces
  <2>2. TypeOK'
    BY <1>1, <2>1 DEF Close, TypeOK
  <2>. QED BY <1>1, <2>2 DEF Close, TypeOK, TypeInv, AppKnows, Holding, AppType
<1>2. CASE Open
  <2>1. app' \in AppType
    BY <1>2 DEF Open, TypeOK, AppType, AppPlaces
  <2>2. TypeOK'
    BY <1>2, <2>1 DEF Open, TypeOK
  <2>. QED BY <1>2, <2>2 DEF Open, TypeOK, TypeInv, AppKnows, Holding, AppType
<1>3. CASE CloseRecvPool
  <2>1. app' \in AppType
    BY <1>3 DEF CloseRecvPool, TypeOK, AppType, AppPlaces
  <2>2. TypeOK'
    BY <1>3, <2>1 DEF CloseRecvPool, TypeOK
  <2>. QED BY <1>3, <2>2 DEF CloseRecvPool, TypeOK, TypeInv, AppKnows, Holding, AppType
<1>4. CASE CloseSocket
  <2>1. app' \in AppType
    BY <1>4 DEF CloseSocket, TypeOK, AppKnows, AppType, AppPlaces
  <2>2. got' \in [Recvs -> {"nothing", "bytes", "empty"}]
    BY <1>4 DEF CloseSocket, TypeOK
  <2>3. m_hSocket' \in 0 .. MaxOpens /\ dropped' \in Nat
    BY <1>4 DEF CloseSocket
  <2>3b. ready' \in BOOLEAN
    BY <1>4 DEF CloseSocket
  <2>3a. open' \subseteq Socks
    BY <1>4 DEF CloseSocket, TypeOK
  <2>4. UNCHANGED <<m_lstFreeRecvPool, m_nMaxFreeRecvPoolNum, heap, posted, assoc, nSocks, nEmpty, portVars, worker>>
    BY <1>4 DEF CloseSocket
  <2>5. TypeOK'
    BY <2>1, <2>2, <2>3, <2>3a, <2>3b, <2>4 DEF TypeOK
  <2>. QED BY <1>4, <2>5 DEF CloseSocket, TypeOK, TypeInv, AppKnows, Holding, AppType
<1>5. CASE OpenSocket
  <2>1. app' \in AppType
    BY <1>5 DEF OpenSocket, TypeOK, AppType, AppPlaces
  <2>2. m_hSocket' \in 0 .. MaxOpens /\ open' \subseteq Socks /\ nSocks' \in 0 .. MaxOpens
    BY <1>5 DEF OpenSocket, TypeOK, AppKnows, Socks
  <2>3. UNCHANGED <<m_lstFreeRecvPool, m_nMaxFreeRecvPoolNum, recvVars, assoc, nEmpty, portVars, history, worker>>
    BY <1>5 DEF OpenSocket
  <2>4. TypeOK'
    BY <2>1, <2>2, <2>3 DEF TypeOK
  <2>. QED BY <1>5, <2>4 DEF OpenSocket, TypeOK, TypeInv, AppKnows, Holding, AppType
<1>6. CASE OpenBind
  <2>1. app' \in AppType
    BY <1>6 DEF OpenBind, TypeOK, AppType, AppPlaces
  <2>2. TypeOK'
    BY <1>6, <2>1 DEF OpenBind, TypeOK
  <2>. QED BY <1>6, <2>2 DEF OpenBind, TypeOK, TypeInv, AppKnows, Holding, AppType
<1>7. CASE OpenAssociate
  <2>1. app' \in AppType
    <3>1. app \in AppType /\ 0 \in 0 .. nPostRecv
      BY DEF TypeOK
    <3>. QED BY <1>7, <3>1 DEF OpenAssociate, AppType, AppPlaces
  <2>2. assoc' \in [Socks -> 0 .. MaxOpens]
    BY <1>7 DEF OpenAssociate, TypeOK
  <2>3. TypeOK'
    BY <1>7, <2>1, <2>2 DEF OpenAssociate, TypeOK
  <2>. QED BY <1>7, <2>3 DEF OpenAssociate, TypeOK, TypeInv, AppKnows, Holding, AppType
<1>. QED BY <1>1, <1>2, <1>3, <1>4, <1>5, <1>6, <1>7

LEMMA OpenType ==
  ASSUME TypeInv, OpenGet \/ OpenPost \/ OpenReturns
  PROVE  TypeInv'
<1>. USE Bounds DEF sourceVars, recvVars, netVars, portVars, history, AppAt
<1>0. TypeOK /\ AppKnows /\ Holding
  BY DEF TypeInv
<1>. USE <1>0
<1>1. CASE OpenGet
  <2>1. /\ m_lstFreeRecvPool' \in Seq(Recvs) /\ heap' \subseteq Recvs
        /\ \/ app' = [app EXCEPT !.pc = "idle"]
           \/ \E r \in Recvs : app' = [app EXCEPT !.pc = "post", !.p = r]
    BY <1>1, GetRecvObjType DEF OpenGet
  <2>0. app \in AppType
    BY DEF TypeOK
  <2>2. app' \in AppType
    <3>1. CASE app' = [app EXCEPT !.pc = "idle"]
      BY <2>0, <3>1 DEF AppType, AppPlaces
    <3>2. ASSUME NEW q \in Recvs, app' = [app EXCEPT !.pc = "post", !.p = q]
          PROVE  app' \in AppType
      <4>1. q \in 0 .. MaxObjects
        BY DEF Recvs
      <4>. QED BY <2>0, <3>2, <4>1 DEF AppType, AppPlaces
    <3>. QED BY <2>1, <3>1, <3>2
  <2>3. UNCHANGED <<m_hSocket, m_nMaxFreeRecvPoolNum, posted, got, netVars, portVars, history, worker>>
    BY <1>1 DEF OpenGet
  <2>4. TypeOK'
    BY <2>1, <2>2, <2>3 DEF TypeOK
  <2>5. AppKnows'
    BY <1>1, <2>1, <2>3 DEF OpenGet, TypeOK, AppType, AppKnows
  <2>6. app.i < nPostRecv /\ app'.i = app.i /\ (app'.pc = "post" => app'.p # 0)
    <3>1. app.i < nPostRecv
      BY <1>1 DEF OpenGet
    <3>2. app'.i = app.i /\ (app'.pc = "post" => app'.p # 0)
      <4>1. CASE app' = [app EXCEPT !.pc = "idle"]
        BY <2>0, <4>1 DEF AppType
      <4>2. ASSUME NEW q \in Recvs, app' = [app EXCEPT !.pc = "post", !.p = q]
            PROVE  app'.i = app.i /\ app'.p # 0
        BY <2>0, <4>2 DEF AppType, Recvs
      <4>. QED BY <2>1, <4>1, <4>2
    <3>. QED BY <3>1, <3>2
  <2>7. Holding'
    BY <2>3, <2>6 DEF Holding
  <2>. QED BY <2>4, <2>5, <2>7 DEF TypeInv
<1>2. CASE OpenPost
  <2>1. app.p \in Recvs
    BY <1>2 DEF OpenPost, TypeOK, AppType, Holding, Recvs
  <2>2. /\ m_lstFreeRecvPool' \in Seq(Recvs) /\ heap' \subseteq Recvs
        /\ posted' \in [Recvs -> 0 .. MaxOpens]
        /\ got' \in [Recvs -> {"nothing", "bytes", "empty"}]
        /\ dropped' \in Nat
    BY <1>2, <2>1, PostRecvType DEF OpenPost
  <2>3. app' = [app EXCEPT !.pc = "get", !.p = 0, !.i = app.i + 1]
    BY <1>2 DEF OpenPost
  <2>4. app.i + 1 \in 0 .. nPostRecv /\ 0 \in 0 .. MaxObjects /\ app \in AppType
    BY <1>2 DEF OpenPost, TypeOK, AppType, Holding
  <2>5. app' \in AppType
    BY <2>3, <2>4 DEF AppType, AppPlaces
  <2>6. UNCHANGED <<m_hSocket, m_nMaxFreeRecvPoolNum, netVars, portVars, ready, worker>>
    BY <1>2 DEF OpenPost
  <2>7. TypeOK'
    BY <2>2, <2>5, <2>6 DEF TypeOK
  <2>8. AppKnows' /\ Holding'
    BY <1>2, <2>3, <2>4, <2>6 DEF OpenPost, AppType, AppKnows, Holding
  <2>. QED BY <2>7, <2>8 DEF TypeInv
<1>3. CASE OpenReturns
  <2>1. app \in AppType /\ 0 \in 0 .. nPostRecv
    BY DEF TypeOK
  <2>2. app' \in AppType
    BY <1>3, <2>1 DEF OpenReturns, AppType, AppPlaces
  <2>3. TypeOK'
    BY <1>3, <2>2 DEF OpenReturns, TypeOK
  <2>4. AppKnows' /\ Holding'
    BY <1>3, <2>1 DEF OpenReturns, AppType, AppKnows, Holding
  <2>. QED BY <2>3, <2>4 DEF TypeInv
<1>. QED BY <1>1, <1>2, <1>3

(* Datagrams arrive, and the workers handle them.                          *)
LEMMA DatagramType ==
  ASSUME TypeInv, NEW r \in Recvs, Datagram(r) \/ EmptyDatagram(r)
  PROVE  TypeInv'
<1>. USE Bounds DEF sourceVars, recvVars, netVars, portVars, history
<1>1. TypeOK /\ AppKnows /\ Holding
  BY DEF TypeInv
<1>2. got' \in [Recvs -> {"nothing", "bytes", "empty"}] /\ nEmpty' \in 0 .. MaxEmpty
  <2>1. got \in [Recvs -> {"nothing", "bytes", "empty"}] /\ nEmpty \in 0 .. MaxEmpty
    BY <1>1 DEF TypeOK
  <2>. QED BY <2>1 DEF Datagram, EmptyDatagram
<1>3. UNCHANGED <<sourceVars, heap, posted, open, assoc, nSocks, portVars, history, app, worker>>
  BY DEF Datagram, EmptyDatagram
<1>4. TypeOK'
  BY <1>1, <1>2, <1>3 DEF TypeOK
<1>5. AppKnows' /\ Holding'
  BY <1>1, <1>3 DEF AppKnows, Holding
<1>. QED BY <1>4, <1>5 DEF TypeInv

LEMMA WorkerInType ==
  ASSUME TypeInv, NEW w \in Workers, NEW r \in Recvs, Dequeue(w, r) \/ DequeueEmpty(w, r)
  PROVE  TypeInv'
<1>. USE Bounds DEF sourceVars, recvVars, netVars, portVars, history, GivenUp
<1>0. TypeOK /\ AppKnows /\ Holding
  BY DEF TypeInv
<1>1. /\ posted' \in [Recvs -> 0 .. MaxOpens]
      /\ got' \in [Recvs -> {"nothing", "bytes", "empty"}]
  <2>1. posted \in [Recvs -> 0 .. MaxOpens] /\ got \in [Recvs -> {"nothing", "bytes", "empty"}]
    BY <1>0 DEF TypeOK
  <2>2. posted' = [posted EXCEPT ![r] = 0] /\ got' = [got EXCEPT ![r] = "nothing"]
    BY DEF Dequeue, DequeueEmpty
  <2>. QED BY <2>1, <2>2
<1>2. worker' \in [Workers -> WorkerType] /\ dropped' \in Nat
  <2>1. worker \in [Workers -> WorkerType] /\ posted[r] \in 0 .. MaxOpens /\ r \in 0 .. MaxObjects
    BY <1>0 DEF TypeOK, Recvs
  <2>2. [pc |-> "onrecv", p |-> r, n |-> posted[r]] \in WorkerType
    BY <2>1 DEF WorkerType
  <2>. QED BY <1>0, <2>1, <2>2 DEF Dequeue, DequeueEmpty, Becomes, TypeOK
<1>3. UNCHANGED <<sourceVars, heap, netVars, portVars, ready, app>>
  BY DEF Dequeue, DequeueEmpty
<1>4. TypeOK'
  BY <1>0, <1>1, <1>2, <1>3 DEF TypeOK
<1>5. AppKnows'
  BY <1>0, <1>3 DEF AppKnows
<1>6. Holding'
  <2>1. worker \in [Workers -> WorkerType] /\ r # 0
    BY <1>0 DEF TypeOK, Recvs
  <2>2. \A v \in Workers : worker'[v].pc = "onrecv" <=> worker'[v].p # 0
    BY <1>0, <2>1 DEF Holding, Dequeue, DequeueEmpty, Becomes
  <2>. QED BY <1>0, <1>3, <2>2 DEF Holding
<1>. QED BY <1>4, <1>5, <1>6 DEF TypeInv

LEMMA WorkerOutType ==
  ASSUME TypeInv, NEW w \in Workers, OnRecv(w) \/ Exit(w)
  PROVE  TypeInv'
<1>. USE Bounds DEF sourceVars, recvVars, netVars, portVars, history
<1>0. TypeOK /\ AppKnows /\ Holding
  BY DEF TypeInv
<1>1. Idle \in WorkerType /\ [Idle EXCEPT !.pc = "none"] \in WorkerType
  BY DEF Idle, WorkerType
<1>2. CASE OnRecv(w)
  <2>1. worker[w].p \in Recvs
    BY <1>0, <1>2 DEF OnRecv, TypeOK, WorkerType, Holding, Recvs
  <2>2. /\ m_lstFreeRecvPool' \in Seq(Recvs) /\ heap' \subseteq Recvs
        /\ posted' \in [Recvs -> 0 .. MaxOpens]
        /\ got' \in [Recvs -> {"nothing", "bytes", "empty"}]
        /\ dropped' \in Nat
    BY <1>0, <1>2, <2>1, PostRecvType DEF OnRecv
  <2>3. worker' \in [Workers -> WorkerType]
    BY <1>0, <1>1, <1>2 DEF OnRecv, Becomes, TypeOK
  <2>4. UNCHANGED <<m_hSocket, m_nMaxFreeRecvPoolNum, netVars, portVars, ready, app>>
    BY <1>2 DEF OnRecv
  <2>5. TypeOK'
    BY <1>0, <2>2, <2>3, <2>4 DEF TypeOK
  <2>6. AppKnows' /\ Holding'
    BY <1>0, <1>2, <2>4 DEF OnRecv, AppKnows, Holding, Becomes, Idle, TypeOK
  <2>. QED BY <2>5, <2>6 DEF TypeInv
<1>3. CASE Exit(w)
  <2>1. worker' \in [Workers -> WorkerType] /\ nExit' \in 0 .. Cardinality(Workers)
    BY <1>0, <1>1, <1>3 DEF Exit, Becomes, TypeOK
  <2>2. UNCHANGED <<sourceVars, recvVars, netVars, m_hCompletionPort, nPorts, history, app>>
    BY <1>3 DEF Exit
  <2>3. TypeOK'
    BY <1>0, <2>1, <2>2 DEF TypeOK
  <2>4. AppKnows'
    BY <1>0, <1>3, <2>2 DEF Exit, AppKnows, TypeOK
  <2>5. Holding'
    BY <1>0, <1>3, <2>2 DEF Exit, Holding, Becomes, Idle, TypeOK
  <2>. QED BY <2>3, <2>4, <2>5 DEF TypeInv
<1>. QED BY <1>2, <1>3

(* The runner is opened and closed.                                        *)
LEMMA RunnerType ==
  ASSUME TypeInv, RunnerClose \/ RunnerOpen \/ ClosePort \/ StopKill \/ StartThreads
  PROVE  TypeInv'
<1>. USE Bounds DEF sourceVars, recvVars, netVars, portVars, history, AppAt, AppGoes
<1>0. TypeOK /\ AppKnows /\ Holding /\ app \in AppType
  BY DEF TypeInv, TypeOK
<1>1. Idle \in WorkerType /\ [Idle EXCEPT !.pc = "none"] \in WorkerType
  BY DEF Idle, WorkerType
<1>2. CASE RunnerClose \/ RunnerOpen
  <2>1. nExit' \in 0 .. Cardinality(Workers)
    BY <1>0, <1>2 DEF RunnerClose, RunnerOpen, AppKnows
  <2>2. app' \in AppType
    BY <1>0, <1>2 DEF RunnerClose, RunnerOpen, AppType, AppPlaces
  <2>3. UNCHANGED <<sourceVars, recvVars, netVars, m_hCompletionPort, nPorts, history, worker>>
    BY <1>2 DEF RunnerClose, RunnerOpen
  <2>4. TypeOK'
    BY <1>0, <2>1, <2>2, <2>3 DEF TypeOK
  <2>5. AppKnows' /\ Holding'
    BY <1>0, <1>2, <2>3 DEF RunnerClose, RunnerOpen, AppKnows, Holding, AppType
  <2>. QED BY <2>4, <2>5 DEF TypeInv
<1>3. CASE ClosePort
  <2>1. app' \in AppType
    BY <1>0, <1>3 DEF ClosePort, AppType, AppPlaces
  <2>2. m_hCompletionPort' \in 0 .. MaxOpens /\ nExit' \in 0 .. Cardinality(Workers)
    BY <1>3 DEF ClosePort
  <2>3. TypeOK'
    BY <1>0, <1>3, <2>1, <2>2 DEF ClosePort, TypeOK
  <2>4. AppKnows' /\ Holding'
    BY <1>0, <1>3 DEF ClosePort, AppKnows, Holding, AppType
  <2>. QED BY <2>3, <2>4 DEF TypeInv
<1>4. CASE StopKill
  <2>1. app' \in AppType
    BY <1>0, <1>4 DEF StopKill, AppType, AppPlaces, AppKnows
  <2>2. worker' \in [Workers -> WorkerType]
    BY <1>1, <1>4 DEF StopKill
  <2>3. dropped' \in Nat
    <3>1. PICK S \in SUBSET Workers : dropped' = dropped + Cardinality(S)
      BY <1>4 DEF StopKill
    <3>2. Cardinality(S) \in Nat
      BY WorkersAssumption, FS_Subset, FS_CardinalityType
    <3>. QED BY <1>0, <3>1, <3>2 DEF TypeOK
  <2>4. UNCHANGED <<sourceVars, recvVars, netVars, portVars, ready>>
    BY <1>4 DEF StopKill
  <2>5. TypeOK'
    BY <1>0, <2>1, <2>2, <2>3, <2>4 DEF TypeOK
  <2>6. AppKnows' /\ Holding'
    BY <1>0, <1>4, <2>4 DEF StopKill, AppKnows, Holding, AppType, Idle
  <2>. QED BY <2>5, <2>6 DEF TypeInv
<1>5. CASE StartThreads
  <2>1. app' \in AppType
    BY <1>0, <1>5 DEF StartThreads, AppType, AppPlaces
  <2>2. m_hCompletionPort' \in 0 .. MaxOpens /\ nPorts' \in 0 .. MaxOpens
    BY <1>0, <1>5 DEF StartThreads, TypeOK, AppKnows
  <2>3. PICK S \in SUBSET Workers :
          worker' = [w \in Workers |-> IF w \in S THEN Idle ELSE [Idle EXCEPT !.pc = "none"]]
    BY <1>5 DEF StartThreads
  <2>4. worker' \in [Workers -> WorkerType]
    BY <1>1, <2>3
  <2>5. UNCHANGED <<sourceVars, recvVars, netVars, nExit, history>>
    BY <1>5 DEF StartThreads
  <2>6. TypeOK'
    BY <1>0, <2>1, <2>2, <2>4, <2>5 DEF TypeOK
  <2>7. \A w \in Workers : worker'[w].pc = "onrecv" <=> worker'[w].p # 0
    BY <2>3 DEF Idle
  <2>8. AppKnows' /\ Holding'
    BY <1>0, <1>5, <2>5, <2>7 DEF StartThreads, AppKnows, Holding, AppType
  <2>. QED BY <2>6, <2>8 DEF TypeInv
<1>. QED BY <1>2, <1>3, <1>4, <1>5

LEMMA NextType == TypeInv /\ [Next]_vars => TypeInv'
<1>. SUFFICES ASSUME TypeInv, [Next]_vars PROVE TypeInv'
  OBVIOUS
<1>1. CASE UNCHANGED vars
  BY <1>1 DEF vars, sourceVars, recvVars, netVars, portVars, history, TypeInv, TypeOK, AppKnows, Holding
<1>2. CASE \E r \in Recvs : Datagram(r) \/ EmptyDatagram(r)
  BY <1>2, DatagramType
<1>3. CASE \E w \in Workers : Run(w) \/ \E r \in Recvs : Dequeue(w, r)
  BY <1>3, WorkerInType, WorkerOutType DEF Run
<1>4. CASE Close \/ Open \/ RunnerClose \/ RunnerOpen \/ AppRuns
  BY <1>4, CloseType, OpenType, RunnerType DEF AppRuns
<1>. QED BY <1>1, <1>2, <1>3, <1>4 DEF Next

(* For any number of workers and receives, source and runner are always in *)
(* a state of their types, whichever calls fail (UdpSource.cpp,            *)
(* UdpRunner.cpp).                                                         *)
THEOREM TypeCorrect == Spec => []TypeOK
<1>1. TypeInv => TypeOK
  BY DEF TypeInv
<1>. QED BY <1>1, InitType, NextType, PTL DEF Spec

----------------------------------------------------------------------------
(* One owner.                                                              *)

(* With `pool' the free pool, `hp' the heap, `post' the sockets the        *)
(* objects are outstanding on, and H the objects in somebody's hands: the  *)
(* pool has each object once, and the three do not overlap.                *)
Owned(pool, hp, post, H) ==
  /\ \A i, j \in DOMAIN pool : pool[i] = pool[j] => i = j
  /\ \A i \in DOMAIN pool : pool[i] \in hp /\ post[pool[i]] = 0 /\ pool[i] \notin H
  /\ \A r \in Recvs : post[r] # 0 => r \in hp /\ r \notin H
  /\ H \subseteq hp

Held == ({app.p} \cup {worker[w].p : w \in Workers}) \ {0}

HandsApart ==
  /\ \A v, w \in Workers : worker[v].p # 0 /\ worker[v].p = worker[w].p => v = w
  /\ \A w \in Workers : app.p # 0 => worker[w].p # app.p

OwnerInv == TypeInv /\ Owned(m_lstFreeRecvPool, heap, posted, Held) /\ HandsApart

LEMMA OwnedFewer ==
  ASSUME NEW pool, NEW hp, NEW post, NEW H, NEW G \in SUBSET H, Owned(pool, hp, post, H)
  PROVE  Owned(pool, hp, post, G)
BY DEF Owned

(* Close frees what is in the pool.                                        *)
LEMMA OwnedCleared ==
  ASSUME NEW pool \in Seq(Recvs), NEW hp, NEW post, NEW H, Owned(pool, hp, post, H)
  PROVE  Owned(<<>>, hp \ ToSet(pool), post, H)
BY DEF Owned, ToSet

(* Open takes the oldest object of the pool.                               *)
LEMMA OwnedTaken ==
  ASSUME NEW pool \in Seq(Recvs), pool # <<>>, NEW hp, NEW post, NEW H, Owned(pool, hp, post, H)
  PROVE  Owned(Tail(pool), hp, post, H \cup {Head(pool)}) /\ Head(pool) \notin H
<1>1. /\ Head(pool) = pool[1] /\ 1 \in DOMAIN pool
      /\ Tail(pool) \in Seq(Recvs) /\ Len(Tail(pool)) = Len(pool) - 1
      /\ \A i \in 1 .. Len(pool) - 1 : Tail(pool)[i] = pool[i + 1]
  BY HeadTailProperties
<1>2. DOMAIN pool = 1 .. Len(pool) /\ DOMAIN Tail(pool) = 1 .. Len(pool) - 1 /\ Len(pool) \in Nat
  BY <1>1
<1>3. \A i \in DOMAIN Tail(pool) : i + 1 \in DOMAIN pool /\ i + 1 # 1 /\ Tail(pool)[i] = pool[i + 1]
  BY <1>1, <1>2
<1>4. \A i, j \in DOMAIN Tail(pool) : Tail(pool)[i] = Tail(pool)[j] => i = j
  BY <1>2, <1>3 DEF Owned
<1>5. \A i \in DOMAIN Tail(pool) :
        /\ Tail(pool)[i] \in hp /\ post[Tail(pool)[i]] = 0
        /\ Tail(pool)[i] \notin H \cup {Head(pool)}
  BY <1>1, <1>3 DEF Owned
<1>6. \A r \in Recvs : post[r] # 0 => r \in hp /\ r \notin H \cup {Head(pool)}
  BY <1>1 DEF Owned
<1>. QED BY <1>1, <1>4, <1>5, <1>6 DEF Owned

(* Or it allocates a new one.                                              *)
LEMMA OwnedAllocated ==
  ASSUME NEW pool, NEW hp, NEW post, NEW H, NEW x, x \notin hp, Owned(pool, hp, post, H)
  PROVE  Owned(pool, hp \cup {x}, post, H \cup {x}) /\ x \notin H
BY DEF Owned

(* A packet is dequeued, and its object is in a worker's hands, or nobody's.*)
LEMMA OwnedDequeued ==
  ASSUME NEW pool \in Seq(Recvs), NEW hp, NEW post, NEW r \in Recvs, post \in [Recvs -> 0 .. MaxOpens],
         post[r] # 0, NEW H, Owned(pool, hp, post, H)
  PROVE  Owned(pool, hp, [post EXCEPT ![r] = 0], H \cup {r}) /\ r \notin H
<1>1. \A i \in DOMAIN pool : pool[i] \in Recvs /\ pool[i] # r
  BY DEF Owned
<1>. QED BY <1>1 DEF Owned

(* Who holds an object posts it, or gives it back.                         *)
LEMMA OwnedPosted ==
  ASSUME TypeOK, NEW r \in Recvs, NEW from, PostRecv(r, from), NEW H, r \in H,
         Owned(m_lstFreeRecvPool, heap, posted, H)
  PROVE  Owned(m_lstFreeRecvPool', heap', posted', H \ {r})
<1>0. /\ m_lstFreeRecvPool \in Seq(Recvs) /\ posted \in [Recvs -> 0 .. MaxOpens]
      /\ r \in heap /\ posted[r] = 0
      /\ \A i \in DOMAIN m_lstFreeRecvPool : m_lstFreeRecvPool[i] \in Recvs /\ m_lstFreeRecvPool[i] # r
  BY DEF TypeOK, Owned
<1>1. CASE posted' = [posted EXCEPT ![r] = m_hSocket] /\ UNCHANGED <<m_lstFreeRecvPool, heap>>
  BY <1>0, <1>1 DEF Owned
<1>2. CASE UNCHANGED posted /\ heap' = heap \ {r} /\ UNCHANGED m_lstFreeRecvPool
  BY <1>0, <1>2 DEF Owned
<1>3. CASE UNCHANGED <<posted, heap>> /\ m_lstFreeRecvPool' = Append(m_lstFreeRecvPool, r)
  <2>. DEFINE n == Len(m_lstFreeRecvPool)
              q == Append(m_lstFreeRecvPool, r)
  <2>1. /\ n \in Nat /\ DOMAIN m_lstFreeRecvPool = 1 .. n /\ DOMAIN q = 1 .. n + 1
        /\ \A i \in 1 .. n : q[i] = m_lstFreeRecvPool[i]
        /\ q[n + 1] = r
    BY <1>0, AppendProperties
  <2>2. \A i \in DOMAIN q : i = n + 1 \/ i \in DOMAIN m_lstFreeRecvPool
    BY <2>1
  <2>. HIDE DEF q, n
  <2>3. \A i, j \in DOMAIN q : q[i] = q[j] => i = j
    BY <1>0, <2>1, <2>2 DEF Owned
  <2>4. \A i \in DOMAIN q : q[i] \in heap /\ posted[q[i]] = 0 /\ q[i] \notin H \ {r}
    BY <1>0, <2>1, <2>2 DEF Owned
  <2>5. m_lstFreeRecvPool' = q
    BY <1>3 DEF q
  <2>. QED BY <1>3, <2>3, <2>4, <2>5 DEF Owned
<1>. QED BY <1>1, <1>2, <1>3 DEF PostRecv, FreeRecvObj

LEMMA InitOwner == Init => OwnerInv
<1>. SUFFICES ASSUME Init PROVE OwnerInv
  OBVIOUS
<1>1. m_lstFreeRecvPool = <<>> /\ posted = [r \in Recvs |-> 0] /\ app.p = 0
      /\ \A w \in Workers : worker[w].p = 0
  BY DEF Init, Idle
<1>2. Held = {}
  BY <1>1 DEF Held
<1>3. Owned(m_lstFreeRecvPool, heap, posted, Held) /\ HandsApart
  BY <1>1, <1>2 DEF Owned, HandsApart
<1>. QED BY <1>3, InitType DEF OwnerInv

(* Steps that change neither pool, heap nor sockets of receives, and after *)
(* which nobody has an object in hand that did not have it before.         *)
LEMMA OwnerKept ==
  ASSUME OwnerInv, TypeInv', UNCHANGED <<m_lstFreeRecvPool, heap, posted>>,
         app'.p \in {0, app.p}, \A w \in Workers : worker'[w].p \in {0, worker[w].p}
  PROVE  OwnerInv'
<1>1. Held' \subseteq Held
  BY DEF Held
<1>2. Owned(m_lstFreeRecvPool', heap', posted', Held')
  BY <1>1, OwnedFewer DEF OwnerInv
<1>3. HandsApart'
  BY DEF OwnerInv, HandsApart
<1>. QED BY <1>2, <1>3 DEF OwnerInv

LEMMA CloseRecvPoolOwner == OwnerInv /\ TypeInv' /\ CloseRecvPool => OwnerInv'
<1>. SUFFICES ASSUME OwnerInv, TypeInv', CloseRecvPool PROVE OwnerInv'
  OBVIOUS
<1>1. app'.p = app.p /\ UNCHANGED <<posted, worker>>
  BY DEF CloseRecvPool, AppGoes, OwnerInv, TypeInv, TypeOK, AppType
<1>2. Held' = Held
  BY <1>1 DEF Held
<1>3. m_lstFreeRecvPool' = <<>> /\ heap' = heap \ ToSet(m_lstFreeRecvPool) /\ m_lstFreeRecvPool \in Seq(Recvs)
  BY DEF CloseRecvPool, OwnerInv, TypeInv, TypeOK
<1>4. Owned(m_lstFreeRecvPool', heap', posted', Held')
  BY <1>1, <1>2, <1>3, OwnedCleared DEF OwnerInv
<1>5. HandsApart'
  BY <1>1 DEF OwnerInv, HandsApart
<1>. QED BY <1>4, <1>5 DEF OwnerInv

LEMMA OpenGetOwner == OwnerInv /\ TypeInv' /\ OpenGet => OwnerInv'
<1>. SUFFICES ASSUME OwnerInv, TypeInv', OpenGet PROVE OwnerInv'
  OBVIOUS
<1>0. /\ app \in AppType /\ m_lstFreeRecvPool \in Seq(Recvs) /\ heap \subseteq Recvs
      /\ Owned(m_lstFreeRecvPool, heap, posted, Held) /\ HandsApart
  BY DEF OwnerInv, TypeInv, TypeOK
<1>1. UNCHANGED <<posted, worker>> /\ GetRecvObj
  BY DEF OpenGet
<1>. DEFINE Gets(x) == /\ app' = [app EXCEPT !.pc = "post", !.p = x]
                       /\ x \notin Held
                       /\ Owned(m_lstFreeRecvPool', heap', posted', Held \cup {x})
<1>2. ASSUME NEW x, Gets(x) PROVE OwnerInv'
  <2>1. app'.p = x
    BY <1>0, <1>2 DEF AppType
  <2>2. Held' \subseteq Held \cup {x}
    BY <1>1, <2>1 DEF Held
  <2>3. Owned(m_lstFreeRecvPool', heap', posted', Held')
    BY <1>2, <2>2, OwnedFewer
  <2>4. HandsApart'
    BY <1>0, <1>1, <1>2, <2>1 DEF HandsApart, Held
  <2>. QED BY <2>3, <2>4 DEF OwnerInv
<1>3. CASE m_lstFreeRecvPool # <<>>
  <2>1. /\ m_lstFreeRecvPool' = Tail(m_lstFreeRecvPool) /\ heap' = heap /\ posted' = posted
        /\ app' = [app EXCEPT !.pc = "post", !.p = Head(m_lstFreeRecvPool)]
    BY <1>1, <1>3 DEF GetRecvObj
  <2>2. /\ Owned(Tail(m_lstFreeRecvPool), heap, posted, Held \cup {Head(m_lstFreeRecvPool)})
        /\ Head(m_lstFreeRecvPool) \notin Held
    BY <1>0, <1>3, OwnedTaken
  <2>3. Gets(Head(m_lstFreeRecvPool))
    BY <2>1, <2>2
  <2>. QED BY <1>2, <2>3
<1>4. CASE /\ m_lstFreeRecvPool = <<>> /\ heap # Recvs /\ heap' = heap \cup {HeapAlloc}
           /\ app' = [app EXCEPT !.pc = "post", !.p = HeapAlloc] /\ UNCHANGED m_lstFreeRecvPool
  <2>1. HeapAlloc \notin heap
    BY <1>0, <1>4 DEF HeapAlloc
  <2>2. Gets(HeapAlloc)
    BY <1>0, <1>1, <1>4, <2>1, OwnedAllocated
  <2>. QED BY <1>2, <2>2
<1>5. CASE AppGoes("idle") /\ UNCHANGED <<m_lstFreeRecvPool, heap>>
  <2>1. app'.p = app.p
    BY <1>0, <1>5 DEF AppGoes, AppType
  <2>. QED BY <1>1, <1>5, <2>1, OwnerKept
<1>. QED BY <1>1, <1>3, <1>4, <1>5 DEF GetRecvObj

LEMMA OpenPostOwner == OwnerInv /\ TypeInv' /\ OpenPost => OwnerInv'
<1>. SUFFICES ASSUME OwnerInv, TypeInv', OpenPost PROVE OwnerInv'
  OBVIOUS
<1>a. /\ TypeOK /\ Holding /\ HandsApart /\ app \in AppType
      /\ Owned(m_lstFreeRecvPool, heap, posted, Held)
  BY DEF OwnerInv, TypeInv, TypeOK
<1>b. app.pc = "post"
  BY DEF OpenPost, AppAt
<1>c. app.p # 0 /\ app.p \in 0 .. MaxObjects
  BY <1>a, <1>b DEF Holding, AppType
<1>0. /\ TypeOK /\ app \in AppType /\ app.p \in Recvs
      /\ Owned(m_lstFreeRecvPool, heap, posted, Held) /\ HandsApart
  BY <1>a, <1>c, Bounds DEF Recvs
<1>1. PostRecv(app.p, m_hSocket) /\ UNCHANGED worker
  BY DEF OpenPost
<1>2. app'.p = 0
  BY <1>0 DEF OpenPost, AppType
<1>3. app.p # 0 /\ app.p \in Held
  BY <1>0 DEF Held, Recvs
<1>4. Owned(m_lstFreeRecvPool', heap', posted', Held \ {app.p})
  BY <1>0, <1>1, <1>3, OwnedPosted
<1>5. Held' \subseteq Held \ {app.p}
  BY <1>0, <1>1, <1>2, <1>3 DEF Held, HandsApart
<1>6. Owned(m_lstFreeRecvPool', heap', posted', Held')
  BY <1>4, <1>5, OwnedFewer
<1>7. HandsApart'
  BY <1>0, <1>1, <1>2 DEF HandsApart
<1>. QED BY <1>6, <1>7 DEF OwnerInv

LEMMA OnRecvOwner ==
  ASSUME OwnerInv, TypeInv', NEW w \in Workers, OnRecv(w)
  PROVE  OwnerInv'
<1>. DEFINE r == worker[w].p
<1>a. /\ TypeOK /\ Holding /\ HandsApart
      /\ Owned(m_lstFreeRecvPool, heap, posted, Held)
  BY DEF OwnerInv, TypeInv
<1>b. worker \in [Workers -> WorkerType] /\ worker[w] \in WorkerType
  BY <1>a DEF TypeOK
<1>c. worker[w].pc = "onrecv"
  BY DEF OnRecv
<1>d. r # 0 /\ r \in 0 .. MaxObjects
  BY <1>a, <1>b, <1>c DEF Holding, WorkerType
<1>0. /\ TypeOK /\ worker \in [Workers -> WorkerType] /\ r \in Recvs /\ r # 0
      /\ Owned(m_lstFreeRecvPool, heap, posted, Held) /\ HandsApart
  BY <1>a, <1>b, <1>d, Bounds DEF Recvs
<1>1. PostRecv(r, worker[w].n) /\ UNCHANGED app
  BY DEF OnRecv
<1>2. worker' = [worker EXCEPT ![w] = Idle] /\ Idle.p = 0
  BY DEF OnRecv, Becomes, Idle
<1>3. r \in Held
  BY <1>0 DEF Held
<1>. HIDE DEF r
<1>4. Owned(m_lstFreeRecvPool', heap', posted', Held \ {r})
  BY <1>0, <1>1, <1>3, OwnedPosted
<1>5. \A v \in Workers : worker'[v].p = IF v = w THEN 0 ELSE worker[v].p
  BY <1>0, <1>2
<1>6. (\A v \in Workers \ {w} : worker[v].p # r) /\ app.p # r
  BY <1>0 DEF HandsApart, r
<1>7. Held' \subseteq Held \ {r}
  BY <1>1, <1>5, <1>6 DEF Held
<1>8. Owned(m_lstFreeRecvPool', heap', posted', Held')
  BY <1>4, <1>7, OwnedFewer
<1>9. HandsApart'
  BY <1>0, <1>1, <1>5 DEF HandsApart
<1>. QED BY <1>8, <1>9 DEF OwnerInv

LEMMA DequeueOwner ==
  ASSUME OwnerInv, TypeInv', NEW w \in Workers, NEW r \in Recvs, Dequeue(w, r) \/ DequeueEmpty(w, r)
  PROVE  OwnerInv'
<1>0. /\ worker \in [Workers -> WorkerType] /\ m_lstFreeRecvPool \in Seq(Recvs)
      /\ posted \in [Recvs -> 0 .. MaxOpens]
      /\ Owned(m_lstFreeRecvPool, heap, posted, Held) /\ HandsApart
  BY DEF OwnerInv, TypeInv, TypeOK
<1>1. posted[r] # 0 /\ UNCHANGED <<m_lstFreeRecvPool, heap, app>>
  BY DEF Dequeue, DequeueEmpty, InPort, sourceVars
<1>2. posted' = [posted EXCEPT ![r] = 0]
  BY DEF Dequeue, DequeueEmpty
<1>3. Owned(m_lstFreeRecvPool', heap', posted', Held \cup {r}) /\ r \notin Held
  BY <1>0, <1>1, <1>2, OwnedDequeued
<1>4. \A v \in Workers : worker'[v].p = worker[v].p \/ (v = w /\ worker'[v].p = r)
  BY <1>0 DEF Dequeue, DequeueEmpty, Becomes
<1>5. Held' \subseteq Held \cup {r}
  BY <1>1, <1>4 DEF Held
<1>6. Owned(m_lstFreeRecvPool', heap', posted', Held')
  BY <1>3, <1>5, OwnedFewer
<1>7. HandsApart'
  BY <1>0, <1>1, <1>3, <1>4 DEF HandsApart, Held
<1>. QED BY <1>6, <1>7 DEF OwnerInv

LEMMA NextOwner == OwnerInv /\ [Next]_vars => OwnerInv'
<1>. SUFFICES ASSUME OwnerInv, [Next]_vars PROVE OwnerInv'
  OBVIOUS
<1>. USE DEF sourceVars, recvVars, netVars, portVars, history, AppAt, AppGoes
<1>0. TypeInv' /\ app \in AppType /\ worker \in [Workers -> WorkerType] /\ Idle.p = 0
      /\ [Idle EXCEPT !.pc = "none"].p = 0
  BY NextType DEF OwnerInv, TypeInv, TypeOK, Idle
<1>1. CASE UNCHANGED vars
  BY <1>0, <1>1, OwnerKept DEF vars
<1>2. CASE Close \/ Open \/ RunnerClose \/ RunnerOpen
  <2>1. UNCHANGED <<m_lstFreeRecvPool, heap, posted, worker>> /\ app'.p = app.p
    BY <1>0, <1>2 DEF Close, Open, RunnerClose, RunnerOpen, AppType
  <2>. QED BY <1>0, <2>1, OwnerKept
<1>3. CASE CloseSocket \/ OpenSocket \/ OpenBind \/ OpenAssociate \/ OpenReturns \/ ClosePort
  <2>1. UNCHANGED <<m_lstFreeRecvPool, heap, posted, worker>> /\ app'.p = app.p
    BY <1>0, <1>3 DEF CloseSocket, OpenSocket, OpenBind, OpenAssociate, OpenReturns, ClosePort, AppType
  <2>. QED BY <1>0, <2>1, OwnerKept
<1>4. CASE StopKill \/ StartThreads
  <2>1. UNCHANGED <<m_lstFreeRecvPool, heap, posted>> /\ app'.p = app.p
    BY <1>0, <1>4 DEF StopKill, StartThreads, AppType
  <2>2. \A w \in Workers : worker'[w].p = 0
    BY <1>0, <1>4 DEF StopKill, StartThreads
  <2>. QED BY <1>0, <2>1, <2>2, OwnerKept
<1>5. ASSUME NEW r \in Recvs, Datagram(r) \/ EmptyDatagram(r) PROVE OwnerInv'
  <2>1. UNCHANGED <<m_lstFreeRecvPool, heap, posted, worker, app>>
    BY <1>5 DEF Datagram, EmptyDatagram
  <2>. QED BY <1>0, <2>1, OwnerKept
<1>6. ASSUME NEW w \in Workers, Exit(w) PROVE OwnerInv'
  <2>1. UNCHANGED <<m_lstFreeRecvPool, heap, posted, app>>
    BY <1>6 DEF Exit
  <2>2. \A v \in Workers : worker'[v].p \in {0, worker[v].p}
    BY <1>0, <1>6 DEF Exit, Becomes
  <2>. QED BY <1>0, <2>1, <2>2, OwnerKept
<1>. QED
  BY <1>0, <1>1, <1>2, <1>3, <1>4, <1>5, <1>6, CloseRecvPoolOwner, OpenGetOwner, OpenPostOwner,
     OnRecvOwner, DequeueOwner DEF Next, AppRuns, Run

(* Where an object is, nobody else has it.                                 *)
LEMMA OnePlace ==
  ASSUME OwnerInv, NEW r \in Recvs
  PROVE  /\ r \notin heap => Places(r) = {}
         /\ \E z : Places(r) \subseteq {z}
<1>. DEFINE InPool == {<<"pool", i>> : i \in {i \in DOMAIN m_lstFreeRecvPool : m_lstFreeRecvPool[i] = r}}
            Posted == {<<"posted", n>> : n \in {n \in {posted[r]} : n # 0}}
            InOpen == {<<"open", q>> : q \in {app.p} \cap {r}}
            AtWork == {<<"worker", w>> : w \in {w \in Workers : worker[w].p = r}}
<1>0. /\ Places(r) = InPool \cup Posted \cup InOpen \cup AtWork
      /\ r # 0 /\ Owned(m_lstFreeRecvPool, heap, posted, Held) /\ HandsApart
  BY DEF Places, OwnerInv, Recvs
<1>1. ASSUME NEW i \in DOMAIN m_lstFreeRecvPool, m_lstFreeRecvPool[i] = r
      PROVE  r \in heap /\ Places(r) \subseteq {<<"pool", i>>}
  BY <1>0, <1>1 DEF Owned, Held
<1>2. ASSUME posted[r] # 0
      PROVE  r \in heap /\ Places(r) \subseteq {<<"posted", posted[r]>>}
  BY <1>0, <1>2 DEF Owned, Held
<1>3. ASSUME app.p = r
      PROVE  r \in heap /\ Places(r) \subseteq {<<"open", r>>}
  BY <1>0, <1>3 DEF Owned, Held, HandsApart
<1>4. ASSUME NEW w \in Workers, worker[w].p = r
      PROVE  r \in heap /\ Places(r) \subseteq {<<"worker", w>>}
  BY <1>0, <1>4 DEF Owned, Held, HandsApart
<1>5. ASSUME ~(\E i \in DOMAIN m_lstFreeRecvPool : m_lstFreeRecvPool[i] = r), posted[r] = 0, app.p # r,
             ~(\E w \in Workers : worker[w].p = r)
      PROVE  Places(r) = {}
  BY <1>0, <1>5
<1>. QED BY <1>1, <1>2, <1>3, <1>4, <1>5

(* For any number of workers and receives, and whichever calls fail, no    *)
(* receive object is ever in two places, or in one after it was freed      *)
(* (UdpSource.cpp:274-312, 451-486).                                       *)
THEOREM ReceiveHasOneOwnerCorrect == Spec => []ReceiveHasOneOwner
<1>1. OwnerInv => ReceiveHasOneOwner
  <2>. SUFFICES ASSUME OwnerInv, NEW r \in Recvs
                PROVE  Cardinality(Places(r)) <= IF r \in heap THEN 1 ELSE 0
    BY DEF ReceiveHasOneOwner
  <2>1. PICK z : Places(r) \subseteq {z}
    BY OnePlace
  <2>2. IsFiniteSet({z}) /\ Cardinality({z}) = 1
    BY FS_Singleton
  <2>3. Cardinality(Places(r)) <= 1
    BY <2>1, <2>2, FS_Subset
  <2>4. Cardinality({}) = 0
    BY FS_EmptySet
  <2>. QED BY <2>3, <2>4, OnePlace
<1>. QED BY <1>1, InitOwner, NextOwner, PTL DEF Spec

----------------------------------------------------------------------------
(* The chain of receives.                                                  *)

Here   == {r \in Recvs : posted[r] = m_hSocket}
AtHand == {w \in Workers : worker[w].n = m_hSocket}
Kept   == Cardinality(Here) + Cardinality(AtHand) + dropped

(* Outside OnRecv a worker is not counted as having a receive; without a   *)
(* port there are no workers once Stop has waited for them, so StartThreads*)
(* starts over none that has one.                                          *)
WorkersKnow ==
  /\ \A w \in Workers : worker[w].pc # "onrecv" => worker[w].n = 0
  /\ app.pc \in {"stop", "port"} => m_hCompletionPort = 0
  /\ m_hCompletionPort = 0 /\ app.pc # "stop" => \A w \in Workers : worker[w].pc = "none"

(* Open begins with a socket that is closed, and then has posted, or given *)
(* up, a receive for each time round its loop.                             *)
OpenKeeps ==
  /\ app.pc = "socket" => ~ready
  /\ app.pc \in {"bind", "associate", "get", "post"} => m_hSocket # 0
  /\ app.pc \in {"get", "post"} => Kept >= app.i

KeptInv == OwnerInv /\ WorkersKnow /\ OpenKeeps /\ (ready => m_hSocket # 0 /\ Kept >= nPostRecv)

LEMMA Finite ==
  ASSUME NEW S, S \subseteq Recvs \/ S \subseteq Workers
  PROVE  IsFiniteSet(S) /\ Cardinality(S) \in Nat
<1>1. IsFiniteSet(Recvs) /\ IsFiniteSet(Workers)
  BY Bounds, WorkersAssumption, FS_Interval DEF Recvs
<1>. QED BY <1>1, FS_Subset, FS_CardinalityType

LEMMA InitKept == Init => KeptInv
<1>. SUFFICES ASSUME Init PROVE KeptInv
  OBVIOUS
<1>1. WorkersKnow /\ OpenKeeps /\ ~ready
  BY DEF Init, Idle, WorkersKnow, OpenKeeps
<1>. QED BY <1>1, InitOwner DEF KeptInv

(* A receive that is posted on the socket is one more of its receives.     *)
LEMMA PostRecvKeeps ==
  ASSUME TypeOK, NEW r \in Recvs, posted[r] = 0, NEW from, PostRecv(r, from),
         m_hSocket # 0, m_hSocket' = m_hSocket
  PROVE  /\ Cardinality(Here') + dropped' >= Cardinality(Here) + dropped
         /\ from = m_hSocket => Cardinality(Here') + dropped' = Cardinality(Here) + dropped + 1
<1>0. Cardinality(Here) \in Nat /\ dropped \in Nat /\ IsFiniteSet(Here)
  BY Finite DEF TypeOK, Here
<1>1. CASE posted' = [posted EXCEPT ![r] = m_hSocket] /\ UNCHANGED dropped
  <2>1. Here' = Here \cup {r} /\ r \notin Here
    BY <1>1 DEF Here, TypeOK
  <2>2. Cardinality(Here') = Cardinality(Here) + 1
    BY <1>0, <2>1, FS_AddElement
  <2>. QED BY <1>0, <1>1, <2>2
<1>2. CASE UNCHANGED posted /\ GivenUp(from)
  <2>1. Here' = Here
    BY <1>2 DEF Here
  <2>. QED BY <1>0, <1>2, <2>1 DEF GivenUp
<1>. QED BY <1>1, <1>2 DEF PostRecv

(* Where a packet is dequeued, it is one less.                             *)
LEMMA DequeueTakes ==
  ASSUME TypeOK, NEW r \in Recvs, posted' = [posted EXCEPT ![r] = 0], m_hSocket # 0, m_hSocket' = m_hSocket
  PROVE  Cardinality(Here') = IF posted[r] = m_hSocket THEN Cardinality(Here) - 1 ELSE Cardinality(Here)
<1>1. Here' = Here \ {r} /\ (r \in Here <=> posted[r] = m_hSocket)
  BY DEF Here, TypeOK
<1>2. CASE r \in Here
  <2>1. IsFiniteSet(Here)
    BY Finite DEF Here
  <2>. QED BY <1>1, <1>2, <2>1, FS_RemoveElement
<1>3. CASE r \notin Here
  <2>1. Here' = Here
    BY <1>1, <1>3
  <2>. QED BY <1>1, <1>3, <2>1
<1>. QED BY <1>2, <1>3

(* The socket is as before, and it has no fewer receives than before: what *)
(* is claimed of it stays true.                                            *)
LEMMA StillKept ==
  ASSUME KeptInv, OwnerInv', WorkersKnow', m_hSocket' = m_hSocket, m_hSocket # 0 => Kept' >= Kept,
         ready' => ready, app'.pc = "socket" => app.pc = "socket",
         app'.pc \in {"bind", "associate", "get", "post"} => m_hSocket # 0,
         app'.pc \in {"get", "post"} => app'.i = 0 \/ (app.pc \in {"get", "post"} /\ app'.i = app.i)
  PROVE  KeptInv'
<1>1. Kept \in Nat /\ Kept' \in Nat
  <2>1. dropped \in Nat /\ dropped' \in Nat
    BY DEF KeptInv, OwnerInv, TypeInv, TypeOK
  <2>2. Here' \subseteq Recvs /\ AtHand' \subseteq Workers /\ Here \subseteq Recvs /\ AtHand \subseteq Workers
    BY DEF Here, AtHand
  <2>3. /\ Cardinality(Here) \in Nat /\ Cardinality(AtHand) \in Nat
        /\ Cardinality(Here') \in Nat /\ Cardinality(AtHand') \in Nat
    BY <2>2, Finite
  <2>. QED BY <2>1, <2>3 DEF Kept
<1>2. app.i \in Nat /\ nPostRecv \in Nat
  BY Bounds DEF KeptInv, OwnerInv, TypeInv, TypeOK, AppType
<1>3. OpenKeeps'
  BY <1>1, <1>2 DEF KeptInv, OpenKeeps
<1>4. ready' => m_hSocket' # 0 /\ Kept' >= nPostRecv
  BY <1>1, <1>2 DEF KeptInv
<1>. QED BY <1>3, <1>4 DEF KeptInv

(* The same where receives and counts are as before.                       *)
LEMMA NothingMoves ==
  ASSUME KeptInv, OwnerInv', WorkersKnow', UNCHANGED <<m_hSocket, posted, dropped>>, ready' => ready,
         app'.pc = "socket" => app.pc = "socket",
         \A w \in Workers : worker'[w].n = worker[w].n,
         app'.pc \in {"bind", "associate", "get", "post"} => m_hSocket # 0,
         app'.pc \in {"get", "post"} => app'.i = 0 \/ (app.pc \in {"get", "post"} /\ app'.i = app.i)
  PROVE  KeptInv'
<1>1. Here' = Here /\ AtHand' = AtHand
  BY DEF Here, AtHand
<1>2. Kept' = Kept
  BY <1>1 DEF Kept
<1>3. Kept \in Nat
  <2>1. Here \subseteq Recvs /\ AtHand \subseteq Workers /\ dropped \in Nat
    BY DEF Here, AtHand, KeptInv, OwnerInv, TypeInv, TypeOK
  <2>2. Cardinality(Here) \in Nat /\ Cardinality(AtHand) \in Nat
    BY <2>1, Finite
  <2>. QED BY <2>1, <2>2 DEF Kept
<1>. QED BY <1>2, <1>3, StillKept

LEMMA OpenPostKeeps == KeptInv /\ OwnerInv' /\ OpenPost => KeptInv'
<1>. SUFFICES ASSUME KeptInv, OwnerInv', OpenPost PROVE KeptInv'
  OBVIOUS
<1>1. /\ TypeOK /\ app \in AppType /\ Holding /\ Owned(m_lstFreeRecvPool, heap, posted, Held)
      /\ dropped \in Nat /\ dropped' \in Nat
  BY DEF KeptInv, OwnerInv, TypeInv, TypeOK
<1>2. app.pc = "post" /\ app.p # 0 /\ app.p \in 0 .. MaxObjects /\ app.i \in Nat
  BY <1>1, Bounds DEF OpenPost, AppAt, Holding, AppType
<1>3. app.p \in Recvs /\ posted[app.p] = 0
  BY <1>1, <1>2, Bounds DEF Recvs, Owned, Held
<1>4. m_hSocket # 0 /\ m_hSocket' = m_hSocket /\ Kept >= app.i
  BY <1>2 DEF KeptInv, OpenKeeps, OpenPost
<1>5. Cardinality(Here') + dropped' = Cardinality(Here) + dropped + 1
  BY <1>1, <1>3, <1>4, PostRecvKeeps DEF OpenPost
<1>6. AtHand' = AtHand
  BY <1>4 DEF AtHand, OpenPost
<1>7. /\ Cardinality(Here) \in Nat /\ Cardinality(Here') \in Nat /\ Cardinality(AtHand) \in Nat
  <2>1. Here' \subseteq Recvs /\ Here \subseteq Recvs /\ AtHand \subseteq Workers
    BY DEF Here, AtHand
  <2>. QED BY <2>1, Finite
<1>8. Kept' = Kept + 1 /\ Kept \in Nat
  BY <1>1, <1>5, <1>6, <1>7 DEF Kept
<1>9. app'.pc = "get" /\ app'.i = app.i + 1
  BY <1>1 DEF OpenPost, AppType
<1>10. WorkersKnow'
  BY <1>2, <1>9 DEF OpenPost, KeptInv, WorkersKnow, portVars
<1>11. OpenKeeps'
  BY <1>2, <1>4, <1>8, <1>9 DEF OpenKeeps
<1>12. ready' => m_hSocket' # 0 /\ Kept' >= nPostRecv
  BY <1>4, <1>8, Bounds DEF KeptInv, OpenPost
<1>. QED BY <1>10, <1>11, <1>12 DEF KeptInv

LEMMA OnRecvKeeps ==
  ASSUME KeptInv, OwnerInv', NEW w \in Workers, OnRecv(w)
  PROVE  KeptInv'
<1>1. /\ TypeOK /\ Holding /\ Owned(m_lstFreeRecvPool, heap, posted, Held)
      /\ worker \in [Workers -> WorkerType] /\ worker[w] \in WorkerType
      /\ dropped \in Nat /\ dropped' \in Nat
  BY DEF KeptInv, OwnerInv, TypeInv, TypeOK
<1>2. worker[w].pc = "onrecv" /\ worker[w].p # 0 /\ worker[w].p \in 0 .. MaxObjects
  BY <1>1 DEF OnRecv, Holding, WorkerType
<1>3. worker[w].p \in Recvs /\ posted[worker[w].p] = 0
  BY <1>1, <1>2, Bounds DEF Recvs, Owned, Held
<1>4. m_hSocket' = m_hSocket /\ app' = app /\ ready' = ready /\ m_hCompletionPort' = m_hCompletionPort
  BY DEF OnRecv, portVars
<1>5. worker' = [worker EXCEPT ![w] = Idle] /\ Idle.n = 0 /\ Idle.pc = "idle"
  BY DEF OnRecv, Becomes, Idle
<1>6. WorkersKnow'
  <2>1. m_hCompletionPort = 0 => app.pc = "stop"
    BY <1>2 DEF KeptInv, WorkersKnow
  <2>2. \A v \in Workers : worker'[v].pc # "onrecv" => worker'[v].n = 0
    BY <1>1, <1>5 DEF KeptInv, WorkersKnow
  <2>. QED BY <1>4, <2>1, <2>2 DEF KeptInv, WorkersKnow
<1>7. CASE m_hSocket # 0
  <2>1. /\ Cardinality(Here') + dropped' >= Cardinality(Here) + dropped
        /\ worker[w].n = m_hSocket => Cardinality(Here') + dropped' = Cardinality(Here) + dropped + 1
    BY <1>1, <1>3, <1>4, <1>7, PostRecvKeeps DEF OnRecv
  <2>2. AtHand' = AtHand \ {w}
    BY <1>1, <1>4, <1>5, <1>7 DEF AtHand
  <2>3. IsFiniteSet(AtHand)
    BY Finite DEF AtHand
  <2>4. Cardinality(AtHand') = IF w \in AtHand THEN Cardinality(AtHand) - 1 ELSE Cardinality(AtHand)
    BY <2>2, <2>3, FS_RemoveElement
  <2>5. w \in AtHand <=> worker[w].n = m_hSocket
    BY DEF AtHand
  <2>6. /\ Cardinality(Here) \in Nat /\ Cardinality(AtHand) \in Nat
        /\ Cardinality(Here') \in Nat /\ Cardinality(AtHand') \in Nat
    <3>1. Here' \subseteq Recvs /\ Here \subseteq Recvs /\ AtHand \subseteq Workers /\ AtHand' \subseteq Workers
      BY DEF Here, AtHand
    <3>. QED BY <3>1, Finite
  <2>7. Kept' >= Kept
    BY <1>1, <2>1, <2>4, <2>5, <2>6 DEF Kept
  <2>8. app'.pc \in {"bind", "associate", "get", "post"} => m_hSocket # 0
    BY <1>7
  <2>9. app'.pc \in {"get", "post"} => app'.i = 0 \/ (app.pc \in {"get", "post"} /\ app'.i = app.i)
    BY <1>4
  <2>. QED BY <1>4, <1>6, <2>7, <2>8, <2>9, StillKept
<1>8. CASE m_hSocket = 0
  BY <1>4, <1>6, <1>8 DEF KeptInv, OpenKeeps
<1>. QED BY <1>7, <1>8

LEMMA DequeueKeeps ==
  ASSUME KeptInv, OwnerInv', NEW w \in Workers, NEW r \in Recvs, Dequeue(w, r) \/ DequeueEmpty(w, r)
  PROVE  KeptInv'
<1>1. /\ TypeOK /\ worker \in [Workers -> WorkerType] /\ dropped \in Nat /\ dropped' \in Nat
  BY DEF KeptInv, OwnerInv, TypeInv, TypeOK
<1>2. /\ m_hSocket' = m_hSocket /\ app' = app /\ ready' = ready /\ m_hCompletionPort' = m_hCompletionPort
      /\ m_hCompletionPort # 0 /\ worker[w].pc = "idle" /\ posted' = [posted EXCEPT ![r] = 0]
  BY DEF Dequeue, DequeueEmpty, InPort, portVars, sourceVars, history
<1>3. worker[w].n = 0
  BY <1>2 DEF KeptInv, WorkersKnow
<1>4. WorkersKnow'
  BY <1>1, <1>2 DEF KeptInv, WorkersKnow, Dequeue, DequeueEmpty, Becomes
<1>5. CASE m_hSocket # 0
  <2>1. Cardinality(Here') = IF posted[r] = m_hSocket THEN Cardinality(Here) - 1 ELSE Cardinality(Here)
    BY <1>1, <1>2, <1>5, DequeueTakes
  <2>2. /\ Cardinality(Here) \in Nat /\ Cardinality(AtHand) \in Nat /\ IsFiniteSet(AtHand)
        /\ Cardinality(Here') \in Nat /\ Cardinality(AtHand') \in Nat
    <3>1. Here' \subseteq Recvs /\ Here \subseteq Recvs /\ AtHand \subseteq Workers /\ AtHand' \subseteq Workers
      BY DEF Here, AtHand
    <3>. QED BY <3>1, Finite
  <2>3. ASSUME Dequeue(w, r) PROVE Kept' >= Kept
    <3>1. worker' = [worker EXCEPT ![w] = [pc |-> "onrecv", p |-> r, n |-> posted[r]]] /\ dropped' = dropped
      BY <2>3 DEF Dequeue, Becomes, history
    <3>2. AtHand' = IF posted[r] = m_hSocket THEN AtHand \cup {w} ELSE AtHand
      BY <1>1, <1>2, <1>3, <1>5, <3>1 DEF AtHand
    <3>3. w \notin AtHand
      BY <1>3, <1>5 DEF AtHand
    <3>4. Cardinality(AtHand \cup {w}) = Cardinality(AtHand) + 1
      BY <2>2, <3>3, FS_AddElement
    <3>. QED BY <1>1, <2>1, <2>2, <3>1, <3>2, <3>4 DEF Kept
  <2>4. ASSUME DequeueEmpty(w, r) PROVE Kept' >= Kept
    <3>1. worker' = worker /\ dropped' = IF posted[r] = m_hSocket THEN dropped + 1 ELSE dropped
      BY <2>4 DEF DequeueEmpty, GivenUp
    <3>2. AtHand' = AtHand
      BY <1>2, <3>1 DEF AtHand
    <3>3. Cardinality(Here') + dropped' = Cardinality(Here) + dropped
      BY <1>1, <2>1, <2>2, <3>1
    <3>. QED BY <1>1, <2>2, <3>1, <3>2, <3>3 DEF Kept
  <2>5. Kept' >= Kept
    BY <2>3, <2>4
  <2>6. app'.pc \in {"get", "post"} => app'.i = 0 \/ (app.pc \in {"get", "post"} /\ app'.i = app.i)
    BY <1>2
  <2>. QED BY <1>2, <1>4, <1>5, <2>5, <2>6, StillKept
<1>6. CASE m_hSocket = 0
  BY <1>2, <1>4, <1>6 DEF KeptInv, OpenKeeps
<1>. QED BY <1>5, <1>6

(* A worker that is killed with an object gives up a receive.              *)
LEMMA StopKillKeeps == KeptInv /\ OwnerInv' /\ StopKill => KeptInv'
<1>. SUFFICES ASSUME KeptInv, OwnerInv', StopKill PROVE KeptInv'
  OBVIOUS
<1>1. /\ app \in AppType /\ app.pc = "stop" /\ app.then \in {"idle", "port"} /\ dropped \in Nat
      /\ m_hCompletionPort = 0
  BY DEF KeptInv, OwnerInv, TypeInv, TypeOK, AppKnows, StopKill, AppAt, WorkersKnow
<1>2. /\ app'.pc \in {"idle", "port"} /\ UNCHANGED <<m_hSocket, posted, m_hCompletionPort, ready>>
      /\ worker' = [w \in Workers |-> [Idle EXCEPT !.pc = "none"]]
  BY <1>1 DEF StopKill, AppType, sourceVars, recvVars, portVars
<1>3. WorkersKnow'
  BY <1>1, <1>2 DEF WorkersKnow, Idle
<1>4. CASE m_hSocket # 0
  <2>1. Here' = Here
    BY <1>2 DEF Here
  <2>2. dropped' = dropped + Cardinality(AtHand)
    <3>1. {w \in Workers : m_hSocket # 0 /\ worker[w].n = m_hSocket} = AtHand
      BY <1>4 DEF AtHand
    <3>. QED BY <3>1 DEF StopKill
  <2>3. AtHand' \subseteq Workers /\ AtHand \subseteq Workers /\ Here \subseteq Recvs
    BY DEF AtHand, Here
  <2>4. Cardinality(AtHand') \in Nat /\ Cardinality(AtHand) \in Nat /\ Cardinality(Here) \in Nat
    BY <2>3, Finite
  <2>5. Kept' >= Kept
    BY <1>1, <2>1, <2>2, <2>4 DEF Kept
  <2>. QED BY <1>2, <1>3, <1>4, <2>5, StillKept
<1>5. CASE m_hSocket = 0
  BY <1>2, <1>3, <1>5 DEF KeptInv, OpenKeeps
<1>. QED BY <1>4, <1>5

(* StartThreads and the end of a worker meet none that has a receive.      *)
LEMMA StartKeeps == KeptInv /\ OwnerInv' /\ StartThreads => KeptInv'
<1>. SUFFICES ASSUME KeptInv, OwnerInv', StartThreads PROVE KeptInv'
  OBVIOUS
<1>1. app \in AppType /\ app.pc = "port" /\ m_hCompletionPort = 0 /\ nPorts \in Nat
  BY Bounds DEF KeptInv, OwnerInv, TypeInv, TypeOK, StartThreads, AppAt, WorkersKnow
<1>2. \A w \in Workers : worker[w].n = 0
  BY <1>1 DEF KeptInv, WorkersKnow
<1>3. /\ app'.pc = "idle" /\ UNCHANGED <<m_hSocket, posted, ready, dropped>>
      /\ m_hCompletionPort' = nPorts + 1
  BY <1>1 DEF StartThreads, AppGoes, AppType, sourceVars, recvVars, history
<1>4. \A w \in Workers : worker'[w].n = 0 /\ worker'[w].pc \in {"idle", "none"}
  BY DEF StartThreads, Idle
<1>5. WorkersKnow'
  BY <1>1, <1>3, <1>4 DEF WorkersKnow
<1>6. app'.pc \notin {"socket", "bind", "associate", "get", "post"}
  BY <1>3
<1>. QED BY <1>2, <1>3, <1>4, <1>5, <1>6, NothingMoves

LEMMA ExitKeeps ==
  ASSUME KeptInv, OwnerInv', NEW w \in Workers, Exit(w)
  PROVE  KeptInv'
<1>1. worker \in [Workers -> WorkerType]
  BY DEF KeptInv, OwnerInv, TypeInv, TypeOK
<1>2. worker[w].n = 0
  BY DEF KeptInv, WorkersKnow, Exit
<1>3. worker' = [worker EXCEPT ![w] = [Idle EXCEPT !.pc = "none"]]
  BY DEF Exit, Becomes
<1>4. \A v \in Workers : worker'[v].n = worker[v].n /\ worker'[v].pc \in {worker[v].pc, "none"}
  BY <1>1, <1>2, <1>3 DEF Idle
<1>5. UNCHANGED <<m_hSocket, posted, dropped, ready, app, m_hCompletionPort>>
  BY DEF Exit, sourceVars, recvVars, history
<1>6. WorkersKnow'
  BY <1>2, <1>4, <1>5, <1>3, <1>1 DEF KeptInv, WorkersKnow
<1>7. app.pc \in {"bind", "associate", "get", "post"} => m_hSocket # 0
  BY DEF KeptInv, OpenKeeps
<1>. QED BY <1>4, <1>5, <1>6, <1>7, NothingMoves

(* The calls of Open, Close and the runner, apart from those above.        *)
LEMMA AppKeeps ==
  ASSUME KeptInv, OwnerInv',
         \/ Close \/ Open \/ RunnerClose \/ RunnerOpen \/ CloseRecvPool \/ OpenBind \/ OpenAssociate
         \/ OpenGet \/ ClosePort
  PROVE  KeptInv'
<1>. USE DEF AppAt, AppGoes, sourceVars, recvVars, netVars, portVars, history
<1>1. app \in AppType
  BY DEF KeptInv, OwnerInv, TypeInv, TypeOK
<1>2. UNCHANGED <<m_hSocket, posted, dropped, ready, worker>>
  BY DEF Close, Open, RunnerClose, RunnerOpen, CloseRecvPool, OpenBind, OpenAssociate, OpenGet, ClosePort
<1>3. WorkersKnow'
  <2>1. CASE Close \/ Open \/ RunnerClose \/ RunnerOpen
    BY <1>1, <1>2, <2>1 DEF KeptInv, WorkersKnow, AppType, Close, Open, RunnerClose, RunnerOpen
  <2>2. CASE CloseRecvPool \/ OpenBind \/ OpenAssociate
    BY <1>1, <1>2, <2>2 DEF KeptInv, WorkersKnow, AppType, CloseRecvPool, OpenBind, OpenAssociate
  <2>3. CASE OpenGet
    BY <1>1, <1>2, <2>3 DEF KeptInv, WorkersKnow, AppType, OpenGet, GetRecvObj
  <2>4. CASE ClosePort
    BY <1>1, <1>2, <2>4 DEF KeptInv, WorkersKnow, AppType, ClosePort
  <2>. QED BY <2>1, <2>2, <2>3, <2>4
<1>4. /\ app'.pc \in {"bind", "associate", "get", "post"} => app.pc \in {"bind", "associate", "get", "post"}
      /\ app'.pc \in {"get", "post"} => app'.i = 0 \/ (app.pc \in {"get", "post"} /\ app'.i = app.i)
      /\ app'.pc = "socket" => app.pc = "socket"
  <2>1. CASE Close \/ Open \/ RunnerClose \/ RunnerOpen \/ CloseRecvPool \/ ClosePort
    BY <1>1, <2>1 DEF AppType, Close, Open, RunnerClose, RunnerOpen, CloseRecvPool, ClosePort
  <2>2. CASE OpenBind \/ OpenAssociate
    BY <1>1, <2>2 DEF AppType, OpenBind, OpenAssociate
  <2>3. CASE OpenGet
    BY <1>1, <2>3 DEF AppType, OpenGet, GetRecvObj
  <2>. QED BY <2>1, <2>2, <2>3
<1>5. app'.pc \in {"bind", "associate", "get", "post"} => m_hSocket # 0
  BY <1>4 DEF KeptInv, OpenKeeps
<1>. QED BY <1>2, <1>3, <1>4, <1>5, NothingMoves

(* Close and Open begin with a new count, and Open's loop ends with it.    *)
LEMMA SocketKeeps == KeptInv /\ OwnerInv' /\ (CloseSocket \/ OpenSocket \/ OpenReturns) => KeptInv'
<1>. SUFFICES ASSUME KeptInv, OwnerInv', CloseSocket \/ OpenSocket \/ OpenReturns PROVE KeptInv'
  OBVIOUS
<1>1. app \in AppType /\ AppKnows /\ nSocks \in Nat
  BY Bounds DEF KeptInv, OwnerInv, TypeInv, TypeOK
<1>2. CASE CloseSocket
  <2>1. app'.pc \in {"idle", "socket"} /\ app.pc = "closesocket" /\ ready' = FALSE
        /\ UNCHANGED <<worker, m_hCompletionPort>>
    BY <1>1, <1>2 DEF CloseSocket, AppAt, AppKnows, AppType, portVars
  <2>2. WorkersKnow' /\ OpenKeeps'
    BY <2>1 DEF KeptInv, WorkersKnow, OpenKeeps
  <2>. QED BY <2>1, <2>2 DEF KeptInv
<1>3. CASE OpenSocket
  <2>1. app'.pc \in {"idle", "bind"} /\ app.pc = "socket" /\ ready' = ready
        /\ UNCHANGED <<worker, m_hCompletionPort>> /\ (app'.pc = "bind" => m_hSocket' = nSocks + 1)
    BY <1>1, <1>3 DEF OpenSocket, AppAt, AppGoes, AppType, portVars, history
  <2>2. ~ready'
    BY <2>1 DEF KeptInv, OpenKeeps
  <2>3. WorkersKnow' /\ OpenKeeps'
    BY <1>1, <2>1, <2>2 DEF KeptInv, WorkersKnow, OpenKeeps
  <2>. QED BY <2>2, <2>3 DEF KeptInv
<1>4. CASE OpenReturns
  <2>1. /\ app'.pc = "idle" /\ app.pc = "get" /\ app.i = nPostRecv
        /\ UNCHANGED <<worker, m_hCompletionPort, m_hSocket, posted, dropped>>
    BY <1>1, <1>4 DEF OpenReturns, AppAt, AppType, sourceVars, recvVars, portVars
  <2>2. Here' = Here /\ AtHand' = AtHand
    BY <2>1 DEF Here, AtHand
  <2>3. m_hSocket' # 0 /\ Kept' >= nPostRecv
    BY <2>1, <2>2 DEF KeptInv, OpenKeeps, Kept
  <2>4. WorkersKnow' /\ OpenKeeps'
    BY <2>1 DEF KeptInv, WorkersKnow, OpenKeeps
  <2>. QED BY <2>3, <2>4 DEF KeptInv
<1>. QED BY <1>2, <1>3, <1>4

LEMMA NextKept == KeptInv /\ [Next]_vars => KeptInv'
<1>. SUFFICES ASSUME KeptInv, [Next]_vars PROVE KeptInv'
  OBVIOUS
<1>1. OwnerInv'
  BY NextOwner DEF KeptInv
<1>2. CASE UNCHANGED vars
  <2>1. UNCHANGED <<m_hSocket, posted, dropped, ready, worker, app, m_hCompletionPort>>
    BY <1>2 DEF vars, sourceVars, recvVars, portVars, history
  <2>. QED BY <1>1, <2>1 DEF KeptInv, WorkersKnow, OpenKeeps, Kept, Here, AtHand
<1>3. ASSUME NEW r \in Recvs, Datagram(r) \/ EmptyDatagram(r) PROVE KeptInv'
  <2>1. UNCHANGED <<m_hSocket, posted, dropped, ready, worker, app, m_hCompletionPort>>
    BY <1>3 DEF Datagram, EmptyDatagram, sourceVars, portVars, history
  <2>. QED BY <1>1, <2>1 DEF KeptInv, WorkersKnow, OpenKeeps, Kept, Here, AtHand
<1>. QED
  BY <1>1, <1>2, <1>3, AppKeeps, SocketKeeps, OpenPostKeeps, StopKillKeeps, StartKeeps, OnRecvKeeps,
     DequeueKeeps, ExitKeeps DEF Next, AppRuns, Run

(* From the return of Open to the next Close the chain of receives does    *)
(* not break: each one that Open posted is outstanding, or in the hands of *)
(* a worker that will post it again, or was given up for one of the three  *)
(* reasons that `dropped' counts (UdpSource.cpp:274-312,                   *)
(* UdpRunner.cpp:86-121).                                                  *)
THEOREM ReceivesKeptCorrect == Spec => []ReceivesKept
<1>1. KeptInv => ReceivesKept
  BY DEF KeptInv, ReceivesKept, Kept, Here, AtHand
<1>. QED BY <1>1, InitKept, NextKept, PTL DEF Spec
=============================================================================
