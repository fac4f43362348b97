------------------------- MODULE SLBlockTcp_proofs -------------------------
(***************************************************************************)
(* Proofs, for every number of connections, threads and places in the list *)
(* of sockets, of the invariants of SLBlockTcp.                            *)
(*                                                                         *)
(* The second part is about SLTcpSession, which unpacks messages from the  *)
(* bytes of a connection: nothing is lost, doubled or reordered, for every *)
(* size of the messages (below half a word, so that int nMsgSize is the    *)
(* size that the head says), of their heads and of the buffer, and however *)
(* they are cut.  The two modules share no constant and no variable, and   *)
(* neither part uses anything of the other.                                *)
(***************************************************************************)
EXTENDS
  SLBlockTcp, SLTcpSession,
  FiniteSetTheorems, SequenceTheorems, WellFoundedInduction, TLAPS

----------------------------------------------------------------------------
(* Who owns the sockets: the listen thread, the list, or the client of a   *)
(* thread, no two of them the same one; and what is open is what they own. *)
(* A connection that is new, waits to be accepted or is lost is none of    *)
(* theirs, so accepting one opens a socket nobody has, and what is lost is *)
(* not closed by anybody a second time.                                    *)

Listed  == {m_lstSocket[i] : i \in DOMAIN m_lstSocket}
Clients == {m_hSocket[w] : w \in Threads} \ {NoConn}
Hands   == {accepted} \ {NoConn}

HandsApart ==
  /\ accepted \notin Listed \cup Clients
  /\ Listed \cap Clients = {}
  /\ \A i, j \in DOMAIN m_lstSocket : m_lstSocket[i] = m_lstSocket[j] => i = j
  /\ \A w, v \in Threads : m_hSocket[w] = m_hSocket[v] /\ m_hSocket[w] # NoConn => w = v
OpenIsOwned == open = Hands \cup Listed \cup Clients
ListenerHolds == accepted # NoConn <=> listener \in {"event", "push"}
Strangers ==
  /\ lost \cap open = {} /\ lost \cap backlog = {} /\ backlog \cap open = {}
  /\ \A c \in Conns : client[c] = "new" => c \notin open /\ c \notin backlog /\ c \notin lost
OwnInv == TypeOK /\ HandsApart /\ OpenIsOwned /\ ListenerHolds /\ Strangers

LEMMA NoConnIsNone == NoConn \notin Conns
BY DEF NoConn, Conns

(* A list loses its head, which is then in it no more, or gains a socket   *)
(* that was not in it.                                                     *)
LEMMA TakeHead ==
  ASSUME NEW S, NEW q \in Seq(S), q # <<>>,
         \A i, j \in DOMAIN q : q[i] = q[j] => i = j
  PROVE  /\ Head(q) \in S /\ Tail(q) \in Seq(S) /\ Len(Tail(q)) <= Len(q)
         /\ \A i, j \in DOMAIN Tail(q) : Tail(q)[i] = Tail(q)[j] => i = j
         /\ {q[i] : i \in DOMAIN q} = {Head(q)} \cup {Tail(q)[i] : i \in DOMAIN Tail(q)}
         /\ Head(q) \notin {Tail(q)[i] : i \in DOMAIN Tail(q)}
<1> DEFINE n == Len(q)
           r == Tail(q)
<1>1. n \in Nat \ {0} /\ DOMAIN q = 1 .. n /\ Head(q) = q[1] /\ Head(q) \in S
  OBVIOUS
<1>2. /\ r \in Seq(S) /\ Len(r) = n - 1 /\ DOMAIN r = 1 .. n - 1
      /\ \A i \in 1 .. n - 1 : r[i] = q[i + 1]
  OBVIOUS
<1> HIDE DEF n, r
<1>3. \A i \in 1 .. n - 1 : i + 1 \in 1 .. n /\ i + 1 # 1
  BY <1>1
<1>4. 1 \in 1 .. n /\ \A i \in 1 .. n : i # 1 => i - 1 \in 1 .. n - 1 /\ (i - 1) + 1 = i
  BY <1>1
<1>5. \A i, j \in 1 .. n - 1 : r[i] = r[j] => i = j
  <2> SUFFICES ASSUME NEW i \in 1 .. n - 1, NEW j \in 1 .. n - 1, r[i] = r[j] PROVE i = j
    OBVIOUS
  <2>1. i + 1 \in DOMAIN q /\ j + 1 \in DOMAIN q
    BY <1>1, <1>3
  <2>2. q[i + 1] = q[j + 1]
    BY <1>2
  <2>3. i + 1 = j + 1
    BY <2>1, <2>2
  <2>4. QED
    BY <1>1, <2>3
<1>6. {q[i] : i \in 1 .. n} \subseteq {q[1]} \cup {r[i] : i \in 1 .. n - 1}
  <2>1. \A i \in 1 .. n : i # 1 => q[i] = r[i - 1]
    BY <1>2, <1>4
  <2>2. QED
    BY <1>4, <2>1
<1>7. {q[1]} \cup {r[i] : i \in 1 .. n - 1} \subseteq {q[i] : i \in 1 .. n}
  <2>1. \A i \in 1 .. n - 1 : r[i] \in {q[k] : k \in 1 .. n}
    BY <1>2, <1>3
  <2>2. QED
    BY <1>4, <2>1
<1>8. q[1] \notin {r[i] : i \in 1 .. n - 1}
  BY <1>1, <1>2, <1>3, <1>4
<1>9. Len(r) <= n
  BY <1>1, <1>2
<1>10. QED
  BY <1>1, <1>2, <1>5, <1>6, <1>7, <1>8, <1>9 DEF r, n

LEMMA AddLast ==
  ASSUME NEW S, NEW q \in Seq(S), NEW s \in S,
         \A i, j \in DOMAIN q : q[i] = q[j] => i = j, s \notin {q[i] : i \in DOMAIN q}
  PROVE  /\ Append(q, s) \in Seq(S) /\ Len(Append(q, s)) = Len(q) + 1
         /\ \A i, j \in DOMAIN Append(q, s) : Append(q, s)[i] = Append(q, s)[j] => i = j
         /\ {Append(q, s)[i] : i \in DOMAIN Append(q, s)} = {q[i] : i \in DOMAIN q} \cup {s}
<1> DEFINE n == Len(q)
           r == Append(q, s)
<1>1. n \in Nat /\ DOMAIN q = 1 .. n
  OBVIOUS
<1>2. r \in Seq(S) /\ Len(r) = n + 1 /\ DOMAIN r = 1 .. n + 1 /\ r[n + 1] = s /\ \A i \in 1 .. n : r[i] = q[i]
  OBVIOUS
<1> HIDE DEF n, r
<1>3. 1 .. n + 1 = (1 .. n) \cup {n + 1}
  BY <1>1
<1>4. \A i, j \in 1 .. n + 1 : r[i] = r[j] => i = j
  BY <1>1, <1>2, <1>3
<1>5. {r[i] : i \in 1 .. n + 1} = {q[i] : i \in 1 .. n} \cup {s}
  BY <1>1, <1>2, <1>3
<1>6. QED
  BY <1>1, <1>2, <1>4, <1>5 DEF r, n

LEMMA OwnInit == Init => OwnInv
<1> SUFFICES ASSUME Init PROVE OwnInv
  OBVIOUS
<1>1. TypeOK
  <2>1. Cardinality(Threads) \in Nat
    BY ThreadsAssumption, FS_CardinalityType
  <2>2. nUnLocks \in 0 .. Cardinality(Threads)
    BY <2>1 DEF Init
  <2>3. m_lstSocket \in Seq(Conns) /\ Len(m_lstSocket) <= m_nQueueMaxSize
    BY BoundsAssumption DEF Init
  <2>4. nCount \in 0 .. m_nQueueMaxSize /\ opened \in [runner : 0 .. MaxOpens, server : 0 .. MaxServerOpens]
    BY BoundsAssumption DEF Init
  <2>5. QED
    BY <2>2, <2>3, <2>4 DEF Init, TypeOK, WorkerStates
<1>2. Listed = {} /\ Clients = {} /\ Hands = {}
  BY DEF Init, Listed, Clients, Hands
<1>3. HandsApart
  BY <1>2 DEF Init, HandsApart
<1>4. QED
  BY <1>1, <1>2, <1>3 DEF Init, OwnInv, OpenIsOwned, ListenerHolds, Strangers

----------------------------------------------------------------------------
(* Types.                                                                  *)

LEMMA UnLockType ==
  ASSUME TypeOK, UnLock
  PROVE  /\ nCount' \in 0 .. m_nQueueMaxSize
         /\ worker' \in [Threads -> WorkerStates]
BY BoundsAssumption DEF TypeOK, UnLock, Goes, Waiting, WorkerStates

LEMMA ListenProcType ==
  ASSUME OwnInv, ListenProc
  PROVE  TypeOK'
<1> USE DEF Listens, closesocket, runnerVars, semaphoreVars, workerVars, ownerVars, sockVars
<1>a. TypeOK
  BY DEF OwnInv
<1>1. CASE ListenIsStop
  BY <1>a, <1>1 DEF ListenIsStop, TypeOK
<1>2. CASE accept
  BY <1>a, <1>2 DEF accept, TypeOK
<1>3. CASE OnAccept
  BY <1>a, <1>3 DEF OnAccept, TypeOK
<1>4. CASE Push
  <2>1. accepted \in Conns
    BY <1>a, <1>4 DEF Push, OwnInv, ListenerHolds, TypeOK
  <2>2. m_lstSocket' \in Seq(Conns) /\ Len(m_lstSocket') <= m_nQueueMaxSize
    <3>1. /\ m_lstSocket \in Seq(Conns) /\ Len(m_lstSocket) <= m_nQueueMaxSize
          /\ Len(m_lstSocket) \in Nat /\ m_nQueueMaxSize \in Nat
      BY <1>a, BoundsAssumption DEF TypeOK
    <3>2. /\ Append(m_lstSocket, accepted) \in Seq(Conns)
          /\ Len(Append(m_lstSocket, accepted)) = Len(m_lstSocket) + 1
      BY <2>1, <3>1
    <3>3. CASE m_nQueueMaxSize > Len(m_lstSocket) /\ m_lstSocket' = Append(m_lstSocket, accepted)
      BY <3>1, <3>2, <3>3
    <3>4. CASE UNCHANGED m_lstSocket
      BY <3>1, <3>4
    <3>5. QED
      BY <1>4, <3>3, <3>4 DEF Push
  <2>3. /\ nCount' \in 0 .. m_nQueueMaxSize
        /\ worker' \in [Threads -> WorkerStates]
    BY <1>a, <1>4, UnLockType DEF Push, TypeOK
  <2>4. open' \subseteq Conns /\ unsignalled' \in BOOLEAN
    BY <1>a, <1>4 DEF Push, TypeOK
  <2>5. /\ accepted' = NoConn /\ listener' = "check"
        /\ UNCHANGED <<client, m_hListenSocket, backlog, stopListen, m_lock, m_hSemaphore, m_ThreadCmd,
                       m_hSocket, ownerVars, lost>>
    BY <1>4 DEF Push
  <2>6. QED
    BY <1>a, <2>2, <2>3, <2>4, <2>5 DEF TypeOK
<1>5. QED
  BY <1>1, <1>2, <1>3, <1>4 DEF ListenProc

LEMMA RunType ==
  ASSUME TypeOK, NEW w \in Threads, Run(w) \/ Recv(w)
  PROVE  TypeOK'
<1> USE DEF Goes, WorkerStates, closesocket, serverVars, runnerVars, semaphoreVars, ownerVars, sockVars
<1>1. CASE IsStop(w)
  BY <1>1 DEF IsStop, TypeOK
<1>2. CASE Lock(w)
  BY <1>2, BoundsAssumption DEF Lock, TypeOK
<1>3. CASE Pop(w)
  <2>1. m_lstSocket # <<>> => /\ Head(m_lstSocket) \in Conns /\ Tail(m_lstSocket) \in Seq(Conns)
                              /\ Len(Tail(m_lstSocket)) = Len(m_lstSocket) - 1 /\ Len(m_lstSocket) \in Nat
    BY DEF TypeOK
  <2>2. m_lstSocket' \in Seq(Conns) /\ Len(m_lstSocket') <= m_nQueueMaxSize
    <3>1. m_lstSocket \in Seq(Conns) /\ Len(m_lstSocket) <= m_nQueueMaxSize /\ m_nQueueMaxSize \in Nat
      BY BoundsAssumption DEF TypeOK
    <3>2. UNCHANGED m_lstSocket \/ (m_lstSocket # <<>> /\ m_lstSocket' = Tail(m_lstSocket))
      BY <1>3 DEF Pop
    <3>3. QED
      BY <2>1, <3>1, <3>2
  <2>3. /\ open' \subseteq Conns /\ m_hSocket' \in [Threads -> Conns \cup {NoConn}]
        /\ worker' \in [Threads -> WorkerStates]
    BY <1>3, <2>1 DEF Pop, Attach, TypeOK
  <2>4. /\ UNCHANGED <<client, serverVars, semaphoreVars, m_ThreadCmd, unsignalled, ownerVars, lost>>
        /\ m_lock' = NoThread
    BY <1>3 DEF Pop
  <2>5. QED
    BY <2>2, <2>3, <2>4 DEF TypeOK
<1>4. CASE OnProcess(w)
  BY <1>4 DEF OnProcess, TypeOK
<1>5. CASE RecvReturns(w)
  BY <1>5 DEF RecvReturns, TypeOK
<1>6. CASE Recv(w)
  BY <1>6 DEF Recv, TypeOK
<1>7. CASE EnterPop(w)
  BY <1>7 DEF EnterPop, TypeOK
<1>8. QED
  BY <1>1, <1>2, <1>3, <1>4, <1>5, <1>6, <1>7 DEF Run

LEMMA ClearThreadsType ==
  ASSUME TypeOK, ClearThreads
  PROVE  /\ lost' \subseteq Conns /\ open' \subseteq Conns
         /\ m_lstSocket' \in Seq(Conns) /\ Len(m_lstSocket') <= m_nQueueMaxSize
         /\ m_lock' \in Threads \cup {NoThread, DeadThread}
         /\ m_hSocket' \in [Threads -> Conns \cup {NoConn}]
         /\ m_ThreadCmd' \in {"nothing", "stop"}
<1>1. /\ m_lstSocket \in Seq(Conns) /\ Len(m_lstSocket) <= m_nQueueMaxSize /\ m_nQueueMaxSize \in Nat
      /\ m_lstSocket # <<>> => /\ Head(m_lstSocket) \in Conns /\ Tail(m_lstSocket) \in Seq(Conns)
                              /\ Len(Tail(m_lstSocket)) = Len(m_lstSocket) - 1
                              /\ Len(m_lstSocket) \in Nat
  BY BoundsAssumption DEF TypeOK
<1>2. m_lstSocket' \in Seq(Conns) /\ Len(m_lstSocket') <= m_nQueueMaxSize
  <2>1. UNCHANGED m_lstSocket \/ (m_lstSocket # <<>> /\ m_lstSocket' = Tail(m_lstSocket))
    BY DEF ClearThreads
  <2>2. QED
    BY <1>1, <2>1
<1>3. Clients \subseteq Conns
  BY DEF Clients, TypeOK
<1>4. lost' \subseteq Conns /\ open' \subseteq Conns
  <2>1. PICK S \in {Clients, Clients \cup {Head(m_lstSocket)}} :
          Loses(S) /\ (S = Clients \/ m_lstSocket # <<>>)
    BY DEF ClearThreads, Clients
  <2>2. S \subseteq Conns
    BY <1>1, <1>3, <2>1
  <2>3. QED
    BY <2>1, <2>2 DEF Loses, TypeOK
<1>5. m_lock' \in Threads \cup {NoThread, DeadThread}
  BY DEF ClearThreads, TypeOK
<1>6. m_hSocket' \in [Threads -> Conns \cup {NoConn}] /\ m_ThreadCmd' \in {"nothing", "stop"}
  BY DEF ClearThreads
<1>7. QED
  BY <1>2, <1>4, <1>5, <1>6

LEMMA ClosingType ==
  ASSUME TypeOK, Closing
  PROVE  TypeOK'
<1> USE DEF serverVars, runnerVars, semaphoreVars, workerVars, ownerVars, sockVars
<1>1. CASE CloseUnLock
  <2>1. Cardinality(Threads) \in Nat
    BY ThreadsAssumption, FS_CardinalityType
  <2>2. nUnLocks' \in 0 .. Cardinality(Threads)
    BY <1>1, <2>1 DEF CloseUnLock, TypeOK
  <2>3. /\ nCount' \in 0 .. m_nQueueMaxSize
        /\ worker' \in [Threads -> WorkerStates]
    BY <1>1, UnLockType DEF CloseUnLock
  <2>4. UNCHANGED <<client, serverVars, m_lstSocket, m_lock, m_hSemaphore, m_ThreadCmd, unsignalled, m_hSocket,
                    owner, opened, sockVars>>
    BY <1>1 DEF CloseUnLock
  <2>5. QED
    BY <2>2, <2>3, <2>4 DEF TypeOK
<1>2. CASE CloseSemaphore
  <2>1. 0 \in 0 .. m_nQueueMaxSize
    BY BoundsAssumption
  <2>2. QED
    BY <1>2, <2>1 DEF CloseSemaphore, TypeOK
<1>3. CASE Stop
  BY <1>3 DEF Stop, TypeOK
<1>4. CASE Kill
  <2>1. ClearThreads
    BY <1>4 DEF Kill
  <2>2. /\ worker' \in [Threads -> WorkerStates] /\ owner' = "clear"
        /\ UNCHANGED <<client, serverVars, semaphoreVars, unsignalled, nUnLocks, opened>>
    BY <1>4 DEF Kill, WorkerStates
  <2>3. QED
    BY <2>1, <2>2, ClearThreadsType DEF TypeOK
<1>5. CASE ClearList
  <2>1. lost' \subseteq Conns /\ open' \subseteq Conns
    BY <1>5 DEF ClearList, Loses, TypeOK
  <2>2. m_lstSocket' \in Seq(Conns) /\ Len(m_lstSocket') <= m_nQueueMaxSize
    BY <1>5, BoundsAssumption DEF ClearList
  <2>3. QED
    BY <1>5, <2>1, <2>2 DEF ClearList, TypeOK
<1>6. CASE StopListen
  BY <1>6 DEF StopListen, TypeOK
<1>7. CASE KillListen
  BY <1>7 DEF KillListen, Loses, Listens, TypeOK
<1>8. QED
  BY <1>1, <1>2, <1>3, <1>4, <1>5, <1>6, <1>7 DEF Closing

LEMMA OwnerType ==
  ASSUME TypeOK, Open \/ StartThreads \/ Close \/ ServerOpen \/ ServerClose
  PROVE  TypeOK'
<1> USE DEF serverVars, runnerVars, semaphoreVars, workerVars, ownerVars, sockVars
<1>a. opened \in [runner : 0 .. MaxOpens, server : 0 .. MaxServerOpens]
  BY DEF TypeOK
<1>1. CASE Open
  <2>1. opened' \in [runner : 0 .. MaxOpens, server : 0 .. MaxServerOpens]
    BY <1>a, <1>1, BoundsAssumption DEF Open
  <2>2. nCount' \in 0 .. m_nQueueMaxSize /\ m_hSemaphore' \in BOOLEAN /\ unsignalled' \in BOOLEAN
    BY <1>1, BoundsAssumption DEF Open, Create
  <2>3. worker' \in [Threads -> WorkerStates] /\ owner' = "start"
    BY <1>1 DEF Open, Create, TypeOK, WorkerStates
  <2>4. UNCHANGED <<client, serverVars, m_lstSocket, m_lock, m_ThreadCmd, m_hSocket, nUnLocks, sockVars>>
    BY <1>1 DEF Open
  <2>5. QED
    BY <2>1, <2>2, <2>3, <2>4 DEF TypeOK
<1>2. CASE Close
  <2>1. Alive \subseteq Threads
    BY DEF Alive
  <2>2. /\ Cardinality(Alive) \in Nat /\ Cardinality(Threads) \in Nat
        /\ Cardinality(Alive) <= Cardinality(Threads)
    BY <2>1, ThreadsAssumption, FS_Subset, FS_CardinalityType
  <2>3. nUnLocks' \in 0 .. Cardinality(Threads) /\ owner' = "unlock"
    BY <1>2, <2>2 DEF Close
  <2>4. UNCHANGED <<client, serverVars, runnerVars, workerVars, opened, sockVars>>
    BY <1>2 DEF Close
  <2>5. QED
    BY <2>3, <2>4 DEF TypeOK
<1>3. CASE ServerOpen
  <2>1. opened' \in [runner : 0 .. MaxOpens, server : 0 .. MaxServerOpens]
    BY <1>a, <1>3, BoundsAssumption DEF ServerOpen
  <2>2. QED
    BY <1>3, <2>1 DEF ServerOpen, Listens, TypeOK
<1>4. CASE ServerClose
  BY <1>4 DEF ServerClose, TypeOK
<1>5. CASE StartThreads
  <2>1. ClearThreads
    BY <1>5 DEF StartThreads
  <2>2. PICK S \in SUBSET Threads : worker' = [w \in Threads |-> IF w \in S THEN "check" ELSE "none"]
    BY <1>5 DEF StartThreads
  <2>3. worker' \in [Threads -> WorkerStates]
    BY <2>2 DEF WorkerStates
  <2>4. /\ unsignalled' \in BOOLEAN /\ owner' = "idle"
        /\ UNCHANGED <<client, serverVars, semaphoreVars, nUnLocks, opened>>
    BY <1>5 DEF StartThreads, TypeOK
  <2>5. QED
    BY <2>1, <2>3, <2>4, ClearThreadsType DEF TypeOK
<1>6. QED
  BY <1>1, <1>2, <1>3, <1>4, <1>5

LEMMA TypeStep == OwnInv /\ [Next]_vars => TypeOK'
<1> SUFFICES ASSUME OwnInv, [Next]_vars PROVE TypeOK'
  OBVIOUS
<1>1. TypeOK
  BY DEF OwnInv
<1>2. ASSUME NEW c \in Conns, ClientConnects(c) \/ ClientLeaves(c) PROVE TypeOK'
  BY <1>1, <1>2 DEF ClientConnects, ClientLeaves, TypeOK, serverVars, runnerVars, semaphoreVars,
     workerVars, ownerVars, sockVars
<1>3. CASE UNCHANGED vars
  BY <1>1, <1>3 DEF vars, TypeOK, serverVars, runnerVars, semaphoreVars, workerVars, ownerVars,
     sockVars
<1>4. QED
  BY <1>1, <1>2, <1>3, ListenProcType, RunType, ClosingType, OwnerType DEF Next

----------------------------------------------------------------------------
(* Ownership.                                                              *)

LEMMA HandsStay ==
  ASSUME OwnInv, UNCHANGED <<open, accepted, m_lstSocket, m_hSocket>>
  PROVE  HandsApart' /\ OpenIsOwned'
BY DEF OwnInv, HandsApart, OpenIsOwned, Listed, Clients, Hands

LEMMA StrangersStay ==
  ASSUME OwnInv, UNCHANGED <<client, backlog, lost>>, open' \subseteq open
  PROVE  Strangers'
BY DEF OwnInv, Strangers

LEMMA ListenProcOwn ==
  ASSUME OwnInv, ListenProc
  PROVE  HandsApart' /\ OpenIsOwned' /\ ListenerHolds' /\ Strangers'
<1> USE NoConnIsNone DEF Listens, closesocket, runnerVars, workerVars, ownerVars, sockVars
<1>a. TypeOK /\ HandsApart /\ OpenIsOwned /\ ListenerHolds /\ Strangers
  BY DEF OwnInv
<1>1. CASE ListenIsStop
  <2>1. UNCHANGED <<open, accepted, m_lstSocket, m_hSocket, client, backlog, lost>>
    BY <1>1 DEF ListenIsStop
  <2>2. ListenerHolds'
    BY <1>a, <1>1 DEF ListenIsStop, ListenerHolds
  <2>3. QED
    BY <2>1, <2>2, HandsStay, StrangersStay
<1>2. CASE accept
  <2>1. CASE ~m_hListenSocket
    <3>1. UNCHANGED <<open, accepted, m_lstSocket, m_hSocket, client, backlog, lost>>
      BY <1>2, <2>1 DEF accept
    <3>2. ListenerHolds'
      BY <1>a, <1>2, <2>1 DEF accept, ListenerHolds
    <3>3. QED
      BY <3>1, <3>2, HandsStay, StrangersStay
  <2>2. CASE m_hListenSocket
    <3>1. PICK c \in backlog : accepted' = c /\ backlog' = backlog \ {c} /\ open' = open \cup {c}
      BY <1>2, <2>2 DEF accept
    <3>2. UNCHANGED <<m_lstSocket, m_hSocket, client, lost>> /\ listener = "accept" /\ listener' = "event"
      BY <1>2, <2>2 DEF accept
    <3>3. c \in Conns /\ c \notin open /\ c \notin lost /\ client[c] # "new" /\ accepted = NoConn
      BY <1>a, <3>1, <3>2 DEF TypeOK, Strangers, ListenerHolds
    <3>4. Listed' = Listed /\ Clients' = Clients /\ Hands = {} /\ Hands' = {c}
      BY <3>1, <3>2, <3>3 DEF Listed, Clients, Hands
    <3>5. HandsApart'
      BY <1>a, <3>1, <3>2, <3>3, <3>4 DEF HandsApart, OpenIsOwned
    <3>6. OpenIsOwned' /\ ListenerHolds'
      BY <1>a, <3>1, <3>2, <3>3, <3>4 DEF OpenIsOwned, ListenerHolds
    <3>7. Strangers'
      BY <1>a, <3>1, <3>2, <3>3 DEF Strangers
    <3>8. QED
      BY <3>5, <3>6, <3>7
  <2>3. QED
    BY <2>1, <2>2
<1>3. CASE OnAccept
  <2>1. UNCHANGED <<m_lstSocket, m_hSocket, client, backlog, lost>> /\ listener = "event"
    BY <1>3 DEF OnAccept
  <2>2. CASE listener' = "push" /\ UNCHANGED <<accepted, open>>
    BY <1>a, <2>1, <2>2, HandsStay, StrangersStay DEF ListenerHolds
  <2>3. CASE open' = open \ {accepted} /\ accepted' = NoConn /\ listener' = "check"
    <3>1. accepted # NoConn /\ NoConn \notin Listed \cup Clients
      BY <1>a, <2>1 DEF ListenerHolds, OpenIsOwned, TypeOK
    <3>2. Listed' = Listed /\ Clients' = Clients /\ Hands = {accepted} /\ Hands' = {}
      BY <2>1, <2>3, <3>1 DEF Listed, Clients, Hands
    <3>3. HandsApart' /\ OpenIsOwned'
      BY <1>a, <2>1, <2>3, <3>1, <3>2 DEF HandsApart, OpenIsOwned
    <3>4. ListenerHolds' /\ Strangers'
      BY <2>1, <2>3, StrangersStay DEF ListenerHolds
    <3>5. QED
      BY <3>3, <3>4
  <2>4. QED
    BY <1>3, <2>2, <2>3 DEF OnAccept
<1>4. CASE Push
  <2>1. /\ UNCHANGED <<m_hSocket, client, backlog, lost>> /\ listener = "push"
        /\ accepted' = NoConn /\ listener' = "check"
    BY <1>4 DEF Push
  <2>2. /\ accepted \in Conns /\ NoConn \notin Listed \cup Clients /\ accepted \notin Listed
        /\ Hands = {accepted} /\ Hands' = {} /\ Clients' = Clients /\ m_lstSocket \in Seq(Conns)
    BY <1>a, <2>1 DEF ListenerHolds, OpenIsOwned, HandsApart, TypeOK, Hands, Clients
  <2>3. open' \subseteq open
    BY <1>4 DEF Push
  <2>4. ListenerHolds' /\ Strangers'
    BY <2>1, <2>3, StrangersStay DEF ListenerHolds
  <2>5. CASE m_lstSocket' = Append(m_lstSocket, accepted) /\ UNCHANGED open
    <3>1. /\ \A i, j \in DOMAIN m_lstSocket' : m_lstSocket'[i] = m_lstSocket'[j] => i = j
          /\ Listed' = Listed \cup {accepted}
      BY <1>a, <2>2, <2>5, AddLast DEF HandsApart, Listed
    <3>2. HandsApart' /\ OpenIsOwned'
      BY <1>a, <2>1, <2>2, <2>5, <3>1 DEF HandsApart, OpenIsOwned
    <3>3. QED
      BY <2>4, <3>2
  <2>6. CASE open' = open \ {accepted} /\ UNCHANGED m_lstSocket
    <3>1. Listed' = Listed
      BY <2>6 DEF Listed
    <3>2. HandsApart' /\ OpenIsOwned'
      BY <1>a, <2>1, <2>2, <2>6, <3>1 DEF HandsApart, OpenIsOwned
    <3>3. QED
      BY <2>4, <3>2
  <2>7. QED
    BY <1>4, <2>5, <2>6 DEF Push
<1>5. QED
  BY <1>1, <1>2, <1>3, <1>4 DEF ListenProc

(* The client of a thread gives its socket up for another one, or none.    *)
LEMMA ClientChanges ==
  ASSUME OwnInv, NEW w \in Threads, NEW c \in Conns \cup {NoConn}, c \notin Clients,
         m_hSocket' = [m_hSocket EXCEPT ![w] = c]
  PROVE  /\ Clients' = (Clients \ {m_hSocket[w]}) \cup ({c} \ {NoConn})
         /\ \A v, u \in Threads : m_hSocket'[v] = m_hSocket'[u] /\ m_hSocket'[v] # NoConn => v = u
<1>1. /\ m_hSocket \in [Threads -> Conns \cup {NoConn}]
      /\ \A v, u \in Threads : m_hSocket[v] = m_hSocket[u] /\ m_hSocket[v] # NoConn => v = u
  BY DEF OwnInv, TypeOK, HandsApart
<1>2. m_hSocket'[w] = c /\ \A v \in Threads \ {w} : m_hSocket'[v] = m_hSocket[v]
  BY <1>1
<1>3. \A v \in Threads : m_hSocket[v] # NoConn => m_hSocket[v] \in Clients
  BY DEF Clients
<1>4. \A v, u \in Threads : m_hSocket'[v] = m_hSocket'[u] /\ m_hSocket'[v] # NoConn => v = u
  BY <1>1, <1>2, <1>3
<1>5. Clients' = (Clients \ {m_hSocket[w]}) \cup ({c} \ {NoConn})
  <2>1. ASSUME NEW x \in Clients' PROVE x \in (Clients \ {m_hSocket[w]}) \cup ({c} \ {NoConn})
    <3>1. PICK v \in Threads : x = m_hSocket'[v] /\ x # NoConn
      BY <2>1 DEF Clients
    <3>2. QED
      BY <1>1, <1>2, <1>3, <3>1
  <2>2. ASSUME NEW x \in Clients, x # m_hSocket[w] PROVE x \in Clients'
    <3>1. PICK v \in Threads : x = m_hSocket[v] /\ x # NoConn
      BY <2>2 DEF Clients
    <3>2. QED
      BY <1>2, <2>2, <3>1 DEF Clients
  <2>3. c # NoConn => c \in Clients'
    BY <1>2 DEF Clients
  <2>4. QED
    BY <2>1, <2>2, <2>3
<1>6. QED
  BY <1>4, <1>5

LEMMA RunOwn ==
  ASSUME OwnInv, NEW w \in Threads, Run(w) \/ Recv(w)
  PROVE  HandsApart' /\ OpenIsOwned' /\ ListenerHolds' /\ Strangers'
<1> USE NoConnIsNone DEF closesocket, serverVars, runnerVars, semaphoreVars, ownerVars, sockVars
<1>a. TypeOK /\ HandsApart /\ OpenIsOwned /\ ListenerHolds /\ Strangers
  BY DEF OwnInv
<1>b. UNCHANGED <<accepted, listener, client, backlog, lost>> /\ open' \subseteq open
  BY DEF Run, Recv, IsStop, Lock, EnterPop, Pop, Attach, OnProcess, RecvReturns
<1>c. ListenerHolds' /\ Strangers' /\ Hands' = Hands
  BY <1>a, <1>b, StrangersStay DEF ListenerHolds, Hands
<1>d. NoConn \notin Clients
  BY DEF Clients
<1>1. CASE UNCHANGED <<open, m_lstSocket, m_hSocket>>
  BY <1>b, <1>c, <1>1, HandsStay
<1>2. CASE /\ open' = open \ {m_hSocket[w]} /\ m_hSocket' = [m_hSocket EXCEPT ![w] = NoConn]
           /\ UNCHANGED m_lstSocket
  <2>1. /\ Clients' = Clients \ {m_hSocket[w]} /\ Listed' = Listed
        /\ \A v, u \in Threads : m_hSocket'[v] = m_hSocket'[u] /\ m_hSocket'[v] # NoConn => v = u
    <3>1. NoConn \in Conns \cup {NoConn} /\ {NoConn} \ {NoConn} = {} /\ Listed' = Listed
      BY <1>2 DEF Listed
    <3>2. m_hSocket' = [m_hSocket EXCEPT ![w] = NoConn]
      BY <1>2
    <3>3. Clients' = (Clients \ {m_hSocket[w]}) \cup ({NoConn} \ {NoConn})
      BY <1>d, <3>1, <3>2, ClientChanges
    <3>4. \A v, u \in Threads : m_hSocket'[v] = m_hSocket'[u] /\ m_hSocket'[v] # NoConn => v = u
      BY <1>d, <3>1, <3>2, ClientChanges
    <3>5. QED
      BY <3>1, <3>3, <3>4
  <2>2. m_hSocket[w] # NoConn => m_hSocket[w] \in Clients
    BY DEF Clients
  <2>3. NoConn \notin open
    BY <1>a DEF TypeOK
  <2>4. HandsApart' /\ OpenIsOwned'
    BY <1>a, <1>b, <1>c, <1>2, <2>1, <2>2, <2>3 DEF HandsApart, OpenIsOwned, Hands
  <2>5. QED
    BY <1>c, <2>4
<1>3. CASE /\ m_lstSocket # <<>> /\ m_lstSocket' = Tail(m_lstSocket)
           /\ Attach(w, Head(m_lstSocket))
  <2> DEFINE c == Head(m_lstSocket)
  <2>1. /\ c \in Conns
        /\ \A i, j \in DOMAIN m_lstSocket' : m_lstSocket'[i] = m_lstSocket'[j] => i = j
        /\ Listed = {c} \cup Listed' /\ c \notin Listed'
    <3>1. m_lstSocket \in Seq(Conns) /\ \A i, j \in DOMAIN m_lstSocket : m_lstSocket[i] = m_lstSocket[j] => i = j
      BY <1>a DEF TypeOK, HandsApart
    <3>2. /\ c \in Conns
          /\ \A i, j \in DOMAIN Tail(m_lstSocket) : Tail(m_lstSocket)[i] = Tail(m_lstSocket)[j] => i = j
          /\ Listed = {c} \cup {Tail(m_lstSocket)[i] : i \in DOMAIN Tail(m_lstSocket)}
          /\ c \notin {Tail(m_lstSocket)[i] : i \in DOMAIN Tail(m_lstSocket)}
      BY <1>3, <3>1, TakeHead DEF Listed
    <3>3. QED
      BY <1>3, <3>2 DEF Listed
  <2>2. m_hSocket' = [m_hSocket EXCEPT ![w] = c] /\ open' = open \ {m_hSocket[w]}
    BY <1>3 DEF Attach
  <2> HIDE DEF c
  <2>3. c # NoConn /\ c \notin Clients /\ c \notin Hands
    BY <1>a, <2>1 DEF HandsApart, Hands
  <2>4. /\ Clients' = (Clients \ {m_hSocket[w]}) \cup {c}
        /\ \A v, u \in Threads : m_hSocket'[v] = m_hSocket'[u] /\ m_hSocket'[v] # NoConn => v = u
    <3>1. c \in Conns \cup {NoConn} /\ {c} \ {NoConn} = {c} /\ c \notin Clients
      BY <2>1, <2>3
    <3>2. /\ Clients' = (Clients \ {m_hSocket[w]}) \cup ({c} \ {NoConn})
          /\ \A v, u \in Threads : m_hSocket'[v] = m_hSocket'[u] /\ m_hSocket'[v] # NoConn => v = u
      BY <2>2, <3>1, ClientChanges
    <3>3. QED
      BY <3>1, <3>2
  <2>5. m_hSocket[w] # NoConn => m_hSocket[w] \in Clients
    BY DEF Clients
  <2>6. NoConn \notin open
    BY <1>a DEF TypeOK
  <2>7. HandsApart' /\ OpenIsOwned'
    BY <1>a, <1>b, <1>c, <2>1, <2>2, <2>3, <2>4, <2>5, <2>6 DEF HandsApart, OpenIsOwned, Hands
  <2>8. QED
    BY <1>c, <2>7
<1>4. QED
  BY <1>1, <1>2, <1>3 DEF Run, Recv, IsStop, Lock, EnterPop, Pop, OnProcess, RecvReturns

(* Terminated threads lose the sockets of their clients, and the one that  *)
(* a thread inside Pop may have taken from the list.                       *)
LEMMA ClearThreadsOwn ==
  ASSUME OwnInv, ClearThreads, UNCHANGED <<client, serverVars>>
  PROVE  HandsApart' /\ OpenIsOwned' /\ ListenerHolds' /\ Strangers'
<1> USE NoConnIsNone
<1>a. TypeOK /\ HandsApart /\ OpenIsOwned /\ ListenerHolds /\ Strangers
  BY DEF OwnInv
<1>b. UNCHANGED <<accepted, client, backlog, listener>>
  BY DEF serverVars
<1>c. m_hSocket' = [w \in Threads |-> NoConn]
  BY DEF ClearThreads
<1>d. Clients' = {} /\ Hands' = Hands
  BY <1>b, <1>c DEF Clients, Hands
<1>e. ListenerHolds'
  BY <1>a, <1>b DEF ListenerHolds
<1>1. PICK S \in SUBSET Conns :
        /\ Loses(S) /\ Listed' = Listed \ S
        /\ Clients \subseteq S /\ S \subseteq Listed \cup Clients
        /\ \A i, j \in DOMAIN m_lstSocket' : m_lstSocket'[i] = m_lstSocket'[j] => i = j
  <2>1. Clients \subseteq Conns /\ Listed \cap Clients = {}
    BY <1>a DEF Clients, TypeOK, HandsApart
  <2>2. CASE Loses(Clients) /\ UNCHANGED m_lstSocket
    <3>1. Listed' = Listed \ Clients
      BY <2>1, <2>2 DEF Listed
    <3>2. \A i, j \in DOMAIN m_lstSocket' : m_lstSocket'[i] = m_lstSocket'[j] => i = j
      BY <1>a, <2>2 DEF HandsApart
    <3>3. QED
      BY <2>1, <2>2, <3>1, <3>2
  <2>3. CASE /\ m_lstSocket # <<>> /\ m_lstSocket' = Tail(m_lstSocket)
             /\ Loses(Clients \cup {Head(m_lstSocket)})
    <3>1. m_lstSocket \in Seq(Conns) /\ \A i, j \in DOMAIN m_lstSocket : m_lstSocket[i] = m_lstSocket[j] => i = j
      BY <1>a DEF TypeOK, HandsApart
    <3>2. PICK c \in Conns : c = Head(m_lstSocket)
      BY <2>3, <3>1
    <3>3. /\ \A i, j \in DOMAIN Tail(m_lstSocket) : Tail(m_lstSocket)[i] = Tail(m_lstSocket)[j] => i = j
          /\ Listed = {c} \cup {Tail(m_lstSocket)[i] : i \in DOMAIN Tail(m_lstSocket)}
          /\ c \notin {Tail(m_lstSocket)[i] : i \in DOMAIN Tail(m_lstSocket)}
      BY <2>3, <3>1, <3>2, TakeHead DEF Listed
    <3>4. Listed' = {Tail(m_lstSocket)[i] : i \in DOMAIN Tail(m_lstSocket)}
      BY <2>3 DEF Listed
    <3>5. Listed' = Listed \ (Clients \cup {c}) /\ c \in Listed
      BY <2>1, <3>3, <3>4
    <3>6. QED
      BY <2>1, <2>3, <3>2, <3>3, <3>5
  <2>4. QED
    BY <2>2, <2>3 DEF ClearThreads, Clients
<1>2. lost' = lost \cup S /\ open' = open \ lost' /\ S \subseteq open
  BY <1>a, <1>1 DEF Loses, OpenIsOwned
<1>3. open' = Hands \cup Listed'
  <2>1. lost \cap open = {} /\ S \cap Hands = {}
    BY <1>a, <1>1 DEF Strangers, HandsApart, Hands
  <2>2. QED
    BY <1>a, <1>1, <1>2, <2>1 DEF OpenIsOwned
<1>4. HandsApart' /\ OpenIsOwned'
  BY <1>a, <1>b, <1>c, <1>d, <1>1, <1>3 DEF HandsApart, OpenIsOwned
<1>5. Strangers'
  BY <1>a, <1>b, <1>2 DEF Strangers
<1>6. QED
  BY <1>e, <1>4, <1>5

LEMMA OwnerOwn ==
  ASSUME OwnInv, Closing \/ Open \/ StartThreads \/ Close \/ ServerOpen \/ ServerClose
  PROVE  HandsApart' /\ OpenIsOwned' /\ ListenerHolds' /\ Strangers'
<1> USE NoConnIsNone DEF Listens, serverVars, runnerVars, semaphoreVars, workerVars, ownerVars, sockVars
<1>a. TypeOK /\ HandsApart /\ OpenIsOwned /\ ListenerHolds /\ Strangers
  BY DEF OwnInv
<1>1. CASE CloseUnLock \/ CloseSemaphore \/ Stop \/ StopListen \/ Open \/ Close
  <2>1. UNCHANGED <<open, accepted, m_lstSocket, m_hSocket, client, backlog, lost, listener>>
    BY <1>1 DEF CloseUnLock, CloseSemaphore, Stop, StopListen, Open, Close
  <2>2. QED
    BY <1>a, <2>1, HandsStay, StrangersStay DEF ListenerHolds
<1>2. CASE ServerOpen
  <2>1. /\ UNCHANGED <<open, accepted, m_lstSocket, m_hSocket, client, backlog, lost>>
        /\ listener = "none" /\ listener' \in {"none", "check"}
    BY <1>2 DEF ServerOpen
  <2>2. QED
    BY <1>a, <2>1, HandsStay, StrangersStay DEF ListenerHolds
<1>3. CASE ServerClose
  <2>1. UNCHANGED <<open, accepted, m_lstSocket, m_hSocket, client, lost, listener>> /\ backlog' = {}
    BY <1>3 DEF ServerClose
  <2>2. Strangers'
    BY <1>a, <2>1 DEF Strangers
  <2>3. QED
    BY <1>a, <2>1, <2>2, HandsStay DEF ListenerHolds
<1>4. CASE Kill \/ StartThreads
  BY <1>4, ClearThreadsOwn DEF Kill, StartThreads
<1>5. CASE ClearList
  <2>1. /\ lost' = lost \cup Listed /\ open' = open \ lost' /\ m_lstSocket' = <<>>
        /\ UNCHANGED <<accepted, m_hSocket, client, backlog, listener>>
    BY <1>5 DEF ClearList, Loses, Listed
  <2>2. Clients' = Clients /\ Listed' = {} /\ Hands' = Hands
    BY <2>1 DEF Clients, Listed, Hands
  <2>3. open' = Hands \cup Clients
    <3>1. lost \cap open = {} /\ Listed \cap (Hands \cup Clients) = {}
      BY <1>a DEF Strangers, HandsApart, Hands
    <3>2. QED
      BY <1>a, <2>1, <3>1 DEF OpenIsOwned
  <2>4. HandsApart' /\ OpenIsOwned' /\ ListenerHolds'
    BY <1>a, <2>1, <2>2, <2>3 DEF HandsApart, OpenIsOwned, ListenerHolds
  <2>5. Strangers'
    <3>1. Listed \subseteq open
      BY <1>a DEF OpenIsOwned
    <3>2. QED
      BY <1>a, <2>1, <3>1 DEF Strangers
  <2>6. QED
    BY <2>4, <2>5
<1>6. CASE KillListen
  <2>1. /\ lost' = lost \cup Hands /\ open' = open \ lost' /\ accepted' = NoConn /\ listener' = "none"
        /\ UNCHANGED <<m_lstSocket, m_hSocket, client, backlog>>
    BY <1>6 DEF KillListen, Loses, Hands
  <2>2. Clients' = Clients /\ Listed' = Listed /\ Hands' = {} /\ NoConn \notin Listed \cup Clients
    BY <1>a, <2>1 DEF Clients, Listed, Hands, OpenIsOwned, TypeOK
  <2>3. open' = Listed \cup Clients
    <3>1. lost \cap open = {} /\ Hands \cap (Listed \cup Clients) = {}
      BY <1>a DEF Strangers, HandsApart, Hands
    <3>2. QED
      BY <1>a, <2>1, <3>1 DEF OpenIsOwned
  <2>4. HandsApart' /\ OpenIsOwned' /\ ListenerHolds'
    BY <1>a, <2>1, <2>2, <2>3 DEF HandsApart, OpenIsOwned, ListenerHolds
  <2>5. Strangers'
    <3>1. Hands \subseteq open
      BY <1>a DEF OpenIsOwned
    <3>2. QED
      BY <1>a, <2>1, <3>1 DEF Strangers
  <2>6. QED
    BY <2>4, <2>5
<1>7. QED
  BY <1>1, <1>2, <1>3, <1>4, <1>5, <1>6 DEF Closing

LEMMA ClientOwn ==
  ASSUME OwnInv, NEW c \in Conns, ClientConnects(c) \/ ClientLeaves(c)
  PROVE  HandsApart' /\ OpenIsOwned' /\ ListenerHolds' /\ Strangers'
<1>1. UNCHANGED <<open, accepted, m_lstSocket, m_hSocket, lost, listener>>
  BY DEF ClientConnects, ClientLeaves, serverVars, runnerVars, workerVars, sockVars
<1>2. client \in [Conns -> {"new", "up", "closed"}]
  BY DEF OwnInv, TypeOK
<1>3. Strangers'
  <2>1. CASE ClientConnects(c)
    BY <1>1, <1>2, <2>1 DEF ClientConnects, OwnInv, Strangers
  <2>2. CASE ClientLeaves(c)
    BY <1>1, <1>2, <2>2 DEF ClientLeaves, serverVars, OwnInv, Strangers
  <2>3. QED
    BY <2>1, <2>2
<1>4. QED
  BY <1>1, <1>3, HandsStay DEF OwnInv, ListenerHolds

LEMMA OwnStep == OwnInv /\ [Next]_vars => OwnInv'
<1> SUFFICES ASSUME OwnInv, [Next]_vars PROVE OwnInv'
  OBVIOUS
<1>1. TypeOK'
  BY TypeStep
<1>2. CASE UNCHANGED vars
  <2>1. UNCHANGED <<open, accepted, m_lstSocket, m_hSocket, client, backlog, lost, listener>>
    BY <1>2 DEF vars, serverVars, runnerVars, workerVars, sockVars
  <2>2. QED
    BY <1>1, <2>1, HandsStay, StrangersStay DEF OwnInv, ListenerHolds
<1>3. CASE Next
  BY <1>1, <1>3, ListenProcOwn, RunOwn, OwnerOwn, ClientOwn DEF Next, OwnInv
<1>4. QED
  BY <1>2, <1>3

LEMMA OwnCorrect == Spec => []OwnInv
BY OwnInit, OwnStep, PTL DEF Spec

(* Every variable keeps its type, and the list of accepted sockets its     *)
(* bound, which Push tests (SLBlockTcpRunner.cpp:50-62).                   *)
THEOREM TypeCorrect == Spec => []TypeOK
<1>1. OwnInv => TypeOK
  BY DEF OwnInv
<1>2. QED
  BY <1>1, OwnCorrect, PTL

(* The owners of a connection are one if its socket is open, and none if   *)
(* it is not.                                                              *)
LEMMA OwnersOf ==
  ASSUME OwnInv, NEW c \in Conns
  PROVE  Cardinality(Owners(c)) = IF c \in open THEN 1 ELSE 0
<1>a. HandsApart /\ OpenIsOwned /\ c # NoConn
  BY NoConnIsNone DEF OwnInv
<1>1. CASE c \notin open
  <2>1. c # accepted /\ c \notin Listed /\ c \notin Clients
    BY <1>a, <1>1 DEF OpenIsOwned, Hands
  <2>2. Owners(c) = {}
    BY <1>a, <2>1 DEF Owners, Listed, Clients
  <2>3. QED
    BY <1>1, <2>2, FS_EmptySet
<1>2. CASE c = accepted
  <2>1. c \in open /\ c \notin Listed /\ c \notin Clients
    BY <1>a, <1>2 DEF OpenIsOwned, HandsApart, Hands
  <2>2. Owners(c) = {<<"listener", c>>}
    BY <1>a, <1>2, <2>1 DEF Owners, Listed, Clients
  <2>3. QED
    BY <2>1, <2>2, FS_Singleton
<1>3. CASE c \in Listed
  <2>1. c \in open /\ c # accepted /\ c \notin Clients
    BY <1>a, <1>3 DEF OpenIsOwned, HandsApart
  <2>2. PICK i \in DOMAIN m_lstSocket : m_lstSocket[i] = c
    BY <1>3 DEF Listed
  <2>3. Owners(c) = {<<"list", i>>}
    BY <1>a, <2>1, <2>2 DEF Owners, HandsApart, Clients
  <2>4. QED
    BY <2>1, <2>3, FS_Singleton
<1>4. CASE c \in Clients
  <2>1. c \in open /\ c # accepted /\ c \notin Listed
    BY <1>a, <1>4 DEF OpenIsOwned, HandsApart
  <2>2. PICK w \in Threads : m_hSocket[w] = c
    BY <1>4 DEF Clients
  <2>3. Owners(c) = {<<"thread", w>>}
    BY <1>a, <2>1, <2>2 DEF Owners, HandsApart, Listed
  <2>4. QED
    BY <2>1, <2>3, FS_Singleton
<1>5. QED
  BY <1>a, <1>1, <1>2, <1>3, <1>4 DEF OpenIsOwned, Hands

(* Every socket that is open has one owner who can close it, and a socket  *)
(* that is closed has none, however the listen thread and the runner are   *)
(* closed and killed (SLBlockTcpServer.cpp:109-224,                        *)
(* SLBlockTcpRunner.cpp:28-98).                                            *)
THEOREM SocketHasOneOwnerCorrect == Spec => []SocketHasOneOwner
<1>1. OwnInv => SocketHasOneOwner
  BY OwnersOf DEF SocketHasOneOwner
<1>2. QED
  BY <1>1, OwnCorrect, PTL

----------------------------------------------------------------------------
(* Every nonempty set of naturals has a least element.                     *)
LEMMA Least ==
  ASSUME NEW T, T \subseteq Nat, T # {}
  PROVE  \E x \in T : \A y \in T : x <= y
<1> DEFINE R == OpToRel(<, Nat)
<1>1. IsWellFoundedOn(R, Nat)
  BY NatLessThanWellFounded
<1>2. PICK x \in T : \A y \in T : ~ (<<y, x>> \in R)
  <2> HIDE DEF R
  <2> QED
    BY <1>1, WFMin
<1>3. \A y \in T : ~ (y < x)
  BY <1>2 DEF OpToRel
<1>4. QED
  BY <1>3

----------------------------------------------------------------------------
(* The session.  The stream: where its messages end.                       *)

(* e gives the sum of the first k sizes.                                   *)
Sums(e, s, n) == e = [k \in 0 .. n |-> IF k = 0 THEN 0 ELSE e[k - 1] + s[k]]

(* A function is defined by such an equation.                              *)
LEMMA SumsExist ==
  ASSUME NEW s, NEW n \in Nat
  PROVE  \E e : Sums(e, s, n)
<1> DEFINE Bad == {m \in Nat : ~ \E e : Sums(e, s, m)}
<1>1. ASSUME Bad # {} PROVE FALSE
  <2>1. PICK m \in Bad : \A k \in Bad : m <= k
    BY <1>1, Least
  <2>2. m # 0
    <3>1. PICK e : e = [k \in 0 .. 0 |-> 0]
      OBVIOUS
    <3>2. Sums(e, s, 0)
      BY <3>1 DEF Sums
    <3>3. QED
      BY <3>2
  <2>3. m - 1 \in Nat /\ m - 1 \notin Bad
    BY <2>1, <2>2
  <2>4. PICK e : Sums(e, s, m - 1)
    BY <2>3
  <2>5. PICK x : x = e[m - 1] + s[m]
    OBVIOUS
  <2>6. PICK r : r = [k \in 0 .. m |-> IF k = m THEN x ELSE e[k]]
    OBVIOUS
  <2>7. \A k \in 0 .. m : k # 0 => k - 1 \in 0 .. m - 1 /\ k - 1 \in 0 .. m /\ k - 1 # m
    BY <2>3
  <2>8. \A k \in 0 .. m : r[k] = IF k = 0 THEN 0 ELSE r[k - 1] + s[k]
    <3>1. \A k \in 0 .. m : k # m => e[k] = IF k = 0 THEN 0 ELSE e[k - 1] + s[k]
      BY <2>3, <2>4 DEF Sums
    <3>2. \A k \in 0 .. m : k # 0 => r[k - 1] = e[k - 1]
      BY <2>6, <2>7
    <3>3. QED
      BY <2>2, <2>5, <2>6, <3>1, <3>2
  <2>9. Sums(r, s, m)
    BY <2>6, <2>8 DEF Sums
  <2>10. QED
    BY <2>1, <2>9
<1>2. QED
  BY <1>1

(* The function End is defined by is one such.                             *)
LEMMA EndIsSums ==
  ASSUME NEW s \in Seq(Sizes)
  PROVE  Sums(EndOf(s), s, Len(s))
<1> DEFINE end[k \in 0 .. Len(s)] == IF k = 0 THEN 0 ELSE end[k - 1] + s[k]
<1>1. PICK e : Sums(e, s, Len(s))
  BY SumsExist
<1>2. Sums(end, s, Len(s))
  BY <1>1 DEF Sums
<1>3. QED
  BY <1>2 DEF EndOf

(* What the assumptions say of the sizes.                                  *)
LEMMA SizeFacts ==
  /\ MsgSizeByte \in Nat \ {0} /\ BufferSize \in Nat /\ Word \in Nat
  /\ \A s \in Sizes : s \in Nat /\ s >= MsgSizeByte /\ s > 0 /\ s < Word
BY SizesAssumption

(* Where each message ends.                                                *)
LEMMA EndOfFacts ==
  ASSUME NEW s \in Seq(Sizes)
  PROVE  /\ Len(s) \in Nat /\ DOMAIN s = 1 .. Len(s)
         /\ \A k \in 1 .. Len(s) : s[k] \in Sizes
         /\ EndOf(s)[0] = 0
         /\ \A k \in 1 .. Len(s) : k - 1 \in 0 .. Len(s) /\ EndOf(s)[k] = EndOf(s)[k - 1] + s[k]
         /\ \A k \in 0 .. Len(s) : EndOf(s)[k] \in Nat
<1> DEFINE n == Len(s)
<1>1. n \in Nat /\ DOMAIN s = 1 .. n /\ \A k \in 1 .. n : s[k] \in Sizes
  OBVIOUS
<1>2. \A k \in 1 .. n : k \in 0 .. n /\ k # 0 /\ k - 1 \in 0 .. n
  BY <1>1
<1>3. EndOf(s)[0] = 0 /\ \A k \in 1 .. n : EndOf(s)[k] = EndOf(s)[k - 1] + s[k]
  <2>1. \A k \in 0 .. n : EndOf(s)[k] = IF k = 0 THEN 0 ELSE EndOf(s)[k - 1] + s[k]
    BY EndIsSums DEF Sums
  <2>2. 0 \in 0 .. n
    BY <1>1
  <2>3. QED
    BY <1>2, <2>1, <2>2
<1>4. ASSUME NEW k \in 0 .. n PROVE EndOf(s)[k] \in Nat
  <2> DEFINE Bad == {m \in 0 .. n : EndOf(s)[m] \notin Nat}
  <2>1. ASSUME Bad # {} PROVE FALSE
    <3>0. Bad \subseteq Nat
      OBVIOUS
    <3>1. PICK m \in Bad : \A j \in Bad : m <= j
      BY <2>1, <3>0, Least
    <3>2. m # 0
      BY <1>3, <3>1
    <3>3. m \in 1 .. n /\ m - 1 \in 0 .. n /\ m - 1 \notin Bad
      BY <3>1, <3>2
    <3>4. EndOf(s)[m - 1] \in Nat /\ s[m] \in Nat
      BY <1>1, <3>3, SizeFacts
    <3>5. QED
      BY <1>3, <3>1, <3>3, <3>4
  <2>2. QED
    BY <2>1
<1>5. QED
  BY <1>1, <1>2, <1>3, <1>4

(* And so for what the peer of the session has sent.                       *)
LEMMA EndFacts ==
  ASSUME sent \in Seq(Sizes)
  PROVE  /\ Len(sent) \in Nat /\ DOMAIN sent = 1 .. Len(sent)
         /\ \A k \in 1 .. Len(sent) : sent[k] \in Sizes
         /\ End[0] = 0
         /\ \A k \in 1 .. Len(sent) : k - 1 \in 0 .. Len(sent) /\ End[k] = End[k - 1] + sent[k]
         /\ \A k \in 0 .. Len(sent) : End[k] \in Nat
BY EndOfFacts DEF End

(* A later message ends later.                                             *)
LEMMA EndGrows ==
  ASSUME sent \in Seq(Sizes), NEW j \in 0 .. Len(sent), NEW k \in 0 .. Len(sent), j < k
  PROVE  End[j] < End[k]
<1> DEFINE n == Len(sent)
           Bad == {m \in j + 1 .. n : ~(End[j] < End[m])}
<1>1. n \in Nat
  BY EndFacts
<1>2. ASSUME Bad # {} PROVE FALSE
  <2>0. Bad \subseteq Nat
    OBVIOUS
  <2>1. PICK m \in Bad : \A i \in Bad : m <= i
    BY <1>2, <2>0, Least
  <2>2. m \in 1 .. n /\ m - 1 \in 0 .. n /\ End[m] = End[m - 1] + sent[m]
    BY <1>1, EndFacts
  <2>3. End[m - 1] \in Nat /\ End[m] \in Nat /\ End[j] \in Nat /\ sent[m] \in Nat /\ sent[m] > 0
    BY <2>2, EndFacts, SizeFacts
  <2>4. CASE m - 1 = j
    BY <2>1, <2>2, <2>3, <2>4
  <2>5. CASE m - 1 # j
    <3>1. m - 1 \in j + 1 .. n /\ m - 1 \notin Bad
      BY <2>1, <2>2, <2>5
    <3>2. QED
      BY <2>1, <2>2, <2>3, <3>1
  <2>6. QED
    BY <2>4, <2>5
<1>3. k \in j + 1 .. n
  BY <1>1
<1>4. QED
  BY <1>2, <1>3

(* Every position of the stream is in one message.                         *)
LEMMA EndCovers ==
  ASSUME sent \in Seq(Sizes), NEW x \in Nat, x < Total
  PROVE  \E k \in 1 .. Len(sent) : End[k - 1] <= x /\ x < End[k]
<1> DEFINE n == Len(sent)
           Beyond == {m \in 0 .. n : x < End[m]}
<1>1. n \in Nat /\ n \in Beyond
  BY EndFacts DEF Total
<1>2. PICK m \in Beyond : \A i \in Beyond : m <= i
  <2>1. Beyond \subseteq Nat /\ Beyond # {}
    BY <1>1
  <2>2. QED
    BY <2>1, Least
<1>3. m # 0
  BY <1>2, EndFacts
<1>4. m \in 1 .. n /\ m - 1 \in 0 .. n /\ m - 1 \notin Beyond
  BY <1>2, <1>3
<1>5. End[m - 1] \in Nat
  BY <1>4, EndFacts
<1>6. QED
  BY <1>2, <1>4, <1>5

----------------------------------------------------------------------------
(* What is handed on: the pieces, one behind the other.                    *)

Join(f, s, i)  == IF i = 1 THEN s[i] ELSE f[i - 1] \o s[i]
Joins(f, s, n) == f = [i \in 1 .. n |-> Join(f, s, i)]

(* One piece after another is joined, and there is always such a join.     *)
LEMMA JoinsAt ==
  ASSUME NEW f, NEW s, NEW n, Joins(f, s, n)
  PROVE  DOMAIN f = 1 .. n /\ \A i \in 1 .. n : f[i] = Join(f, s, i)
BY DEF Joins

LEMMA JoinExists ==
  ASSUME NEW s, NEW n \in Nat
  PROVE  \E f : Joins(f, s, n)
<1> DEFINE Bad == {m \in Nat : ~ \E f : Joins(f, s, m)}
<1>1. ASSUME Bad # {} PROVE FALSE
  <2>1. PICK m \in Bad : \A k \in Bad : m <= k
    BY <1>1, Least
  <2>2. m # 0
    <3>1. Joins(<<>>, s, 0)
      BY DEF Joins
    <3>2. QED
      BY <3>1
  <2>3. m - 1 \in Nat /\ m - 1 \notin Bad
    BY <2>1, <2>2
  <2>4. PICK f : Joins(f, s, m - 1)
    BY <2>3
  <2>5. PICK x : x = Join(f, s, m)
    OBVIOUS
  <2>6. PICK r : r = [i \in 1 .. m |-> IF i = m THEN x ELSE f[i]]
    OBVIOUS
  <2>7. \A i \in 1 .. m : i # 1 => i - 1 \in 1 .. m - 1 /\ i - 1 \in 1 .. m /\ i - 1 # m
    BY <2>3
  <2>8. ASSUME NEW i \in 1 .. m PROVE r[i] = Join(r, s, i)
    <3>1. i # 1 => r[i - 1] = f[i - 1]
      BY <2>6, <2>7
    <3>2. Join(r, s, i) = Join(f, s, i)
      BY <3>1 DEF Join
    <3>3. i # m => i \in 1 .. m - 1
      BY <2>3
    <3>4. i # m => f[i] = Join(f, s, i)
      BY <2>4, <3>3, JoinsAt
    <3>5. QED
      BY <2>5, <2>6, <3>2, <3>4
  <2>9. Joins(r, s, m)
    BY <2>6, <2>8 DEF Joins
  <2>10. QED
    BY <2>1, <2>9
<1>2. QED
  BY <1>1

(* FlattenSeq is the last of the joins.                                    *)
LEMMA FlattenIs ==
  ASSUME NEW S, NEW s \in Seq(S), s # <<>>
  PROVE  \E f : Joins(f, s, Len(s)) /\ FlattenSeq(s) = f[Len(s)]
<1> DEFINE flatten[i \in 1 .. Len(s)] == IF i = 1 THEN s[i] ELSE flatten[i - 1] \o s[i]
<1>1. Len(s) \in Nat /\ Len(s) # 0
  OBVIOUS
<1>2. PICK f : Joins(f, s, Len(s))
  BY <1>1, JoinExists
<1>3. Joins(flatten, s, Len(s))
  BY <1>2 DEF Joins, Join
<1>4. FlattenSeq(s) = flatten[Len(s)]
  BY <1>1 DEF FlattenSeq
<1>5. QED
  BY <1>3, <1>4

LEMMA FlattenEmpty == FlattenSeq(<<>>) = <<>>
BY DEF FlattenSeq

(* What one sequence behind another is.                                    *)
LEMMA ConcatFacts ==
  ASSUME NEW S, NEW s \in Seq(S), NEW t \in Seq(S)
  PROVE  /\ s \o t \in Seq(S) /\ Len(s \o t) = Len(s) + Len(t)
         /\ \A i \in 1 .. Len(s) : (s \o t)[i] = s[i]
         /\ \A i \in 1 .. Len(t) : (s \o t)[Len(s) + i] = t[i]
OBVIOUS

(* The pieces are sequences of bytes, and so is what they are joined to.   *)
LEMMA JoinType ==
  ASSUME NEW S, NEW s \in Seq(Seq(S)), NEW f, Joins(f, s, Len(s))
  PROVE  \A i \in 1 .. Len(s) : f[i] \in Seq(S)
<1> DEFINE Bad == {m \in 1 .. Len(s) : f[m] \notin Seq(S)}
<1>1. ASSUME Bad # {} PROVE FALSE
  <2>1. Bad \subseteq Nat
    OBVIOUS
  <2>2. PICK m \in Bad : \A j \in Bad : m <= j
    BY <1>1, <2>1, Least
  <2>3. f[m] = Join(f, s, m)
    BY <2>2, JoinsAt
  <2>4. PICK A : A = Seq(S)
    OBVIOUS
  <2>5. s[m] \in A
    BY <2>2, <2>4
  <2>6. m # 1
    BY <2>2, <2>3, <2>4, <2>5 DEF Join
  <2>7. m - 1 \in 1 .. Len(s) /\ m - 1 \notin Bad
    BY <2>2, <2>6
  <2>8. f[m - 1] \in Seq(S)
    BY <2>7
  <2>9. f[m] = f[m - 1] \o s[m]
    BY <2>3, <2>6 DEF Join
  <2>10. f[m] \in Seq(S)
    BY <2>4, <2>5, <2>8, <2>9, ConcatFacts
  <2>11. QED
    BY <2>2, <2>10
<1>2. QED
  BY <1>1

LEMMA FlattenType ==
  ASSUME NEW S, NEW s \in Seq(Seq(S))
  PROVE  FlattenSeq(s) \in Seq(S)
<1>1. CASE s = <<>>
  <2>1. <<>> \in Seq(S)
    OBVIOUS
  <2>2. FlattenSeq(s) = <<>>
    BY <1>1, FlattenEmpty
  <2>3. QED
    BY <2>1, <2>2
<1>2. CASE s # <<>>
  <2>1. PICK f : Joins(f, s, Len(s)) /\ FlattenSeq(s) = f[Len(s)]
    BY <1>2, FlattenIs
  <2>2. Len(s) \in 1 .. Len(s)
    BY <1>2
  <2>3. QED
    BY <2>1, <2>2, JoinType
<1>3. QED
  BY <1>1, <1>2

(* Two joins agree as far as what they join does.                          *)
LEMMA JoinsAgree ==
  ASSUME NEW m \in Nat, NEW n \in Nat, n <= m, NEW s, NEW t, NEW f, NEW g,
         Joins(f, s, n), Joins(g, t, m), \A i \in 1 .. n : s[i] = t[i]
  PROVE  \A i \in 1 .. n : f[i] = g[i]
<1> DEFINE Bad == {i \in 1 .. n : f[i] # g[i]}
<1>1. ASSUME Bad # {} PROVE FALSE
  <2>0. Bad \subseteq Nat
    OBVIOUS
  <2>1. PICK i \in Bad : \A j \in Bad : i <= j
    BY <1>1, <2>0, Least
  <2>2. i \in 1 .. n /\ i \in 1 .. m /\ s[i] = t[i]
    BY <2>1
  <2>3. i = 1 \/ (i - 1 \in 1 .. n /\ i - 1 \notin Bad)
    BY <2>1
  <2>4. i = 1 \/ f[i - 1] = g[i - 1]
    BY <2>3
  <2>5. f[i] = Join(f, s, i) /\ g[i] = Join(g, t, i)
    BY <2>2, JoinsAt
  <2>6. f[i] = g[i]
    BY <2>2, <2>4, <2>5 DEF Join
  <2>7. QED
    BY <2>1, <2>6
<1>2. QED
  BY <1>1

(* One more piece is joined behind the others.                             *)
LEMMA AppendFacts ==
  ASSUME NEW S, NEW s \in Seq(S), NEW x \in S
  PROVE  /\ Append(s, x) \in Seq(S) /\ Append(s, x) # <<>> /\ Len(Append(s, x)) = Len(s) + 1
         /\ Append(s, x)[Len(s) + 1] = x /\ \A i \in 1 .. Len(s) : Append(s, x)[i] = s[i]
OBVIOUS

LEMMA FlattenAppend ==
  ASSUME NEW S, NEW s \in Seq(Seq(S)), NEW x \in Seq(S)
  PROVE  FlattenSeq(Append(s, x)) = FlattenSeq(s) \o x
<1>1. PICK t : t = Append(s, x)
  OBVIOUS
<1>2. PICK n : n = Len(s)
  OBVIOUS
<1>3. /\ n \in Nat /\ t \in Seq(Seq(S)) /\ t # <<>> /\ Len(t) = n + 1
      /\ t[n + 1] = x /\ \A i \in 1 .. n : s[i] = t[i]
  <2>1. PICK A : A = Seq(S)
    OBVIOUS
  <2>2. s \in Seq(A) /\ x \in A
    BY <2>1
  <2>3. /\ t \in Seq(A) /\ t # <<>> /\ Len(t) = n + 1
        /\ t[n + 1] = x /\ \A i \in 1 .. n : s[i] = t[i]
    BY <1>1, <1>2, <2>2, AppendFacts
  <2>4. QED
    BY <1>2, <2>1, <2>2, <2>3
<1>4. PICK m \in Nat : m = n + 1
  BY <1>3
<1>5. PICK g : Joins(g, t, m) /\ FlattenSeq(t) = g[m]
  BY <1>3, <1>4, FlattenIs
<1>6. g[m] = IF m = 1 THEN x ELSE g[n] \o x
  <2>1. m \in 1 .. m /\ m - 1 = n /\ t[m] = x
    BY <1>3, <1>4
  <2>2. g[m] = Join(g, t, m)
    BY <1>5, <2>1, JoinsAt
  <2>3. QED
    BY <2>1, <2>2 DEF Join
<1>7. CASE s = <<>>
  <2>1. FlattenSeq(t) = x
    BY <1>2, <1>4, <1>3, <1>5, <1>6, <1>7
  <2>2. <<>> \o x = x
    OBVIOUS
  <2>3. QED
    BY <1>1, <1>7, <2>1, <2>2, FlattenEmpty
<1>8. CASE s # <<>>
  <2>1. PICK f : Joins(f, s, n) /\ FlattenSeq(s) = f[n]
    BY <1>8, FlattenIs, <1>2
  <2>2. n \in 1 .. n
    BY <1>2, <1>8
  <2>3. f[n] = g[n]
    <3>1. n \in Nat /\ n <= m
      BY <1>3, <1>4
    <3>2. \A i \in 1 .. n : f[i] = g[i]
      BY <1>3, <1>5, <2>1, <3>1, JoinsAgree
    <3>3. QED
      BY <2>2, <3>2
  <2>4. m # 1
    BY <1>4, <2>2
  <2>5. FlattenSeq(t) = g[n] \o x
    BY <1>5, <1>6, <2>4
  <2>6. QED
    BY <1>1, <2>1, <2>3, <2>5
<1>9. QED
  BY <1>7, <1>8

----------------------------------------------------------------------------
(* Stretches of the stream.                                                *)

Stretch(from, n) == [i \in 1 .. n |-> from + i]

(* A stretch is as long as it says; stretches that meet are one, and a     *)
(* stretch is cut into stretches.                                          *)
LEMMA StretchFacts ==
  ASSUME NEW a \in Nat, NEW n \in Nat
  PROVE  /\ Stretch(a, n) \in Seq(Nat) /\ Len(Stretch(a, n)) = n
         /\ \A i \in 1 .. n : Stretch(a, n)[i] = a + i
         /\ n = 0 => Stretch(a, n) = <<>>
BY DEF Stretch

LEMMA StretchIs ==
  ASSUME NEW a \in Nat, NEW n \in Nat, NEW S, NEW s \in Seq(S), Len(s) = n,
         \A i \in 1 .. n : s[i] = a + i
  PROVE  s = Stretch(a, n)
BY DEF Stretch

LEMMA StretchJoin ==
  ASSUME NEW a \in Nat, NEW n \in Nat, NEW m \in Nat
  PROVE  Stretch(a, n) \o Stretch(a + n, m) = Stretch(a, n + m)
<1> DEFINE s == Stretch(a, n)
           t == Stretch(a + n, m)
<1>0. a + n \in Nat /\ n + m \in Nat
  OBVIOUS
<1>1. s \in Seq(Nat) /\ t \in Seq(Nat) /\ Len(s) = n /\ Len(t) = m
  BY <1>0, StretchFacts
<1>2. (\A i \in 1 .. n : s[i] = a + i) /\ \A i \in 1 .. m : t[i] = a + n + i
  BY <1>0, StretchFacts
<1> HIDE DEF s, t
<1>3. s \o t \in Seq(Nat) /\ Len(s \o t) = n + m
  BY <1>1, ConcatFacts
<1>4. ASSUME NEW i \in 1 .. n + m PROVE (s \o t)[i] = a + i
  <2>1. CASE i <= n
    <3>1. i \in 1 .. n
      BY <2>1
    <3>2. (s \o t)[i] = s[i]
      BY <1>1, <3>1, ConcatFacts
    <3>3. QED
      BY <1>2, <3>1, <3>2
  <2>2. CASE i > n
    <3>1. PICK j \in 1 .. m : i = n + j
      <4>1. i - n \in 1 .. m /\ i = n + (i - n)
        BY <2>2
      <4>2. QED
        BY <4>1
    <3>2. (s \o t)[i] = t[j]
      <4>1. \A l \in 1 .. Len(t) : (s \o t)[Len(s) + l] = t[l]
        BY <1>1, ConcatFacts
      <4>2. Len(s) + j = i /\ j \in 1 .. Len(t)
        BY <1>1, <3>1
      <4>3. QED
        BY <4>1, <4>2
    <3>3. QED
      BY <1>2, <3>1, <3>2
  <2>3. i <= n \/ i > n
    OBVIOUS
  <2>4. QED
    BY <2>1, <2>2, <2>3
<1>5. s \o t = Stretch(a, n + m)
  BY <1>0, <1>3, <1>4, StretchIs
<1>6. QED
  BY <1>5 DEF s, t

LEMMA StretchBytes ==
  ASSUME NEW a \in Nat, NEW n \in Nat, NEW m \in Nat, m <= n
  PROVE  Bytes(Stretch(a, n), m) = Stretch(a, m)
<1>1. \A i \in 1 .. m : i \in 1 .. n /\ i <= n
  OBVIOUS
<1>2. \A i \in 1 .. m : Stretch(a, n)[i] = a + i /\ Len(Stretch(a, n)) = n
  BY <1>1, StretchFacts
<1>3. Bytes(Stretch(a, n), m) = [i \in 1 .. m |-> a + i]
  BY <1>1, <1>2 DEF Bytes
<1>4. QED
  BY <1>3 DEF Stretch

(* What lies behind the first m bytes.                                     *)
LEMMA BehindIs ==
  ASSUME NEW S, NEW s \in Seq(S), NEW m \in Nat
  PROVE  /\ Behind(s, m) \in Seq(S)
         /\ m <= Len(s) => Len(Behind(s, m)) = Len(s) - m
         /\ m > Len(s) => Behind(s, m) = <<>>
         /\ \A i \in 1 .. Len(s) - m : Behind(s, m)[i] = s[m + i]
<1>1. CASE m <= Len(s)
  BY <1>1 DEF Behind
<1>2. CASE m > Len(s)
  BY <1>2 DEF Behind
<1>3. QED
  BY <1>1, <1>2

LEMMA BehindLength ==
  ASSUME NEW S, NEW s \in Seq(S), NEW m \in Nat, NEW n \in Nat, Len(s) <= n, m <= n
  PROVE  Behind(s, m) \in Seq(S) /\ Len(Behind(s, m)) <= n - m
<1>1. CASE m <= Len(s)
  <2>1. Behind(s, m) \in Seq(S) /\ Len(Behind(s, m)) = Len(s) - m
    BY <1>1, BehindIs
  <2>2. QED
    BY <2>1
<1>2. CASE m > Len(s)
  <2>1. Behind(s, m) = <<>> /\ Behind(s, m) \in Seq(S)
    BY <1>2, BehindIs
  <2>2. Len(Behind(s, m)) = 0
    BY <2>1
  <2>3. QED
    BY <2>1, <2>2
<1>3. QED
  BY <1>1, <1>2

LEMMA StretchBehind ==
  ASSUME NEW a \in Nat, NEW n \in Nat, NEW m \in Nat, m <= n
  PROVE  Behind(Stretch(a, n), m) = Stretch(a + m, n - m)
<1> DEFINE s == Stretch(a, n)
           r == Behind(s, m)
<1>1. s \in Seq(Nat) /\ Len(s) = n /\ \A i \in 1 .. n : s[i] = a + i
  BY StretchFacts
<1> HIDE DEF s
<1>2. r \in Seq(Nat) /\ Len(r) = n - m /\ \A i \in 1 .. n - m : r[i] = s[m + i]
  <2>1. /\ r \in Seq(Nat)
        /\ m <= Len(s) => Len(r) = Len(s) - m
        /\ \A i \in 1 .. Len(s) - m : r[i] = s[m + i]
    BY <1>1, BehindIs
  <2> HIDE DEF r
  <2>2. QED
    BY <1>1, <2>1
<1> HIDE DEF r
<1>3. n - m \in Nat /\ a + m \in Nat
  OBVIOUS
<1>4. ASSUME NEW i \in 1 .. n - m PROVE r[i] = a + m + i
  <2>1. m + i \in 1 .. n
    OBVIOUS
  <2>2. QED
    BY <1>1, <1>2, <2>1
<1>5. r = Stretch(a + m, n - m)
  BY <1>2, <1>3, <1>4, StretchIs
<1>6. QED
  BY <1>5 DEF r, s

----------------------------------------------------------------------------
(* What GetMsgSize reads.                                                  *)

(* The bytes read at a place are as many as are asked for, and are those   *)
(* that are there.                                                         *)
LEMMA BytesFacts ==
  ASSUME NEW from \in Seq(Nat), NEW n \in Nat
  PROVE  /\ Bytes(from, n) \in Seq(Nat) /\ Len(Bytes(from, n)) = n
         /\ \A i \in 1 .. n : i <= Len(from) => Bytes(from, n)[i] = from[i]
<1>1. \A i \in 1 .. n : (IF i <= Len(from) THEN from[i] ELSE 0) \in Nat
  <2>1. \A i \in 1 .. n : i <= Len(from) => i \in 1 .. Len(from)
    OBVIOUS
  <2>2. \A i \in 1 .. Len(from) : from[i] \in Nat
    OBVIOUS
  <2>3. QED
    BY <2>1, <2>2
<1>2. QED
  BY <1>1 DEF Bytes

(* The bytes begin with the head of message k.                             *)
StartsLike(bytes, k) == \A i \in 1 .. MsgSizeByte : bytes[i] = End[k - 1] + i

(* The size is that of the message whose head the bytes begin with.        *)
LEMMA SizeOfHead ==
  ASSUME sent \in Seq(Sizes), NEW bytes, Len(bytes) \in Nat, Len(bytes) >= MsgSizeByte,
         NEW k \in DOMAIN sent, StartsLike(bytes, k)
  PROVE  GetMsgSize(bytes) = sent[k]
<1>1. MsgSizeByte \in Nat \ {0} /\ 1 \in 1 .. MsgSizeByte
  BY SizeFacts
<1>2. bytes[1] = End[k - 1] + 1
  BY <1>1 DEF StartsLike
<1>3. \A j \in DOMAIN sent : j - 1 \in 0 .. Len(sent) /\ End[j - 1] \in Nat
  BY EndFacts
<1>4. ASSUME NEW j \in DOMAIN sent, bytes[1] = End[j - 1] + 1 PROVE j = k
  <2>1. End[j - 1] = End[k - 1]
    BY <1>2, <1>3, <1>4
  <2>2. ~(j - 1 < k - 1) /\ ~(k - 1 < j - 1)
    BY <1>3, <2>1, EndGrows
  <2>3. QED
    BY <2>2, EndFacts
<1>5. (CHOOSE j \in DOMAIN sent : bytes[1] = End[j - 1] + 1) = k
  BY <1>2, <1>4
<1>6. \E j \in DOMAIN sent : \A i \in 1 .. MsgSizeByte : bytes[i] = End[j - 1] + i
  BY DEF StartsLike
<1>7. ~(Len(bytes) < MsgSizeByte)
  BY <1>1
<1>8. QED
  BY <1>5, <1>6, <1>7 DEF GetMsgSize

(* What is read as a size is one, or 0.                                    *)
LEMMA SizeType ==
  ASSUME sent \in Seq(Sizes), misread \in Sizes \cup {0}, NEW bytes \in Seq(Nat)
  PROVE  GetMsgSize(bytes) \in Sizes \cup {0}
<1>1. CASE /\ Len(bytes) >= MsgSizeByte /\ Len(bytes) \in Nat
           /\ \E k \in DOMAIN sent : StartsLike(bytes, k)
  <2>1. PICK k \in DOMAIN sent : StartsLike(bytes, k)
    BY <1>1
  <2>2. GetMsgSize(bytes) = sent[k]
    BY <1>1, <2>1, SizeOfHead
  <2>3. QED
    BY <2>2, EndFacts
<1>2. CASE Len(bytes) < MsgSizeByte
  BY <1>2 DEF GetMsgSize
<1>3. CASE Len(bytes) >= MsgSizeByte /\ ~\E k \in DOMAIN sent : StartsLike(bytes, k)
  <2>1. ~(Len(bytes) < MsgSizeByte)
    BY <1>3, SizeFacts
  <2>2. GetMsgSize(bytes) = misread
    BY <1>3, <2>1 DEF GetMsgSize, StartsLike
  <2>3. QED
    BY <2>2
<1>4. Len(bytes) \in Nat /\ (Len(bytes) < MsgSizeByte \/ Len(bytes) >= MsgSizeByte)
  BY SizeFacts
<1>5. QED
  BY <1>1, <1>2, <1>3, <1>4

(* Only the head counts.                                                   *)
LEMMA SizeSame ==
  ASSUME NEW a \in Seq(Nat), NEW b \in Seq(Nat), Len(a) >= MsgSizeByte, Len(b) >= MsgSizeByte,
         \A i \in 1 .. MsgSizeByte : a[i] = b[i]
  PROVE  GetMsgSize(a) = GetMsgSize(b)
<1>1. ~(Len(a) < MsgSizeByte) /\ ~(Len(b) < MsgSizeByte)
  BY SizeFacts
<1>2. \A k \in DOMAIN sent : (\A i \in 1 .. MsgSizeByte : a[i] = End[k - 1] + i)
                               <=> (\A i \in 1 .. MsgSizeByte : b[i] = End[k - 1] + i)
  OBVIOUS
<1>3. a[1] = b[1]
  BY SizeFacts
<1>4. QED
  BY <1>1, <1>2, <1>3 DEF GetMsgSize

(* The buffer of the next state is read in the same stream.                *)
LEMMA SizeNext ==
  ASSUME UNCHANGED <<sent, misread>>, NEW b, b = m_szBuffer'
  PROVE  GetMsgSize(m_szBuffer)' = GetMsgSize(b)
<1>1. End' = End
  BY DEF End
<1>2. QED
  BY <1>1 DEF GetMsgSize

----------------------------------------------------------------------------
(* Types.  A call never has more bytes than nLen says, and the buffer      *)
(* never holds a whole message.                                            *)

NoMoreThanSaid == Len(p) <= nLen
BufferNotWhole ==
  Len(m_szBuffer) >= MsgSizeByte =>
    GetMsgSize(m_szBuffer) = 0 \/ GetMsgSize(m_szBuffer) > Len(m_szBuffer)
UnpackTypeInv == UnpackTypeOK /\ NoMoreThanSaid /\ BufferNotWhole

(* What the actions leave well typed.                                      *)
LEMMA DeliveredType ==
  ASSUME delivered \in Seq(Seq(Nat)), NEW bytes \in Seq(Nat), ProcessMessage(bytes)
  PROVE  delivered' \in Seq(Seq(Nat))
<1>1. PICK A : A = Seq(Nat)
  OBVIOUS
<1>2. delivered \in Seq(A) /\ bytes \in A
  BY <1>1
<1>3. QED
  BY <1>1, <1>2, AppendFacts DEF ProcessMessage

LEMMA TypeParts ==
  ASSUME UnpackTypeInv
  PROVE  /\ m_nNeedMsgSize \in Nat /\ m_nNeedMsgSize < Word /\ nLen \in Nat
         /\ m_szBuffer \in Seq(Nat) /\ Len(m_szBuffer) \in Nat
         /\ p \in Seq(Nat) /\ Len(p) \in Nat /\ Len(p) <= nLen
         /\ sent \in Seq(Sizes) /\ misread \in Sizes \cup {0}
         /\ Total \in Nat /\ got \in Nat /\ got <= Total
         /\ delivered \in Seq(Seq(Nat))
<1>1. sent \in Seq(Sizes)
  BY DEF UnpackTypeInv, UnpackTypeOK
<1>2. Total \in Nat
  BY <1>1, EndFacts DEF Total
<1>3. QED
  BY <1>2, SizeFacts DEF UnpackTypeInv, UnpackTypeOK, NoMoreThanSaid

(* What a call leaves alone, and what is left to show of it.               *)
LEMMA CallType ==
  ASSUME UnpackTypeInv, UNCHANGED peerVars,
         m_nNeedMsgSize' \in 0 .. Word - 1, m_szBuffer' \in Seq(Nat),
         p' \in Seq(Nat), nLen' \in Nat, Len(p') <= nLen',
         delivered' \in Seq(Seq(Nat)),
         \/ UNCHANGED m_szBuffer
         \/ m_szBuffer' = <<>>
         \/ /\ Len(m_szBuffer') >= MsgSizeByte
            /\ GetMsgSize(m_szBuffer') = 0 \/ GetMsgSize(m_szBuffer') > Len(m_szBuffer')
         \/ Len(m_szBuffer') < MsgSizeByte
  PROVE  UnpackTypeInv'
<1>1. UNCHANGED <<sent, misread, got, nConns, clean>>
  BY DEF peerVars
<1>2. Total' = Total
  BY <1>1 DEF Total, End
<1>3. UnpackTypeOK'
  BY <1>1, <1>2 DEF UnpackTypeInv, UnpackTypeOK
<1>4. PICK b : b = m_szBuffer'
  OBVIOUS
<1>5. GetMsgSize(m_szBuffer)' = GetMsgSize(b)
  BY <1>1, <1>4, SizeNext
<1>6. Len(m_szBuffer)' = Len(b) /\ b \in Seq(Nat) /\ Len(b) \in Nat
  BY <1>4
<1>7. Len(b) >= MsgSizeByte => GetMsgSize(b) = 0 \/ GetMsgSize(b) > Len(b)
  <2>1. MsgSizeByte \in Nat /\ MsgSizeByte > 0
    BY SizeFacts
  <2>2. CASE b = m_szBuffer
    BY <2>2 DEF UnpackTypeInv, BufferNotWhole
  <2>3. CASE b = <<>>
    BY <2>1, <2>3
  <2>4. CASE GetMsgSize(b) = 0 \/ GetMsgSize(b) > Len(b)
    BY <2>4
  <2>5. CASE Len(b) < MsgSizeByte
    BY <1>6, <2>1, <2>5
  <2>6. QED
    BY <1>4, <2>2, <2>3, <2>4, <2>5
<1>8. BufferNotWhole'
  BY <1>5, <1>6, <1>7 DEF BufferNotWhole
<1>9. QED
  BY <1>3, <1>8 DEF UnpackTypeInv, NoMoreThanSaid

(* Each action keeps the types.                                            *)
LEMMA LongMessageType ==
  ASSUME UnpackTypeInv, LongMessage
  PROVE  UnpackTypeInv'
<1>1. /\ m_nNeedMsgSize \in Nat /\ m_nNeedMsgSize < Word /\ nLen \in Nat /\ p \in Seq(Nat)
      /\ Len(p) <= nLen /\ delivered \in Seq(Seq(Nat))
      /\ m_szBuffer \in Seq(Nat) /\ Word \in Nat
  BY TypeParts, SizeFacts
<1>2. \A n \in Nat : Bytes(p, n) \in Seq(Nat)
  BY <1>1, BytesFacts
<1>3. delivered' \in Seq(Seq(Nat))
  BY <1>1, <1>2, DeliveredType DEF LongMessage
<1>4. m_nNeedMsgSize' \in 0 .. Word - 1
  BY <1>1 DEF LongMessage
<1>5. p' \in Seq(Nat) /\ nLen' \in Nat /\ Len(p') <= nLen'
  <2>1. <<>> \in Seq(Nat) /\ Len(<<>>) = 0
    OBVIOUS
  <2>2. (p' = <<>> /\ nLen' = 0) \/ (p' = p /\ nLen' = nLen)
    BY DEF LongMessage, Return, SplitPacket
  <2>3. CASE p' = <<>> /\ nLen' = 0
    BY <2>1, <2>3
  <2>4. CASE p' = p /\ nLen' = nLen
    BY <1>1, <2>4
  <2>5. QED
    BY <2>2, <2>3, <2>4
<1>6. UNCHANGED <<m_szBuffer, peerVars>>
  BY DEF LongMessage
<1>7. QED
  BY <1>1, <1>3, <1>4, <1>5, <1>6, CallType

LEMMA NewMessageType ==
  ASSUME UnpackTypeInv, NewMessage
  PROVE  UnpackTypeInv'
<1>1. /\ m_nNeedMsgSize \in Nat /\ m_nNeedMsgSize < Word /\ nLen \in Nat /\ p \in Seq(Nat)
      /\ Len(p) \in Nat /\ Len(p) <= nLen /\ delivered \in Seq(Seq(Nat))
      /\ m_szBuffer \in Seq(Nat) /\ Word \in Nat
      /\ sent \in Seq(Sizes) /\ misread \in Sizes \cup {0}
  BY TypeParts, SizeFacts
<1>2. \A n \in Nat : Bytes(p, n) \in Seq(Nat) /\ Len(Bytes(p, n)) = n
  BY <1>1, BytesFacts
<1>3. PICK b : b = Bytes(p, nLen)
  OBVIOUS
<1>4. PICK size : size = GetMsgSize(b)
  OBVIOUS
<1>5. size \in Sizes \cup {0} /\ b \in Seq(Nat) /\ Len(b) = nLen
  BY <1>1, <1>2, <1>3, <1>4, SizeType
<1>6. size \in Nat /\ size < Word
  <2>1. \A s \in Sizes \cup {0} : s \in Nat /\ (s < Word \/ s = 0)
    BY SizeFacts
  <2>2. size \in Nat /\ (size < Word \/ size = 0)
    BY <1>5, <2>1
  <2>3. QED
    BY <1>1, <2>2
<1>7. UNCHANGED peerVars /\ nLen > 0
  BY DEF NewMessage
<1>8. CASE /\ size > 0 /\ size <= nLen
           /\ ProcessMessage(Bytes(p, size))
           /\ SplitPacket(Behind(p, size), nLen - size)
           /\ UNCHANGED sessionVars
  <2>1. Behind(p, size) \in Seq(Nat) /\ Len(Behind(p, size)) <= nLen - size
    BY <1>1, <1>6, <1>8, BehindLength
  <2>2. p' \in Seq(Nat) /\ nLen' \in Nat /\ Len(p') <= nLen'
    BY <1>1, <1>6, <1>8, <2>1 DEF SplitPacket
  <2>3. delivered' \in Seq(Seq(Nat))
    BY <1>1, <1>2, <1>6, <1>8, DeliveredType
  <2>4. m_nNeedMsgSize' \in 0 .. Word - 1 /\ UNCHANGED m_szBuffer /\ m_szBuffer' \in Seq(Nat)
    BY <1>1, <1>8 DEF sessionVars
  <2>5. QED
    BY <1>7, <2>2, <2>3, <2>4, CallType
<1>9. CASE /\ size > nLen /\ size > BufferSize
           /\ ProcessMessage(Bytes(p, nLen))
           /\ m_nNeedMsgSize' = size - nLen
           /\ Return
           /\ UNCHANGED m_szBuffer
  <2>1. m_nNeedMsgSize' \in 0 .. Word - 1
    BY <1>1, <1>6, <1>9
  <2>2. delivered' \in Seq(Seq(Nat))
    BY <1>1, <1>2, <1>9, DeliveredType
  <2>3. p' \in Seq(Nat) /\ nLen' \in Nat /\ Len(p') <= nLen'
    BY <1>9 DEF Return
  <2>4. QED
    BY <1>1, <1>7, <1>9, <2>1, <2>2, <2>3, CallType
<1>10. CASE /\ size = 0 \/ (size > nLen /\ size <= BufferSize)
            /\ Buffer(b)
            /\ Return
            /\ UNCHANGED <<m_nNeedMsgSize, delivered>>
  <2>1. p' \in Seq(Nat) /\ nLen' \in Nat /\ Len(p') <= nLen'
    BY <1>10 DEF Return
  <2>2. m_szBuffer' = b /\ (GetMsgSize(b) = 0 \/ GetMsgSize(b) > Len(b))
    BY <1>4, <1>5, <1>10 DEF Buffer
  <2>3. Len(b) >= MsgSizeByte \/ Len(b) < MsgSizeByte
    BY <1>1, <1>5, SizeFacts
  <2>4. /\ m_nNeedMsgSize' \in 0 .. Word - 1
        /\ delivered' \in Seq(Seq(Nat)) /\ m_szBuffer' \in Seq(Nat)
    BY <1>1, <1>5, <1>10, <2>2
  <2>5. QED
    BY <1>7, <2>1, <2>2, <2>3, <2>4, CallType
<1>11. QED
  BY <1>3, <1>4, <1>8, <1>9, <1>10 DEF NewMessage

LEMMA HeadContinuesType ==
  ASSUME UnpackTypeInv, HeadContinues
  PROVE  UnpackTypeInv'
<1>1. /\ m_nNeedMsgSize \in Nat /\ m_nNeedMsgSize < Word /\ nLen \in Nat /\ p \in Seq(Nat)
      /\ delivered \in Seq(Seq(Nat)) /\ m_szBuffer \in Seq(Nat) /\ Word \in Nat
  BY TypeParts, SizeFacts
<1>2. Bytes(p, nLen) \in Seq(Nat) /\ Len(Bytes(p, nLen)) = nLen
  BY <1>1, BytesFacts
<1>3. m_szBuffer' \in Seq(Nat) /\ Len(m_szBuffer') = Len(m_szBuffer) + nLen
  BY <1>1, <1>2, ConcatFacts DEF HeadContinues, Buffer
<1>4. Len(m_szBuffer') < MsgSizeByte
  BY <1>3 DEF HeadContinues
<1>5. p' \in Seq(Nat) /\ nLen' \in Nat /\ Len(p') <= nLen'
  BY DEF HeadContinues, Return
<1>6. m_nNeedMsgSize' \in 0 .. Word - 1 /\ delivered' \in Seq(Seq(Nat)) /\ UNCHANGED peerVars
  BY <1>1 DEF HeadContinues
<1>7. QED
  BY <1>3, <1>4, <1>5, <1>6, CallType

(* What MessageContinues works with, and that the message has not been     *)
(* complete before.                                                        *)
LEMMA BegunFacts ==
  ASSUME UnpackTypeInv, MessageContinues,
         NEW begun, begun = m_szBuffer \o Bytes(p, Missing),
         NEW rest, rest = Behind(p, Missing),
         NEW size, size = GetMsgSize(begun)
  PROVE  /\ Missing \in Nat
         /\ begun \in Seq(Nat) /\ Len(begun) \in Nat /\ Len(begun) >= MsgSizeByte
         /\ rest \in Seq(Nat) /\ Len(rest) \in Nat
         /\ Missing <= nLen /\ Len(rest) <= nLen - Missing
         /\ size \in Nat /\ size < Word
         /\ size = 0 \/ size >= Len(begun)
<1>1. /\ nLen \in Nat /\ p \in Seq(Nat) /\ m_szBuffer \in Seq(Nat) /\ Len(m_szBuffer) \in Nat
      /\ Len(p) \in Nat /\ Len(p) <= nLen
      /\ sent \in Seq(Sizes) /\ misread \in Sizes \cup {0}
      /\ MsgSizeByte \in Nat /\ MsgSizeByte > 0 /\ Word \in Nat
  BY TypeParts, SizeFacts
<1>2. Missing \in Nat
  BY <1>1 DEF Missing
<1>3. Missing <= nLen
  BY <1>1 DEF Missing, MessageContinues
<1>4. Bytes(p, Missing) \in Seq(Nat) /\ Len(Bytes(p, Missing)) = Missing
  BY <1>1, <1>2, BytesFacts
<1>5. begun \in Seq(Nat) /\ Len(begun) = Len(m_szBuffer) + Missing
  BY <1>1, <1>4, ConcatFacts
<1>6. /\ Len(begun) \in Nat /\ Len(begun) >= MsgSizeByte
      /\ Missing > 0 => Len(begun) = MsgSizeByte
  BY <1>1, <1>2, <1>5 DEF Missing
<1>7. rest \in Seq(Nat) /\ Len(rest) \in Nat /\ Len(rest) <= nLen - Missing
  <2>1. PICK m \in Nat : m = Missing /\ m <= nLen /\ rest = Behind(p, m)
    BY <1>2, <1>3
  <2>2. rest \in Seq(Nat) /\ Len(rest) <= nLen - m
    BY <1>1, <2>1, BehindLength
  <2>3. QED
    BY <2>1, <2>2
<1>8. size \in Sizes \cup {0}
  BY <1>1, <1>5, SizeType
<1>9. size \in Nat /\ size < Word /\ (size = 0 \/ size >= MsgSizeByte)
  <2>1. \A s \in Sizes \cup {0} : s \in Nat /\ (s = 0 \/ (s < Word /\ s >= MsgSizeByte))
    BY SizeFacts
  <2>2. size \in Nat /\ (size = 0 \/ (size < Word /\ size >= MsgSizeByte))
    BY <1>8, <2>1
  <2>3. Word > 0
    BY SizesAssumption
  <2>4. QED
    BY <1>1, <2>2, <2>3
<1>10. size = 0 \/ size >= Len(begun)
  <2>1. CASE Missing > 0
    BY <1>1, <1>6, <1>9, <2>1
  <2>2. CASE Missing = 0
    <3>1. Len(m_szBuffer) >= MsgSizeByte /\ Len(begun) = Len(m_szBuffer)
      BY <1>1, <1>5, <1>6, <2>2
    <3>2. \A i \in 1 .. MsgSizeByte : i \in 1 .. Len(m_szBuffer)
      BY <1>1, <3>1
    <3>3. \A i \in 1 .. MsgSizeByte : begun[i] = m_szBuffer[i]
      BY <1>1, <1>4, <3>2, ConcatFacts
    <3>4. GetMsgSize(m_szBuffer) = size
      BY <1>1, <1>5, <1>6, <3>1, <3>3, SizeSame
    <3>5. size = 0 \/ size > Len(m_szBuffer)
      BY <3>1, <3>4 DEF UnpackTypeInv, BufferNotWhole
    <3>6. QED
      BY <1>1, <1>9, <3>1, <3>5
  <2>3. QED
    BY <1>2, <2>1, <2>2
<1>11. QED
  BY <1>2, <1>3, <1>5, <1>6, <1>7, <1>9, <1>10

LEMMA MessageContinuesType ==
  ASSUME UnpackTypeInv, MessageContinues
  PROVE  UnpackTypeInv'
<1>1. /\ m_nNeedMsgSize \in Nat /\ m_nNeedMsgSize < Word /\ nLen \in Nat /\ p \in Seq(Nat)
      /\ delivered \in Seq(Seq(Nat)) /\ m_szBuffer \in Seq(Nat) /\ Word \in Nat
      /\ MsgSizeByte \in Nat
  BY TypeParts, SizeFacts
<1>2. PICK begun : begun = m_szBuffer \o Bytes(p, Missing)
  OBVIOUS
<1>3. PICK rest : rest = Behind(p, Missing)
  OBVIOUS
<1>4. PICK size : size = GetMsgSize(begun)
  OBVIOUS
<1>5. /\ Missing \in Nat
      /\ begun \in Seq(Nat) /\ Len(begun) \in Nat /\ Len(begun) >= MsgSizeByte
      /\ rest \in Seq(Nat) /\ Len(rest) \in Nat
      /\ Missing <= nLen /\ Len(rest) <= nLen - Missing
      /\ size \in Nat /\ size < Word
      /\ size = 0 \/ size >= Len(begun)
  BY <1>2, <1>3, <1>4, BegunFacts
<1>6. PICK whole : whole = Len(begun) + nLen
  OBVIOUS
<1>7. UNCHANGED peerVars
  BY DEF MessageContinues
<1>8. \A n \in Nat : Bytes(rest, n) \in Seq(Nat) /\ Len(Bytes(rest, n)) = n
  BY <1>5, BytesFacts
<1>9. CASE /\ size = 0 \/ (whole < size /\ size <= BufferSize)
           /\ Buffer(begun \o Bytes(rest, nLen))
           /\ Return
           /\ UNCHANGED <<m_nNeedMsgSize, delivered>>
  <2>1. PICK b : b = begun \o Bytes(rest, nLen)
    OBVIOUS
  <2>2. b \in Seq(Nat) /\ Len(b) = whole /\ \A i \in 1 .. Len(begun) : b[i] = begun[i]
    <3>1. PICK t : t = Bytes(rest, nLen)
      OBVIOUS
    <3>2. t \in Seq(Nat) /\ Len(t) = nLen
      BY <1>1, <1>8, <3>1
    <3>3. QED
      BY <1>5, <1>6, <2>1, <3>1, <3>2, ConcatFacts
  <2>3. Len(b) >= MsgSizeByte /\ (\A i \in 1 .. MsgSizeByte : b[i] = begun[i])
    BY <1>1, <1>5, <1>6, <2>2
  <2>4. GetMsgSize(b) = size
    BY <1>4, <1>5, <2>2, <2>3, SizeSame
  <2>5. GetMsgSize(b) = 0 \/ GetMsgSize(b) > Len(b)
    BY <1>1, <1>5, <1>6, <1>9, <2>2, <2>4
  <2>6. m_szBuffer' = b
    BY <1>9, <2>1 DEF Buffer
  <2>7. p' \in Seq(Nat) /\ nLen' \in Nat /\ Len(p') <= nLen'
    BY <1>9 DEF Return
  <2>8. m_nNeedMsgSize' \in 0 .. Word - 1 /\ delivered' \in Seq(Seq(Nat))
    BY <1>1, <1>9
  <2>9. QED
    BY <1>7, <2>2, <2>3, <2>5, <2>6, <2>7, <2>8, CallType
<1>10. CASE /\ 0 < size /\ size <= whole /\ size <= BufferSize
            /\ ProcessMessage(begun \o Bytes(rest, size - Len(begun)))
            /\ Buffer(<<>>)
            /\ SplitPacket(Behind(rest, size - Len(begun)), whole - size)
            /\ UNCHANGED m_nNeedMsgSize
  <2>1. PICK n \in Nat : n = size - Len(begun)
    <3>1. size - Len(begun) \in Nat
      BY <1>5, <1>10
    <3>2. QED
      BY <3>1
  <2>2. begun \o Bytes(rest, n) \in Seq(Nat)
    BY <1>5, <1>8, ConcatFacts
  <2>3. delivered' \in Seq(Seq(Nat))
    BY <1>1, <1>10, <2>1, <2>2, DeliveredType
  <2>4. n <= nLen /\ Len(rest) <= nLen /\ whole - size = nLen - n
    BY <1>1, <1>5, <1>6, <1>10, <2>1
  <2>5. Behind(rest, n) \in Seq(Nat) /\ Len(Behind(rest, n)) <= nLen - n
    BY <1>1, <1>5, <2>4, BehindLength
  <2>6. p' \in Seq(Nat) /\ nLen' \in Nat /\ Len(p') <= nLen'
    BY <1>1, <1>10, <2>1, <2>4, <2>5 DEF SplitPacket
  <2>7. m_nNeedMsgSize' \in 0 .. Word - 1 /\ m_szBuffer' = <<>> /\ m_szBuffer' \in Seq(Nat)
    BY <1>1, <1>10 DEF Buffer
  <2>8. QED
    BY <1>7, <2>3, <2>6, <2>7, CallType
<1>11. CASE /\ size > BufferSize
            /\ delivered' = delivered \o <<begun, Bytes(rest, nLen)>>
            /\ Buffer(<<>>)
            /\ m_nNeedMsgSize' = (size - nLen) % Word
            /\ Return
  <2>1. PICK A : A = Seq(Nat)
    OBVIOUS
  <2>2. begun \in A /\ Bytes(rest, nLen) \in A /\ delivered \in Seq(A)
    BY <1>1, <1>5, <1>8, <2>1
  <2>3. <<begun, Bytes(rest, nLen)>> \in Seq(A)
    BY <2>2
  <2>4. delivered' \in Seq(Seq(Nat))
    BY <1>11, <2>1, <2>2, <2>3, ConcatFacts
  <2>5. m_nNeedMsgSize' \in 0 .. Word - 1
    <3>1. size - nLen \in Int /\ Word \in Nat /\ Word > 0
      BY <1>1, <1>5
    <3>2. QED
      BY <1>11, <3>1
  <2>6. p' \in Seq(Nat) /\ nLen' \in Nat /\ Len(p') <= nLen'
    BY <1>11 DEF Return
  <2>7. m_szBuffer' = <<>> /\ m_szBuffer' \in Seq(Nat)
    BY <1>11 DEF Buffer
  <2>8. QED
    BY <1>7, <2>4, <2>5, <2>6, <2>7, CallType
<1>12. QED
  BY <1>2, <1>3, <1>4, <1>6, <1>9, <1>10, <1>11 DEF MessageContinues

LEMMA OnRecvType ==
  ASSUME UnpackTypeInv, OnRecv
  PROVE  UnpackTypeInv'
<1>1. /\ sent \in Seq(Sizes) /\ misread \in Sizes \cup {0} /\ got \in Nat /\ Total \in Nat
      /\ m_szBuffer \in Seq(Nat)
  BY TypeParts
<1>2. UNCHANGED <<sessionVars, sent, misread, nConns, delivered>> /\ clean' \in BOOLEAN
  <2>1. clean \in BOOLEAN
    BY DEF UnpackTypeInv, UnpackTypeOK
  <2>2. QED
    BY <2>1 DEF OnRecv
<1>3. PICK n \in 1 .. Total - got : SplitPacket(Rest(n), n) /\ got' = got + n
  BY DEF OnRecv
<1>4. n \in Nat /\ got + n \in 0 .. Total
  BY <1>1, <1>3
<1>5. Rest(n) = Stretch(got, n)
  BY DEF Rest, Stretch
<1>6. p' \in Seq(Nat) /\ nLen' \in Nat /\ Len(p') <= nLen'
  BY <1>1, <1>3, <1>4, <1>5, StretchFacts DEF SplitPacket
<1>7. Total' = Total
  BY <1>2 DEF Total, End
<1>8. got' \in 0 .. Total'
  BY <1>3, <1>4, <1>7
<1>9. UnpackTypeOK'
  BY <1>2, <1>6, <1>8 DEF UnpackTypeInv, UnpackTypeOK, sessionVars
<1>10. PICK b : b = m_szBuffer'
  OBVIOUS
<1>11. GetMsgSize(m_szBuffer)' = GetMsgSize(b) /\ b = m_szBuffer
  BY <1>2, <1>10, SizeNext DEF sessionVars
<1>12. BufferNotWhole'
  BY <1>10, <1>11 DEF UnpackTypeInv, BufferNotWhole
<1>13. QED
  BY <1>6, <1>9, <1>12 DEF UnpackTypeInv, NoMoreThanSaid

LEMMA InitSessionType ==
  ASSUME UnpackTypeInv, InitSession
  PROVE  UnpackTypeInv'
<1>1. sent' \in Seq(Sizes)
  <2>1. sent' \in UNION {[1 .. m -> Sizes] : m \in 0 .. MaxMessages}
    BY DEF InitSession, NewPeer, SeqOf
  <2>2. PICK m \in 0 .. MaxMessages : sent' \in [1 .. m -> Sizes]
    BY <2>1
  <2>3. m \in Nat
    OBVIOUS
  <2>4. QED
    BY <2>2, <2>3
<1>2. Total' \in Nat
  <2>1. PICK s \in Seq(Sizes) : s = sent'
    BY <1>1
  <2>2. Total' = EndOf(s)[Len(s)]
    BY <2>1 DEF Total, End
  <2>3. QED
    BY <2>1, <2>2, EndOfFacts
<1>3. got' \in 0 .. Total'
  BY <1>2 DEF InitSession, NewPeer
<1>4. nConns' \in 0 .. MaxPeers
  BY SizesAssumption DEF UnpackTypeInv, UnpackTypeOK, InitSession
<1>5. /\ m_nNeedMsgSize' \in 0 .. Word - 1 /\ m_szBuffer' = <<>> /\ m_szBuffer' \in Seq(Nat)
      /\ p' = p /\ nLen' = nLen
      /\ misread' \in Sizes \cup {0} /\ clean' \in BOOLEAN
  <2>1. Word > 0 /\ Word \in Nat
    BY SizesAssumption
  <2>2. QED
    BY <2>1 DEF InitSession, NewPeer, callVars
<1>6. delivered' \in Seq(Seq(Nat))
  <2>1. PICK A : A = Seq(Nat)
    OBVIOUS
  <2>2. <<>> \in Seq(A)
    OBVIOUS
  <2>3. QED
    BY <2>1, <2>2 DEF InitSession, NewPeer
<1>7. UnpackTypeOK'
  BY <1>1, <1>3, <1>4, <1>5, <1>6 DEF UnpackTypeInv, UnpackTypeOK
<1>8. BufferNotWhole'
  <2>1. Len(m_szBuffer') = 0
    BY <1>5
  <2>2. QED
    BY <2>1, SizeFacts DEF BufferNotWhole
<1>9. QED
  BY <1>5, <1>7, <1>8 DEF UnpackTypeInv, NoMoreThanSaid

(* The types at first, and after every step.                               *)
LEMMA UnpackTypeInit ==
  ASSUME UnpackInit
  PROVE  UnpackTypeInv
<1>1. sent \in Seq(Sizes) /\ sent = <<>> /\ m_szBuffer \in Seq(Nat) /\ p \in Seq(Nat)
  BY DEF UnpackInit
<1>2. Total \in Nat
  BY <1>1, EndFacts DEF Total
<1>3. got \in 0 .. Total
  BY <1>2 DEF UnpackInit
<1>4. delivered \in Seq(Seq(Nat))
  <2>1. PICK A : A = Seq(Nat)
    OBVIOUS
  <2>2. <<>> \in Seq(A)
    OBVIOUS
  <2>3. QED
    BY <2>1, <2>2 DEF UnpackInit
<1>5. Len(m_szBuffer) = 0 /\ Len(p) = 0 /\ nLen = 0
  BY DEF UnpackInit
<1>6. nConns \in 0 .. MaxPeers
  BY SizesAssumption DEF UnpackInit
<1>7. UnpackTypeOK
  BY <1>1, <1>3, <1>4, <1>6, SizesAssumption DEF UnpackInit, UnpackTypeOK
<1>8. BufferNotWhole /\ NoMoreThanSaid
  BY <1>5, SizeFacts DEF BufferNotWhole, NoMoreThanSaid
<1>9. QED
  BY <1>7, <1>8 DEF UnpackTypeInv

LEMMA UnpackTypeNext ==
  ASSUME UnpackTypeInv, [UnpackNext]_unpackVars
  PROVE  UnpackTypeInv'
<1>1. CASE UNCHANGED unpackVars
  <2>1. /\ UNCHANGED peerVars /\ UNCHANGED <<m_nNeedMsgSize, m_szBuffer, p, nLen, delivered>>
    BY <1>1 DEF unpackVars, sessionVars, callVars
  <2>2. /\ m_nNeedMsgSize \in 0 .. Word - 1 /\ m_szBuffer \in Seq(Nat) /\ p \in Seq(Nat)
        /\ nLen \in Nat /\ Len(p) <= nLen /\ delivered \in Seq(Seq(Nat))
    BY DEF UnpackTypeInv, UnpackTypeOK, NoMoreThanSaid
  <2>3. QED
    BY <2>1, <2>2, CallType
<1>2. CASE LongMessage
  BY <1>2, LongMessageType
<1>3. CASE NewMessage
  BY <1>3, NewMessageType
<1>4. CASE HeadContinues
  BY <1>4, HeadContinuesType
<1>5. CASE MessageContinues
  BY <1>5, MessageContinuesType
<1>6. CASE OnRecv
  BY <1>6, OnRecvType
<1>7. CASE InitSession
  BY <1>7, InitSessionType
<1>8. QED
  BY <1>1, <1>2, <1>3, <1>4, <1>5, <1>6, <1>7 DEF UnpackNext

(* The session has its type, and a receive lies within the stream, however *)
(* the peers' messages are cut (SLTcpSession.cpp:65-203).                  *)
THEOREM UnpackTypeCorrect == UnpackSpec => []UnpackTypeOK
<1>1. UnpackInit => UnpackTypeInv
  BY UnpackTypeInit
<1>2. UnpackTypeInv /\ [UnpackNext]_unpackVars => UnpackTypeInv'
  BY UnpackTypeNext
<1>3. UnpackTypeInv => UnpackTypeOK
  BY DEF UnpackTypeInv
<1>4. QED
  BY <1>1, <1>2, <1>3, PTL DEF UnpackSpec

----------------------------------------------------------------------------
(* Where the session stands in the stream.  It has handed on the first h   *)
(* bytes and holds the b bytes that follow: it is within a long message,   *)
(* or it holds the beginning of a message that is not complete, and of a   *)
(* long one less than the head, or it is between two messages.             *)

InLong(k, h, need, n) ==
  /\ IsLong(k) /\ End[k - 1] < h /\ h + need = End[k]
  /\ n <= need

InBuffer(k, h, b, n) ==
  /\ End[k - 1] = h /\ h + b < End[k]
  /\ IsLong(k) => b < MsgSizeByte
  /\ n > 0 => b >= MsgSizeByte

At(h, b, need, n) ==
  \/ need > 0 /\ b = 0 /\ \E k \in DOMAIN sent : InLong(k, h, need, n)
  \/ need = 0 /\ b > 0 /\ \E k \in DOMAIN sent : InBuffer(k, h, b, n)
  \/ need = 0 /\ b = 0 /\ \E k \in 0 .. Len(sent) : h = End[k]

Standing(h, b) ==
  /\ Handed = Stretch(0, h)
  /\ m_szBuffer = Stretch(h, b)
  /\ p = Stretch(h + b, nLen)
  /\ got = h + b + nLen
  /\ At(h, b, m_nNeedMsgSize, nLen)

ShortsWhole(h) == \A k \in DOMAIN sent : ~IsLong(k) /\ End[k - 1] < h => Whole(k)

(* Where no message is long, each piece is the message whose turn it is.   *)
InTurn(h) ==
  (\A k \in DOMAIN sent : ~IsLong(k)) =>
    /\ Len(delivered) \in 0 .. Len(sent) /\ h = End[Len(delivered)]
    /\ \A j \in DOMAIN delivered :
         j \in DOMAIN sent /\ delivered[j] = Stretch(End[j - 1], sent[j])

CleanInv ==
  clean =>
    /\ Standing(Len(Handed), Len(m_szBuffer))
    /\ ShortsWhole(Len(Handed)) /\ InTurn(Len(Handed))

UnpackInv == UnpackTypeInv /\ CleanInv

(* ProcessMessage puts a piece behind what was handed on.                  *)
LEMMA HandedNext ==
  ASSUME UnpackTypeInv, NEW x \in Seq(Nat), ProcessMessage(x)
  PROVE  Handed' = Handed \o x
<1>1. delivered \in Seq(Seq(Nat))
  BY TypeParts
<1>2. FlattenSeq(Append(delivered, x)) = FlattenSeq(delivered) \o x
  BY <1>1, FlattenAppend
<1>3. QED
  BY <1>2 DEF Handed, ProcessMessage

(* The next state, from what is known of it.                               *)
LEMMA Stands ==
  ASSUME UNCHANGED sent, NEW h \in Nat, NEW b \in Nat, NEW n \in Nat, NEW need,
         Handed' = Stretch(0, h), m_szBuffer' = Stretch(h, b),
         NEW c, c = h + b, p' = Stretch(c, n), nLen' = n, got' = c + n,
         m_nNeedMsgSize' = need, At(h, b, need, n),
         \A k \in DOMAIN sent : ~IsLong(k) /\ End[k - 1] < h => Whole(k)',
         InTurn(h)'
  PROVE  CleanInv'
<1>1. End' = End
  BY DEF End
<1>2. Len(Handed)' = h /\ Len(m_szBuffer)' = b
  BY StretchFacts
<1>3. \A k : IsLong(k)' = IsLong(k)
  BY DEF IsLong
<1>4. At(h, b, need, n)'
  BY <1>1 DEF At, InLong, InBuffer, IsLong
<1>5. Standing(Len(Handed), Len(m_szBuffer))'
  BY <1>2, <1>4 DEF Standing, Stretch
<1>6. ShortsWhole(Len(Handed))'
  BY <1>1, <1>2 DEF ShortsWhole, IsLong
<1>7. InTurn(Len(Handed))'
  BY <1>2 DEF InTurn
<1>8. QED
  BY <1>5, <1>6, <1>7 DEF CleanInv

(* What was whole remains so, and of the message that is gone on with it   *)
(* is known.                                                               *)
LEMMA ShortsNext ==
  ASSUME UnpackTypeInv, NEW x \in Seq(Nat), ProcessMessage(x), UNCHANGED sent,
         NEW h \in Nat, ShortsWhole(h), InTurn(h),
         NEW k \in DOMAIN sent, End[k - 1] <= h, NEW m \in Nat, m <= End[k],
         IsLong(k) \/ (End[k - 1] = h /\ m = End[k] /\ x = Stretch(h, sent[k]))
  PROVE  /\ \A j \in DOMAIN sent : ~IsLong(j) /\ End[j - 1] < m => Whole(j)'
         /\ InTurn(m)'
<1>1. sent \in Seq(Sizes) /\ delivered \in Seq(Seq(Nat))
  BY TypeParts
<1>2. \A j \in DOMAIN sent :
        j \in 1 .. Len(sent) /\ j - 1 \in 0 .. Len(sent) /\ End[j - 1] \in Nat
  BY <1>1, EndFacts
<1>3. End' = End
  BY DEF End
<1>4. PICK A : A = Seq(Nat)
  OBVIOUS
<1>5. PICK l \in Nat : l = Len(delivered)
  BY <1>1
<1>6. /\ DOMAIN delivered = 1 .. l /\ DOMAIN delivered' = 1 .. l + 1
      /\ Len(delivered)' = l + 1
      /\ delivered'[l + 1] = x /\ \A i \in 1 .. l : delivered'[i] = delivered[i]
  <2>1. delivered \in Seq(A) /\ x \in A /\ delivered' = Append(delivered, x)
    BY <1>1, <1>4 DEF ProcessMessage
  <2>2. /\ delivered' \in Seq(A) /\ Len(delivered') = l + 1
        /\ delivered'[l + 1] = x /\ \A i \in 1 .. l : delivered'[i] = delivered[i]
    BY <1>5, <2>1, AppendFacts
  <2>3. QED
    BY <1>5, <2>1, <2>2
<1>7. ASSUME NEW j \in DOMAIN sent, Whole(j) PROVE Whole(j)'
  <2>1. PICK i \in 1 .. l : delivered[i] = Stretch(End[j - 1], sent[j])
    BY <1>6, <1>7 DEF Whole, Stretch
  <2>2. i \in DOMAIN delivered' /\ delivered'[i] = Stretch(End[j - 1], sent[j])
    BY <1>5, <1>6, <2>1
  <2>3. QED
    BY <1>3, <2>2 DEF Whole, Stretch
<1>8. ASSUME End[k - 1] = h, x = Stretch(h, sent[k]) PROVE Whole(k)'
  <2>1. l + 1 \in DOMAIN delivered' /\ delivered'[l + 1] = Stretch(End[k - 1], sent[k])
    BY <1>5, <1>6, <1>8
  <2>2. QED
    BY <1>3, <2>1 DEF Whole, Stretch
<1>9. ASSUME NEW j \in DOMAIN sent, ~IsLong(j), End[j - 1] < m, ~(End[j - 1] < h)
      PROVE  Whole(j)'
  <2>1. ~(j - 1 < k - 1)
    BY <1>1, <1>2, <1>9, EndGrows
  <2>2. ~(k < j - 1) /\ k # j - 1
    <3>1. k \in 0 .. Len(sent) /\ j - 1 \in 0 .. Len(sent) /\ End[k] \in Nat
      BY <1>1, <1>2, EndFacts
    <3>2. End[j - 1] < End[k] /\ End[j - 1] \in Nat
      BY <1>2, <1>9, <3>1
    <3>3. ~(k < j - 1)
      <4>1. k < j - 1 => End[k] < End[j - 1]
        BY <1>1, <3>1, EndGrows
      <4>2. QED
        BY <3>1, <3>2, <4>1
    <3>4. k # j - 1
      BY <3>1, <3>2
    <3>5. QED
      BY <3>3, <3>4
  <2>3. j = k
    BY <1>2, <2>1, <2>2
  <2>4. End[k - 1] = h /\ x = Stretch(h, sent[k])
    BY <1>2, <1>9, <2>3
  <2>5. QED
    BY <1>8, <2>3, <2>4
<1>10. InTurn(m)'
  <2>1. SUFFICES ASSUME \A j \in DOMAIN sent : ~IsLong(j)
                 PROVE  /\ Len(delivered)' \in 0 .. Len(sent) /\ m = End[Len(delivered)']
                        /\ \A j \in DOMAIN delivered' :
                             j \in DOMAIN sent /\ delivered'[j] = Stretch(End[j - 1], sent[j])
    BY <1>3 DEF InTurn, IsLong
  <2>2. /\ l \in 0 .. Len(sent) /\ h = End[l]
        /\ \A j \in 1 .. l :
             j \in DOMAIN sent /\ delivered[j] = Stretch(End[j - 1], sent[j])
    BY <1>5, <1>6, <2>1 DEF InTurn
  <2>3. End[k - 1] = h /\ m = End[k] /\ x = Stretch(h, sent[k])
    BY <2>1
  <2>4. k = l + 1
    <3>1. ~(k - 1 < l) /\ ~(l < k - 1)
      BY <1>1, <1>2, <2>2, <2>3, EndGrows
    <3>2. QED
      BY <1>2, <2>2, <3>1
  <2>5. Len(delivered)' = k /\ k \in 0 .. Len(sent) /\ k \in 1 .. l + 1
    BY <1>2, <1>5, <1>6, <2>2, <2>4
  <2>6. ASSUME NEW j \in DOMAIN delivered'
        PROVE  j \in DOMAIN sent /\ delivered'[j] = Stretch(End[j - 1], sent[j])
    <3>1. CASE j = k
      BY <1>6, <2>3, <2>4, <3>1
    <3>2. CASE j # k
      <4>1. j \in 1 .. l
        BY <1>5, <1>6, <2>4, <2>6, <3>2
      <4>2. QED
        BY <1>6, <2>2, <4>1
    <3>3. QED
      BY <3>1, <3>2
  <2>7. QED
    BY <2>3, <2>5, <2>6
<1>11. QED
  BY <1>7, <1>9, <1>10 DEF ShortsWhole

(* What is known of a clean state.                                         *)
LEMMA CleanParts ==
  ASSUME UnpackInv, clean
  PROVE  \E h \in Nat, b \in Nat :
           /\ h = Len(Handed) /\ b = Len(m_szBuffer)
           /\ Standing(h, b) /\ ShortsWhole(h) /\ InTurn(h)
<1>1. delivered \in Seq(Seq(Nat)) /\ Len(m_szBuffer) \in Nat
  BY TypeParts DEF UnpackInv
<1>2. Handed \in Seq(Nat)
  BY <1>1, FlattenType DEF Handed
<1>3. Len(Handed) \in Nat
  BY <1>2
<1>4. QED
  BY <1>1, <1>3 DEF UnpackInv, CleanInv

(* What is known of a call and of where it begins.                         *)
LEMMA CallParts ==
  ASSUME UnpackInv, NEW h \in Nat, NEW b \in Nat, Standing(h, b)
  PROVE  /\ nLen \in Nat /\ m_nNeedMsgSize \in Nat /\ sent \in Seq(Sizes)
         /\ Handed = Stretch(0, h) /\ got = h + b + nLen
         /\ \E c \in Nat : c = h + b /\ p = Stretch(c, nLen)
         /\ m_szBuffer = Stretch(h, b) /\ Len(m_szBuffer) = b
         /\ MsgSizeByte \in Nat /\ MsgSizeByte > 0 /\ BufferSize \in Nat
         /\ \A k \in DOMAIN sent :
              /\ k \in 1 .. Len(sent) /\ k \in 0 .. Len(sent)
              /\ sent[k] \in Nat /\ sent[k] >= MsgSizeByte
              /\ End[k] \in Nat /\ End[k - 1] \in Nat /\ End[k] = End[k - 1] + sent[k]
         /\ At(h, b, m_nNeedMsgSize, nLen)
<1>1. nLen \in Nat /\ m_nNeedMsgSize \in Nat /\ sent \in Seq(Sizes)
  BY TypeParts DEF UnpackInv
<1>2. MsgSizeByte \in Nat /\ MsgSizeByte > 0 /\ BufferSize \in Nat
  BY SizeFacts
<1>3. ASSUME NEW k \in DOMAIN sent
      PROVE  /\ k \in 1 .. Len(sent) /\ k \in 0 .. Len(sent)
             /\ sent[k] \in Nat /\ sent[k] >= MsgSizeByte
             /\ End[k] \in Nat /\ End[k - 1] \in Nat /\ End[k] = End[k - 1] + sent[k]
  <2>1. k \in 1 .. Len(sent) /\ k \in 0 .. Len(sent) /\ k - 1 \in 0 .. Len(sent)
    BY <1>1, EndFacts
  <2>2. /\ sent[k] \in Sizes /\ End[k] = End[k - 1] + sent[k]
        /\ End[k] \in Nat /\ End[k - 1] \in Nat
    BY <1>1, <2>1, EndFacts
  <2>3. QED
    BY <2>1, <2>2, SizeFacts
<1>4. Len(m_szBuffer) = b
  BY StretchFacts DEF Standing
<1>5. \E c \in Nat : c = h + b /\ p = Stretch(c, nLen)
  BY DEF Standing
<1>6. QED
  BY <1>1, <1>2, <1>3, <1>4, <1>5 DEF Standing

(* A stretch that is handed on where the last one ended.                   *)
LEMMA HandOn ==
  ASSUME UnpackTypeInv, NEW h \in Nat, NEW n \in Nat, Handed = Stretch(0, h),
         ProcessMessage(Stretch(h, n)), NEW m, m = h + n
  PROVE  Handed' = Stretch(0, m)
<1>1. Stretch(h, n) \in Seq(Nat)
  BY StretchFacts
<1>2. Handed' = Stretch(0, h) \o Stretch(h, n)
  BY <1>1, HandedNext
<1>3. Stretch(0, h) \o Stretch(0 + h, n) = Stretch(0, h + n)
  BY StretchJoin
<1>4. 0 + h = h
  OBVIOUS
<1>5. QED
  BY <1>2, <1>3, <1>4

(* The rest of a long message: a clean receive does not go beyond its end. *)
LEMMA LongMessageClean ==
  ASSUME UnpackInv, LongMessage
  PROVE  CleanInv'
<1>1. UNCHANGED peerVars /\ UNCHANGED m_szBuffer /\ m_nNeedMsgSize > 0
  BY DEF LongMessage
<1>2. UNCHANGED <<sent, got, clean>>
  BY <1>1 DEF peerVars
<1>3. CASE ~clean
  BY <1>2, <1>3 DEF CleanInv
<1>4. CASE clean
  <2>1. PICK h \in Nat, b \in Nat : Standing(h, b) /\ ShortsWhole(h) /\ InTurn(h)
    BY <1>4, CleanParts
  <2>2. /\ nLen \in Nat /\ m_nNeedMsgSize \in Nat /\ Handed = Stretch(0, h)
        /\ got = h + b + nLen /\ m_szBuffer = Stretch(h, b)
        /\ At(h, b, m_nNeedMsgSize, nLen)
        /\ \A k \in DOMAIN sent : k \in 0 .. Len(sent) /\ End[k] \in Nat /\ End[k - 1] \in Nat
    BY <2>1, CallParts
  <2>3. PICK k \in DOMAIN sent : InLong(k, h, m_nNeedMsgSize, nLen)
    BY <1>1, <2>2 DEF At
  <2>4. b = 0
    BY <1>1, <2>2 DEF At
  <2>5. /\ IsLong(k) /\ End[k - 1] < h /\ h + m_nNeedMsgSize = End[k] /\ nLen <= m_nNeedMsgSize
    BY <2>3 DEF InLong
  <2>6. /\ ProcessMessage(Bytes(p, nLen)) /\ m_nNeedMsgSize' = m_nNeedMsgSize - nLen /\ Return
    BY <2>2, <2>5 DEF LongMessage
  <2>7. Bytes(p, nLen) = Stretch(h, nLen)
    <3>1. PICK c \in Nat : c = h + b /\ p = Stretch(c, nLen)
      BY <2>1, CallParts
    <3>2. c = h
      BY <2>4, <3>1
    <3>3. QED
      BY <2>2, <3>1, <3>2, StretchBytes
  <2>8. PICK m \in Nat : m = h + nLen
    BY <2>2
  <2>9. Handed' = Stretch(0, m)
    BY <2>2, <2>6, <2>7, <2>8, HandOn DEF UnpackInv
  <2>10. PICK need \in Nat : need = m_nNeedMsgSize - nLen
    <3>1. m_nNeedMsgSize - nLen \in Nat
      BY <2>2, <2>5
    <3>2. QED
      BY <3>1
  <2>11. At(m, 0, need, 0)
    <3>1. m + need = End[k] /\ End[k - 1] < m
      BY <2>2, <2>5, <2>8, <2>10
    <3>2. CASE need > 0
      <4>1. InLong(k, m, need, 0)
        BY <2>5, <3>1, <3>2 DEF InLong
      <4>2. QED
        BY <3>2, <4>1 DEF At
    <3>3. CASE need = 0
      <4>1. m = End[k] /\ k \in 0 .. Len(sent)
        BY <2>2, <2>8, <3>1, <3>3
      <4>2. QED
        BY <3>3, <4>1 DEF At
    <3>4. QED
      BY <3>2, <3>3
  <2>12. /\ \A j \in DOMAIN sent : ~IsLong(j) /\ End[j - 1] < m => Whole(j)'
         /\ InTurn(m)'
    <3>1. m <= End[k] /\ End[k - 1] <= h
      BY <2>2, <2>5, <2>8
    <3>2. Stretch(h, nLen) \in Seq(Nat)
      BY <2>2, StretchFacts
    <3>3. QED
      BY <1>2, <2>1, <2>5, <2>6, <2>7, <3>1, <3>2, ShortsNext DEF UnpackInv
  <2>13. m_szBuffer' = Stretch(m, 0) /\ p' = Stretch(m, 0) /\ nLen' = 0 /\ got' = m + 0
    <3>1. Stretch(h, 0) = <<>> /\ Stretch(m, 0) = <<>>
      BY StretchFacts
    <3>2. got' = m + 0
      BY <1>2, <2>2, <2>4, <2>8
    <3>3. m_szBuffer' = <<>>
      BY <1>1, <2>2, <2>4, <3>1
    <3>4. QED
      BY <2>6, <3>1, <3>2, <3>3 DEF Return
  <2>14. m = m + 0
    OBVIOUS
  <2>15. m_nNeedMsgSize' = need
    BY <2>6, <2>10
  <2>16. QED
    BY <1>2, <2>9, <2>11, <2>12, <2>13, <2>14, <2>15, Stands
<1>5. QED
  BY <1>3, <1>4

(* The size that the beginning of a message says.                          *)
LEMMA SizeAt ==
  ASSUME sent \in Seq(Sizes), NEW k \in DOMAIN sent, NEW h \in Nat, End[k - 1] = h,
         NEW n \in Nat
  PROVE  GetMsgSize(Stretch(h, n)) = IF n >= MsgSizeByte THEN sent[k] ELSE 0
<1>1. Len(Stretch(h, n)) = n /\ \A i \in 1 .. n : Stretch(h, n)[i] = h + i
  BY StretchFacts
<1>2. MsgSizeByte \in Nat
  BY SizeFacts
<1>3. CASE n >= MsgSizeByte
  <2>1. \A i \in 1 .. MsgSizeByte : i \in 1 .. n
    BY <1>2, <1>3
  <2>2. StartsLike(Stretch(h, n), k)
    BY <1>1, <2>1 DEF StartsLike
  <2>3. QED
    BY <1>1, <1>3, <2>2, SizeOfHead
<1>4. CASE ~(n >= MsgSizeByte)
  <2>1. Len(Stretch(h, n)) < MsgSizeByte
    BY <1>1, <1>2, <1>4
  <2>2. QED
    BY <1>4, <2>1 DEF GetMsgSize
<1>5. QED
  BY <1>3, <1>4

(* Between two messages, with more received: the next begins there.        *)
LEMMA NextBegins ==
  ASSUME UnpackInv, NEW h \in Nat, NEW b \in Nat, Standing(h, b), nLen > 0, b = 0,
         m_nNeedMsgSize = 0
  PROVE  \E k \in DOMAIN sent : End[k - 1] = h
<1>1. /\ nLen \in Nat /\ sent \in Seq(Sizes) /\ got = h + b + nLen
      /\ At(h, b, m_nNeedMsgSize, nLen)
  BY CallParts
<1>2. PICK k \in 0 .. Len(sent) : h = End[k]
  BY <1>1 DEF At
<1>3. h < End[Len(sent)] /\ Len(sent) \in Nat /\ DOMAIN sent = 1 .. Len(sent)
  <2>1. got <= Total /\ Total \in Nat
    BY TypeParts DEF UnpackInv
  <2>2. QED
    BY <1>1, <2>1, EndFacts DEF Total
<1>4. k # Len(sent)
  <2>1. ASSUME k = Len(sent) PROVE FALSE
    <3>1. h = End[Len(sent)]
      BY <1>2, <2>1
    <3>2. QED
      BY <1>3, <3>1
  <2>2. QED
    BY <2>1
<1>5. PICK j \in DOMAIN sent : j = k + 1
  <2>1. PICK l \in Nat : l = Len(sent) /\ DOMAIN sent = 1 .. l
    BY <1>3
  <2>2. k + 1 \in 1 .. l
    BY <1>2, <1>4, <2>1
  <2>3. QED
    BY <2>1, <2>2
<1>6. j - 1 = k
  BY <1>5
<1>7. QED
  BY <1>2, <1>6

(* The beginning of a message: it is there in full, or is long, or is      *)
(* kept.                                                                   *)
LEMMA NewMessageClean ==
  ASSUME UnpackInv, NewMessage
  PROVE  CleanInv'
<1>1. UNCHANGED peerVars /\ nLen > 0 /\ m_nNeedMsgSize = 0 /\ m_szBuffer = <<>>
  BY DEF NewMessage
<1>2. UNCHANGED <<sent, got, clean>>
  BY <1>1 DEF peerVars
<1>3. CASE ~clean
  BY <1>2, <1>3 DEF CleanInv
<1>4. CASE clean
  <2>1. PICK h \in Nat, b \in Nat :
          b = Len(m_szBuffer) /\ Standing(h, b) /\ ShortsWhole(h) /\ InTurn(h)
    BY <1>4, CleanParts
  <2>2. b = 0
    BY <1>1, <2>1
  <2>3. /\ nLen \in Nat /\ sent \in Seq(Sizes) /\ Handed = Stretch(0, h) /\ got = h + b + nLen
        /\ MsgSizeByte \in Nat /\ MsgSizeByte > 0 /\ BufferSize \in Nat
        /\ \A k \in DOMAIN sent :
             /\ k \in 0 .. Len(sent) /\ sent[k] \in Nat /\ sent[k] >= MsgSizeByte
             /\ End[k] \in Nat /\ End[k - 1] \in Nat /\ End[k] = End[k - 1] + sent[k]
    BY <2>1, CallParts
  <2>4. PICK k \in DOMAIN sent : End[k - 1] = h
    BY <1>1, <2>1, <2>2, NextBegins
  <2>5. sent[k] \in Nat /\ sent[k] >= MsgSizeByte /\ End[k] \in Nat /\ End[k] = h + sent[k]
        /\ k \in 0 .. Len(sent)
    BY <2>3, <2>4
  <2>6. p = Stretch(h, nLen)
    <3>1. PICK c \in Nat : c = h + b /\ p = Stretch(c, nLen)
      BY <2>1, CallParts
    <3>2. c = h
      BY <2>2, <3>1
    <3>3. QED
      BY <3>1, <3>2
  <2>7. \A n \in Nat : n <= nLen => Bytes(p, n) = Stretch(h, n)
    BY <2>3, <2>6, StretchBytes
  <2>8. Bytes(p, nLen) = Stretch(h, nLen)
    BY <2>3, <2>7
  <2>9. PICK size : size = GetMsgSize(Bytes(p, nLen))
    OBVIOUS
  <2>10. size = IF nLen >= MsgSizeByte THEN sent[k] ELSE 0
    BY <2>3, <2>4, <2>8, <2>9, SizeAt
  <2>11. size \in Nat
    BY <2>5, <2>10
  <2>12. \A n \in Nat : Stretch(h, n) \in Seq(Nat)
    BY StretchFacts
  <2>13. End[k - 1] <= h /\ k \in DOMAIN sent
    BY <2>4
  <2>14. \A x \in Nat : Stretch(x, 0) = <<>>
    BY StretchFacts
  <2>15. CASE /\ size > 0 /\ size <= nLen
              /\ ProcessMessage(Bytes(p, size))
              /\ SplitPacket(Behind(p, size), nLen - size)
              /\ UNCHANGED sessionVars
    <3>1. size = sent[k]
      BY <2>10, <2>15
    <3>2. PICK m \in Nat : m = h + size
      BY <2>11
    <3>3. PICK n \in Nat : n = nLen - size
      <4>1. nLen - size \in Nat
        BY <2>3, <2>11, <2>15
      <4>2. QED
        BY <4>1
    <3>4. Bytes(p, size) = Stretch(h, size)
      BY <2>7, <2>11, <2>15
    <3>5. ProcessMessage(Stretch(h, size))
      BY <2>15, <3>4
    <3>6. Handed' = Stretch(0, m)
      BY <2>3, <2>11, <3>2, <3>5, HandOn DEF UnpackInv
    <3>7. m = End[k]
      BY <2>5, <3>1, <3>2
    <3>8. At(m, 0, 0, n)
      BY <2>5, <3>7 DEF At
    <3>9. /\ \A j \in DOMAIN sent : ~IsLong(j) /\ End[j - 1] < m => Whole(j)'
          /\ InTurn(m)'
      <4>1. /\ m <= End[k] /\ Stretch(h, size) = Stretch(h, sent[k])
            /\ Stretch(h, size) \in Seq(Nat)
        BY <2>5, <2>11, <2>12, <3>1, <3>7
      <4>2. QED
        BY <1>2, <2>1, <2>4, <2>13, <3>5, <3>7, <4>1, ShortsNext DEF UnpackInv
    <3>10. p' = Stretch(m, n) /\ nLen' = n
      <4>1. Behind(Stretch(h, nLen), size) = Stretch(h + size, nLen - size)
        BY <2>3, <2>11, <2>15, StretchBehind
      <4>2. QED
        BY <2>6, <2>15, <3>2, <3>3, <4>1 DEF SplitPacket
    <3>11. m_szBuffer' = Stretch(m, 0) /\ m_nNeedMsgSize' = 0
      BY <1>1, <2>14, <2>15 DEF sessionVars
    <3>12. got' = m + n /\ m = m + 0
      BY <1>2, <2>2, <2>3, <2>11, <3>2, <3>3
    <3>13. QED
      BY <1>2, <3>6, <3>8, <3>9, <3>10, <3>11, <3>12, Stands
  <2>16. CASE /\ size > nLen /\ size > BufferSize
              /\ ProcessMessage(Bytes(p, nLen))
              /\ m_nNeedMsgSize' = size - nLen
              /\ Return
              /\ UNCHANGED m_szBuffer
    <3>1. size = sent[k] /\ IsLong(k)
      BY <1>1, <2>3, <2>10, <2>16 DEF IsLong
    <3>2. PICK m \in Nat : m = h + nLen
      BY <2>3
    <3>3. PICK need \in Nat : need = size - nLen /\ need > 0
      <4>1. size - nLen \in Nat /\ size - nLen > 0
        BY <2>3, <2>11, <2>16
      <4>2. QED
        BY <4>1
    <3>4. ProcessMessage(Stretch(h, nLen))
      BY <2>8, <2>16
    <3>5. Handed' = Stretch(0, m)
      BY <2>3, <3>2, <3>4, HandOn DEF UnpackInv
    <3>6. End[k - 1] < m /\ m + need = End[k] /\ m <= End[k]
      BY <1>1, <2>3, <2>4, <2>5, <2>11, <3>1, <3>2, <3>3
    <3>7. At(m, 0, need, 0)
      <4>1. InLong(k, m, need, 0)
        BY <3>1, <3>3, <3>6 DEF InLong
      <4>2. QED
        BY <3>3, <4>1 DEF At
    <3>8. /\ \A j \in DOMAIN sent : ~IsLong(j) /\ End[j - 1] < m => Whole(j)'
          /\ InTurn(m)'
      <4>1. Stretch(h, nLen) \in Seq(Nat)
        BY <2>3, <2>12
      <4>2. QED
        BY <1>2, <2>1, <2>13, <3>1, <3>4, <3>6, <4>1, ShortsNext DEF UnpackInv
    <3>9. p' = Stretch(m, 0) /\ nLen' = 0 /\ m_szBuffer' = Stretch(m, 0)
      BY <1>1, <2>14, <2>16 DEF Return
    <3>10. got' = m + 0 /\ m = m + 0 /\ m_nNeedMsgSize' = need
      BY <1>2, <2>2, <2>3, <2>16, <3>2, <3>3
    <3>11. QED
      BY <1>2, <3>5, <3>7, <3>8, <3>9, <3>10, Stands
  <2>17. CASE /\ size = 0 \/ (size > nLen /\ size <= BufferSize)
              /\ Buffer(Bytes(p, nLen))
              /\ Return
              /\ UNCHANGED <<m_nNeedMsgSize, delivered>>
    <3>1. PICK c \in Nat : c = h + nLen
      BY <2>3
    <3>2. Handed' = Stretch(0, h)
      BY <2>3, <2>17 DEF Handed
    <3>3. c < End[k] /\ (IsLong(k) => nLen < MsgSizeByte)
      <4>1. CASE nLen >= MsgSizeByte
        BY <2>3, <2>5, <2>10, <2>17, <3>1, <4>1 DEF IsLong
      <4>2. CASE nLen < MsgSizeByte
        BY <2>3, <2>5, <3>1, <4>2
      <4>3. QED
        BY <2>3, <4>1, <4>2
    <3>4. At(h, nLen, 0, 0)
      <4>1. InBuffer(k, h, nLen, 0)
        BY <2>4, <3>1, <3>3 DEF InBuffer
      <4>2. QED
        BY <1>1, <4>1 DEF At
    <3>5. /\ \A j \in DOMAIN sent : ~IsLong(j) /\ End[j - 1] < h => Whole(j)'
          /\ InTurn(h)'
      BY <1>2, <2>1, <2>17 DEF ShortsWhole, InTurn, IsLong, Whole, End
    <3>6. p' = Stretch(c, 0) /\ nLen' = 0 /\ m_szBuffer' = Stretch(h, nLen)
      BY <2>8, <2>14, <2>17 DEF Return, Buffer
    <3>7. got' = c + 0 /\ m_nNeedMsgSize' = 0
      BY <1>1, <1>2, <2>2, <2>3, <2>17, <3>1
    <3>8. QED
      BY <1>2, <2>3, <3>1, <3>2, <3>4, <3>5, <3>6, <3>7, Stands
  <2>18. QED
    BY <2>9, <2>15, <2>16, <2>17 DEF NewMessage
<1>5. QED
  BY <1>3, <1>4

(* A clean receive never leaves less than a head before another call.      *)
LEMMA HeadContinuesClean ==
  ASSUME UnpackInv, HeadContinues
  PROVE  CleanInv'
<1>1. UNCHANGED peerVars /\ nLen > 0 /\ m_nNeedMsgSize = 0 /\ m_szBuffer # <<>>
      /\ Len(m_szBuffer) + nLen < MsgSizeByte
  BY DEF HeadContinues
<1>2. UNCHANGED clean
  BY <1>1 DEF peerVars
<1>3. ASSUME clean PROVE FALSE
  <2>1. PICK h \in Nat, b \in Nat : b = Len(m_szBuffer) /\ Standing(h, b)
    BY <1>3, CleanParts
  <2>2. /\ nLen \in Nat /\ At(h, b, m_nNeedMsgSize, nLen) /\ MsgSizeByte \in Nat
        /\ m_szBuffer = Stretch(h, b)
    BY <2>1, CallParts
  <2>3. b # 0
    BY <1>1, <2>1, <2>2, StretchFacts
  <2>4. PICK k \in DOMAIN sent : InBuffer(k, h, b, nLen)
    BY <1>1, <2>2, <2>3 DEF At
  <2>5. b >= MsgSizeByte
    BY <1>1, <2>4 DEF InBuffer
  <2>6. QED
    BY <1>1, <2>1, <2>2, <2>5
<1>4. QED
  BY <1>2, <1>3 DEF CleanInv

(* What was kept has a head, is not of a long message, and is completed or *)
(* kept on.                                                                *)
LEMMA MessageContinuesClean ==
  ASSUME UnpackInv, MessageContinues
  PROVE  CleanInv'
<1>1. UNCHANGED peerVars /\ nLen > 0 /\ m_nNeedMsgSize = 0 /\ m_szBuffer # <<>>
  BY DEF MessageContinues
<1>2. UNCHANGED <<sent, got, clean>>
  BY <1>1 DEF peerVars
<1>3. CASE ~clean
  BY <1>2, <1>3 DEF CleanInv
<1>4. CASE clean
  <2>1. PICK h \in Nat, b \in Nat :
          b = Len(m_szBuffer) /\ Standing(h, b) /\ ShortsWhole(h) /\ InTurn(h)
    BY <1>4, CleanParts
  <2>2. /\ nLen \in Nat /\ sent \in Seq(Sizes) /\ Handed = Stretch(0, h) /\ got = h + b + nLen
        /\ m_szBuffer = Stretch(h, b) /\ At(h, b, m_nNeedMsgSize, nLen)
        /\ MsgSizeByte \in Nat /\ MsgSizeByte > 0 /\ BufferSize \in Nat
        /\ \A k \in DOMAIN sent :
             /\ k \in 0 .. Len(sent) /\ sent[k] \in Nat /\ sent[k] >= MsgSizeByte
             /\ End[k] \in Nat /\ End[k - 1] \in Nat /\ End[k] = End[k - 1] + sent[k]
    BY <2>1, CallParts
  <2>3. b # 0
    BY <1>1, <2>1, <2>2, StretchFacts
  <2>4. PICK k \in DOMAIN sent : InBuffer(k, h, b, nLen)
    BY <1>1, <2>2, <2>3 DEF At
  <2>5. End[k - 1] = h /\ h + b < End[k] /\ b >= MsgSizeByte /\ ~IsLong(k)
    BY <1>1, <2>2, <2>4 DEF InBuffer
  <2>6. sent[k] \in Nat /\ End[k] \in Nat /\ End[k] = h + sent[k] /\ k \in 0 .. Len(sent)
        /\ sent[k] <= BufferSize /\ b < sent[k]
    <3>1. sent[k] \in Nat /\ End[k] \in Nat /\ End[k] = h + sent[k] /\ k \in 0 .. Len(sent)
      BY <2>2, <2>5
    <3>2. QED
      BY <2>2, <2>5, <3>1 DEF IsLong
  <2>7. PICK c \in Nat : c = h + b /\ p = Stretch(c, nLen)
    BY <2>1, CallParts
  <2>8. Missing = 0
    BY <2>1, <2>2, <2>5 DEF Missing
  <2>9. \A x \in Nat : Stretch(x, 0) = <<>> /\ \A n \in Nat : Stretch(x, n) \in Seq(Nat)
    BY StretchFacts
  <2>10. m_szBuffer \o Bytes(p, Missing) = Stretch(h, b)
    <3>1. Bytes(p, 0) = Stretch(c, 0)
      BY <2>2, <2>7, StretchBytes
    <3>2. PICK s \in Seq(Nat) : s = Stretch(h, b)
      BY StretchFacts
    <3>3. s \o <<>> = s
      BY <3>2
    <3>4. Bytes(p, Missing) = <<>>
      BY <2>7, <2>8, <2>9, <3>1
    <3>5. QED
      BY <2>2, <3>2, <3>3, <3>4
  <2>11. Behind(p, Missing) = Stretch(c, nLen)
    <3>1. Behind(Stretch(c, nLen), 0) = Stretch(c + 0, nLen - 0)
      BY <2>2, StretchBehind
    <3>2. c + 0 = c /\ nLen - 0 = nLen
      BY <2>2
    <3>3. QED
      BY <2>7, <2>8, <3>1, <3>2
  <2>12. PICK begun : begun = m_szBuffer \o Bytes(p, Missing)
    OBVIOUS
  <2>13. PICK rest : rest = Behind(p, Missing)
    OBVIOUS
  <2>14. PICK size : size = GetMsgSize(begun)
    OBVIOUS
  <2>15. PICK whole : whole = Len(begun) + nLen
    OBVIOUS
  <2>16. begun = Stretch(h, b) /\ Len(begun) = b /\ rest = Stretch(c, nLen) /\ whole = b + nLen
    <3>1. begun = Stretch(h, b) /\ rest = Stretch(c, nLen)
      BY <2>10, <2>11, <2>12, <2>13
    <3>2. Len(begun) = b
      BY <3>1, StretchFacts
    <3>3. QED
      BY <2>15, <3>1, <3>2
  <2>17. size = sent[k] /\ size \in Nat
    BY <2>2, <2>5, <2>6, <2>14, <2>16, SizeAt
  <2>18. \A n \in Nat : n <= nLen =>
            begun \o Bytes(rest, n) = Stretch(h, b + n)
    <3>1. ASSUME NEW n \in Nat, n <= nLen PROVE begun \o Bytes(rest, n) = Stretch(h, b + n)
      <4>1. Bytes(Stretch(c, nLen), n) = Stretch(c, n)
        BY <2>2, <3>1, StretchBytes
      <4>2. Stretch(h, b) \o Stretch(h + b, n) = Stretch(h, b + n)
        BY StretchJoin
      <4>3. QED
        BY <2>7, <2>16, <4>1, <4>2
    <3>2. QED
      BY <3>1
  <2>19. CASE /\ size = 0 \/ (whole < size /\ size <= BufferSize)
              /\ Buffer(begun \o Bytes(rest, nLen))
              /\ Return
              /\ UNCHANGED <<m_nNeedMsgSize, delivered>>
    <3>1. whole < size
      BY <2>2, <2>5, <2>6, <2>17, <2>19
    <3>2. PICK n \in Nat : n = b + nLen
      BY <2>2
    <3>3. m_szBuffer' = Stretch(h, n)
      BY <2>2, <2>18, <2>19, <3>2 DEF Buffer
    <3>4. PICK d \in Nat : d = h + n
      BY <3>2
    <3>5. At(h, n, 0, 0)
      <4>1. InBuffer(k, h, n, 0)
        BY <2>2, <2>5, <2>6, <2>16, <2>17, <3>1, <3>2 DEF InBuffer
      <4>2. n > 0
        BY <1>1, <2>2, <3>2
      <4>3. QED
        BY <4>1, <4>2 DEF At
    <3>6. Handed' = Stretch(0, h)
      BY <2>2, <2>19 DEF Handed
    <3>7. /\ \A j \in DOMAIN sent : ~IsLong(j) /\ End[j - 1] < h => Whole(j)'
          /\ InTurn(h)'
      BY <1>2, <2>1, <2>19 DEF ShortsWhole, InTurn, IsLong, Whole, End
    <3>8. p' = Stretch(d, 0) /\ nLen' = 0
      BY <2>9, <2>19 DEF Return
    <3>9. got' = d + 0 /\ m_nNeedMsgSize' = 0
      BY <1>1, <1>2, <2>2, <2>19, <3>2, <3>4
    <3>10. QED
      BY <1>2, <3>3, <3>4, <3>5, <3>6, <3>7, <3>8, <3>9, Stands
  <2>20. CASE /\ 0 < size /\ size <= whole /\ size <= BufferSize
              /\ ProcessMessage(begun \o Bytes(rest, size - Len(begun)))
              /\ Buffer(<<>>)
              /\ SplitPacket(Behind(rest, size - Len(begun)), whole - size)
              /\ UNCHANGED m_nNeedMsgSize
    <3>1. PICK n \in Nat : n = size - Len(begun) /\ n <= nLen /\ size = b + n
      <4>1. /\ size - Len(begun) \in Nat /\ size - Len(begun) <= nLen
            /\ size = b + (size - Len(begun))
        <5>1. nLen \in Nat /\ Len(begun) = b /\ size \in Nat /\ b < size /\ size <= b + nLen
          BY <2>2, <2>6, <2>16, <2>17, <2>20
        <5>2. QED
          BY <5>1
      <4>2. QED
        BY <4>1
    <3>2. begun \o Bytes(rest, n) = Stretch(h, size)
      BY <2>18, <3>1
    <3>3. PICK m \in Nat : m = h + size
      BY <2>6, <2>17
    <3>4. PICK l \in Nat : l = nLen - n
      <4>1. nLen - n \in Nat
        BY <2>2, <3>1
      <4>2. QED
        BY <4>1
    <3>5. ProcessMessage(Stretch(h, size))
      BY <2>20, <3>1, <3>2
    <3>6. Handed' = Stretch(0, m)
      BY <2>2, <2>6, <2>17, <3>3, <3>5, HandOn DEF UnpackInv
    <3>7. m = End[k]
      BY <2>6, <2>17, <3>3
    <3>8. At(m, 0, 0, l)
      BY <2>6, <3>7 DEF At
    <3>9. /\ \A j \in DOMAIN sent : ~IsLong(j) /\ End[j - 1] < m => Whole(j)'
          /\ InTurn(m)'
      <4>1. /\ m <= End[k] /\ Stretch(h, size) = Stretch(h, sent[k])
            /\ Stretch(h, size) \in Seq(Nat) /\ End[k - 1] <= h
        <5>1. Stretch(h, size) \in Seq(Nat)
          BY <2>17, StretchFacts
        <5>2. QED
          BY <2>5, <2>6, <2>17, <3>7, <5>1
      <4>2. QED
        BY <1>2, <2>1, <2>5, <3>5, <3>7, <4>1, ShortsNext DEF UnpackInv
    <3>10. p' = Stretch(m, l) /\ nLen' = l
      <4>1. Behind(Stretch(c, nLen), n) = Stretch(c + n, nLen - n)
        BY <2>2, <3>1, StretchBehind
      <4>2. c + n = m /\ whole - size = l
        <5>1. nLen \in Nat
          BY <2>2
        <5>2. QED
          BY <2>7, <2>16, <3>1, <3>3, <3>4, <5>1
      <4>3. QED
        BY <2>16, <2>20, <3>1, <3>4, <4>1, <4>2 DEF SplitPacket
    <3>11. m_szBuffer' = Stretch(m, 0) /\ m_nNeedMsgSize' = 0
      BY <1>1, <2>9, <2>20 DEF Buffer
    <3>12. got' = m + l /\ m = m + 0
      <4>1. nLen \in Nat /\ got' = h + b + nLen
        BY <1>2, <2>2
      <4>2. QED
        BY <3>1, <3>3, <3>4, <4>1
    <3>13. QED
      BY <1>2, <3>6, <3>8, <3>9, <3>10, <3>11, <3>12, Stands
  <2>21. ~(size > BufferSize)
    BY <2>2, <2>6, <2>17
  <2>22. QED
    BY <2>12, <2>13, <2>14, <2>15, <2>19, <2>20, <2>21 DEF MessageContinues
<1>5. QED
  BY <1>3, <1>4

(* A clean receive begins where the session stands.                        *)
LEMMA OnRecvClean ==
  ASSUME UnpackInv, OnRecv
  PROVE  CleanInv'
<1>1. /\ UNCHANGED sent /\ UNCHANGED delivered
      /\ UNCHANGED m_nNeedMsgSize /\ UNCHANGED m_szBuffer /\ nLen = 0
  BY DEF OnRecv, sessionVars
<1>2. PICK n \in 1 .. Total - got :
        /\ SplitPacket(Rest(n), n) /\ got' = got + n
        /\ clean' = /\ clean
                    /\ \A k \in DOMAIN sent :
                         ~EndsInHeadOf(k) /\ (EndsIn(k) /\ IsLong(k) => got + n <= End[k])
  BY DEF OnRecv
<1>3. CASE ~clean'
  BY <1>3 DEF CleanInv
<1>4. CASE clean'
  <2>1. /\ clean
        /\ \A k \in DOMAIN sent :
             ~EndsInHeadOf(k) /\ (EndsIn(k) /\ IsLong(k) => got + n <= End[k])
    BY <1>2, <1>4
  <2>2. PICK h \in Nat, b \in Nat : Standing(h, b) /\ ShortsWhole(h) /\ InTurn(h)
    BY <2>1, CleanParts
  <2>3. /\ Handed = Stretch(0, h) /\ got = h + b + nLen /\ m_nNeedMsgSize \in Nat
        /\ m_szBuffer = Stretch(h, b) /\ At(h, b, m_nNeedMsgSize, nLen) /\ MsgSizeByte \in Nat
        /\ \A k \in DOMAIN sent : End[k] \in Nat /\ End[k - 1] \in Nat
    BY <2>2, CallParts
  <2>4. n \in Nat
    BY TypeParts DEF UnpackInv
  <2>5. PICK c \in Nat : c = h + b /\ got = c
    BY <1>1, <2>3
  <2>6. PICK need \in Nat : need = m_nNeedMsgSize
    BY <2>3
  <2>7. p' = Stretch(c, n) /\ nLen' = n
    BY <1>2, <2>5 DEF SplitPacket, Rest, Stretch
  <2>8. At(h, b, need, n)
    <3>1. CASE need > 0 /\ b = 0 /\ \E k \in DOMAIN sent : InLong(k, h, need, 0)
      <4>1. PICK k \in DOMAIN sent : InLong(k, h, need, 0)
        BY <3>1
      <4>2. got = h /\ End[k - 1] < h /\ h + need = End[k] /\ IsLong(k)
            /\ End[k] \in Nat /\ End[k - 1] \in Nat
        BY <2>3, <2>5, <3>1, <4>1 DEF InLong
      <4>3. EndsIn(k)
        BY <3>1, <4>2 DEF EndsIn
      <4>4. n <= need
        BY <2>1, <2>4, <4>2, <4>3
      <4>5. QED
        BY <3>1, <4>2, <4>4 DEF At, InLong
    <3>2. CASE need = 0 /\ b > 0 /\ \E k \in DOMAIN sent : InBuffer(k, h, b, 0)
      <4>1. PICK k \in DOMAIN sent : InBuffer(k, h, b, 0)
        BY <3>2
      <4>2. End[k - 1] = h /\ h + b < End[k] /\ (IsLong(k) => b < MsgSizeByte) /\ got = h + b
            /\ End[k] \in Nat /\ End[k - 1] \in Nat
        BY <2>3, <2>5, <4>1 DEF InBuffer
      <4>3. EndsIn(k)
        BY <3>2, <4>2 DEF EndsIn
      <4>4. b >= MsgSizeByte
        BY <2>1, <2>3, <4>2, <4>3 DEF EndsInHeadOf
      <4>5. QED
        BY <3>2, <4>2, <4>4 DEF At, InBuffer
    <3>3. CASE need = 0 /\ b = 0 /\ \E k \in 0 .. Len(sent) : h = End[k]
      BY <3>3 DEF At
    <3>4. QED
      BY <1>1, <2>3, <2>6, <3>1, <3>2, <3>3 DEF At
  <2>9. Handed' = Stretch(0, h) /\ m_szBuffer' = Stretch(h, b)
    BY <1>1, <2>3 DEF Handed
  <2>10. /\ \A j \in DOMAIN sent : ~IsLong(j) /\ End[j - 1] < h => Whole(j)'
         /\ InTurn(h)'
    BY <1>1, <2>2 DEF ShortsWhole, InTurn, IsLong, Whole, End
  <2>11. got' = c + n /\ m_nNeedMsgSize' = need
    BY <1>1, <1>2, <2>5, <2>6
  <2>12. QED
    BY <1>1, <2>4, <2>5, <2>7, <2>8, <2>9, <2>10, <2>11, Stands
<1>5. QED
  BY <1>3, <1>4

(* The first moment of a connection.                                       *)
LEMMA BeginsClean ==
  ASSUME m_nNeedMsgSize' = 0, m_szBuffer' = <<>>, p' = <<>>, nLen' = 0,
         NEW s \in Seq(Sizes), sent' = s, got' = 0, delivered' = <<>>
  PROVE  CleanInv'
<1>1. Handed' = <<>> /\ Len(Handed)' = 0 /\ Len(m_szBuffer)' = 0
  BY FlattenEmpty DEF Handed
<1>2. End' = EndOf(s)
  BY DEF End
<1>3. Len(s) \in Nat /\ EndOf(s)[0] = 0
      /\ \A k \in DOMAIN s : k - 1 \in 0 .. Len(s) /\ EndOf(s)[k - 1] \in Nat
  BY EndOfFacts
<1>4. \A x \in Nat : Stretch(x, 0) = <<>>
  BY StretchFacts
<1>5. At(0, 0, 0, 0)'
  <2>1. 0 \in 0 .. Len(s) /\ 0 = End'[0]
    BY <1>2, <1>3
  <2>2. QED
    BY <2>1 DEF At
<1>6. Standing(0, 0)'
  <2>1. Stretch(0, 0) = <<>> /\ Stretch(0 + 0, 0) = <<>>
    BY <1>4
  <2>2. got' = 0 + 0 + nLen'
    OBVIOUS
  <2>3. QED
    BY <1>1, <1>5, <2>1, <2>2 DEF Standing, Stretch
<1>7. ShortsWhole(0)'
  <2>1. \A k \in DOMAIN s : ~(End'[k - 1] < 0)
    BY <1>2, <1>3
  <2>2. QED
    BY <2>1 DEF ShortsWhole
<1>8. InTurn(0)'
  <2>1. Len(delivered)' = 0 /\ DOMAIN delivered' = {} /\ 0 \in 0 .. Len(s)
    BY <1>3
  <2>2. QED
    BY <1>2, <1>3, <2>1 DEF InTurn
<1>9. QED
  BY <1>1, <1>6, <1>7, <1>8 DEF CleanInv

(* Another connection; and the invariant is inductive.                     *)
LEMMA InitSessionClean ==
  ASSUME UnpackInv, InitSession
  PROVE  CleanInv'
<1>1. UnpackTypeInv'
  BY InitSessionType DEF UnpackInv
<1>2. sent' \in Seq(Sizes)
  BY <1>1 DEF UnpackTypeInv, UnpackTypeOK
<1>3. p = <<>>
  <2>1. p \in Seq(Nat) /\ Len(p) \in Nat /\ Len(p) <= nLen /\ nLen = 0
    BY TypeParts DEF UnpackInv, InitSession
  <2>2. Len(p) = 0
    BY <2>1
  <2>3. QED
    BY <2>1, <2>2
<1>4. QED
  BY <1>2, <1>3, BeginsClean DEF InitSession, NewPeer, callVars

LEMMA UnpackInvInit ==
  ASSUME UnpackInit
  PROVE  UnpackInv
<1>1. UnpackTypeInv
  BY UnpackTypeInit
<1>2. sent \in Seq(Sizes) /\ sent = <<>> /\ Len(sent) = 0 /\ DOMAIN sent = {}
  BY DEF UnpackInit
<1>3. Handed = <<>> /\ Len(Handed) = 0 /\ Len(m_szBuffer) = 0
  BY FlattenEmpty DEF UnpackInit, Handed
<1>4. At(0, 0, 0, 0)
  <2>1. 0 \in 0 .. Len(sent) /\ 0 = End[0]
    BY <1>2, EndFacts
  <2>2. QED
    BY <2>1 DEF At
<1>5. Standing(0, 0)
  <2>1. Stretch(0, 0) = <<>> /\ Stretch(0 + 0, 0) = <<>>
    BY StretchFacts
  <2>2. got = 0 + 0 + nLen
    BY DEF UnpackInit
  <2>3. QED
    BY <1>3, <1>4, <2>1, <2>2 DEF Standing, UnpackInit
<1>6. ShortsWhole(0)
  BY <1>2 DEF ShortsWhole
<1>7. InTurn(0)
  <2>1. Len(delivered) = 0 /\ DOMAIN delivered = {} /\ 0 \in 0 .. Len(sent)
    BY <1>2 DEF UnpackInit
  <2>2. End[0] = 0
    BY <1>2, EndFacts
  <2>3. QED
    BY <2>1, <2>2 DEF InTurn
<1>8. QED
  BY <1>1, <1>3, <1>5, <1>6, <1>7 DEF UnpackInv, CleanInv

LEMMA UnpackInvNext ==
  ASSUME UnpackInv, [UnpackNext]_unpackVars
  PROVE  UnpackInv'
<1>1. UnpackTypeInv'
  BY UnpackTypeNext DEF UnpackInv
<1>2. CASE UNCHANGED unpackVars
  <2>1. UNCHANGED <<m_nNeedMsgSize, m_szBuffer, p, nLen, sent, got, clean, delivered>>
    BY <1>2 DEF unpackVars, sessionVars, callVars, peerVars
  <2>2. CleanInv'
    BY <2>1 DEF UnpackInv, CleanInv, Standing, ShortsWhole, InTurn, At, InLong, InBuffer,
       IsLong, End,
                Handed, Whole, Stretch
  <2>3. QED
    BY <1>1, <2>2 DEF UnpackInv
<1>3. CASE LongMessage
  BY <1>1, <1>3, LongMessageClean DEF UnpackInv
<1>4. CASE NewMessage
  BY <1>1, <1>4, NewMessageClean DEF UnpackInv
<1>5. CASE HeadContinues
  BY <1>1, <1>5, HeadContinuesClean DEF UnpackInv
<1>6. CASE MessageContinues
  BY <1>1, <1>6, MessageContinuesClean DEF UnpackInv
<1>7. CASE OnRecv
  BY <1>1, <1>7, OnRecvClean DEF UnpackInv
<1>8. CASE InitSession
  BY <1>1, <1>8, InitSessionClean DEF UnpackInv
<1>9. QED
  BY <1>2, <1>3, <1>4, <1>5, <1>6, <1>7, <1>8 DEF UnpackNext

(* Every byte is handed to ProcessMessage once and in order, and a message *)
(* that fits the buffer in one piece, for every size of the messages that  *)
(* an int holds, of the head and of the buffer (SLTcpSession.cpp:74-196).  *)
THEOREM HandedInOrderCorrect == UnpackSpec => []HandedInOrder
<1>1. UnpackInit => UnpackInv
  BY UnpackInvInit
<1>2. UnpackInv /\ [UnpackNext]_unpackVars => UnpackInv'
  BY UnpackInvNext
<1>3. UnpackInv => HandedInOrder
  <2>1. SUFFICES ASSUME UnpackInv, clean
                 PROVE  InOrder(Len(Handed)) /\ ShortsWhole(Len(Handed))
    BY DEF HandedInOrder, ShortsWhole
  <2>2. PICK h \in Nat, b \in Nat :
          h = Len(Handed) /\ Standing(h, b) /\ ShortsWhole(h) /\ InTurn(h)
    BY <2>1, CleanParts
  <2>3. Handed = Stretch(0, h)
    BY <2>2 DEF Standing
  <2>4. Stretch(0, h) = [i \in 1 .. h |-> i]
    BY DEF Stretch
  <2>5. QED
    BY <2>2, <2>3, <2>4 DEF InOrder
<1>4. QED
  BY <1>1, <1>2, <1>3, PTL DEF UnpackSpec

(* When a call has returned, what was not handed on is in the buffer, is   *)
(* the beginning of one message, and has room there                        *)
(* (SLTcpSession.cpp:101-107, 129-131, 170-175).                           *)
THEOREM NothingHeldBackCorrect == UnpackSpec => []NothingHeldBack
<1>1. UnpackInit => UnpackInv
  BY UnpackInvInit
<1>2. UnpackInv /\ [UnpackNext]_unpackVars => UnpackInv'
  BY UnpackInvNext
<1>3. UnpackInv => NothingHeldBack
  <2>1. SUFFICES ASSUME UnpackInv, clean, nLen = 0
                 PROVE  /\ m_szBuffer = [i \in 1 .. got - Len(Handed) |-> Len(Handed) + i]
                        /\ m_szBuffer # <<>> =>
                             \E k \in DOMAIN sent :
                               /\ EndsIn(k) /\ End[k - 1] = Len(Handed)
                               /\ IsLong(k) => EndsInHeadOf(k)
                        /\ Len(m_szBuffer) <= BufferSize
    BY DEF NothingHeldBack
  <2>2. PICK h \in Nat, b \in Nat : h = Len(Handed) /\ b = Len(m_szBuffer) /\ Standing(h, b)
    BY <2>1, CleanParts
  <2>3. /\ nLen \in Nat /\ got = h + b + nLen /\ m_szBuffer = Stretch(h, b)
        /\ MsgSizeByte \in Nat /\ MsgSizeByte > 0 /\ BufferSize \in Nat
        /\ \A k \in DOMAIN sent :
             /\ sent[k] \in Nat
             /\ End[k] \in Nat /\ End[k - 1] \in Nat /\ End[k] = End[k - 1] + sent[k]
        /\ At(h, b, m_nNeedMsgSize, nLen)
    BY <2>1, <2>2, CallParts
  <2>4. got - h = b /\ got = h + b
    BY <2>1, <2>3
  <2>5. m_szBuffer = [i \in 1 .. got - Len(Handed) |-> Len(Handed) + i]
    BY <2>2, <2>3, <2>4 DEF Stretch
  <2>6. CASE b = 0
    <3>1. m_szBuffer = <<>>
      BY <2>3, <2>6, StretchFacts
    <3>2. QED
      BY <2>2, <2>3, <2>5, <2>6, <3>1
  <2>7. CASE b # 0
    <3>1. PICK k \in DOMAIN sent : InBuffer(k, h, b, nLen)
      BY <2>3, <2>7 DEF At
    <3>2. /\ End[k - 1] = h /\ h + b < End[k] /\ (IsLong(k) => b < MsgSizeByte)
          /\ sent[k] \in Nat /\ End[k] = h + sent[k] /\ End[k] \in Nat
      BY <2>3, <3>1 DEF InBuffer
    <3>3. EndsIn(k)
      BY <2>4, <2>7, <3>2 DEF EndsIn
    <3>4. IsLong(k) => EndsInHeadOf(k)
      BY <2>3, <2>4, <3>2, <3>3 DEF EndsInHeadOf
    <3>5. b <= BufferSize
      BY <2>3, <3>2, BufferAssumption DEF IsLong
    <3>6. QED
      BY <2>2, <2>5, <3>2, <3>3, <3>4, <3>5
  <2>8. QED
    BY <2>6, <2>7
<1>4. QED
  BY <1>1, <1>2, <1>3, PTL DEF UnpackSpec

(* What the comment says of the buffer (SLTcpSession.h:19-26): if it is as *)
(* large as the largest message, each message is handed on whole and in    *)
(* turn.  That is so as long as no receive cuts the head of a message.     *)
THEOREM MessagesUnpackedWhereNoHeadIsCut == UnpackSpec => [](clean => MessagesAreUnpacked)
<1>1. UnpackInit => UnpackInv
  BY UnpackInvInit
<1>2. UnpackInv /\ [UnpackNext]_unpackVars => UnpackInv'
  BY UnpackInvNext
<1>3. UnpackInv => (clean => MessagesAreUnpacked)
  <2>1. SUFFICES ASSUME UnpackInv, clean, \A k \in DOMAIN sent : ~IsLong(k),
                        NEW j \in DOMAIN delivered
                 PROVE  /\ j \in DOMAIN sent
                        /\ delivered[j] = [i \in 1 .. sent[j] |-> End[j - 1] + i]
    BY DEF MessagesAreUnpacked
  <2>2. QED
    BY <2>1 DEF UnpackInv, CleanInv, InTurn, Stretch
<1>4. QED
  BY <1>1, <1>2, <1>3, PTL DEF UnpackSpec
=============================================================================
