------------------------ MODULE TcpLifecycle_proofs ------------------------
(***************************************************************************)
(* Proofs, for every number of connections, of calls of Open, of workers   *)
(* and of session blocks, of the invariants of TcpLifecycle.               *)
(***************************************************************************)
EXTENDS TcpLifecycle, FiniteSetTheorems, TLAPS

----------------------------------------------------------------------------
(* Who has the lock and the blocks, whatever was torn.  A worker between   *)
(* the closesocket and the erase of Disconnect holds the lock, and so does *)
(* the listen thread when it has just taken or inserted a block.  As long  *)
(* as nobody was killed with the lock, the blocks of the map, but for the  *)
(* one being erased, are allocated, not free, and not in the listen        *)
(* thread's hands.                                                         *)

Inner   == {"free", "erase"}
AtWork  == {"onrecv", "find", "free"}
Erasing == {at[w] : w \in {w \in Workers : worker[w] = "erase"}}
Live    == InMap \ Erasing

Holds ==
  \/ m_lock = NoThread
  \/ m_lock = Listener /\ listener \in {"taken", "inserted"}
  \/ \E w \in Workers : m_lock = w /\ worker[w] \in Inner

LockOK ==
  /\ \A w \in Workers : worker[w] \in Inner => m_lock = w
  /\ listener \in {"taken", "inserted"} => m_lock = Listener
ListenerOK ==
  /\ listener \in {"none", "check", "accept"} => pSocketSession = NoSession /\ hClientSocket = NoConn
  /\ listener \notin {"none", "check", "accept"} => hClientSocket # NoConn
  /\ listener \in {"take", "alloc"} => pSocketSession = NoSession
  /\ listener \in {"associate", "insert", "inserted"} => pSocketSession # NoSession
  /\ pSocketSession # NoSession => pSocketSession \in heap \ m_lstFreePool
  /\ owner = "walk" => listener = "none"
BlocksOK ==
  Holds => /\ Live \subseteq heap \ m_lstFreePool
           /\ listener # "inserted" => pSocketSession \notin Live
FreeOK ==
  \A w \in Workers : worker[w] = "free" =>
    /\ at[w] \notin m_lstFreePool /\ at[w] # pSocketSession /\ at[w] # NoSession
    /\ at[w] \in heap => at[w] \in InMap
    /\ at[w] \in heap \/ listener = "none"
ShutOK ==
  m_hListenSocket = 0 /\ owner \notin {"killlisten", "walk"} =>
    InMap = {} /\ m_lstFreePool = {} /\ listener = "none"
CommandOK == stopListen /\ listener # "none" => owner = "killlisten"

BlockInv == LockOK /\ ListenerOK /\ BlocksOK /\ FreeOK /\ ShutOK /\ CommandOK

----------------------------------------------------------------------------
(* What is used, as long as the runner was closed before the server and no *)
(* worker was killed inside Disconnect.  A receive that can still come out *)
(* of the port is that of a connection whose block is in the map; a worker *)
(* that has taken one out is alone with its block.                         *)

Idle == \A w \in Workers : worker[w] \in {"none", "wait"}

PortOK ==
  /\ m_hCompletionPort \in {0, opened.runner}
  /\ owner # "idle" => m_hCompletionPort = 0
  /\ \A c \in Conns : key[c].port <= opened.runner
  /\ owner \in {"restop", "start"} => \A c \in Conns : key[c].port < opened.runner
  /\ m_hCompletionPort = 0 /\ owner \notin {"stop", "restop"} => Idle
QuietOK ==
  listener = "none" =>
    Idle /\ \A c \in Conns : key[c].port = m_hCompletionPort => m_hCompletionPort = 0
FreshOK ==
  /\ \A c \in Conns : c > nConns => m_mapSocketSession[c] = NoSession /\ recv[c] = "none"
  /\ hClientSocket <= nConns
LiveOK == Live \subseteq heap \ m_lstFreePool /\ (listener # "inserted" => pSocketSession \notin Live)
MapOK ==
  \A c \in Conns : m_mapSocketSession[c] \in Live =>
    hSocket[m_mapSocketSession[c]] = c /\ key[c].s = m_mapSocketSession[c]
HandOK ==
  /\ hClientSocket # NoConn => recv[hClientSocket] = "none"
  /\ hClientSocket # NoConn /\ listener # "inserted" => m_mapSocketSession[hClientSocket] = NoSession
  /\ pSocketSession # NoSession => hSocket[pSocketSession] = hClientSocket
  /\ listener = "insert" => key[hClientSocket].s = pSocketSession
  /\ listener = "inserted" =>
       /\ m_mapSocketSession[hClientSocket] = pSocketSession
       /\ \A w \in Workers : worker[w] \in AtWork => at[w] # pSocketSession
WorkOK ==
  /\ \A w \in Workers : worker[w] \in AtWork => at[w] \in Live /\ recv[hSocket[at[w]]] = "none"
  /\ \A w, v \in Workers : worker[w] \in AtWork /\ worker[v] \in AtWork /\ at[w] = at[v] => w = v
  /\ \A w \in Workers : worker[w] = "erase" => at[w] \in InMap
RecvOK ==
  \A c \in Conns : recv[c] # "none" /\ m_hCompletionPort # 0 /\ key[c].port = m_hCompletionPort =>
    m_mapSocketSession[c] \in Live

InOrder == torn \cap {"order", "worker"} = {}
UsedInv == PortOK /\ QuietOK /\ FreshOK /\ LiveOK /\ MapOK /\ HandOK /\ WorkOK /\ RecvOK

----------------------------------------------------------------------------
(* What there is, as long as nothing was torn: every block is free, in the *)
(* map or in the listen thread's hands, and every open connection is in    *)
(* the map or in its hands.                                                *)

Account ==
  /\ heap \subseteq m_lstFreePool \cup InMap \cup {pSocketSession}
  /\ Erasing \cap heap \subseteq m_lstFreePool \cup {pSocketSession}
  /\ \A c \in open : m_mapSocketSession[c] # NoSession \/ c = hClientSocket
  /\ \A w \in Workers : worker[w] \in Inner =>
       \A c \in Conns : m_mapSocketSession[c] = at[w] => c \notin open
  /\ listening \subseteq {m_hListenSocket}

LifeInv ==
  /\ TypeOK /\ NothingIsUsedAfterClose
  /\ ~undefined => BlockInv /\ (InOrder => UsedInv) /\ (torn = {} => Account)

----------------------------------------------------------------------------
(* The steps, as far as the lock and the blocks go.                        *)

LEMMA MapStays == ASSUME UNCHANGED m_mapSocketSession PROVE InMap' = InMap
BY DEF InMap

LEMMA LiveStays ==
  ASSUME UNCHANGED <<m_mapSocketSession, worker, at>>
  PROVE  InMap' = InMap /\ Erasing' = Erasing /\ Live' = Live
BY DEF InMap, Erasing, Live

(* Nobody is inside Disconnect while the lock is free, or the listen       *)
(* thread's.                                                               *)
LEMMA NobodyErases ==
  ASSUME LockOK, m_lock = NoThread \/ m_lock = Listener
  PROVE  Live = InMap /\ Erasing = {} /\ Inside = {} /\ \A w \in Workers : worker[w] \notin Inner
<1>1. \A w \in Workers : worker[w] \notin Inner
  BY NamesAssumption DEF LockOK
<1>2. QED
  BY <1>1 DEF Live, Erasing, Inside, Inner

LEMMA IsStopBlocks ==
  ASSUME TypeOK, BlockInv, ~undefined, IsStop
  PROVE  TypeOK' /\ BlockInv'
<1> USE DEF Goes, Listens, runnerVars, listenVars, blockVars, ioVars, ownerVars
<1>1. TypeOK'
  BY BoundsAssumption DEF TypeOK, BlockInv, ListenerOK, IsStop
<1>2. LockOK' /\ ListenerOK' /\ ShutOK' /\ CommandOK'
  BY MapStays, NamesAssumption DEF TypeOK, BlockInv, LockOK, ListenerOK, ShutOK, CommandOK,
     Inner, IsStop
<1>3. BlocksOK' /\ FreeOK'
  BY MapStays, NamesAssumption DEF TypeOK, BlockInv, LockOK, ListenerOK, BlocksOK, FreeOK,
     Holds, Live, Erasing, Inner, IsStop
<1>4. QED
  BY <1>1, <1>2, <1>3 DEF BlockInv

LEMMA WSAAcceptBlocks ==
  ASSUME TypeOK, BlockInv, ~undefined, WSAAccept
  PROVE  TypeOK' /\ BlockInv'
<1> USE DEF Goes, Listens, runnerVars, listenVars, blockVars, ioVars, ownerVars
<1>1. TypeOK'
  <2>1. nConns < MaxConns => nConns + 1 \in Conns /\ nConns + 1 \in 0 .. MaxConns
    BY BoundsAssumption DEF TypeOK, Conns
  <2>2. hClientSocket' \in Conns \cup {NoConn} /\ open' \subseteq Conns /\ nConns' \in 0 .. MaxConns
    BY <2>1 DEF TypeOK, WSAAccept
  <2>3. QED
    BY <2>2 DEF TypeOK, WSAAccept
<1>2. LockOK' /\ ListenerOK' /\ ShutOK' /\ CommandOK'
  <2>1. nConns + 1 # NoConn
    BY DEF TypeOK, NoConn
  <2>2. QED
    BY <2>1, MapStays DEF BlockInv, LockOK, ListenerOK, ShutOK, CommandOK, Inner, WSAAccept
<1>3. BlocksOK' /\ FreeOK'
  BY MapStays, NamesAssumption DEF TypeOK, BlockInv, LockOK, ListenerOK, BlocksOK, FreeOK,
     Holds, Live, Erasing, Inner, WSAAccept
<1>4. QED
  BY <1>1, <1>2, <1>3 DEF BlockInv

LEMMA TakeFromPoolBlocks ==
  ASSUME TypeOK, BlockInv, ~undefined, TakeFromPool
  PROVE  TypeOK' /\ BlockInv'
<1> USE DEF Goes, Listens, runnerVars, listenVars, blockVars, ioVars, ownerVars
<1>1. TypeOK'
  BY BoundsAssumption DEF TypeOK, BlockInv, ListenerOK, TakeFromPool
<1>2. LockOK' /\ ListenerOK' /\ ShutOK' /\ CommandOK'
  BY MapStays, NamesAssumption DEF TypeOK, BlockInv, LockOK, ListenerOK, ShutOK, CommandOK,
     Inner, TakeFromPool
<1>3. BlocksOK' /\ FreeOK'
  BY MapStays, NamesAssumption DEF TypeOK, BlockInv, LockOK, ListenerOK, BlocksOK, FreeOK,
     Holds, Live, Erasing, Inner, TakeFromPool
<1>4. QED
  BY <1>1, <1>2, <1>3 DEF BlockInv

LEMMA UnLockTakenBlocks ==
  ASSUME TypeOK, BlockInv, ~undefined, UnLockTaken
  PROVE  TypeOK' /\ BlockInv'
<1> USE DEF Goes, Listens, runnerVars, listenVars, blockVars, ioVars, ownerVars
<1>1. TypeOK'
  BY BoundsAssumption DEF TypeOK, BlockInv, ListenerOK, UnLockTaken
<1>2. LockOK' /\ ListenerOK' /\ ShutOK' /\ CommandOK'
  BY MapStays, NamesAssumption DEF TypeOK, BlockInv, LockOK, ListenerOK, ShutOK, CommandOK,
     Inner, UnLockTaken
<1>3. BlocksOK' /\ FreeOK'
  BY MapStays, NamesAssumption DEF TypeOK, BlockInv, LockOK, ListenerOK, BlocksOK, FreeOK,
     Holds, Live, Erasing, Inner, UnLockTaken
<1>4. QED
  BY <1>1, <1>2, <1>3 DEF BlockInv

LEMMA AllocSessionBlocks ==
  ASSUME TypeOK, BlockInv, ~undefined, AllocSession
  PROVE  TypeOK' /\ BlockInv'
<1> USE DEF Goes, Listens, runnerVars, listenVars, blockVars, ioVars, ownerVars
<1>1. TypeOK'
  BY BoundsAssumption DEF TypeOK, BlockInv, ListenerOK, AllocSession
<1>2. LockOK' /\ ListenerOK' /\ ShutOK' /\ CommandOK'
  <2>1. listener' = "associate" => pSocketSession' \in heap' \ m_lstFreePool' /\ pSocketSession' # NoSession
    BY BoundsAssumption DEF TypeOK, AllocSession
  <2>2. QED
    BY <2>1, MapStays DEF BlockInv, LockOK, ListenerOK, ShutOK, CommandOK, Inner, AllocSession
<1>3. BlocksOK' /\ FreeOK'
  BY MapStays, NamesAssumption DEF TypeOK, BlockInv, LockOK, ListenerOK, BlocksOK, FreeOK,
     Holds, Live, Erasing, Inner, AllocSession
<1>4. QED
  BY <1>1, <1>2, <1>3 DEF BlockInv

LEMMA AssociateSocketBlocks ==
  ASSUME TypeOK, BlockInv, ~undefined, AssociateSocket
  PROVE  TypeOK' /\ BlockInv'
<1> USE DEF Goes, Listens, runnerVars, listenVars, blockVars, ioVars, ownerVars
<1>1. TypeOK'
  BY BoundsAssumption DEF TypeOK, BlockInv, ListenerOK, AssociateSocket
<1>2. LockOK' /\ ListenerOK' /\ ShutOK' /\ CommandOK'
  BY MapStays, NamesAssumption DEF TypeOK, BlockInv, LockOK, ListenerOK, ShutOK, CommandOK,
     Inner, AssociateSocket
<1>3. BlocksOK' /\ FreeOK'
  BY MapStays, NamesAssumption DEF TypeOK, BlockInv, LockOK, ListenerOK, BlocksOK, FreeOK,
     Holds, Live, Erasing, Inner, AssociateSocket
<1>4. QED
  BY <1>1, <1>2, <1>3 DEF BlockInv

LEMMA InsertSessionBlocks ==
  ASSUME TypeOK, BlockInv, ~undefined, InsertSession
  PROVE  TypeOK' /\ BlockInv'
<1> USE DEF Goes, Listens, runnerVars, listenVars, blockVars, ioVars, ownerVars
<1>1. TypeOK'
  BY BoundsAssumption DEF TypeOK, BlockInv, ListenerOK, InsertSession
<1>2. LockOK' /\ ListenerOK' /\ ShutOK' /\ CommandOK'
  BY NamesAssumption DEF TypeOK, BlockInv, LockOK, ListenerOK, ShutOK, CommandOK, Inner,
     InsertSession
<1>3. BlocksOK' /\ FreeOK'
  <2>1. Live = InMap /\ Erasing = {} /\ \A w \in Workers : worker[w] \notin Inner
    BY NobodyErases DEF BlockInv, InsertSession
  <2>2. pSocketSession \in heap \ m_lstFreePool /\ InMap \subseteq heap \ m_lstFreePool
    BY <2>1 DEF BlockInv, ListenerOK, BlocksOK, Holds, InsertSession
  <2>3. InMap' \subseteq InMap \cup {pSocketSession}
    BY DEF TypeOK, InMap, InsertSession
  <2>4. Live' \subseteq heap' \ m_lstFreePool'
    BY <2>2, <2>3 DEF Live, InsertSession
  <2>5. QED
    BY <2>1, <2>4 DEF BlocksOK, FreeOK, Inner, InsertSession
<1>4. QED
  BY <1>1, <1>2, <1>3 DEF BlockInv

LEMMA FirstRecvBlocks ==
  ASSUME TypeOK, BlockInv, ~undefined, FirstRecv
  PROVE  TypeOK' /\ BlockInv'
<1> USE DEF Goes, Listens, runnerVars, listenVars, blockVars, ioVars, ownerVars
<1>1. TypeOK'
  BY BoundsAssumption DEF TypeOK, BlockInv, ListenerOK, FirstRecv
<1>2. LockOK' /\ ListenerOK' /\ ShutOK' /\ CommandOK'
  BY MapStays, NamesAssumption DEF TypeOK, BlockInv, LockOK, ListenerOK, ShutOK, CommandOK,
     Inner, FirstRecv
<1>3. BlocksOK' /\ FreeOK'
  <2>1. Live = InMap /\ Erasing = {} /\ \A w \in Workers : worker[w] \notin Inner
    BY NobodyErases DEF BlockInv, LockOK, FirstRecv
  <2>2. InMap \subseteq heap \ m_lstFreePool /\ NoSession \notin InMap
    BY <2>1 DEF BlockInv, LockOK, BlocksOK, Holds, InMap, FirstRecv
  <2>3. Live' = Live
    BY LiveStays DEF FirstRecv
  <2>4. QED
    BY <2>1, <2>2, <2>3 DEF BlocksOK, FreeOK, Inner, FirstRecv
<1>4. QED
  BY <1>1, <1>2, <1>3 DEF BlockInv

LEMMA ClientSendsBlocks ==
  ASSUME TypeOK, BlockInv, ~undefined, NEW c \in Conns, ClientSends(c)
  PROVE  TypeOK' /\ BlockInv'
<1> USE DEF Goes, Listens, runnerVars, listenVars, blockVars, ioVars, ownerVars
<1>1. TypeOK'
  BY BoundsAssumption DEF TypeOK, BlockInv, ListenerOK, ClientSends
<1>2. LockOK' /\ ListenerOK' /\ ShutOK' /\ CommandOK'
  BY MapStays, NamesAssumption DEF TypeOK, BlockInv, LockOK, ListenerOK, ShutOK, CommandOK,
     Inner, ClientSends
<1>3. BlocksOK' /\ FreeOK'
  BY MapStays, NamesAssumption DEF TypeOK, BlockInv, LockOK, ListenerOK, BlocksOK, FreeOK,
     Holds, Live, Erasing, Inner, ClientSends
<1>4. QED
  BY <1>1, <1>2, <1>3 DEF BlockInv

LEMMA ClientLeavesBlocks ==
  ASSUME TypeOK, BlockInv, ~undefined, NEW c \in Conns, ClientLeaves(c)
  PROVE  TypeOK' /\ BlockInv'
<1> USE DEF Goes, Listens, runnerVars, listenVars, blockVars, ioVars, ownerVars
<1>1. TypeOK'
  BY BoundsAssumption DEF TypeOK, BlockInv, ListenerOK, ClientLeaves
<1>2. LockOK' /\ ListenerOK' /\ ShutOK' /\ CommandOK'
  BY MapStays, NamesAssumption DEF TypeOK, BlockInv, LockOK, ListenerOK, ShutOK, CommandOK,
     Inner, ClientLeaves
<1>3. BlocksOK' /\ FreeOK'
  BY MapStays, NamesAssumption DEF TypeOK, BlockInv, LockOK, ListenerOK, BlocksOK, FreeOK,
     Holds, Live, Erasing, Inner, ClientLeaves
<1>4. QED
  BY <1>1, <1>2, <1>3 DEF BlockInv

LEMMA DequeueBlocks ==
  ASSUME TypeOK, BlockInv, ~undefined, NEW w \in Workers, NEW c \in Conns, Dequeue(w, c)
  PROVE  TypeOK' /\ (~undefined' => BlockInv')
<1> USE DEF Goes, Listens, runnerVars, listenVars, blockVars, ioVars, ownerVars
<1>1. TypeOK'
  BY BoundsAssumption DEF TypeOK, BlockInv, ListenerOK, Dequeue, Ended
<1>2. ~undefined' => LockOK' /\ ListenerOK' /\ ShutOK' /\ CommandOK'
  BY MapStays, NamesAssumption DEF TypeOK, BlockInv, LockOK, ListenerOK, ShutOK, CommandOK,
     Inner, Dequeue, Ended
<1>3. ~undefined' => BlocksOK' /\ FreeOK'
  BY MapStays, NamesAssumption DEF TypeOK, BlockInv, LockOK, ListenerOK, BlocksOK, FreeOK,
     Holds, Live, Erasing, Inner, Dequeue, Ended
<1>4. QED
  BY <1>1, <1>2, <1>3 DEF BlockInv

LEMMA PostRecvBlocks ==
  ASSUME TypeOK, BlockInv, ~undefined, NEW w \in Workers, PostRecv(w)
  PROVE  TypeOK' /\ (~undefined' => BlockInv')
<1> USE DEF Goes, Listens, runnerVars, listenVars, blockVars, ioVars, ownerVars
<1>1. TypeOK'
  BY BoundsAssumption DEF TypeOK, BlockInv, ListenerOK, PostRecv
<1>2. ~undefined' => LockOK' /\ ListenerOK' /\ ShutOK' /\ CommandOK'
  BY MapStays, NamesAssumption DEF TypeOK, BlockInv, LockOK, ListenerOK, ShutOK, CommandOK,
     Inner, PostRecv
<1>3. ~undefined' => BlocksOK' /\ FreeOK'
  BY MapStays, NamesAssumption DEF TypeOK, BlockInv, LockOK, ListenerOK, BlocksOK, FreeOK,
     Holds, Live, Erasing, Inner, PostRecv
<1>4. QED
  BY <1>1, <1>2, <1>3 DEF BlockInv

LEMMA DisconnectFindBlocks ==
  ASSUME TypeOK, BlockInv, ~undefined, NEW w \in Workers, DisconnectFind(w)
  PROVE  TypeOK' /\ (~undefined' => BlockInv')
<1> USE DEF Goes, Listens, runnerVars, listenVars, blockVars, ioVars, ownerVars
<1>1. TypeOK'
  BY BoundsAssumption DEF TypeOK, BlockInv, ListenerOK, DisconnectFind, Walking
<1>a. Live = InMap /\ Erasing = {} /\ \A v \in Workers : worker[v] \notin Inner
  BY NobodyErases DEF BlockInv, DisconnectFind
<1>b. /\ \/ m_lock' = w /\ worker' = [worker EXCEPT ![w] = "free"]
         \/ m_lock' = m_lock /\ worker' = [worker EXCEPT ![w] = "wait"]
      /\ UNCHANGED <<listenVars, blockVars, ownerVars>>
  <2>1. PICK c : c = hSocket[at[w]]
    OBVIOUS
  <2>2. \/ m_lock' = w /\ worker' = [worker EXCEPT ![w] = "free"]
        \/ UNCHANGED m_lock /\ worker' = [worker EXCEPT ![w] = "wait"]
    BY <2>1 DEF DisconnectFind
  <2>3. QED
    BY <2>2 DEF DisconnectFind
<1>2. LockOK' /\ ListenerOK' /\ ShutOK' /\ CommandOK'
  <2>1. listener \notin {"taken", "inserted"} /\ InMap' = InMap
    BY MapStays DEF BlockInv, LockOK, NoThread, Listener, DisconnectFind
  <2>2. LockOK'
    BY <1>a, <1>b, <2>1 DEF TypeOK, LockOK, Inner
  <2>3. QED
    BY <1>b, <2>1, <2>2 DEF BlockInv, ListenerOK, ShutOK, CommandOK
<1>3. BlocksOK' /\ FreeOK'
  <2>1. listener # "inserted" /\ m_lock = NoThread /\ InMap' = InMap
    BY MapStays DEF BlockInv, LockOK, NoThread, Listener, DisconnectFind
  <2>2. InMap \subseteq heap \ m_lstFreePool /\ pSocketSession \notin InMap
    BY <1>a, <2>1 DEF BlockInv, BlocksOK, Holds
  <2>3. BlocksOK'
    BY <1>b, <2>1, <2>2 DEF BlocksOK, Live
  <2>4. ASSUME NEW v \in Workers, worker'[v] = "free" PROVE v = w /\ at'[w] \in InMap /\ at'[w] # NoSession
    <3>1. v = w
      BY <1>a, <1>b, <2>4 DEF TypeOK, Inner
    <3>2. \E c \in Conns : m_mapSocketSession[c] # NoSession /\ at' = [at EXCEPT ![w] = m_mapSocketSession[c]]
      BY <2>4, <3>1 DEF TypeOK, DisconnectFind
    <3>3. QED
      BY <3>1, <3>2 DEF TypeOK, InMap
  <2>5. FreeOK'
    BY <1>b, <2>1, <2>2, <2>4 DEF FreeOK
  <2>6. QED
    BY <2>3, <2>5
<1>4. QED
  BY <1>1, <1>2, <1>3 DEF BlockInv

LEMMA DisconnectFreeBlocks ==
  ASSUME TypeOK, BlockInv, ~undefined, NEW w \in Workers, DisconnectFree(w)
  PROVE  TypeOK' /\ (~undefined' => BlockInv')
<1> USE DEF Goes, Listens, runnerVars, listenVars, blockVars, ioVars, ownerVars
<1>a. at[w] # pSocketSession /\ at[w] \notin m_lstFreePool /\ (at[w] \in heap => at[w] \in InMap)
  BY DEF BlockInv, FreeOK, DisconnectFree
<1>b. /\ \/ heap' = heap \ {at[w]} /\ m_lstFreePool' = m_lstFreePool
         \/ m_lstFreePool' = m_lstFreePool \cup {at[w]} /\ heap' = heap
      /\ worker' = [worker EXCEPT ![w] = "erase"] /\ (~undefined' => at[w] \in heap)
      /\ UNCHANGED <<m_hCompletionPort, at, listenVars, m_mapSocketSession, hSocket, ioVars, ownerVars, m_lock,
                     open, left, nConns>>
  BY DEF DisconnectFree
<1>1. TypeOK'
  <2>1. heap' \subseteq Sessions /\ m_lstFreePool' \subseteq Sessions /\ (m_lstFreePool' \subseteq heap' \/ undefined')
    BY <1>a, <1>b, BoundsAssumption DEF TypeOK, BlockInv, FreeOK, DisconnectFree
  <2>2. worker' \in [Workers -> {"none", "wait", "onrecv", "find", "free", "erase"}] /\ undefined' \in BOOLEAN
    BY DEF TypeOK, DisconnectFree, Walking
  <2>3. QED
    BY <1>b, <2>1, <2>2 DEF TypeOK
<1>2. ~undefined' => LockOK' /\ ListenerOK' /\ ShutOK' /\ CommandOK'
  <2> SUFFICES ASSUME ~undefined' PROVE LockOK' /\ ListenerOK' /\ ShutOK' /\ CommandOK'
    OBVIOUS
  <2>1. InMap' = InMap /\ at[w] \in InMap
    BY <1>a, <1>b, MapStays
  <2>2. LockOK'
    BY <1>b DEF TypeOK, BlockInv, LockOK, Inner, DisconnectFree
  <2>3. ListenerOK' /\ ShutOK' /\ CommandOK'
    BY <1>a, <1>b, <2>1 DEF BlockInv, ListenerOK, ShutOK, CommandOK
  <2>4. QED
    BY <2>2, <2>3
<1>3. ~undefined' => BlocksOK' /\ FreeOK'
  BY MapStays, NamesAssumption DEF TypeOK, BlockInv, LockOK, ListenerOK, BlocksOK, FreeOK,
     Holds, Live, Erasing, Inner, DisconnectFree, Walking
<1>4. QED
  BY <1>1, <1>2, <1>3 DEF BlockInv

LEMMA DisconnectEraseBlocks ==
  ASSUME TypeOK, BlockInv, ~undefined, NEW w \in Workers, DisconnectErase(w)
  PROVE  TypeOK' /\ (~undefined' => BlockInv')
<1> USE DEF Goes, Listens, runnerVars, listenVars, blockVars, ioVars, ownerVars
<1>1. TypeOK'
  BY BoundsAssumption DEF TypeOK, BlockInv, ListenerOK, DisconnectErase, Walking
<1>2. ~undefined' => LockOK' /\ ListenerOK' /\ ShutOK' /\ CommandOK'
  BY NamesAssumption DEF TypeOK, BlockInv, LockOK, ListenerOK, ShutOK, CommandOK, Inner,
     DisconnectErase, Walking
<1>3. BlocksOK' /\ FreeOK'
  <2>1. m_lock = w /\ listener # "inserted" /\ worker[w] = "erase"
    BY NamesAssumption DEF BlockInv, LockOK, Inner, DisconnectErase
  <2>2. \A v \in Workers : worker[v] \in Inner => v = w
    BY <2>1 DEF BlockInv, LockOK
  <2>3. Erasing = {at[w]} /\ Erasing' = {}
    BY <2>1, <2>2 DEF TypeOK, Erasing, Inner, DisconnectErase
  <2>4. InMap' = InMap \ {at[w]}
    BY DEF TypeOK, InMap, DisconnectErase
  <2>5. Live \subseteq heap \ m_lstFreePool /\ pSocketSession \notin Live /\ Live' = Live
    BY <2>1, <2>3, <2>4 DEF BlockInv, BlocksOK, Holds, Live, Inner
  <2>6. QED
    BY <2>1, <2>2, <2>5 DEF TypeOK, BlocksOK, FreeOK, Inner, DisconnectErase
<1>4. QED
  BY <1>1, <1>2, <1>3 DEF BlockInv

LEMMA QuitBlocks ==
  ASSUME TypeOK, BlockInv, ~undefined, NEW w \in Workers, Quit(w)
  PROVE  TypeOK' /\ BlockInv'
<1> USE DEF Goes, Listens, runnerVars, listenVars, blockVars, ioVars, ownerVars
<1>1. TypeOK'
  BY BoundsAssumption DEF TypeOK, BlockInv, ListenerOK, Quit
<1>2. LockOK' /\ ListenerOK' /\ ShutOK' /\ CommandOK'
  BY MapStays, NamesAssumption DEF TypeOK, BlockInv, LockOK, ListenerOK, ShutOK, CommandOK,
     Inner, Quit
<1>3. BlocksOK' /\ FreeOK'
  BY MapStays, NamesAssumption DEF TypeOK, BlockInv, LockOK, ListenerOK, BlocksOK, FreeOK,
     Holds, Live, Erasing, Inner, Quit
<1>4. QED
  BY <1>1, <1>2, <1>3 DEF BlockInv

LEMMA RunnerCloseBlocks ==
  ASSUME TypeOK, BlockInv, ~undefined, RunnerClose
  PROVE  TypeOK' /\ BlockInv'
<1> USE DEF Goes, Listens, runnerVars, listenVars, blockVars, ioVars, ownerVars
<1>1. TypeOK'
  BY BoundsAssumption DEF TypeOK, BlockInv, ListenerOK, RunnerClose, ClosePort
<1>2. LockOK' /\ ListenerOK' /\ ShutOK' /\ CommandOK'
  BY MapStays, NamesAssumption DEF TypeOK, BlockInv, LockOK, ListenerOK, ShutOK, CommandOK,
     Inner, RunnerClose, ClosePort
<1>3. BlocksOK' /\ FreeOK'
  BY MapStays, NamesAssumption DEF TypeOK, BlockInv, LockOK, ListenerOK, BlocksOK, FreeOK,
     Holds, Live, Erasing, Inner, RunnerClose, ClosePort
<1>4. QED
  BY <1>1, <1>2, <1>3 DEF BlockInv

LEMMA RunnerOpenBlocks ==
  ASSUME TypeOK, BlockInv, ~undefined, RunnerOpen
  PROVE  TypeOK' /\ BlockInv'
<1> USE DEF Goes, Listens, runnerVars, listenVars, blockVars, ioVars, ownerVars
<1>1. TypeOK'
  BY BoundsAssumption DEF TypeOK, BlockInv, ListenerOK, RunnerOpen, ClosePort
<1>2. LockOK' /\ ListenerOK' /\ ShutOK' /\ CommandOK'
  BY MapStays, NamesAssumption DEF TypeOK, BlockInv, LockOK, ListenerOK, ShutOK, CommandOK,
     Inner, RunnerOpen, ClosePort
<1>3. BlocksOK' /\ FreeOK'
  BY MapStays, NamesAssumption DEF TypeOK, BlockInv, LockOK, ListenerOK, BlocksOK, FreeOK,
     Holds, Live, Erasing, Inner, RunnerOpen, ClosePort
<1>4. QED
  BY <1>1, <1>2, <1>3 DEF BlockInv

LEMMA KillBlocks ==
  ASSUME TypeOK, BlockInv, ~undefined, Kill
  PROVE  TypeOK' /\ BlockInv'
<1> USE DEF Goes, Listens, runnerVars, listenVars, blockVars, ioVars, ownerVars
<1>1. TypeOK'
  BY BoundsAssumption DEF TypeOK, BlockInv, ListenerOK, Kill, Clear, Inside
<1>2. LockOK' /\ ListenerOK' /\ ShutOK' /\ CommandOK'
  BY MapStays, NamesAssumption DEF TypeOK, BlockInv, LockOK, ListenerOK, ShutOK, CommandOK,
     Inner, Kill, Clear, Inside
<1>3. BlocksOK' /\ FreeOK'
  BY MapStays, NamesAssumption DEF TypeOK, BlockInv, LockOK, ListenerOK, BlocksOK, FreeOK,
     Holds, Live, Erasing, Inner, Kill, Clear, Inside
<1>4. QED
  BY <1>1, <1>2, <1>3 DEF BlockInv

LEMMA StartBlocks ==
  ASSUME TypeOK, BlockInv, ~undefined, Start
  PROVE  TypeOK' /\ BlockInv'
<1> USE DEF Goes, Listens, runnerVars, listenVars, blockVars, ioVars, ownerVars
<1>1. TypeOK'
  BY BoundsAssumption DEF TypeOK, BlockInv, ListenerOK, Start, Clear, Inside
<1>2. LockOK' /\ ListenerOK' /\ ShutOK' /\ CommandOK'
  BY MapStays, NamesAssumption DEF TypeOK, BlockInv, LockOK, ListenerOK, ShutOK, CommandOK,
     Inner, Start, Clear, Inside
<1>3. BlocksOK' /\ FreeOK'
  BY MapStays, NamesAssumption DEF TypeOK, BlockInv, LockOK, ListenerOK, BlocksOK, FreeOK,
     Holds, Live, Erasing, Inner, Start, Clear, Inside
<1>4. QED
  BY <1>1, <1>2, <1>3 DEF BlockInv

LEMMA ServerOpenBlocks ==
  ASSUME TypeOK, BlockInv, ~undefined, ServerOpen
  PROVE  TypeOK' /\ (~undefined' => BlockInv')
<1> USE DEF Goes, Listens, runnerVars, listenVars, blockVars, ioVars, ownerVars
<1>a. /\ heap \subseteq heap' /\ heap' \subseteq Sessions
      /\ \E new \in SUBSET (Sessions \ heap) : m_lstFreePool' = m_lstFreePool \cup new /\ heap' = heap \cup new
  <2>1. heap \subseteq Sessions
    BY DEF TypeOK
  <2>2. \/ UNCHANGED <<heap, m_lstFreePool>>
        \/ \E n \in 0 .. m_nDefaultFreePoolNum - 1 : FillPool(n)
        \/ FillPool(m_nDefaultFreePoolNum)
    BY DEF ServerOpen
  <2>3. \E new \in SUBSET (Sessions \ heap) : m_lstFreePool' = m_lstFreePool \cup new /\ heap' = heap \cup new
    <3>1. CASE UNCHANGED <<heap, m_lstFreePool>>
      <4>1. {} \in SUBSET (Sessions \ heap) /\ m_lstFreePool' = m_lstFreePool \cup {} /\ heap' = heap \cup {}
        BY <3>1
      <4>2. QED
        BY <4>1
    <3>2. ASSUME NEW n, FillPool(n)
          PROVE  \E new \in SUBSET (Sessions \ heap) : m_lstFreePool' = m_lstFreePool \cup new /\ heap' = heap \cup new
      BY <3>2 DEF FillPool
    <3>3. QED
      BY <2>2, <3>1, <3>2
  <2>4. QED
    BY <2>1, <2>3
<1>1. TypeOK'
  <2>1. /\ opened' \in [runner : 0 .. MaxOpens, server : 0 .. MaxOpens] /\ opened'.server \in 1 .. MaxOpens
    BY BoundsAssumption DEF TypeOK, ServerOpen
  <2>2. m_hListenSocket' \in -1 .. MaxOpens /\ listening' \subseteq 1 .. MaxOpens
    <3>1. opened'.server \in -1 .. MaxOpens /\ -1 \in -1 .. MaxOpens
      BY <2>1, BoundsAssumption
    <3>2. \/ m_hListenSocket' = -1 /\ listening' = listening
          \/ m_hListenSocket' = opened'.server /\ listening' = listening \cup {opened'.server}
      BY DEF ServerOpen
    <3>3. QED
      BY <2>1, <3>1, <3>2 DEF TypeOK
  <2>a. /\ torn' \subseteq {"worker", "socket", "order", "listener"} /\ stopListen' \in BOOLEAN
        /\ listener' \in {"none", "check"} /\ undefined' \in BOOLEAN
    BY DEF TypeOK, ServerOpen, StartListen, ClearListen
  <2>3. m_lstFreePool' \subseteq Sessions /\ m_lstFreePool' \subseteq heap'
    BY <1>a DEF TypeOK
  <2>4. UNCHANGED <<runnerVars, hClientSocket, pSocketSession, m_mapSocketSession, hSocket, ioVars, m_lock, owner,
                    open, left, nConns>>
    BY DEF ServerOpen
  <2>5. QED
    BY <1>a, <2>1, <2>2, <2>a, <2>3, <2>4 DEF TypeOK
<1>2. ~undefined' => LockOK' /\ ListenerOK' /\ ShutOK' /\ CommandOK'
  BY MapStays, NamesAssumption DEF TypeOK, BlockInv, LockOK, ListenerOK, ShutOK, CommandOK,
     Inner, ServerOpen, FillPool, StartListen, ClearListen, Inside
<1>3. ~undefined' => BlocksOK' /\ FreeOK'
  <2> SUFFICES ASSUME ~undefined' PROVE BlocksOK' /\ FreeOK'
    OBVIOUS
  <2>1. Inside = {} /\ pSocketSession = NoSession /\ NoSession \notin Live
    BY DEF ServerOpen, BlockInv, ListenerOK, Live, InMap
  <2>2. Live' = Live
    BY LiveStays DEF ServerOpen
  <2>3. Holds' => Holds
    BY DEF ServerOpen, Holds, StartListen
  <2>4. BlocksOK'
    BY <1>a, <2>1, <2>2, <2>3 DEF BlockInv, BlocksOK, ServerOpen
  <2>5. FreeOK'
    BY <2>1 DEF FreeOK, Inside, ServerOpen
  <2>6. QED
    BY <2>4, <2>5
<1>4. QED
  BY <1>1, <1>2, <1>3 DEF BlockInv

LEMMA ServerCloseBlocks ==
  ASSUME TypeOK, BlockInv, ~undefined, ServerClose
  PROVE  TypeOK' /\ BlockInv'
<1> USE DEF Goes, Listens, runnerVars, listenVars, blockVars, ioVars, ownerVars
<1>1. TypeOK'
  BY BoundsAssumption DEF TypeOK, BlockInv, ListenerOK, ServerClose
<1>2. LockOK' /\ ListenerOK' /\ ShutOK' /\ CommandOK'
  BY MapStays, NamesAssumption DEF TypeOK, BlockInv, LockOK, ListenerOK, ShutOK, CommandOK,
     Inner, ServerClose
<1>3. BlocksOK' /\ FreeOK'
  BY MapStays, NamesAssumption DEF TypeOK, BlockInv, LockOK, ListenerOK, BlocksOK, FreeOK,
     Holds, Live, Erasing, Inner, ServerClose
<1>4. QED
  BY <1>1, <1>2, <1>3 DEF BlockInv

LEMMA KillListenBlocks ==
  ASSUME TypeOK, BlockInv, ~undefined, KillListen
  PROVE  TypeOK' /\ BlockInv'
<1> USE DEF Goes, Listens, runnerVars, listenVars, blockVars, ioVars, ownerVars
<1>1. TypeOK'
  BY BoundsAssumption DEF TypeOK, BlockInv, ListenerOK, KillListen
<1>2. LockOK' /\ ListenerOK' /\ ShutOK' /\ CommandOK'
  BY MapStays, NamesAssumption DEF TypeOK, BlockInv, LockOK, ListenerOK, ShutOK, CommandOK,
     Inner, KillListen
<1>3. BlocksOK' /\ FreeOK'
  <2>1. Live' = Live /\ InMap' = InMap /\ NoSession \notin Live
    BY LiveStays DEF KillListen, Live, InMap
  <2>2. Holds' => Holds
    BY DEF KillListen, Holds
  <2>3. QED
    BY <2>1, <2>2 DEF BlockInv, BlocksOK, FreeOK, KillListen
<1>4. QED
  BY <1>1, <1>2, <1>3 DEF BlockInv

LEMMA FreeSessionsBlocks ==
  ASSUME TypeOK, BlockInv, ~undefined, FreeSessions
  PROVE  TypeOK' /\ (~undefined' => BlockInv')
<1> USE DEF Goes, Listens, runnerVars, listenVars, blockVars, ioVars, ownerVars
<1>1. TypeOK'
  BY BoundsAssumption DEF TypeOK, BlockInv, ListenerOK, FreeSessions, Walking
<1>a. InMap' = {} /\ Live' = {}
  BY DEF InMap, Live, FreeSessions
<1>2. LockOK' /\ ListenerOK' /\ ShutOK' /\ CommandOK'
  BY <1>a DEF BlockInv, LockOK, ListenerOK, ShutOK, CommandOK, FreeSessions, Walking
<1>3. BlocksOK' /\ FreeOK'
  BY <1>a DEF BlockInv, BlocksOK, ListenerOK, FreeOK, FreeSessions, Walking
<1>4. QED
  BY <1>1, <1>2, <1>3 DEF BlockInv

----------------------------------------------------------------------------
(* The steps, as far as what is used goes.                                 *)

LEMMA NobodyAtWork ==
  ASSUME Idle
  PROVE  /\ Live = InMap /\ Erasing = {} /\ Inside = {}
         /\ \A w \in Workers : worker[w] \notin AtWork /\ worker[w] \notin Inner
<1>1. \A w \in Workers : worker[w] \notin AtWork /\ worker[w] \notin Inner /\ worker[w] # "erase"
  BY DEF Idle, AtWork, Inner
<1>2. QED
  BY <1>1 DEF Live, Erasing, Inside, Inner

(* Close walks while nobody works, if nothing was torn.                    *)
LEMMA NobodyWhileWalking ==
  ASSUME UsedInv, Walking
  PROVE  Idle /\ m_hCompletionPort = 0
BY DEF UsedInv, PortOK, Walking

(* A worker moves on, but neither into the erase nor out of it.            *)
LEMMA LiveStaysFor ==
  ASSUME TypeOK, NEW w \in Workers, NEW l, l # "erase", worker[w] # "erase", worker' = [worker EXCEPT ![w] = l],
         \A v \in Workers : v # w => at'[v] = at[v], UNCHANGED m_mapSocketSession
  PROVE  InMap' = InMap /\ Erasing' = Erasing /\ Live' = Live
<1>1. InMap' = InMap
  BY MapStays
<1>2. \A v \in Workers : worker'[v] = "erase" <=> worker[v] = "erase"
  BY DEF TypeOK
<1>3. \A v \in Workers : worker[v] = "erase" => at'[v] = at[v]
  OBVIOUS
<1>4. Erasing' = Erasing
  BY <1>2, <1>3 DEF Erasing
<1>5. QED
  BY <1>1, <1>4 DEF Live

(* A block in use is that of a connection, and so is the block of a worker *)
(* that has taken a receive out of the port.                               *)
LEMMA LiveBlock ==
  ASSUME TypeOK, UsedInv, NEW s \in Live
  PROVE  /\ s \in heap /\ s \notin m_lstFreePool /\ s \in Sessions /\ s # NoSession
         /\ hSocket[s] \in Conns /\ m_mapSocketSession[hSocket[s]] = s /\ key[hSocket[s]].s = s
         /\ hSocket[s] <= nConns
<1>1. s \in heap /\ s \notin m_lstFreePool /\ s \in Sessions
  BY DEF TypeOK, UsedInv, LiveOK
<1>2. PICK c \in Conns : m_mapSocketSession[c] = s /\ s # NoSession
  BY DEF Live, InMap
<1>3. hSocket[s] = c /\ key[c].s = s
  BY <1>2 DEF UsedInv, MapOK
<1>4. c <= nConns
  BY <1>2 DEF UsedInv, FreshOK, TypeOK, Conns
<1>5. QED
  BY <1>1, <1>2, <1>3, <1>4

LEMMA WorkerBlock ==
  ASSUME TypeOK, UsedInv, NEW w \in Workers, worker[w] \in AtWork
  PROVE  /\ at[w] \in Live /\ recv[hSocket[at[w]]] = "none" /\ hSocket[at[w]] # hClientSocket
         /\ \A v \in Workers : v # w /\ worker[v] \in AtWork => at[v] # at[w]
<1>1. at[w] \in Live /\ recv[hSocket[at[w]]] = "none"
  BY DEF UsedInv, WorkOK
<1>2. m_mapSocketSession[hSocket[at[w]]] = at[w] /\ at[w] # NoSession /\ hSocket[at[w]] \in Conns
  BY <1>1, LiveBlock
<1>3. hSocket[at[w]] # hClientSocket
  BY <1>2 DEF UsedInv, HandOK, Conns, NoConn
<1>4. QED
  BY <1>1, <1>3 DEF UsedInv, WorkOK

(* What the steps of the workers do to the blocks of the map.              *)

LEMMA QuitLive ==
  ASSUME TypeOK, NEW w \in Workers, Quit(w)
  PROVE  InMap' = InMap /\ Erasing' = Erasing /\ Live' = Live
BY LiveStaysFor DEF Quit, Goes, runnerVars, blockVars

LEMMA DequeueLive ==
  ASSUME TypeOK, NEW w \in Workers, NEW c \in Conns, Dequeue(w, c)
  PROVE  InMap' = InMap /\ Erasing' = Erasing /\ Live' = Live
<1> USE DEF Goes, runnerVars, blockVars
<1>1. \A v \in Workers : v # w => at'[v] = at[v]
  BY DEF TypeOK, Dequeue
<1>2. \E l \in {"find", "onrecv"} : worker' = [worker EXCEPT ![w] = l]
  BY DEF Dequeue
<1>3. QED
  BY <1>1, <1>2, LiveStaysFor DEF Dequeue

LEMMA PostRecvLive ==
  ASSUME TypeOK, NEW w \in Workers, PostRecv(w)
  PROVE  InMap' = InMap /\ Erasing' = Erasing /\ Live' = Live
<1> USE DEF Goes, runnerVars, blockVars
<1>1. \E l \in {"find", "wait"} : worker' = [worker EXCEPT ![w] = l]
  BY DEF PostRecv
<1>2. QED
  BY <1>1, LiveStaysFor DEF PostRecv

LEMMA DisconnectFindLive ==
  ASSUME TypeOK, NEW w \in Workers, DisconnectFind(w)
  PROVE  InMap' = InMap /\ Erasing' = Erasing /\ Live' = Live
<1> USE DEF Goes, runnerVars, blockVars
<1>1. \A v \in Workers : v # w => at'[v] = at[v]
  BY DEF TypeOK, DisconnectFind
<1>2. \E l \in {"free", "wait"} : worker' = [worker EXCEPT ![w] = l]
  BY DEF DisconnectFind
<1>3. QED
  BY <1>1, <1>2, LiveStaysFor DEF DisconnectFind

LEMMA DisconnectFreeLive ==
  ASSUME TypeOK, NEW w \in Workers, DisconnectFree(w)
  PROVE  /\ InMap' = InMap /\ Erasing' = Erasing \cup {at[w]} /\ Live' = Live \ {at[w]}
         /\ worker' = [worker EXCEPT ![w] = "erase"]
<1> USE DEF Goes, runnerVars, blockVars
<1>1. InMap' = InMap
  BY MapStays DEF DisconnectFree
<1>2. Erasing' = Erasing \cup {at[w]}
  BY DEF TypeOK, Erasing, DisconnectFree
<1>3. QED
  BY <1>1, <1>2 DEF Live, DisconnectFree

LEMMA DisconnectEraseLive ==
  ASSUME TypeOK, BlockInv, NEW w \in Workers, DisconnectErase(w)
  PROVE  /\ InMap' = InMap \ {at[w]} /\ Erasing = {at[w]} /\ Erasing' = {} /\ Live' = Live
         /\ \A v \in Workers : worker[v] \in Inner => v = w
<1> USE DEF Goes, runnerVars, blockVars
<1>1. m_lock = w
  BY DEF BlockInv, LockOK, Inner, DisconnectErase
<1>2. \A v \in Workers : worker[v] \in Inner => v = w
  BY <1>1 DEF BlockInv, LockOK
<1>3. Erasing = {at[w]} /\ Erasing' = {}
  BY <1>1, <1>2 DEF TypeOK, Erasing, Inner, DisconnectErase
<1>4. InMap' = InMap \ {at[w]}
  BY DEF TypeOK, InMap, DisconnectErase
<1>5. QED
  BY <1>2, <1>3, <1>4 DEF Live

LEMMA InsertSessionLive ==
  ASSUME TypeOK, BlockInv, UsedInv, InsertSession
  PROVE  /\ InMap' = InMap \cup {pSocketSession} /\ Live = InMap /\ Live' = InMap'
         /\ Erasing = {} /\ Erasing' = {} /\ \A w \in Workers : worker[w] \notin Inner
<1> USE DEF Listens, runnerVars, blockVars
<1>1. Live = InMap /\ Erasing = {} /\ \A w \in Workers : worker[w] \notin Inner
  BY NobodyErases DEF BlockInv, InsertSession
<1>2. hClientSocket \in Conns /\ pSocketSession # NoSession /\ m_mapSocketSession[hClientSocket] = NoSession
  BY DEF TypeOK, BlockInv, ListenerOK, UsedInv, HandOK, InsertSession
<1>3. m_mapSocketSession' = [m_mapSocketSession EXCEPT ![hClientSocket] = pSocketSession]
  BY DEF InsertSession
<1>4. InMap' = InMap \cup {pSocketSession}
  BY <1>2, <1>3 DEF TypeOK, InMap
<1>5. Erasing' = Erasing
  BY DEF Erasing, InsertSession
<1>6. QED
  BY <1>1, <1>4, <1>5 DEF Live

LEMMA KillLive ==
  ASSUME InOrder', Kill
  PROVE  /\ InMap' = InMap /\ Live = InMap /\ Live' = Live /\ Idle'
         /\ Erasing' = {} /\ \A w \in Workers : worker'[w] \notin Inner
<1> USE DEF Goes, runnerVars, blockVars
<1>1. Inside = {}
  BY DEF InOrder, Kill, Clear
<1>2. Erasing = {}
  BY <1>1 DEF Erasing, Inside
<1>3. Idle' /\ InMap' = InMap
  BY MapStays DEF Idle, Kill
<1>4. Erasing' = {}
  BY <1>3 DEF Idle, Erasing
<1>5. \A w \in Workers : worker'[w] \notin Inner
  BY <1>3 DEF Idle, Inner
<1>6. QED
  BY <1>2, <1>3, <1>4, <1>5 DEF Live

LEMMA StartLive ==
  ASSUME InOrder', Start
  PROVE  /\ InMap' = InMap /\ Live = InMap /\ Live' = Live /\ Idle'
         /\ Erasing' = {} /\ \A w \in Workers : worker'[w] \notin Inner
<1> USE DEF Goes, runnerVars, blockVars
<1>1. Inside = {}
  BY DEF InOrder, Start, Clear
<1>2. Erasing = {}
  BY <1>1 DEF Erasing, Inside
<1>3. Idle' /\ InMap' = InMap
  BY MapStays DEF Idle, Start
<1>4. Erasing' = {}
  BY <1>3 DEF Idle, Erasing
<1>5. \A w \in Workers : worker'[w] \notin Inner
  BY <1>3 DEF Idle, Inner
<1>6. QED
  BY <1>2, <1>3, <1>4, <1>5 DEF Live

LEMMA IsStopUsed ==
  ASSUME TypeOK, BlockInv, ~undefined, UsedInv, IsStop
  PROVE  UsedInv'
<1> USE DEF Goes, Listens, runnerVars, listenVars, blockVars, ioVars, ownerVars
<1>b. InMap' = InMap /\ Live' = Live
  BY LiveStays DEF IsStop
<1>1. PortOK' /\ QuietOK' /\ FreshOK'
  BY DEF TypeOK, UsedInv, PortOK, QuietOK, FreshOK, Idle, BlockInv, CommandOK, IsStop
<1>l. LiveOK'
  BY <1>b, BoundsAssumption, NamesAssumption DEF TypeOK, UsedInv, LiveOK, InMap, Live,
     BlockInv, ListenerOK, IsStop
<1>2. MapOK'
  BY <1>b, BoundsAssumption, NamesAssumption DEF TypeOK, UsedInv, MapOK, HandOK, BlockInv,
     ListenerOK, IsStop
<1>3. HandOK'
  BY <1>b, BoundsAssumption, NamesAssumption DEF TypeOK, UsedInv, HandOK, FreshOK, BlockInv,
     ListenerOK, LockOK, AtWork, Inner, IsStop
<1>4. WorkOK'
  BY <1>b, BoundsAssumption, NamesAssumption DEF TypeOK, UsedInv, WorkOK, AtWork, BlockInv,
     IsStop
<1>5. RecvOK'
  BY <1>b, BoundsAssumption, NamesAssumption DEF TypeOK, UsedInv, RecvOK, MapOK, IsStop
<1>6. QED
  BY <1>1, <1>l, <1>2, <1>3, <1>4, <1>5 DEF UsedInv

LEMMA WSAAcceptUsed ==
  ASSUME TypeOK, BlockInv, ~undefined, UsedInv, WSAAccept
  PROVE  UsedInv'
<1> USE DEF Goes, Listens, runnerVars, listenVars, blockVars, ioVars, ownerVars
<1>b. InMap' = InMap /\ Live' = Live
  BY LiveStays DEF WSAAccept
<1>1. PortOK' /\ QuietOK' /\ FreshOK'
  <2>1. PortOK' /\ QuietOK'
    BY DEF UsedInv, PortOK, QuietOK, Idle, WSAAccept
  <2>2. nConns \in Nat /\ (nConns' = nConns \/ nConns' = nConns + 1) /\ hClientSocket' <= nConns'
    BY DEF TypeOK, UsedInv, FreshOK, WSAAccept
  <2>3. \A c \in Conns : c > nConns' => c > nConns
    BY <2>2 DEF Conns
  <2>4. QED
    BY <2>1, <2>2, <2>3 DEF UsedInv, FreshOK, WSAAccept
<1>l. LiveOK'
  BY <1>b, BoundsAssumption, NamesAssumption DEF TypeOK, UsedInv, LiveOK, InMap, Live,
     BlockInv, ListenerOK, WSAAccept
<1>2. MapOK'
  BY <1>b, BoundsAssumption, NamesAssumption DEF TypeOK, UsedInv, MapOK, HandOK, BlockInv,
     ListenerOK, WSAAccept
<1>3. HandOK'
  <2>1. CASE nConns < MaxConns /\ nConns' = nConns + 1 /\ hClientSocket' = nConns' /\ listener' = "take"
    <3>1. hClientSocket' \in Conns /\ hClientSocket' > nConns
      BY <2>1, BoundsAssumption DEF TypeOK, Conns
    <3>2. QED
      BY <2>1, <3>1 DEF UsedInv, FreshOK, HandOK, BlockInv, ListenerOK, WSAAccept
  <2>2. CASE UNCHANGED hClientSocket /\ listener' = "check"
    BY <2>2 DEF UsedInv, HandOK, BlockInv, ListenerOK, WSAAccept
  <2>3. QED
    BY <2>1, <2>2 DEF WSAAccept
<1>4. WorkOK'
  BY <1>b, BoundsAssumption, NamesAssumption DEF TypeOK, UsedInv, WorkOK, AtWork, BlockInv,
     WSAAccept
<1>5. RecvOK'
  BY <1>b, BoundsAssumption, NamesAssumption DEF TypeOK, UsedInv, RecvOK, MapOK, WSAAccept
<1>6. QED
  BY <1>1, <1>l, <1>2, <1>3, <1>4, <1>5 DEF UsedInv

LEMMA TakeFromPoolUsed ==
  ASSUME TypeOK, BlockInv, ~undefined, UsedInv, TakeFromPool
  PROVE  UsedInv'
<1> USE DEF Goes, Listens, runnerVars, listenVars, blockVars, ioVars, ownerVars
<1>b. InMap' = InMap /\ Live' = Live
  BY LiveStays DEF TakeFromPool
<1>1. PortOK' /\ QuietOK' /\ FreshOK'
  BY <1>b, BoundsAssumption, NamesAssumption DEF TypeOK, UsedInv, PortOK, QuietOK, FreshOK,
     Idle, BlockInv, ListenerOK, TakeFromPool
<1>l. LiveOK'
  BY <1>b, BoundsAssumption, NamesAssumption DEF TypeOK, UsedInv, LiveOK, InMap, Live,
     BlockInv, ListenerOK, TakeFromPool
<1>c. \A s \in Live : hSocket'[s] = hSocket[s]
  BY LiveBlock DEF TypeOK, TakeFromPool
<1>2. MapOK'
  BY <1>b, <1>c DEF UsedInv, MapOK, TakeFromPool
<1>3. HandOK'
  BY <1>b, BoundsAssumption, NamesAssumption DEF TypeOK, UsedInv, HandOK, FreshOK, BlockInv,
     ListenerOK, LockOK, AtWork, Inner, TakeFromPool
<1>4. WorkOK'
  BY <1>b, <1>c DEF UsedInv, WorkOK, TakeFromPool
<1>5. RecvOK'
  BY <1>b, BoundsAssumption, NamesAssumption DEF TypeOK, UsedInv, RecvOK, MapOK, TakeFromPool
<1>6. QED
  BY <1>1, <1>l, <1>2, <1>3, <1>4, <1>5 DEF UsedInv

LEMMA UnLockTakenUsed ==
  ASSUME TypeOK, BlockInv, ~undefined, UsedInv, UnLockTaken
  PROVE  UsedInv'
<1> USE DEF Goes, Listens, runnerVars, listenVars, blockVars, ioVars, ownerVars
<1>b. InMap' = InMap /\ Live' = Live
  BY LiveStays DEF UnLockTaken
<1>1. PortOK' /\ QuietOK' /\ FreshOK'
  BY <1>b, BoundsAssumption, NamesAssumption DEF TypeOK, UsedInv, PortOK, QuietOK, FreshOK,
     Idle, BlockInv, ListenerOK, UnLockTaken
<1>l. LiveOK'
  BY <1>b, BoundsAssumption, NamesAssumption DEF TypeOK, UsedInv, LiveOK, InMap, Live,
     BlockInv, ListenerOK, UnLockTaken
<1>2. MapOK'
  BY <1>b, BoundsAssumption, NamesAssumption DEF TypeOK, UsedInv, MapOK, HandOK, BlockInv,
     ListenerOK, UnLockTaken
<1>3. HandOK'
  BY <1>b, BoundsAssumption, NamesAssumption DEF TypeOK, UsedInv, HandOK, FreshOK, BlockInv,
     ListenerOK, LockOK, AtWork, Inner, UnLockTaken
<1>4. WorkOK'
  BY <1>b, BoundsAssumption, NamesAssumption DEF TypeOK, UsedInv, WorkOK, AtWork, BlockInv,
     UnLockTaken
<1>5. RecvOK'
  BY <1>b, BoundsAssumption, NamesAssumption DEF TypeOK, UsedInv, RecvOK, MapOK, UnLockTaken
<1>6. QED
  BY <1>1, <1>l, <1>2, <1>3, <1>4, <1>5 DEF UsedInv

LEMMA AllocSessionUsed ==
  ASSUME TypeOK, BlockInv, ~undefined, UsedInv, AllocSession
  PROVE  UsedInv'
<1> USE DEF Goes, Listens, runnerVars, listenVars, blockVars, ioVars, ownerVars
<1>b. InMap' = InMap /\ Live' = Live
  BY LiveStays DEF AllocSession
<1>1. PortOK' /\ QuietOK' /\ FreshOK'
  <2>1. hClientSocket' <= nConns
    BY DEF TypeOK, UsedInv, FreshOK, NoConn, AllocSession
  <2>2. QED
    BY <2>1 DEF UsedInv, PortOK, QuietOK, FreshOK, Idle, AllocSession
<1>l. LiveOK'
  BY <1>b, BoundsAssumption, NamesAssumption DEF TypeOK, UsedInv, LiveOK, InMap, Live,
     BlockInv, ListenerOK, AllocSession
<1>c. \A s \in Live : hSocket'[s] = hSocket[s]
  BY LiveBlock DEF TypeOK, AllocSession
<1>2. MapOK'
  BY <1>b, <1>c DEF UsedInv, MapOK, AllocSession
<1>3. HandOK'
  BY <1>b, BoundsAssumption, NamesAssumption DEF TypeOK, UsedInv, HandOK, FreshOK, BlockInv,
     ListenerOK, LockOK, AtWork, Inner, AllocSession
<1>4. WorkOK'
  BY <1>b, <1>c DEF UsedInv, WorkOK, AllocSession
<1>5. RecvOK'
  BY <1>b, BoundsAssumption, NamesAssumption DEF TypeOK, UsedInv, RecvOK, MapOK, AllocSession
<1>6. QED
  BY <1>1, <1>l, <1>2, <1>3, <1>4, <1>5 DEF UsedInv

LEMMA AssociateSocketUsed ==
  ASSUME TypeOK, BlockInv, ~undefined, UsedInv, AssociateSocket
  PROVE  UsedInv'
<1> USE DEF Goes, Listens, runnerVars, listenVars, blockVars, ioVars, ownerVars
<1>b. InMap' = InMap /\ Live' = Live
  BY LiveStays DEF AssociateSocket
<1>1. PortOK' /\ QuietOK' /\ FreshOK'
  BY <1>b, BoundsAssumption, NamesAssumption DEF TypeOK, UsedInv, PortOK, QuietOK, FreshOK,
     Idle, BlockInv, ListenerOK, AssociateSocket
<1>l. LiveOK'
  BY <1>b, BoundsAssumption, NamesAssumption DEF TypeOK, UsedInv, LiveOK, InMap, Live,
     BlockInv, ListenerOK, AssociateSocket
<1>c. /\ m_mapSocketSession[hClientSocket] \notin Live /\ recv[hClientSocket] = "none"
      /\ \A c \in Conns : c # hClientSocket => key'[c] = key[c]
  BY DEF TypeOK, UsedInv, HandOK, BlockInv, ListenerOK, Live, InMap, AssociateSocket
<1>2. MapOK'
  BY <1>b, <1>c DEF UsedInv, MapOK, AssociateSocket
<1>3. HandOK'
  BY <1>b, BoundsAssumption, NamesAssumption DEF TypeOK, UsedInv, HandOK, FreshOK, BlockInv,
     ListenerOK, LockOK, AtWork, Inner, AssociateSocket
<1>4. WorkOK'
  BY <1>b, BoundsAssumption, NamesAssumption DEF TypeOK, UsedInv, WorkOK, AtWork, BlockInv,
     AssociateSocket
<1>5. RecvOK'
  BY <1>b, <1>c DEF UsedInv, RecvOK, AssociateSocket
<1>6. QED
  BY <1>1, <1>l, <1>2, <1>3, <1>4, <1>5 DEF UsedInv

LEMMA InsertSessionUsed ==
  ASSUME TypeOK, BlockInv, ~undefined, UsedInv, InsertSession
  PROVE  UsedInv'
<1> USE DEF Goes, Listens, runnerVars, listenVars, blockVars, ioVars, ownerVars
<1>b. /\ InMap' = InMap \cup {pSocketSession} /\ Live = InMap /\ Live' = InMap'
      /\ Erasing = {} /\ Erasing' = {} /\ \A w \in Workers : worker[w] \notin Inner
  BY InsertSessionLive
<1>c. /\ hClientSocket \in Conns /\ pSocketSession # NoSession /\ pSocketSession \notin Live /\ hClientSocket <= nConns
      /\ hSocket[pSocketSession] = hClientSocket /\ key[hClientSocket].s = pSocketSession
      /\ m_mapSocketSession'[hClientSocket] = pSocketSession /\ recv[hClientSocket] = "none"
      /\ \A c \in Conns : c # hClientSocket => m_mapSocketSession'[c] = m_mapSocketSession[c]
  BY DEF TypeOK, BlockInv, ListenerOK, UsedInv, HandOK, LiveOK, FreshOK, InsertSession
<1>1. PortOK' /\ QuietOK' /\ FreshOK'
  <2>1. \A c \in Conns : c > nConns => c # hClientSocket
    BY <1>c DEF TypeOK, Conns
  <2>2. QED
    BY <1>c, <2>1 DEF UsedInv, PortOK, QuietOK, FreshOK, Idle, InsertSession
<1>l. LiveOK'
  BY <1>b, BoundsAssumption, NamesAssumption DEF TypeOK, UsedInv, LiveOK, InMap, Live,
     BlockInv, ListenerOK, InsertSession
<1>2. MapOK'
  <2> SUFFICES ASSUME NEW c \in Conns, m_mapSocketSession'[c] \in Live'
               PROVE  hSocket'[m_mapSocketSession'[c]] = c /\ key'[c].s = m_mapSocketSession'[c]
    BY DEF MapOK
  <2>1. CASE c = hClientSocket
    BY <1>c, <2>1 DEF InsertSession
  <2>2. CASE c # hClientSocket
    <3>1. m_mapSocketSession'[c] = m_mapSocketSession[c] /\ m_mapSocketSession[c] # NoSession
      BY <1>c, <2>2, <1>b DEF InMap
    <3>2. m_mapSocketSession[c] \in Live
      BY <1>b, <3>1 DEF InMap
    <3>3. QED
      BY <3>1, <3>2 DEF UsedInv, MapOK, InsertSession
  <2>3. QED
    BY <2>1, <2>2
<1>3. HandOK'
  <2>1. \A w \in Workers : worker[w] \in AtWork => at[w] # pSocketSession
    BY <1>c, WorkerBlock
  <2>2. QED
    BY <1>c, <2>1 DEF HandOK, InsertSession
<1>4. WorkOK'
  BY <1>b, BoundsAssumption, NamesAssumption DEF TypeOK, UsedInv, WorkOK, AtWork, BlockInv,
     InsertSession
<1>5. RecvOK'
  BY <1>b, BoundsAssumption, NamesAssumption DEF TypeOK, UsedInv, RecvOK, MapOK, InsertSession
<1>6. QED
  BY <1>1, <1>l, <1>2, <1>3, <1>4, <1>5 DEF UsedInv

LEMMA FirstRecvUsed ==
  ASSUME TypeOK, BlockInv, ~undefined, UsedInv, FirstRecv
  PROVE  UsedInv'
<1> USE DEF Goes, Listens, runnerVars, listenVars, blockVars, ioVars, ownerVars
<1>b. InMap' = InMap /\ Live' = Live
  BY LiveStays DEF FirstRecv
<1>c. /\ hClientSocket \in Conns /\ hClientSocket <= nConns /\ recv' = [recv EXCEPT ![hClientSocket] = "posted"]
      /\ m_mapSocketSession[hClientSocket] = pSocketSession /\ pSocketSession # NoSession
      /\ hClientSocket' = NoConn /\ pSocketSession' = NoSession /\ listener' = "check" /\ NoConn <= nConns
      /\ recv \in [Conns -> {"none", "posted", "got"}]
  BY DEF TypeOK, BlockInv, ListenerOK, UsedInv, HandOK, FreshOK, NoConn, FirstRecv
<1>1. PortOK' /\ QuietOK' /\ FreshOK'
  <2>1. \A c \in Conns : c > nConns => c # hClientSocket
    BY <1>c DEF TypeOK, Conns
  <2>2. QED
    BY <1>c, <2>1 DEF UsedInv, PortOK, QuietOK, FreshOK, Idle, FirstRecv
<1>l. LiveOK'
  BY <1>b, BoundsAssumption, NamesAssumption DEF TypeOK, UsedInv, LiveOK, InMap, Live,
     BlockInv, ListenerOK, FirstRecv
<1>2. MapOK'
  BY <1>b, BoundsAssumption, NamesAssumption DEF TypeOK, UsedInv, MapOK, HandOK, BlockInv,
     ListenerOK, FirstRecv
<1>3. HandOK'
  BY <1>b, BoundsAssumption, NamesAssumption DEF TypeOK, UsedInv, HandOK, FreshOK, BlockInv,
     ListenerOK, LockOK, AtWork, Inner, FirstRecv
<1>4. WorkOK'
  <2>1. \A w \in Workers : worker[w] \in AtWork => recv'[hSocket[at[w]]] = recv[hSocket[at[w]]]
    BY <1>c, WorkerBlock
  <2>2. QED
    BY <1>b, <2>1 DEF UsedInv, WorkOK, FirstRecv
<1>5. RecvOK'
  <2>1. Live = InMap
    BY NobodyErases DEF BlockInv, LockOK, FirstRecv
  <2>2. m_mapSocketSession[hClientSocket] \in Live
    BY <1>c, <2>1 DEF InMap
  <2>3. QED
    BY <1>b, <1>c, <2>2 DEF UsedInv, RecvOK, FirstRecv
<1>6. QED
  BY <1>1, <1>l, <1>2, <1>3, <1>4, <1>5 DEF UsedInv

LEMMA ClientSendsUsed ==
  ASSUME TypeOK, BlockInv, ~undefined, UsedInv, NEW c \in Conns, ClientSends(c)
  PROVE  UsedInv'
<1> USE DEF Goes, Listens, runnerVars, listenVars, blockVars, ioVars, ownerVars
<1>b. InMap' = InMap /\ Live' = Live
  BY LiveStays DEF ClientSends
<1>1. PortOK' /\ QuietOK' /\ FreshOK'
  BY <1>b, BoundsAssumption, NamesAssumption DEF TypeOK, UsedInv, PortOK, QuietOK, FreshOK,
     Idle, BlockInv, ListenerOK, ClientSends
<1>l. LiveOK'
  BY <1>b, BoundsAssumption, NamesAssumption DEF TypeOK, UsedInv, LiveOK, InMap, Live,
     BlockInv, ListenerOK, ClientSends
<1>2. MapOK'
  BY <1>b, BoundsAssumption, NamesAssumption DEF TypeOK, UsedInv, MapOK, HandOK, BlockInv,
     ListenerOK, ClientSends
<1>3. HandOK'
  BY <1>b, BoundsAssumption, NamesAssumption DEF TypeOK, UsedInv, HandOK, FreshOK, BlockInv,
     ListenerOK, LockOK, AtWork, Inner, ClientSends
<1>4. WorkOK'
  BY <1>b, BoundsAssumption, NamesAssumption DEF TypeOK, UsedInv, WorkOK, AtWork, BlockInv,
     ClientSends
<1>5. RecvOK'
  BY <1>b, BoundsAssumption, NamesAssumption DEF TypeOK, UsedInv, RecvOK, MapOK, ClientSends
<1>6. QED
  BY <1>1, <1>l, <1>2, <1>3, <1>4, <1>5 DEF UsedInv

LEMMA ClientLeavesUsed ==
  ASSUME TypeOK, BlockInv, ~undefined, UsedInv, NEW c \in Conns, ClientLeaves(c)
  PROVE  UsedInv'
<1> USE DEF Goes, Listens, runnerVars, listenVars, blockVars, ioVars, ownerVars
<1>b. InMap' = InMap /\ Live' = Live
  BY LiveStays DEF ClientLeaves
<1>1. PortOK' /\ QuietOK' /\ FreshOK'
  BY <1>b, BoundsAssumption, NamesAssumption DEF TypeOK, UsedInv, PortOK, QuietOK, FreshOK,
     Idle, BlockInv, ListenerOK, ClientLeaves
<1>l. LiveOK'
  BY <1>b, BoundsAssumption, NamesAssumption DEF TypeOK, UsedInv, LiveOK, InMap, Live,
     BlockInv, ListenerOK, ClientLeaves
<1>2. MapOK'
  BY <1>b, BoundsAssumption, NamesAssumption DEF TypeOK, UsedInv, MapOK, HandOK, BlockInv,
     ListenerOK, ClientLeaves
<1>3. HandOK'
  BY <1>b, BoundsAssumption, NamesAssumption DEF TypeOK, UsedInv, HandOK, FreshOK, BlockInv,
     ListenerOK, LockOK, AtWork, Inner, ClientLeaves
<1>4. WorkOK'
  BY <1>b, BoundsAssumption, NamesAssumption DEF TypeOK, UsedInv, WorkOK, AtWork, BlockInv,
     ClientLeaves
<1>5. RecvOK'
  BY <1>b, BoundsAssumption, NamesAssumption DEF TypeOK, UsedInv, RecvOK, MapOK, ClientLeaves
<1>6. QED
  BY <1>1, <1>l, <1>2, <1>3, <1>4, <1>5 DEF UsedInv

LEMMA DequeueUsed ==
  ASSUME TypeOK, BlockInv, ~undefined, UsedInv, NEW w \in Workers, NEW c \in Conns, Dequeue(w, c)
  PROVE  ~undefined' /\ UsedInv'
<1> USE DEF Goes, Listens, runnerVars, listenVars, blockVars, ioVars, ownerVars
<1>b. InMap' = InMap /\ Erasing' = Erasing /\ Live' = Live
  BY DequeueLive
<1>c. /\ key[c].s = m_mapSocketSession[c] /\ key[c].s \in Live /\ key[c].s \in heap /\ hSocket[key[c].s] = c
      /\ recv[c] # "none" /\ recv'[c] = "none" /\ at'[w] = key[c].s /\ worker'[w] \in {"find", "onrecv"}
      /\ m_hCompletionPort # 0 /\ m_hCompletionPort' = m_hCompletionPort /\ listener # "none"
  BY DEF TypeOK, Ended, UsedInv, RecvOK, MapOK, LiveOK, QuietOK, Dequeue
<1>d. /\ \A d \in Conns : d # c => recv'[d] = recv[d]
      /\ \A v \in Workers : v # w => at'[v] = at[v] /\ worker'[v] = worker[v]
  BY DEF TypeOK, Dequeue
<1>u. ~undefined'
  BY <1>c DEF Dequeue
<1>1. PortOK' /\ QuietOK' /\ FreshOK'
  BY <1>b, BoundsAssumption, NamesAssumption DEF TypeOK, UsedInv, PortOK, QuietOK, FreshOK,
     Idle, BlockInv, ListenerOK, Dequeue, Ended
<1>l. LiveOK'
  BY <1>b, BoundsAssumption, NamesAssumption DEF TypeOK, UsedInv, LiveOK, InMap, Live,
     BlockInv, ListenerOK, Dequeue, Ended
<1>2. MapOK'
  BY <1>b, BoundsAssumption, NamesAssumption DEF TypeOK, UsedInv, MapOK, HandOK, BlockInv,
     ListenerOK, Dequeue, Ended
<1>3. HandOK'
  <2>1. hClientSocket # c
    BY <1>c DEF UsedInv, HandOK, Conns, NoConn
  <2>2. listener = "inserted" => key[c].s # pSocketSession
    BY <1>c, <2>1, BoundsAssumption DEF BlockInv, ListenerOK, UsedInv, HandOK
  <2>3. hClientSocket # NoConn => recv'[hClientSocket] = "none"
    BY <1>d, <2>1 DEF TypeOK, UsedInv, HandOK
  <2>4. \A v \in Workers : listener = "inserted" /\ worker'[v] \in AtWork => at'[v] # pSocketSession
    BY <1>c, <1>d, <2>2 DEF UsedInv, HandOK
  <2>5. QED
    BY <2>3, <2>4 DEF UsedInv, HandOK, Dequeue
<1>4. WorkOK'
  <2>1. \A v \in Workers : v # w /\ worker[v] \in AtWork => at[v] # key[c].s /\ recv'[hSocket[at[v]]] = "none"
    <3> SUFFICES ASSUME NEW v \in Workers, v # w, worker[v] \in AtWork
                 PROVE  at[v] # key[c].s /\ recv'[hSocket[at[v]]] = "none"
      OBVIOUS
    <3>1. at[v] \in Live /\ recv[hSocket[at[v]]] = "none"
      BY WorkerBlock
    <3>2. hSocket[at[v]] \in Conns
      BY <3>1, LiveBlock
    <3>3. QED
      BY <1>c, <1>d, <3>1, <3>2
  <2>2. hSocket' = hSocket /\ m_mapSocketSession' = m_mapSocketSession
    BY DEF Dequeue
  <2>3. \A v \in Workers : worker'[v] \in AtWork => at'[v] \in Live' /\ recv'[hSocket'[at'[v]]] = "none"
    BY <1>b, <1>c, <1>d, <2>1, <2>2 DEF UsedInv, WorkOK
  <2>4. \A v \in Workers : worker'[v] = "erase" => at'[v] \in InMap'
    BY <1>b, <1>c, <1>d DEF UsedInv, WorkOK
  <2>5. \A v, u \in Workers : worker'[v] \in AtWork /\ worker'[u] \in AtWork /\ at'[v] = at'[u] => v = u
    BY <1>c, <1>d, <2>1 DEF UsedInv, WorkOK
  <2>6. QED
    BY <2>3, <2>4, <2>5 DEF WorkOK
<1>5. RecvOK'
  BY <1>b, BoundsAssumption, NamesAssumption DEF TypeOK, UsedInv, RecvOK, MapOK, Dequeue, Ended
<1>6. QED
  BY <1>u, <1>1, <1>l, <1>2, <1>3, <1>4, <1>5 DEF UsedInv

LEMMA PostRecvUsed ==
  ASSUME TypeOK, BlockInv, ~undefined, UsedInv, NEW w \in Workers, PostRecv(w)
  PROVE  ~undefined' /\ UsedInv'
<1> USE DEF Goes, Listens, runnerVars, listenVars, blockVars, ioVars, ownerVars
<1>b. InMap' = InMap /\ Erasing' = Erasing /\ Live' = Live
  BY PostRecvLive
<1>c. PICK c : c = hSocket[at[w]]
  OBVIOUS
<1>d. /\ c \in Conns /\ m_mapSocketSession[c] = at[w] /\ at[w] \in Live /\ at[w] \in heap /\ recv[c] = "none"
      /\ c # hClientSocket /\ c <= nConns
      /\ \A v \in Workers : v # w /\ worker[v] \in AtWork => at[v] # at[w]
  BY <1>c, WorkerBlock, LiveBlock DEF AtWork, PostRecv
<1>e. /\ \/ recv' = [recv EXCEPT ![c] = "posted"] /\ worker' = [worker EXCEPT ![w] = "wait"]
         \/ recv' = recv /\ \E l \in {"wait", "find"} : worker' = [worker EXCEPT ![w] = l]
      /\ UNCHANGED <<m_hCompletionPort, at, listenVars, blockVars, key, ownerVars, m_lock, open, left, nConns>>
  BY <1>c DEF PostRecv
<1>f. recv \in [Conns -> {"none", "posted", "got"}]
  BY DEF TypeOK
<1>u. ~undefined'
  BY <1>d DEF PostRecv
<1>1. PortOK' /\ QuietOK' /\ FreshOK'
  <2>1. ~Idle
    BY DEF Idle, PostRecv
  <2>2. PortOK' /\ QuietOK'
    BY <1>e, <2>1 DEF UsedInv, PortOK, QuietOK
  <2>3. \A d \in Conns : d > nConns => d # c
    BY <1>d DEF TypeOK, Conns
  <2>4. FreshOK'
    BY <1>d, <1>e, <1>f, <2>3 DEF UsedInv, FreshOK
  <2>5. QED
    BY <2>2, <2>4
<1>l. LiveOK'
  BY <1>b, BoundsAssumption, NamesAssumption DEF TypeOK, UsedInv, LiveOK, InMap, Live,
     BlockInv, ListenerOK, PostRecv
<1>2. MapOK'
  BY <1>b, BoundsAssumption, NamesAssumption DEF TypeOK, UsedInv, MapOK, HandOK, BlockInv,
     ListenerOK, PostRecv
<1>3. HandOK'
  <2>1. hClientSocket # NoConn => recv'[hClientSocket] = "none"
    BY <1>d, <1>e, <1>f DEF TypeOK, UsedInv, HandOK
  <2>2. \A v \in Workers : worker'[v] \in AtWork => worker[v] \in AtWork
    BY <1>e DEF TypeOK, AtWork, PostRecv
  <2>3. QED
    BY <1>e, <2>1, <2>2 DEF UsedInv, HandOK
<1>4. WorkOK'
  <2>1. ASSUME NEW v \in Workers, worker'[v] \in AtWork
        PROVE  worker[v] \in AtWork /\ recv'[hSocket[at[v]]] = "none"
    <3>1. worker[v] \in AtWork
      BY <1>e, <2>1 DEF TypeOK, AtWork, PostRecv
    <3>2. recv[hSocket[at[v]]] = "none" /\ hSocket[at[v]] \in Conns /\ m_mapSocketSession[hSocket[at[v]]] = at[v]
      BY <3>1, WorkerBlock, LiveBlock
    <3>3. CASE recv' = recv
      BY <3>1, <3>2, <3>3
    <3>4. CASE recv' = [recv EXCEPT ![c] = "posted"] /\ worker' = [worker EXCEPT ![w] = "wait"]
      <4>1. v # w
        BY <2>1, <3>4 DEF TypeOK, AtWork
      <4>2. hSocket[at[v]] # c
        BY <1>d, <3>1, <3>2, <4>1
      <4>3. QED
        BY <1>f, <3>1, <3>2, <3>4, <4>2
    <3>5. QED
      BY <1>e, <3>3, <3>4
  <2>2. \A v \in Workers : worker'[v] = "erase" => worker[v] = "erase"
    BY <1>e DEF TypeOK
  <2>3. QED
    BY <1>b, <1>e, <2>1, <2>2 DEF UsedInv, WorkOK
<1>5. RecvOK'
  BY <1>b, <1>d, <1>e, <1>f DEF UsedInv, RecvOK
<1>6. QED
  BY <1>u, <1>1, <1>l, <1>2, <1>3, <1>4, <1>5 DEF UsedInv

LEMMA DisconnectFindUsed ==
  ASSUME TypeOK, BlockInv, ~undefined, UsedInv, NEW w \in Workers, DisconnectFind(w)
  PROVE  ~undefined' /\ UsedInv'
<1> USE DEF Goes, Listens, runnerVars, listenVars, blockVars, ioVars, ownerVars
<1>b. InMap' = InMap /\ Erasing' = Erasing /\ Live' = Live
  BY DisconnectFindLive
<1>u. ~undefined'
  BY <1>b, BoundsAssumption, NamesAssumption DEF UsedInv, PortOK, WorkOK, RecvOK, BlockInv,
     Idle, AtWork, DisconnectFind, Walking
<1>1. PortOK' /\ QuietOK' /\ FreshOK'
  BY <1>b, BoundsAssumption, NamesAssumption DEF TypeOK, UsedInv, PortOK, QuietOK, FreshOK,
     Idle, BlockInv, ListenerOK, DisconnectFind, Walking
<1>l. LiveOK'
  BY <1>b, BoundsAssumption, NamesAssumption DEF TypeOK, UsedInv, LiveOK, InMap, Live,
     BlockInv, ListenerOK, DisconnectFind, Walking
<1>2. MapOK'
  BY <1>b, BoundsAssumption, NamesAssumption DEF TypeOK, UsedInv, MapOK, HandOK, BlockInv,
     ListenerOK, DisconnectFind, Walking
<1>c. at[w] \in Live /\ hSocket[at[w]] \in Conns /\ m_mapSocketSession[hSocket[at[w]]] = at[w] /\ at[w] # NoSession
  BY WorkerBlock, LiveBlock DEF AtWork, DisconnectFind
<1>d. /\ at' = [at EXCEPT ![w] = at[w]] /\ worker' = [worker EXCEPT ![w] = "free"]
      /\ UNCHANGED <<m_hCompletionPort, listenVars, blockVars, ioVars, ownerVars, left, nConns>>
  BY <1>c DEF DisconnectFind
<1>e. at' = at /\ \A v \in Workers : worker'[v] \in AtWork <=> worker[v] \in AtWork
  BY <1>d DEF TypeOK, AtWork, DisconnectFind
<1>3. HandOK'
  BY <1>d, <1>e DEF UsedInv, HandOK
<1>4. WorkOK'
  <2>1. \A v \in Workers : worker'[v] = "erase" => worker[v] = "erase"
    BY <1>d DEF TypeOK
  <2>2. QED
    BY <1>b, <1>d, <1>e, <2>1 DEF UsedInv, WorkOK
<1>5. RecvOK'
  BY <1>b, BoundsAssumption, NamesAssumption DEF TypeOK, UsedInv, RecvOK, MapOK,
     DisconnectFind, Walking
<1>6. QED
  BY <1>u, <1>1, <1>l, <1>2, <1>3, <1>4, <1>5 DEF UsedInv

LEMMA DisconnectFreeUsed ==
  ASSUME TypeOK, BlockInv, ~undefined, UsedInv, NEW w \in Workers, DisconnectFree(w)
  PROVE  ~undefined' /\ UsedInv'
<1> USE DEF Goes, Listens, runnerVars, listenVars, blockVars, ioVars, ownerVars
<1>b. /\ InMap' = InMap /\ Erasing' = Erasing \cup {at[w]} /\ Live' = Live \ {at[w]}
      /\ worker' = [worker EXCEPT ![w] = "erase"]
  BY DisconnectFreeLive
<1>c. /\ at[w] \in Live /\ at[w] \in heap /\ ~Walking
      /\ recv[hSocket[at[w]]] = "none" /\ at[w] # NoSession /\ at[w] \in InMap
      /\ \A v \in Workers : v # w /\ worker[v] \in AtWork => at[v] # at[w]
  <2>1. worker[w] \in AtWork /\ ~Idle
    BY DEF AtWork, Idle, DisconnectFree
  <2>2. QED
    BY <2>1, WorkerBlock, LiveBlock, NobodyWhileWalking DEF Live
<1>u. ~undefined'
  BY <1>c DEF DisconnectFree
<1>1. PortOK' /\ QuietOK' /\ FreshOK'
  BY <1>b, BoundsAssumption, NamesAssumption DEF TypeOK, UsedInv, PortOK, QuietOK, FreshOK,
     Idle, BlockInv, ListenerOK, DisconnectFree, Walking
<1>l. LiveOK'
  BY <1>b, BoundsAssumption, NamesAssumption DEF TypeOK, UsedInv, LiveOK, InMap, Live,
     BlockInv, ListenerOK, DisconnectFree, Walking
<1>2. MapOK'
  BY <1>b, BoundsAssumption, NamesAssumption DEF TypeOK, UsedInv, MapOK, HandOK, BlockInv,
     ListenerOK, DisconnectFree, Walking
<1>3. HandOK'
  BY <1>b, BoundsAssumption, NamesAssumption DEF TypeOK, UsedInv, HandOK, FreshOK, BlockInv,
     ListenerOK, LockOK, AtWork, Inner, DisconnectFree, Walking
<1>4. WorkOK'
  <2>1. \A v \in Workers : worker'[v] \in AtWork => v # w /\ worker[v] \in AtWork
    BY <1>b DEF TypeOK, AtWork
  <2>2. \A v \in Workers : worker'[v] = "erase" => v = w \/ worker[v] = "erase"
    BY <1>b DEF TypeOK
  <2>3. UNCHANGED <<at, hSocket, recv>>
    BY DEF DisconnectFree
  <2>4. QED
    BY <1>b, <1>c, <2>1, <2>2, <2>3 DEF UsedInv, WorkOK
<1>5. RecvOK'
  <2>1. \A c \in Conns : recv[c] # "none" /\ m_mapSocketSession[c] \in Live => m_mapSocketSession[c] # at[w]
    BY <1>c DEF UsedInv, MapOK
  <2>2. QED
    BY <1>b, <2>1 DEF UsedInv, RecvOK, DisconnectFree
<1>6. QED
  BY <1>u, <1>1, <1>l, <1>2, <1>3, <1>4, <1>5 DEF UsedInv

LEMMA DisconnectEraseUsed ==
  ASSUME TypeOK, BlockInv, ~undefined, UsedInv, NEW w \in Workers, DisconnectErase(w)
  PROVE  ~undefined' /\ UsedInv'
<1> USE DEF Goes, Listens, runnerVars, listenVars, blockVars, ioVars, ownerVars
<1>b. /\ InMap' = InMap \ {at[w]} /\ Erasing = {at[w]} /\ Erasing' = {} /\ Live' = Live
      /\ \A v \in Workers : worker[v] \in Inner => v = w
  BY DisconnectEraseLive
<1>u. ~undefined'
  BY <1>b, BoundsAssumption, NamesAssumption DEF UsedInv, PortOK, WorkOK, RecvOK, BlockInv,
     Idle, AtWork, DisconnectErase, Walking
<1>1. PortOK' /\ QuietOK' /\ FreshOK'
  BY <1>b, BoundsAssumption, NamesAssumption DEF TypeOK, UsedInv, PortOK, QuietOK, FreshOK,
     Idle, BlockInv, ListenerOK, DisconnectErase, Walking
<1>l. LiveOK'
  BY <1>b, BoundsAssumption, NamesAssumption DEF TypeOK, UsedInv, LiveOK, InMap, Live,
     BlockInv, ListenerOK, DisconnectErase, Walking
<1>c. \A c \in Conns : m_mapSocketSession'[c] = IF m_mapSocketSession[c] = at[w] THEN NoSession ELSE m_mapSocketSession[c]
  BY DEF DisconnectErase
<1>d. at[w] \notin Live /\ NoSession \notin Live
  BY DEF Live, InMap, Erasing, DisconnectErase
<1>2. MapOK'
  BY <1>b, <1>c, <1>d DEF UsedInv, MapOK, DisconnectErase
<1>3. HandOK'
  BY <1>b, BoundsAssumption, NamesAssumption DEF TypeOK, UsedInv, HandOK, FreshOK, BlockInv,
     ListenerOK, LockOK, AtWork, Inner, DisconnectErase, Walking
<1>4. WorkOK'
  <2>1. worker' = [worker EXCEPT ![w] = "wait"] /\ UNCHANGED <<at, hSocket, recv>>
    BY DEF DisconnectErase
  <2>2. \A v \in Workers : worker'[v] \in AtWork => worker[v] \in AtWork
    BY <2>1 DEF TypeOK, AtWork
  <2>3. \A v \in Workers : worker'[v] # "erase"
    BY <1>b, <2>1 DEF TypeOK, Inner
  <2>4. QED
    BY <1>b, <2>1, <2>2, <2>3 DEF UsedInv, WorkOK
<1>5. RecvOK'
  <2>1. \A c \in Conns : m_mapSocketSession[c] \in Live => m_mapSocketSession'[c] \in Live'
    BY <1>b, <1>c, <1>d
  <2>2. QED
    BY <2>1 DEF UsedInv, RecvOK, DisconnectErase
<1>6. QED
  BY <1>u, <1>1, <1>l, <1>2, <1>3, <1>4, <1>5 DEF UsedInv

LEMMA QuitUsed ==
  ASSUME TypeOK, BlockInv, ~undefined, UsedInv, NEW w \in Workers, Quit(w)
  PROVE  UsedInv'
<1> USE DEF Goes, Listens, runnerVars, listenVars, blockVars, ioVars, ownerVars
<1>b. InMap' = InMap /\ Erasing' = Erasing /\ Live' = Live
  BY QuitLive
<1>1. PortOK' /\ QuietOK' /\ FreshOK'
  BY <1>b, BoundsAssumption, NamesAssumption DEF TypeOK, UsedInv, PortOK, QuietOK, FreshOK,
     Idle, BlockInv, ListenerOK, Quit
<1>l. LiveOK'
  BY <1>b, BoundsAssumption, NamesAssumption DEF TypeOK, UsedInv, LiveOK, InMap, Live,
     BlockInv, ListenerOK, Quit
<1>2. MapOK'
  BY <1>b, BoundsAssumption, NamesAssumption DEF TypeOK, UsedInv, MapOK, HandOK, BlockInv,
     ListenerOK, Quit
<1>3. HandOK'
  BY <1>b, BoundsAssumption, NamesAssumption DEF TypeOK, UsedInv, HandOK, FreshOK, BlockInv,
     ListenerOK, LockOK, AtWork, Inner, Quit
<1>4. WorkOK'
  BY <1>b, BoundsAssumption, NamesAssumption DEF TypeOK, UsedInv, WorkOK, AtWork, BlockInv, Quit
<1>5. RecvOK'
  BY <1>b, BoundsAssumption, NamesAssumption DEF TypeOK, UsedInv, RecvOK, MapOK, Quit
<1>6. QED
  BY <1>1, <1>l, <1>2, <1>3, <1>4, <1>5 DEF UsedInv

LEMMA RunnerCloseUsed ==
  ASSUME TypeOK, BlockInv, ~undefined, UsedInv, RunnerClose
  PROVE  UsedInv'
<1> USE DEF Goes, Listens, runnerVars, listenVars, blockVars, ioVars, ownerVars
<1>b. InMap' = InMap /\ Live' = Live
  BY LiveStays DEF RunnerClose, ClosePort
<1>1. PortOK' /\ QuietOK' /\ FreshOK'
  BY <1>b, BoundsAssumption, NamesAssumption DEF TypeOK, UsedInv, PortOK, QuietOK, FreshOK,
     Idle, BlockInv, ListenerOK, RunnerClose, ClosePort
<1>l. LiveOK'
  BY <1>b, BoundsAssumption, NamesAssumption DEF TypeOK, UsedInv, LiveOK, InMap, Live,
     BlockInv, ListenerOK, RunnerClose, ClosePort
<1>2. MapOK'
  BY <1>b, BoundsAssumption, NamesAssumption DEF TypeOK, UsedInv, MapOK, HandOK, BlockInv,
     ListenerOK, RunnerClose, ClosePort
<1>3. HandOK'
  BY <1>b, BoundsAssumption, NamesAssumption DEF TypeOK, UsedInv, HandOK, FreshOK, BlockInv,
     ListenerOK, LockOK, AtWork, Inner, RunnerClose, ClosePort
<1>4. WorkOK'
  BY <1>b, BoundsAssumption, NamesAssumption DEF TypeOK, UsedInv, WorkOK, AtWork, BlockInv,
     RunnerClose, ClosePort
<1>5. RecvOK'
  BY <1>b, BoundsAssumption, NamesAssumption DEF TypeOK, UsedInv, RecvOK, MapOK, RunnerClose,
     ClosePort
<1>6. QED
  BY <1>1, <1>l, <1>2, <1>3, <1>4, <1>5 DEF UsedInv

LEMMA RunnerOpenUsed ==
  ASSUME TypeOK, BlockInv, ~undefined, UsedInv, RunnerOpen
  PROVE  UsedInv'
<1> USE DEF Goes, Listens, runnerVars, listenVars, blockVars, ioVars, ownerVars
<1>b. InMap' = InMap /\ Live' = Live
  BY LiveStays DEF RunnerOpen, ClosePort
<1>1. PortOK' /\ QuietOK' /\ FreshOK'
  BY <1>b, BoundsAssumption, NamesAssumption DEF TypeOK, UsedInv, PortOK, QuietOK, FreshOK,
     Idle, BlockInv, ListenerOK, RunnerOpen, ClosePort
<1>l. LiveOK'
  BY <1>b, BoundsAssumption, NamesAssumption DEF TypeOK, UsedInv, LiveOK, InMap, Live,
     BlockInv, ListenerOK, RunnerOpen, ClosePort
<1>2. MapOK'
  BY <1>b, BoundsAssumption, NamesAssumption DEF TypeOK, UsedInv, MapOK, HandOK, BlockInv,
     ListenerOK, RunnerOpen, ClosePort
<1>3. HandOK'
  BY <1>b, BoundsAssumption, NamesAssumption DEF TypeOK, UsedInv, HandOK, FreshOK, BlockInv,
     ListenerOK, LockOK, AtWork, Inner, RunnerOpen, ClosePort
<1>4. WorkOK'
  BY <1>b, BoundsAssumption, NamesAssumption DEF TypeOK, UsedInv, WorkOK, AtWork, BlockInv,
     RunnerOpen, ClosePort
<1>5. RecvOK'
  BY <1>b, BoundsAssumption, NamesAssumption DEF TypeOK, UsedInv, RecvOK, MapOK, RunnerOpen,
     ClosePort
<1>6. QED
  BY <1>1, <1>l, <1>2, <1>3, <1>4, <1>5 DEF UsedInv

LEMMA KillUsed ==
  ASSUME TypeOK, BlockInv, ~undefined, InOrder => UsedInv, Kill
  PROVE  InOrder' => UsedInv'
<1> USE DEF Goes, Listens, runnerVars, listenVars, blockVars, ioVars, ownerVars
<1> SUFFICES ASSUME InOrder' PROVE UsedInv'
  OBVIOUS
<1>a. InOrder /\ UsedInv
  BY DEF InOrder, Kill, Clear, Inside
<1>b. /\ InMap' = InMap /\ Live = InMap /\ Live' = Live /\ Idle'
      /\ Erasing' = {} /\ \A w \in Workers : worker'[w] \notin Inner
  BY KillLive
<1>1. PortOK' /\ QuietOK' /\ FreshOK'
  BY <1>a, <1>b, BoundsAssumption, NamesAssumption DEF TypeOK, UsedInv, PortOK, QuietOK,
     FreshOK, Idle, BlockInv, ListenerOK, Kill, Clear, Inside
<1>l. LiveOK'
  BY <1>a, <1>b, BoundsAssumption, NamesAssumption DEF TypeOK, UsedInv, LiveOK, InMap, Live,
     BlockInv, ListenerOK, Kill, Clear, Inside
<1>2. MapOK'
  BY <1>a, <1>b, BoundsAssumption, NamesAssumption DEF TypeOK, UsedInv, MapOK, HandOK,
     BlockInv, ListenerOK, Kill, Clear, Inside
<1>3. HandOK'
  BY <1>a, <1>b, BoundsAssumption, NamesAssumption DEF TypeOK, UsedInv, HandOK, FreshOK,
     BlockInv, ListenerOK, LockOK, AtWork, Inner, Kill, Clear, Inside
<1>4. WorkOK'
  BY <1>a, <1>b, BoundsAssumption, NamesAssumption DEF TypeOK, UsedInv, WorkOK, AtWork,
     BlockInv, Kill, Clear, Inside
<1>5. RecvOK'
  BY <1>a, <1>b, BoundsAssumption, NamesAssumption DEF TypeOK, UsedInv, RecvOK, MapOK, Kill,
     Clear, Inside
<1>6. QED
  BY <1>1, <1>l, <1>2, <1>3, <1>4, <1>5 DEF UsedInv

LEMMA StartUsed ==
  ASSUME TypeOK, BlockInv, ~undefined, InOrder => UsedInv, Start
  PROVE  InOrder' => UsedInv'
<1> USE DEF Goes, Listens, runnerVars, listenVars, blockVars, ioVars, ownerVars
<1> SUFFICES ASSUME InOrder' PROVE UsedInv'
  OBVIOUS
<1>a. InOrder /\ UsedInv
  BY DEF InOrder, Start, Clear, Inside
<1>b. /\ InMap' = InMap /\ Live = InMap /\ Live' = Live /\ Idle'
      /\ Erasing' = {} /\ \A w \in Workers : worker'[w] \notin Inner
  BY StartLive
<1>1. PortOK' /\ QuietOK' /\ FreshOK'
  BY <1>a, <1>b, BoundsAssumption, NamesAssumption DEF TypeOK, UsedInv, PortOK, QuietOK,
     FreshOK, Idle, BlockInv, ListenerOK, Start, Clear, Inside
<1>l. LiveOK'
  BY <1>a, <1>b, BoundsAssumption, NamesAssumption DEF TypeOK, UsedInv, LiveOK, InMap, Live,
     BlockInv, ListenerOK, Start, Clear, Inside
<1>2. MapOK'
  BY <1>a, <1>b, BoundsAssumption, NamesAssumption DEF TypeOK, UsedInv, MapOK, HandOK,
     BlockInv, ListenerOK, Start, Clear, Inside
<1>3. HandOK'
  BY <1>a, <1>b, BoundsAssumption, NamesAssumption DEF TypeOK, UsedInv, HandOK, FreshOK,
     BlockInv, ListenerOK, LockOK, AtWork, Inner, Start, Clear, Inside
<1>4. WorkOK'
  BY <1>a, <1>b, BoundsAssumption, NamesAssumption DEF TypeOK, UsedInv, WorkOK, AtWork,
     BlockInv, Start, Clear, Inside
<1>5. RecvOK'
  <2>1. \A c \in Conns : key[c].port < opened.runner /\ key[c].port \in Nat /\ opened.runner \in Nat
    BY <1>a, BoundsAssumption DEF TypeOK, UsedInv, PortOK, Start
  <2>2. \A c \in Conns : key[c].port # opened.runner
    BY <2>1
  <2>3. m_hCompletionPort' = opened.runner \/ m_hCompletionPort' = 0
    BY DEF Start
  <2>4. QED
    BY <2>2, <2>3 DEF RecvOK, Start
<1>6. QED
  BY <1>1, <1>l, <1>2, <1>3, <1>4, <1>5 DEF UsedInv

LEMMA ServerOpenUsed ==
  ASSUME TypeOK, BlockInv, ~undefined, InOrder => UsedInv, ServerOpen
  PROVE  InOrder' => ~undefined' /\ UsedInv'
<1> USE DEF Goes, Listens, runnerVars, listenVars, blockVars, ioVars, ownerVars
<1> SUFFICES ASSUME InOrder' PROVE ~undefined' /\ UsedInv'
  OBVIOUS
<1>a. InOrder /\ UsedInv
  BY DEF InOrder, ServerOpen, FillPool, StartListen, ClearListen, Inside
<1>b. InMap' = InMap /\ Live' = Live
  BY LiveStays DEF ServerOpen, FillPool, StartListen, ClearListen, Inside
<1>u. ~undefined'
  BY <1>a, NobodyAtWork DEF UsedInv, QuietOK, ServerOpen
<1>1. PortOK' /\ QuietOK' /\ FreshOK'
  BY <1>a, <1>b, BoundsAssumption, NamesAssumption DEF TypeOK, UsedInv, PortOK, QuietOK,
     FreshOK, Idle, BlockInv, ListenerOK, ServerOpen, FillPool, StartListen, ClearListen, Inside
<1>l. LiveOK'
  BY <1>a, <1>b, BoundsAssumption, NamesAssumption DEF TypeOK, UsedInv, LiveOK, InMap, Live,
     BlockInv, ListenerOK, ServerOpen, FillPool, StartListen, ClearListen, Inside
<1>2. MapOK'
  BY <1>a, <1>b, BoundsAssumption, NamesAssumption DEF TypeOK, UsedInv, MapOK, HandOK,
     BlockInv, ListenerOK, ServerOpen, FillPool, StartListen, ClearListen, Inside
<1>3. HandOK'
  BY <1>a, <1>b, BoundsAssumption, NamesAssumption DEF TypeOK, UsedInv, HandOK, FreshOK,
     BlockInv, ListenerOK, LockOK, AtWork, Inner, ServerOpen, FillPool, StartListen,
     ClearListen, Inside
<1>4. WorkOK'
  BY <1>a, <1>b, BoundsAssumption, NamesAssumption DEF TypeOK, UsedInv, WorkOK, AtWork,
     BlockInv, ServerOpen, FillPool, StartListen, ClearListen, Inside
<1>5. RecvOK'
  BY <1>a, <1>b, BoundsAssumption, NamesAssumption DEF TypeOK, UsedInv, RecvOK, MapOK,
     ServerOpen, FillPool, StartListen, ClearListen, Inside
<1>6. QED
  BY <1>u, <1>1, <1>l, <1>2, <1>3, <1>4, <1>5 DEF UsedInv

LEMMA ServerCloseUsed ==
  ASSUME TypeOK, BlockInv, ~undefined, InOrder => UsedInv, ServerClose
  PROVE  InOrder' => UsedInv'
<1> USE DEF Goes, Listens, runnerVars, listenVars, blockVars, ioVars, ownerVars
<1> SUFFICES ASSUME InOrder' PROVE UsedInv'
  OBVIOUS
<1>a. InOrder /\ UsedInv
  BY DEF InOrder, ServerClose
<1>b. InMap' = InMap /\ Live' = Live
  BY LiveStays DEF ServerClose
<1>c. m_hCompletionPort = 0
  BY DEF InOrder, ServerClose
<1>1. PortOK' /\ QuietOK' /\ FreshOK'
  BY <1>a, <1>c DEF UsedInv, PortOK, QuietOK, FreshOK, Idle, ServerClose
<1>l. LiveOK'
  BY <1>a, <1>b, BoundsAssumption, NamesAssumption DEF TypeOK, UsedInv, LiveOK, InMap, Live,
     BlockInv, ListenerOK, ServerClose
<1>2. MapOK'
  BY <1>a, <1>b, BoundsAssumption, NamesAssumption DEF TypeOK, UsedInv, MapOK, HandOK,
     BlockInv, ListenerOK, ServerClose
<1>3. HandOK'
  BY <1>a, <1>b, BoundsAssumption, NamesAssumption DEF TypeOK, UsedInv, HandOK, FreshOK,
     BlockInv, ListenerOK, LockOK, AtWork, Inner, ServerClose
<1>4. WorkOK'
  BY <1>a, <1>b, BoundsAssumption, NamesAssumption DEF TypeOK, UsedInv, WorkOK, AtWork,
     BlockInv, ServerClose
<1>5. RecvOK'
  BY <1>a, <1>b, BoundsAssumption, NamesAssumption DEF TypeOK, UsedInv, RecvOK, MapOK,
     ServerClose
<1>6. QED
  BY <1>1, <1>l, <1>2, <1>3, <1>4, <1>5 DEF UsedInv

LEMMA KillListenUsed ==
  ASSUME TypeOK, BlockInv, ~undefined, InOrder => UsedInv, KillListen
  PROVE  InOrder' => UsedInv'
<1> USE DEF Goes, Listens, runnerVars, listenVars, blockVars, ioVars, ownerVars
<1> SUFFICES ASSUME InOrder' PROVE UsedInv'
  OBVIOUS
<1>a. InOrder /\ UsedInv
  BY DEF InOrder, KillListen
<1>b. InMap' = InMap /\ Live' = Live
  BY LiveStays DEF KillListen
<1>1. PortOK' /\ QuietOK' /\ FreshOK'
  <2>1. NoConn <= nConns
    BY DEF TypeOK, NoConn
  <2>2. m_hCompletionPort = 0 /\ Idle
    BY <1>a DEF UsedInv, PortOK, KillListen
  <2>3. QED
    BY <1>a, <2>1, <2>2 DEF UsedInv, PortOK, QuietOK, FreshOK, Idle, KillListen
<1>l. LiveOK'
  BY <1>a, <1>b, BoundsAssumption, NamesAssumption DEF TypeOK, UsedInv, LiveOK, InMap, Live,
     BlockInv, ListenerOK, KillListen
<1>2. MapOK'
  BY <1>a, <1>b, BoundsAssumption, NamesAssumption DEF TypeOK, UsedInv, MapOK, HandOK,
     BlockInv, ListenerOK, KillListen
<1>3. HandOK'
  BY <1>a, <1>b, BoundsAssumption, NamesAssumption DEF TypeOK, UsedInv, HandOK, FreshOK,
     BlockInv, ListenerOK, LockOK, AtWork, Inner, KillListen
<1>4. WorkOK'
  BY <1>a, <1>b, BoundsAssumption, NamesAssumption DEF TypeOK, UsedInv, WorkOK, AtWork,
     BlockInv, KillListen
<1>5. RecvOK'
  BY <1>a, <1>b, BoundsAssumption, NamesAssumption DEF TypeOK, UsedInv, RecvOK, MapOK,
     KillListen
<1>6. QED
  BY <1>1, <1>l, <1>2, <1>3, <1>4, <1>5 DEF UsedInv

LEMMA FreeSessionsUsed ==
  ASSUME TypeOK, BlockInv, ~undefined, UsedInv, FreeSessions
  PROVE  ~undefined' /\ UsedInv'
<1> USE DEF Goes, Listens, runnerVars, listenVars, blockVars, ioVars, ownerVars
<1>b. Idle /\ Live = InMap /\ InMap' = {} /\ Live' = {} /\ m_hCompletionPort = 0 /\ listener = "none"
  BY NobodyWhileWalking, NobodyAtWork DEF BlockInv, ListenerOK, FreeSessions, Walking, InMap,
     Live
<1>u. ~undefined'
  BY <1>b DEF TypeOK, UsedInv, LiveOK, FreeSessions
<1>1. PortOK' /\ QuietOK' /\ FreshOK'
  BY <1>b, BoundsAssumption, NamesAssumption DEF TypeOK, UsedInv, PortOK, QuietOK, FreshOK,
     Idle, BlockInv, ListenerOK, FreeSessions, Walking
<1>l. LiveOK'
  BY <1>b, BoundsAssumption, NamesAssumption DEF TypeOK, UsedInv, LiveOK, InMap, Live,
     BlockInv, ListenerOK, FreeSessions, Walking
<1>2. MapOK'
  BY <1>b, BoundsAssumption, NamesAssumption DEF TypeOK, UsedInv, MapOK, HandOK, BlockInv,
     ListenerOK, FreeSessions, Walking
<1>3. HandOK'
  BY <1>b, BoundsAssumption, NamesAssumption DEF TypeOK, UsedInv, HandOK, FreshOK, BlockInv,
     ListenerOK, LockOK, AtWork, Inner, FreeSessions, Walking
<1>4. WorkOK'
  <2>1. Idle'
    BY <1>b DEF Idle, FreeSessions
  <2>2. QED
    BY <2>1 DEF WorkOK, Idle, AtWork
<1>5. RecvOK'
  BY <1>b, BoundsAssumption, NamesAssumption DEF TypeOK, UsedInv, RecvOK, MapOK, FreeSessions,
     Walking
<1>6. QED
  BY <1>u, <1>1, <1>l, <1>2, <1>3, <1>4, <1>5 DEF UsedInv

----------------------------------------------------------------------------
(* The steps, as far as what there is goes.                                *)

(* A step that leaves map, workers, blocks and open sockets alone, or does *)
(* no more than give one of the workers other work.                        *)
LEMMA AccountStays ==
  ASSUME Account, InMap' = InMap, Erasing' = Erasing,
         \A w \in Workers : worker'[w] \in Inner => worker[w] \in Inner /\ at'[w] = at[w],
         UNCHANGED <<m_mapSocketSession, m_lstFreePool, heap, pSocketSession, hClientSocket, open,
                     m_hListenSocket, listening>>
  PROVE  Account'
BY DEF Account

LEMMA InnerBlock ==
  ASSUME UsedInv, NEW w \in Workers, worker[w] \in Inner
  PROVE  at[w] \in InMap /\ at[w] # NoSession
BY DEF UsedInv, WorkOK, AtWork, Inner, Live, InMap

LEMMA IsStopAccount ==
  ASSUME TypeOK, BlockInv, ~undefined, UsedInv, Account, IsStop
  PROVE  Account'
BY LiveStays, BoundsAssumption DEF TypeOK, BlockInv, ListenerOK, Account, Inner, Goes,
   Listens, runnerVars, listenVars, blockVars, ioVars, ownerVars, IsStop

LEMMA WSAAcceptAccount ==
  ASSUME TypeOK, BlockInv, ~undefined, UsedInv, Account, WSAAccept
  PROVE  Account'
<1> USE DEF Goes, Listens, runnerVars, listenVars, blockVars, ioVars, ownerVars
<1>1. InMap' = InMap /\ Erasing' = Erasing
  BY LiveStays DEF WSAAccept
<1>2. CASE nConns < MaxConns /\ nConns' = nConns + 1 /\ hClientSocket' = nConns' /\ open' = open \cup {nConns'}
  <2>1. nConns' \in Conns /\ nConns' > nConns /\ hClientSocket = NoConn /\ NoConn \notin Conns
    BY <1>2, BoundsAssumption DEF TypeOK, Conns, NoConn, BlockInv, ListenerOK, WSAAccept
  <2>2. m_mapSocketSession[nConns'] = NoSession
    BY <2>1 DEF UsedInv, FreshOK
  <2>3. \A c \in open' : m_mapSocketSession[c] # NoSession \/ c = hClientSocket'
    BY <1>2, <2>1 DEF TypeOK, Account
  <2>4. \A w \in Workers : worker[w] \in Inner => \A c \in Conns : m_mapSocketSession[c] = at[w] => c \notin open'
    BY <1>2, <2>2, InnerBlock DEF Account
  <2>5. QED
    BY <1>1, <2>3, <2>4 DEF Account, WSAAccept
<1>3. CASE UNCHANGED <<nConns, hClientSocket, open>>
  BY <1>1, <1>3, AccountStays DEF WSAAccept
<1>4. QED
  BY <1>2, <1>3 DEF WSAAccept

LEMMA TakeFromPoolAccount ==
  ASSUME TypeOK, BlockInv, ~undefined, UsedInv, Account, TakeFromPool
  PROVE  Account'
BY LiveStays, BoundsAssumption DEF TypeOK, BlockInv, ListenerOK, Account, Inner, Goes,
   Listens, runnerVars, listenVars, blockVars, ioVars, ownerVars, TakeFromPool

LEMMA UnLockTakenAccount ==
  ASSUME TypeOK, BlockInv, ~undefined, UsedInv, Account, UnLockTaken
  PROVE  Account'
BY LiveStays, BoundsAssumption DEF TypeOK, BlockInv, ListenerOK, Account, Inner, Goes,
   Listens, runnerVars, listenVars, blockVars, ioVars, ownerVars, UnLockTaken

LEMMA AllocSessionAccount ==
  ASSUME TypeOK, BlockInv, ~undefined, UsedInv, Account, AllocSession
  PROVE  Account'
BY LiveStays, BoundsAssumption DEF TypeOK, BlockInv, ListenerOK, Account, Inner, Goes,
   Listens, runnerVars, listenVars, blockVars, ioVars, ownerVars, AllocSession

LEMMA AssociateSocketAccount ==
  ASSUME TypeOK, BlockInv, ~undefined, UsedInv, Account, AssociateSocket
  PROVE  Account'
BY LiveStays, BoundsAssumption DEF TypeOK, BlockInv, ListenerOK, Account, Inner, Goes,
   Listens, runnerVars, listenVars, blockVars, ioVars, ownerVars, AssociateSocket

LEMMA InsertSessionAccount ==
  ASSUME TypeOK, BlockInv, ~undefined, UsedInv, Account, InsertSession
  PROVE  Account'
<1> USE DEF Goes, Listens, runnerVars, listenVars, blockVars, ioVars, ownerVars
<1>1. /\ InMap' = InMap \cup {pSocketSession} /\ Erasing' = {} /\ \A w \in Workers : worker[w] \notin Inner
  BY InsertSessionLive
<1>2. pSocketSession # NoSession /\ m_mapSocketSession' = [m_mapSocketSession EXCEPT ![hClientSocket] = pSocketSession]
  BY DEF BlockInv, ListenerOK, InsertSession
<1>3. \A c \in open' : m_mapSocketSession'[c] # NoSession \/ c = hClientSocket'
  BY <1>2 DEF TypeOK, Account, InsertSession
<1>4. QED
  BY <1>1, <1>3 DEF Account, InsertSession

LEMMA FirstRecvAccount ==
  ASSUME TypeOK, BlockInv, ~undefined, UsedInv, Account, FirstRecv
  PROVE  Account'
<1> USE DEF Goes, Listens, runnerVars, listenVars, blockVars, ioVars, ownerVars
<1>1. InMap' = InMap /\ Erasing' = Erasing
  BY LiveStays DEF FirstRecv
<1>2. Erasing = {} /\ \A w \in Workers : worker[w] \notin Inner
  BY NobodyErases DEF BlockInv, LockOK, FirstRecv
<1>3. hClientSocket \in Conns /\ m_mapSocketSession[hClientSocket] = pSocketSession /\ pSocketSession # NoSession
  BY DEF TypeOK, BlockInv, ListenerOK, UsedInv, HandOK, FirstRecv
<1>4. pSocketSession \in InMap
  BY <1>3 DEF InMap
<1>5. QED
  BY <1>1, <1>2, <1>3, <1>4 DEF Account, FirstRecv

LEMMA ClientSendsAccount ==
  ASSUME TypeOK, BlockInv, ~undefined, UsedInv, Account, NEW c \in Conns, ClientSends(c)
  PROVE  Account'
BY LiveStays, BoundsAssumption DEF TypeOK, BlockInv, ListenerOK, Account, Inner, Goes,
   Listens, runnerVars, listenVars, blockVars, ioVars, ownerVars, ClientSends

LEMMA ClientLeavesAccount ==
  ASSUME TypeOK, BlockInv, ~undefined, UsedInv, Account, NEW c \in Conns, ClientLeaves(c)
  PROVE  Account'
BY LiveStays, BoundsAssumption DEF TypeOK, BlockInv, ListenerOK, Account, Inner, Goes,
   Listens, runnerVars, listenVars, blockVars, ioVars, ownerVars, ClientLeaves

LEMMA DequeueAccount ==
  ASSUME TypeOK, BlockInv, ~undefined, UsedInv, Account, NEW w \in Workers, NEW c \in Conns, Dequeue(w, c)
  PROVE  Account'
<1> USE DEF Goes, Listens, runnerVars, listenVars, blockVars, ioVars, ownerVars
<1>1. InMap' = InMap /\ Erasing' = Erasing
  BY DequeueLive
<1>2. \A v \in Workers : worker'[v] \in Inner => worker[v] \in Inner /\ at'[v] = at[v]
  BY DEF TypeOK, Inner, Dequeue
<1>3. QED
  BY <1>1, <1>2, AccountStays DEF Dequeue

LEMMA PostRecvAccount ==
  ASSUME TypeOK, BlockInv, ~undefined, UsedInv, Account, NEW w \in Workers, PostRecv(w)
  PROVE  Account'
<1> USE DEF Goes, Listens, runnerVars, listenVars, blockVars, ioVars, ownerVars
<1>1. InMap' = InMap /\ Erasing' = Erasing
  BY PostRecvLive
<1>2. \A v \in Workers : worker'[v] \in Inner => worker[v] \in Inner /\ at'[v] = at[v]
  <2>1. \E l \in {"find", "wait"} : worker' = [worker EXCEPT ![w] = l]
    BY DEF PostRecv
  <2>2. QED
    BY <2>1 DEF TypeOK, Inner, PostRecv
<1>3. QED
  BY <1>1, <1>2, AccountStays DEF PostRecv

LEMMA DisconnectFindAccount ==
  ASSUME TypeOK, BlockInv, ~undefined, UsedInv, Account, NEW w \in Workers, DisconnectFind(w)
  PROVE  Account'
<1> USE DEF Goes, Listens, runnerVars, listenVars, blockVars, ioVars, ownerVars
<1>1. InMap' = InMap /\ Erasing' = Erasing
  BY DisconnectFindLive
<1>2. at[w] \in Live /\ hSocket[at[w]] \in Conns /\ m_mapSocketSession[hSocket[at[w]]] = at[w] /\ at[w] # NoSession
  BY WorkerBlock, LiveBlock DEF AtWork, DisconnectFind
<1>3. /\ at' = [at EXCEPT ![w] = at[w]] /\ worker' = [worker EXCEPT ![w] = "free"]
      /\ open' = open \ {hSocket[at[w]]} /\ UNCHANGED <<listenVars, blockVars, ownerVars>>
  BY <1>2 DEF DisconnectFind
<1>4. at' = at
  BY <1>3 DEF TypeOK
<1>5. ASSUME NEW v \in Workers, worker'[v] \in Inner, NEW c \in Conns, m_mapSocketSession[c] = at[v]
      PROVE  c \notin open'
  <2>1. CASE v = w
    BY <1>2, <1>3, <1>5, <2>1 DEF UsedInv, MapOK
  <2>2. CASE v # w
    BY <1>3, <1>5, <2>2 DEF TypeOK, Account
  <2>3. QED
    BY <2>1, <2>2
<1>6. QED
  BY <1>1, <1>3, <1>4, <1>5 DEF Account

LEMMA DisconnectFreeAccount ==
  ASSUME TypeOK, BlockInv, ~undefined, UsedInv, Account, NEW w \in Workers, DisconnectFree(w)
  PROVE  Account'
<1> USE DEF Goes, Listens, runnerVars, listenVars, blockVars, ioVars, ownerVars
<1>1. /\ InMap' = InMap /\ Erasing' = Erasing \cup {at[w]} /\ worker' = [worker EXCEPT ![w] = "erase"]
  BY DisconnectFreeLive
<1>2. at[w] \in InMap /\ at[w] # NoSession
  BY InnerBlock DEF Inner, DisconnectFree
<1>3. /\ \/ heap' = heap \ {at[w]} /\ m_lstFreePool' = m_lstFreePool
         \/ m_lstFreePool' = m_lstFreePool \cup {at[w]} /\ heap' = heap
      /\ UNCHANGED <<at, listenVars, m_mapSocketSession, ownerVars, open>>
  BY DEF DisconnectFree
<1>4. \A v \in Workers : worker'[v] \in Inner => worker[v] \in Inner
  BY <1>1 DEF TypeOK, Inner, DisconnectFree
<1>5. heap' \subseteq m_lstFreePool' \cup InMap' \cup {pSocketSession'}
  BY <1>1, <1>3 DEF Account
<1>6. Erasing' \cap heap' \subseteq m_lstFreePool' \cup {pSocketSession'}
  BY <1>1, <1>3 DEF Account
<1>7. QED
  BY <1>3, <1>4, <1>5, <1>6 DEF Account

LEMMA DisconnectEraseAccount ==
  ASSUME TypeOK, BlockInv, ~undefined, UsedInv, Account, NEW w \in Workers, DisconnectErase(w)
  PROVE  Account'
<1> USE DEF Goes, Listens, runnerVars, listenVars, blockVars, ioVars, ownerVars
<1>1. /\ InMap' = InMap \ {at[w]} /\ Erasing = {at[w]} /\ Erasing' = {}
      /\ \A v \in Workers : worker[v] \in Inner => v = w
  BY DisconnectEraseLive
<1>2. /\ worker' = [worker EXCEPT ![w] = "wait"] /\ worker[w] \in Inner
      /\ \A c \in Conns : m_mapSocketSession'[c] = IF m_mapSocketSession[c] = at[w] THEN NoSession
                                                                               ELSE m_mapSocketSession[c]
      /\ UNCHANGED <<at, listenVars, m_lstFreePool, heap, ownerVars, open>>
  BY DEF Inner, DisconnectErase
<1>3. heap \subseteq m_lstFreePool \cup InMap' \cup {pSocketSession}
  BY <1>1 DEF Account
<1>4. \A c \in open : m_mapSocketSession'[c] # NoSession \/ c = hClientSocket
  BY <1>2 DEF TypeOK, Account
<1>5. \A v \in Workers : worker'[v] \notin Inner
  BY <1>1, <1>2 DEF TypeOK, Inner
<1>6. QED
  BY <1>1, <1>2, <1>3, <1>4, <1>5 DEF Account

LEMMA QuitAccount ==
  ASSUME TypeOK, BlockInv, ~undefined, UsedInv, Account, NEW w \in Workers, Quit(w)
  PROVE  Account'
<1> USE DEF Goes, Listens, runnerVars, listenVars, blockVars, ioVars, ownerVars
<1>1. InMap' = InMap /\ Erasing' = Erasing
  BY QuitLive
<1>2. \A v \in Workers : worker'[v] \in Inner => worker[v] \in Inner /\ at'[v] = at[v]
  BY DEF TypeOK, Inner, Quit
<1>3. QED
  BY <1>1, <1>2, AccountStays DEF Quit

LEMMA RunnerCloseAccount ==
  ASSUME TypeOK, BlockInv, ~undefined, UsedInv, Account, RunnerClose
  PROVE  Account'
BY LiveStays, BoundsAssumption DEF TypeOK, BlockInv, ListenerOK, Account, Inner, Goes,
   Listens, runnerVars, listenVars, blockVars, ioVars, ownerVars, RunnerClose, ClosePort

LEMMA RunnerOpenAccount ==
  ASSUME TypeOK, BlockInv, ~undefined, UsedInv, Account, RunnerOpen
  PROVE  Account'
BY LiveStays, BoundsAssumption DEF TypeOK, BlockInv, ListenerOK, Account, Inner, Goes,
   Listens, runnerVars, listenVars, blockVars, ioVars, ownerVars, RunnerOpen, ClosePort

LEMMA KillAccount ==
  ASSUME TypeOK, BlockInv, ~undefined, UsedInv, torn = {} => Account, Kill
  PROVE  torn' = {} => Account'
<1> USE DEF Goes, Listens, runnerVars, listenVars, blockVars, ioVars, ownerVars
<1> SUFFICES ASSUME torn' = {} PROVE Account'
  OBVIOUS
<1>1. torn = {} /\ InOrder'
  BY DEF InOrder, Kill, Clear
<1>2. InMap' = InMap /\ Erasing' = {} /\ \A w \in Workers : worker'[w] \notin Inner
  BY <1>1, KillLive
<1>3. QED
  BY <1>1, <1>2 DEF Account, Kill

LEMMA StartAccount ==
  ASSUME TypeOK, BlockInv, ~undefined, UsedInv, torn = {} => Account, Start
  PROVE  torn' = {} => Account'
<1> USE DEF Goes, Listens, runnerVars, listenVars, blockVars, ioVars, ownerVars
<1> SUFFICES ASSUME torn' = {} PROVE Account'
  OBVIOUS
<1>1. torn = {} /\ InOrder'
  BY DEF InOrder, Start, Clear
<1>2. InMap' = InMap /\ Erasing' = {} /\ \A w \in Workers : worker'[w] \notin Inner
  BY <1>1, StartLive
<1>3. QED
  BY <1>1, <1>2 DEF Account, Start

LEMMA ServerOpenAccount ==
  ASSUME TypeOK, BlockInv, ~undefined, UsedInv, torn = {} => Account, ServerOpen
  PROVE  torn' = {} => Account'
<1> USE DEF Goes, Listens, runnerVars, listenVars, blockVars, ioVars, ownerVars
<1> SUFFICES ASSUME torn' = {} PROVE Account'
  OBVIOUS
<1>1. InMap' = InMap /\ Erasing' = Erasing
  BY LiveStays DEF ServerOpen
<1>2. torn = {} /\ m_hListenSocket \notin listening
  BY DEF ServerOpen
<1>3. listening = {}
  BY <1>2 DEF Account
<1>4. listening' \subseteq {m_hListenSocket'}
  BY <1>3 DEF ServerOpen
<1>5. \/ UNCHANGED <<heap, m_lstFreePool>>
      \/ \E new \in SUBSET (Sessions \ heap) : m_lstFreePool' = m_lstFreePool \cup new /\ heap' = heap \cup new
  BY DEF ServerOpen, FillPool
<1>6. listener = "none" /\ pSocketSession = NoSession
  BY DEF BlockInv, ListenerOK, ServerOpen
<1>7. Erasing = {}
  BY <1>6, NobodyAtWork DEF UsedInv, QuietOK
<1>8. heap' \subseteq m_lstFreePool' \cup InMap \cup {pSocketSession}
  BY <1>2, <1>5 DEF Account
<1>9. UNCHANGED <<runnerVars, hClientSocket, pSocketSession, m_mapSocketSession, open>>
  BY DEF ServerOpen
<1>10. QED
  BY <1>1, <1>2, <1>4, <1>7, <1>8, <1>9 DEF Account

LEMMA ServerCloseAccount ==
  ASSUME TypeOK, BlockInv, ~undefined, UsedInv, torn = {} => Account, ServerClose
  PROVE  torn' = {} => Account'
BY LiveStays, BoundsAssumption DEF TypeOK, BlockInv, ListenerOK, Account, Inner, Goes,
   Listens, runnerVars, listenVars, blockVars, ioVars, ownerVars, ServerClose

LEMMA KillListenAccount ==
  ASSUME TypeOK, BlockInv, ~undefined, UsedInv, torn = {} => Account, KillListen
  PROVE  torn' = {} => Account'
<1> USE DEF Goes, Listens, runnerVars, listenVars, blockVars, ioVars, ownerVars
<1> SUFFICES ASSUME torn' = {} PROVE Account'
  OBVIOUS
<1>1. InMap' = InMap /\ Erasing' = Erasing
  BY LiveStays DEF KillListen
<1>2. torn = {} /\ (hClientSocket = NoConn \/ listener = "inserted")
  BY DEF KillListen
<1>3. Idle /\ Erasing = {} /\ \A w \in Workers : worker[w] \notin Inner
  BY NobodyAtWork DEF UsedInv, PortOK, KillListen
<1>4. NoSession \notin heap /\ NoConn \notin open
  BY BoundsAssumption DEF TypeOK, Conns, NoConn
<1>5. CASE hClientSocket = NoConn
  <2>1. pSocketSession = NoSession
    BY <1>5 DEF BlockInv, ListenerOK
  <2>2. QED
    BY <1>1, <1>2, <1>3, <1>5, <2>1 DEF Account, KillListen
<1>6. CASE listener = "inserted" /\ hClientSocket # NoConn
  <2>1. m_mapSocketSession[hClientSocket] = pSocketSession /\ pSocketSession # NoSession /\ hClientSocket \in Conns
    BY <1>6 DEF TypeOK, BlockInv, ListenerOK, UsedInv, HandOK
  <2>2. pSocketSession \in InMap
    BY <2>1 DEF InMap
  <2>3. QED
    BY <1>1, <1>2, <1>3, <2>1, <2>2 DEF Account, KillListen
<1>7. QED
  BY <1>2, <1>5, <1>6

LEMMA FreeSessionsAccount ==
  ASSUME TypeOK, BlockInv, ~undefined, UsedInv, Account, FreeSessions
  PROVE  Account'
BY BoundsAssumption DEF TypeOK, BlockInv, ListenerOK, Account, Inner, Goes, Listens,
   runnerVars, listenVars, blockVars, ioVars, ownerVars, FreeSessions, Walking

----------------------------------------------------------------------------

LEMMA LifeInit == Init => LifeInv
<1> SUFFICES ASSUME Init PROVE LifeInv
  OBVIOUS
<1> USE DEF RunnerInit
<1>1. TypeOK
  <2>1. 0 \in 0 .. MaxOpens /\ 0 \in -1 .. MaxOpens /\ 0 \in 0 .. MaxConns
    BY BoundsAssumption
  <2>2. /\ key \in [Conns -> [s : Sessions \cup {NoSession}, port : 0 .. MaxOpens]]
        /\ opened \in [runner : 0 .. MaxOpens, server : 0 .. MaxOpens]
    BY <2>1 DEF Init
  <2>3. QED
    BY <2>1, <2>2 DEF Init, TypeOK
<1>2. InMap = {} /\ Live = {} /\ Erasing = {} /\ Idle
  BY DEF Init, InMap, Live, Erasing, Idle
<1>3. BlockInv
  BY <1>2 DEF Init, BlockInv, LockOK, ListenerOK, BlocksOK, FreeOK, ShutOK, CommandOK, Inner,
     NoConn
<1>4. UsedInv
  <2>1. PortOK /\ QuietOK
    BY <1>2 DEF Init, PortOK, QuietOK
  <2>2. FreshOK /\ LiveOK /\ MapOK
    BY <1>2 DEF Init, FreshOK, LiveOK, MapOK, NoConn
  <2>3. HandOK /\ WorkOK /\ RecvOK
    BY <1>2, BoundsAssumption DEF Init, HandOK, WorkOK, RecvOK, AtWork, NoConn
  <2>4. QED
    BY <2>1, <2>2, <2>3 DEF UsedInv
<1>5. Account
  BY <1>2 DEF Init, Account, Inner
<1>6. NothingIsUsedAfterClose
  BY DEF Init, NothingIsUsedAfterClose
<1>7. QED
  BY <1>1, <1>3, <1>4, <1>5, <1>6 DEF LifeInv

(* Every step keeps the types and the blocks in order.                     *)
LEMMA BlocksStep ==
  ASSUME TypeOK, BlockInv, Next
  PROVE  TypeOK' /\ (~undefined' => BlockInv')
<1>1. ~undefined
  BY DEF Next
<1>2. CASE ListenProc
  BY <1>1, <1>2, IsStopBlocks, WSAAcceptBlocks, TakeFromPoolBlocks, UnLockTakenBlocks,
     AllocSessionBlocks,
     AssociateSocketBlocks, InsertSessionBlocks, FirstRecvBlocks DEF ListenProc
<1>3. ASSUME NEW c \in Conns, ClientSends(c) \/ ClientLeaves(c)
      PROVE  TypeOK' /\ (~undefined' => BlockInv')
  BY <1>1, <1>3, ClientSendsBlocks, ClientLeavesBlocks
<1>4. ASSUME NEW w \in Workers, Run(w)
      PROVE  TypeOK' /\ (~undefined' => BlockInv')
  BY <1>1, <1>4, DequeueBlocks, PostRecvBlocks, DisconnectFindBlocks, DisconnectFreeBlocks,
     DisconnectEraseBlocks, QuitBlocks DEF Run
<1>5. CASE Owner
  BY <1>1, <1>5, RunnerCloseBlocks, RunnerOpenBlocks, KillBlocks, StartBlocks, ServerOpenBlocks,
     ServerCloseBlocks, KillListenBlocks, FreeSessionsBlocks DEF Owner
<1>6. QED
  BY <1>2, <1>3, <1>4, <1>5 DEF Next

(* What is torn stays torn, and only these steps tear anything.            *)
LEMMA TornStays ==
  ASSUME Next
  PROVE  torn \subseteq torn'
<1> USE DEF ownerVars
<1>1. CASE ListenProc
  BY <1>1 DEF ListenProc, IsStop, WSAAccept, TakeFromPool, UnLockTaken, AllocSession,
     AssociateSocket, InsertSession,
     FirstRecv
<1>2. ASSUME NEW c \in Conns, ClientSends(c) \/ ClientLeaves(c) PROVE torn \subseteq torn'
  BY <1>2 DEF ClientSends, ClientLeaves
<1>3. ASSUME NEW w \in Workers, Run(w) PROVE torn \subseteq torn'
  BY <1>3 DEF Run, Dequeue, PostRecv, DisconnectFind, DisconnectFree, DisconnectErase, Quit
<1>4. CASE Owner
  BY <1>4 DEF Owner, RunnerClose, RunnerOpen, ClosePort, Kill, Start, Clear, ServerOpen,
     ServerClose, KillListen,
     FreeSessions
<1>5. QED
  BY <1>1, <1>2, <1>3, <1>4 DEF Next

LEMMA UsedStep ==
  ASSUME TypeOK, BlockInv, InOrder => UsedInv, Next, InOrder'
  PROVE  ~undefined' /\ UsedInv'
<1>1. ~undefined /\ UsedInv
  BY TornStays DEF Next, InOrder
<1> USE DEF Goes, Listens
<1>2. CASE ListenProc
  <2>1. ~undefined'
    BY <1>1, <1>2 DEF ListenProc, IsStop, WSAAccept, TakeFromPool, UnLockTaken, AllocSession,
       AssociateSocket,
       InsertSession, FirstRecv
  <2>2. QED
    BY <1>1, <1>2, <2>1, IsStopUsed, WSAAcceptUsed, TakeFromPoolUsed, UnLockTakenUsed,
       AllocSessionUsed,
       AssociateSocketUsed, InsertSessionUsed, FirstRecvUsed DEF ListenProc
<1>3. ASSUME NEW c \in Conns, ClientSends(c) \/ ClientLeaves(c)
      PROVE  ~undefined' /\ UsedInv'
  <2>1. ~undefined'
    BY <1>1, <1>3 DEF ClientSends, ClientLeaves
  <2>2. QED
    BY <1>1, <1>3, <2>1, ClientSendsUsed, ClientLeavesUsed
<1>4. ASSUME NEW w \in Workers, Run(w)
      PROVE  ~undefined' /\ UsedInv'
  <2>1. Quit(w) => ~undefined'
    BY <1>1 DEF Quit
  <2>2. QED
    BY <1>1, <1>4, <2>1, DequeueUsed, PostRecvUsed, DisconnectFindUsed, DisconnectFreeUsed,
       DisconnectEraseUsed, QuitUsed DEF Run
<1>5. CASE Owner
  <2>1. ~ServerOpen /\ ~FreeSessions => ~undefined'
    BY <1>1, <1>5 DEF Owner, RunnerClose, RunnerOpen, ClosePort, Kill, Start, ServerClose,
       KillListen
  <2>2. QED
    BY <1>1, <1>5, <2>1, RunnerCloseUsed, RunnerOpenUsed, KillUsed, StartUsed, ServerOpenUsed,
       ServerCloseUsed, KillListenUsed, FreeSessionsUsed DEF Owner
<1>6. QED
  BY <1>2, <1>3, <1>4, <1>5 DEF Next

LEMMA AccountStep ==
  ASSUME TypeOK, BlockInv, InOrder => UsedInv, torn = {} => Account, Next, torn' = {}
  PROVE  Account'
<1>1. ~undefined /\ UsedInv /\ Account
  BY TornStays DEF Next, InOrder
<1>2. CASE ListenProc
  BY <1>1, <1>2, IsStopAccount, WSAAcceptAccount, TakeFromPoolAccount, UnLockTakenAccount,
     AllocSessionAccount,
     AssociateSocketAccount, InsertSessionAccount, FirstRecvAccount DEF ListenProc
<1>3. ASSUME NEW c \in Conns, ClientSends(c) \/ ClientLeaves(c)
      PROVE  Account'
  BY <1>1, <1>3, ClientSendsAccount, ClientLeavesAccount
<1>4. ASSUME NEW w \in Workers, Run(w)
      PROVE  Account'
  BY <1>1, <1>4, DequeueAccount, PostRecvAccount, DisconnectFindAccount, DisconnectFreeAccount,
     DisconnectEraseAccount, QuitAccount DEF Run
<1>5. CASE Owner
  BY <1>1, <1>5, RunnerCloseAccount, RunnerOpenAccount, KillAccount, StartAccount,
     ServerOpenAccount,
     ServerCloseAccount, KillListenAccount, FreeSessionsAccount DEF Owner
<1>6. QED
  BY <1>2, <1>3, <1>4, <1>5 DEF Next

LEMMA LifeStay ==
  ASSUME LifeInv, UNCHANGED vars
  PROVE  LifeInv'
<1> USE DEF vars, runnerVars, listenVars, blockVars, ioVars, ownerVars
<1>1. TypeOK' /\ NothingIsUsedAfterClose'
  BY DEF LifeInv, TypeOK, NothingIsUsedAfterClose
<1>2. InMap' = InMap /\ Erasing' = Erasing /\ Live' = Live
  BY LiveStays
<1>3. ASSUME ~undefined PROVE BlockInv'
  BY <1>2, <1>3 DEF LifeInv, BlockInv, LockOK, ListenerOK, BlocksOK, FreeOK, ShutOK,
     CommandOK, Holds
<1>4. ASSUME ~undefined, InOrder PROVE UsedInv'
  BY <1>2, <1>4 DEF LifeInv, UsedInv, PortOK, QuietOK, FreshOK, LiveOK, MapOK, HandOK, WorkOK,
     RecvOK, Idle
<1>5. ASSUME ~undefined, torn = {} PROVE Account'
  BY <1>2, <1>5 DEF LifeInv, Account
<1>6. QED
  BY <1>1, <1>3, <1>4, <1>5 DEF LifeInv, InOrder

LEMMA LifeStep == LifeInv /\ [Next]_vars => LifeInv'
<1> SUFFICES ASSUME LifeInv, [Next]_vars PROVE LifeInv'
  OBVIOUS
<1>1. CASE UNCHANGED vars
  BY <1>1, LifeStay
<1>2. CASE Next
  <2>1. TypeOK /\ BlockInv /\ (InOrder => UsedInv) /\ (torn = {} => Account)
    BY <1>2 DEF LifeInv, Next
  <2>2. TypeOK' /\ (~undefined' => BlockInv')
    BY <1>2, <2>1, BlocksStep
  <2>3. InOrder' => ~undefined' /\ UsedInv'
    BY <1>2, <2>1, UsedStep
  <2>4. torn' = {} => Account'
    BY <1>2, <2>1, AccountStep
  <2>5. NothingIsUsedAfterClose'
    BY <2>3 DEF NothingIsUsedAfterClose, InOrder
  <2>6. QED
    BY <2>2, <2>3, <2>4, <2>5 DEF LifeInv
<1>3. QED
  BY <1>1, <1>2

LEMMA LifeAlways == Spec => []LifeInv
BY LifeInit, LifeStep, PTL DEF Spec

LEMMA LeavesNothing ==
  ASSUME LifeInv
  PROVE  NothingIsLeft
<1> SUFFICES ASSUME owner = "idle", m_hListenSocket = 0, ~undefined, torn = {}
             PROVE  heap = {} /\ open = {} /\ listening = {}
  BY DEF NothingIsLeft
<1>1. TypeOK /\ BlockInv /\ Account
  BY DEF LifeInv
<1>2. InMap = {} /\ m_lstFreePool = {} /\ listener = "none"
  BY <1>1 DEF BlockInv, ShutOK
<1>3. pSocketSession = NoSession /\ hClientSocket = NoConn
  BY <1>1, <1>2 DEF BlockInv, ListenerOK
<1>4. heap = {}
  BY <1>1, <1>2, <1>3, BoundsAssumption DEF Account, TypeOK
<1>5. open = {}
  <2>1. \A c \in Conns : m_mapSocketSession[c] = NoSession /\ c # NoConn
    BY <1>2 DEF InMap, Conns, NoConn
  <2>2. QED
    BY <1>1, <1>3, <2>1 DEF Account, TypeOK
<1>6. listening = {}
  BY <1>1 DEF Account, TypeOK
<1>7. QED
  BY <1>4, <1>5, <1>6

(* The blocks of the free pool are allocated ones, through every Open and  *)
(* Close, and what is recorded of threads, sockets and blocks has its type *)
(* (TcpServer.cpp:185-194, 306-323, 355-383).                              *)
THEOREM TypeCorrect == Spec => []TypeOK
<1>1. LifeInv => TypeOK
  BY DEF LifeInv
<1>2. QED
  BY <1>1, LifeAlways, PTL

(* CTcpRunner::Close kills its workers, CTcpServer::Close the listen       *)
(* thread, and the session blocks are freed without the lock.  However     *)
(* that falls in with what the threads do, no block is used after it is    *)
(* freed as long as the runner is closed first and no worker was killed    *)
(* inside Disconnect; and a closed server has left nothing allocated or    *)
(* open unless the listen thread was killed with a connection in hand      *)
(* (TcpRunner.cpp:27-71, TcpServer.cpp:343-434).                           *)
THEOREM CloseIsCleanCorrect == Spec => []CloseIsClean
<1>1. LifeInv => CloseIsClean
  BY LeavesNothing DEF LifeInv, CloseIsClean
<1>2. QED
  BY <1>1, LifeAlways, PTL
=============================================================================
