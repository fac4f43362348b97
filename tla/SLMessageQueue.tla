--------------------------- MODULE SLMessageQueue ---------------------------
(***************************************************************************)
(* CSLMessageQueue with its node pool and the byte buffers of its nodes.   *)
(* Enqueue, Dequeue and Clear hold m_lock from beginning to end, so each   *)
(* is one step.  Init takes no lock, and the pool's own is a CNullMutex:   *)
(* the model has it in one step, too, and so only where no other operation *)
(* runs at the same time.  Nodes and blocks of the heap have addresses: a  *)
(* node that has been used keeps its next pointer and its buffer's         *)
(* pointer, and which address the heap gives out decides whether that      *)
(* matters.                                                                *)
(*                                                                         *)
(* The model stops at the first step after which the structures no longer  *)
(* are a queue (`broken'); see the definitions of the three there are.     *)
(***************************************************************************)
EXTENDS Integers, FiniteSets, SequencesExt

CONSTANTS
  Addrs,        \* the heap's blocks for message bytes
  Null,
  Readers,      \* the threads that take messages, each into a node of its own
  Sizes,        \* the sizes of messages
  Limits,       \* the values of nQueueMaxSize
  DefaultPool,  \* the pool's limit before Init is called
  MaxNodes,     \* bound: nodes the heap has room for
  MaxMsgs,      \* bound: messages posted
  MaxInits      \* bound: calls of Init

Nodes == 1 .. MaxNodes

ASSUME AddrsAssumption == Null \notin Addrs
ASSUME BoundsAssumption ==
  /\ Sizes \subseteq Nat /\ Limits \subseteq Nat /\ DefaultPool \in Nat
  /\ MaxNodes \in Nat /\ MaxMsgs \in Nat /\ MaxInits \in Nat

VARIABLES
  m_pHead, m_pTail,      \* nodes, or 0
  m_nSize, m_nMaxSize,
  m_lstFreeObj,          \* m_nodePool: the free nodes, oldest first
  m_nMaxCount, m_nGrowCount,
  nodes,                 \* the nodes that are allocated
  next,                  \* their fields: the next node, or 0,
  attachID,              \* the number of the message,
  msg,                   \* and the buffer
  oNode,                 \* the buffer and attachID of each reader's node
  mem,                   \* the blocks that are allocated, and whose bytes they hold
  nMsgs, nInits,         \* messages posted, calls of Init
  used, broken          \* history: a message left the queue; the queue is one no more

queueVars == <<m_pHead, m_pTail, m_nSize, m_nMaxSize>>
poolVars  == <<m_lstFreeObj, m_nMaxCount, m_nGrowCount>>
nodeVars  == <<nodes, next, attachID, msg>>
bounds    == <<nMsgs, nInits>>
vars == <<queueVars, poolVars, nodeVars, oNode, mem, bounds, used, broken>>

----------------------------------------------------------------------------
(* slext/ByteBuffer.h.                                                     *)

EmptyBuffer == [szData |-> Null, m_nSize |-> 0, m_nCapacity |-> 0, m_bOwner |-> TRUE]

Owns(b)     == b.m_bOwner /\ b.szData # Null
Allocated   == DOMAIN mem
FreeBlocks  == Addrs \ Allocated
Without(S)  == [a \in Allocated \ S |-> mem[a]]
With(f, a, bytes) == [x \in DOMAIN f \cup {a} |-> IF x = a THEN bytes ELSE f[x]]

(* data(szData, nSize, true): the bytes are copied, into the buffer's own  *)
(* block where they fit, else into a new one, `a'.                         *)
CopyFits(b, n) == b.m_bOwner /\ b.m_nCapacity >= n

CopyBlocks(b, n) ==
  IF CopyFits(b, n) THEN {b.szData}
  ELSE FreeBlocks \cup IF Owns(b) THEN {b.szData} ELSE {}

(* Variant: the new block's size is added to the capacity.                 *)
CopiedAddsCapacity(b, n, a) ==
  [szData |-> a, m_nSize |-> n, m_bOwner |-> TRUE,
   m_nCapacity |-> IF CopyFits(b, n) THEN b.m_nCapacity ELSE b.m_nCapacity + n]

Copied(b, n, a) ==
  [szData |-> a, m_nSize |-> n, m_bOwner |-> TRUE,
   m_nCapacity |-> IF CopyFits(b, n) THEN b.m_nCapacity ELSE n]

CopyMem(b, a, bytes) == With(Without(IF Owns(b) THEN {b.szData} ELSE {}), a, bytes)

(* data(szData, nSize, false), owner(true): the block changes hands.       *)
HandedOver(b, from) ==
  IF from.m_nSize = 0 \/ from.szData = b.szData
    THEN [b EXCEPT !.m_bOwner = TRUE]
    ELSE [szData |-> from.szData, m_nSize |-> from.m_nSize,
          m_nCapacity |-> from.m_nSize, m_bOwner |-> TRUE]

----------------------------------------------------------------------------
(* slext/SmallObjectPool.h: CSmallObjectPool, with a mutex that does       *)
(* nothing.  Which node the heap gives out does not matter.                *)

NewNodes(n, free) == {p \in free : Cardinality({q \in free : q < p}) < n}

(* The blocks that the nodes of S own.                                     *)
BlocksOf(S) == {msg[p].szData : p \in {p \in S : Owns(msg[p])}}

Fresh(S) ==
  /\ next' = [p \in Nodes |-> IF p \in S THEN 0 ELSE next[p]]
  /\ attachID' = [p \in Nodes |-> IF p \in S THEN 0 ELSE attachID[p]]
  /\ msg' = [p \in Nodes |-> IF p \in S THEN EmptyBuffer ELSE msg[p]]

(* Init, which takes no lock, while nothing else runs on the queue: the    *)
(* nodes in the pool are deleted and others allocated; what is in the      *)
(* queue stays there.                                                      *)
Init_(nQueueMaxSize) ==
  /\ ~broken /\ nInits < MaxInits
  /\ LET freed == ToSet(m_lstFreeObj)
         free == (Nodes \ nodes) \cup freed
         new == NewNodes(nQueueMaxSize, free)
     IN /\ Cardinality(free) >= nQueueMaxSize
        /\ m_lstFreeObj' = SetToSeq(new)
        /\ nodes' = (nodes \ freed) \cup new
        /\ Fresh(freed \cup new)
        /\ mem' = Without(BlocksOf(freed))
  /\ m_nMaxSize' = nQueueMaxSize
  /\ m_nMaxCount' = nQueueMaxSize /\ m_nGrowCount' = 4
  /\ nInits' = nInits + 1
  /\ UNCHANGED <<m_pHead, m_pTail, m_nSize, oNode, nMsgs, used, broken>>

(* pop: the node, the pool without it and the nodes that were allocated.   *)
Pop ==
  IF m_lstFreeObj # <<>>
    THEN [p |-> Head(m_lstFreeObj), rest |-> Tail(m_lstFreeObj), new |-> {}]
    ELSE LET S == NewNodes(1 + m_nGrowCount, Nodes \ nodes)
         IN [p |-> Head(SetToSeq(S)), rest |-> Tail(SetToSeq(S)), new |-> S]

CanPop == m_lstFreeObj # <<>> \/ Cardinality(Nodes \ nodes) >= 1 + m_nGrowCount

(* push of the nodes of s, one after the other: how many the pool takes.   *)
Kept(s) ==
  LET room == m_nMaxCount - Len(m_lstFreeObj)
  IN IF room <= 0 THEN 0 ELSE IF room < Len(s) THEN room ELSE Len(s)

Push(s) ==
  LET n == Kept(s)
      deleted == ToSet(SubSeq(s, n + 1, Len(s)))
  IN /\ m_lstFreeObj' = m_lstFreeObj \o SubSeq(s, 1, n)
     /\ nodes' = nodes \ deleted

Deleted(s) == ToSet(SubSeq(s, Kept(s) + 1, Len(s)))

----------------------------------------------------------------------------
(* The nodes from h on, n of them; and those from m_pHead on, as far as    *)
(* there are messages.                                                     *)
ChainFrom(h, n, nx) ==
  LET at[i \in 1 .. n] == IF i = 1 THEN h ELSE IF at[i - 1] = 0 THEN 0 ELSE nx[at[i - 1]]
  IN [i \in 1 .. n |-> at[i]]

Chain == ChainFrom(m_pHead, m_nSize, next)

(* Variant: a full queue is not recognised.                                *)
IsFullOffByOne == m_nMaxSize > 0 /\ m_nSize > m_nMaxSize

IsFull == m_nMaxSize > 0 /\ m_nSize >= m_nMaxSize

(* Variant: the node that was the tail does not get its successor.         *)
LinkForgotten(p, nx) == nx

Link(p, nx) == IF m_pTail # 0 THEN [nx EXCEPT ![m_pTail] = p] ELSE nx

(* The message lies at `src': in memory that is not the heap's (Null), in  *)
(* a block of the poster's, or in the buffer of a reader that posts again  *)
(* what it was given.                                                      *)
Sources == {Null} \cup FreeBlocks \cup {oNode[r].msg.szData : r \in Readers}

BytesAt(src) == IF src \in Allocated THEN mem[src] ELSE nMsgs + 1

(* Nothing is copied when there are no bytes, or when they seem to be in   *)
(* the buffer already.  The node then shows what it showed last: the queue *)
(* is broken.                                                              *)
Enqueue(n, src) ==
  /\ ~broken /\ nMsgs < MaxMsgs
  /\ ~IsFull /\ CanPop
  /\ src \in Allocated => \E r \in Readers : oNode[r].msg.szData = src /\ oNode[r].msg.m_nSize = n
  /\ LET pop == Pop
         p == pop.p
         old == IF p \in pop.new THEN EmptyBuffer ELSE msg[p]
         nothing == n = 0 \/ (src # Null /\ src = old.szData)
     IN /\ \/ /\ nothing
              /\ broken' = TRUE
              /\ msg' = [q \in Nodes |-> IF q \in pop.new THEN EmptyBuffer ELSE msg[q]]
              /\ UNCHANGED mem
           \/ /\ ~nothing
              /\ \E a \in CopyBlocks(old, n) \ ({src} \ Allocated) :
                   /\ msg' = [q \in Nodes |-> IF q = p THEN Copied(old, n, a)
                                              ELSE IF q \in pop.new THEN EmptyBuffer ELSE msg[q]]
                   /\ mem' = CopyMem(old, a, BytesAt(src))
              /\ UNCHANGED broken
        /\ m_lstFreeObj' = pop.rest
        /\ nodes' = nodes \cup pop.new
        /\ next' = Link(p, [q \in Nodes |-> IF q \in pop.new THEN 0 ELSE next[q]])
        /\ attachID' = [attachID EXCEPT ![p] = nMsgs + 1]
        /\ m_pHead' = IF m_pTail # 0 THEN m_pHead ELSE p
        /\ m_pTail' = p
  /\ m_nSize' = m_nSize + 1
  /\ nMsgs' = nMsgs + 1
  /\ UNCHANGED <<m_nMaxSize, m_nMaxCount, m_nGrowCount, oNode, nInits, used>>

(* Variant: the pool's node still owns the block.                          *)
DequeueKeepsOwner(r) ==
  /\ ~broken /\ m_pHead # 0
  /\ oNode' = [oNode EXCEPT ![r] = [attachID |-> attachID[m_pHead],
                                    msg |-> HandedOver(oNode[r].msg, msg[m_pHead])]]
  /\ mem' = Without(IF Owns(oNode[r].msg) /\ oNode'[r].msg.szData # oNode[r].msg.szData
                      THEN {oNode[r].msg.szData} ELSE {})
  /\ Push(<<m_pHead>>)
  /\ m_pHead' = IF m_nSize = 1 THEN 0 ELSE next[m_pHead]
  /\ m_pTail' = IF m_nSize = 1 THEN 0 ELSE m_pTail
  /\ m_nSize' = m_nSize - 1
  /\ used' = TRUE
  /\ UNCHANGED <<m_nMaxSize, m_nMaxCount, m_nGrowCount, next, attachID, msg, bounds, broken>>

Dequeue(r) ==
  /\ ~broken /\ m_pHead # 0
  /\ oNode' = [oNode EXCEPT ![r] = [attachID |-> attachID[m_pHead],
                                    msg |-> HandedOver(oNode[r].msg, msg[m_pHead])]]
  /\ mem' = Without(IF Owns(oNode[r].msg) /\ oNode'[r].msg.szData # oNode[r].msg.szData
                      THEN {oNode[r].msg.szData} ELSE {})
  /\ msg' = [msg EXCEPT ![m_pHead].m_bOwner = FALSE]
  /\ Push(<<m_pHead>>)
  /\ m_pHead' = IF m_nSize = 1 THEN 0 ELSE next[m_pHead]
  /\ m_pTail' = IF m_nSize = 1 THEN 0 ELSE m_pTail
  /\ m_nSize' = m_nSize - 1
  /\ used' = TRUE
  /\ UNCHANGED <<m_nMaxSize, m_nMaxCount, m_nGrowCount, next, attachID, bounds, broken>>

(* A reader's node is destroyed with its thread; another thread begins.    *)
ReaderEnds(r) ==
  /\ ~broken /\ oNode[r].msg.szData # Null
  /\ mem' = Without({oNode[r].msg.szData})
  /\ oNode' = [oNode EXCEPT ![r] = [attachID |-> 0, msg |-> EmptyBuffer]]
  /\ UNCHANGED <<queueVars, poolVars, nodeVars, bounds, used, broken>>

(* Clear follows the next pointers until one is NULL, which the tail's is  *)
(* not when the node was linked in an earlier use: it then walks through   *)
(* nodes of the pool and pushes them a second time.                        *)
Clear ==
  /\ ~broken /\ m_pHead # 0
  /\ \/ /\ next[m_pTail] # 0
        /\ broken' = TRUE
        /\ UNCHANGED <<queueVars, poolVars, nodeVars, mem>>
     \/ /\ next[m_pTail] = 0
        /\ Push(Chain)
        /\ mem' = Without(BlocksOf(Deleted(Chain)))
        /\ m_pHead' = 0 /\ m_pTail' = 0 /\ m_nSize' = 0
        /\ UNCHANGED <<m_nMaxSize, m_nMaxCount, m_nGrowCount, next, attachID, msg, broken>>
  /\ used' = TRUE
  /\ UNCHANGED <<oNode, bounds>>

----------------------------------------------------------------------------

Init ==
  /\ m_pHead = 0 /\ m_pTail = 0 /\ m_nSize = 0 /\ m_nMaxSize = 0
  /\ m_lstFreeObj = <<>> /\ m_nMaxCount = DefaultPool /\ m_nGrowCount = 1
  /\ nodes = {} /\ next = [p \in Nodes |-> 0] /\ attachID = [p \in Nodes |-> 0]
  /\ msg = [p \in Nodes |-> EmptyBuffer]
  /\ oNode = [r \in Readers |-> [attachID |-> 0, msg |-> EmptyBuffer]]
  /\ mem = <<>>
  /\ nMsgs = 0 /\ nInits = 0 /\ used = FALSE /\ broken = FALSE

Next ==
  \/ \E n \in Limits : Init_(n)
  \/ \E n \in Sizes, src \in Sources : Enqueue(n, src)
  \/ \E r \in Readers : Dequeue(r) \/ ReaderEnds(r)
  \/ Clear

Spec == Init /\ [][Next]_vars

----------------------------------------------------------------------------

Buffers == [szData : Addrs \cup {Null}, m_nSize : Sizes \cup {0},
            m_nCapacity : Sizes \cup {0}, m_bOwner : BOOLEAN]

TypeOK ==
  /\ m_pHead \in Nodes \cup {0} /\ m_pTail \in Nodes \cup {0}
  /\ m_nSize \in 0 .. MaxMsgs /\ m_nMaxSize \in Limits \cup {0}
  /\ m_lstFreeObj \in Seq(Nodes) /\ m_nMaxCount \in Limits \cup {DefaultPool} /\ m_nGrowCount \in {1, 4}
  /\ nodes \subseteq Nodes
  /\ next \in [Nodes -> Nodes \cup {0}] /\ attachID \in [Nodes -> 0 .. MaxMsgs]
  /\ msg \in [Nodes -> Buffers]
  /\ oNode \in [Readers -> [attachID : 0 .. MaxMsgs, msg : Buffers]]
  /\ Allocated \subseteq Addrs /\ \A a \in Allocated : mem[a] \in 1 .. MaxMsgs
  /\ nMsgs \in 0 .. MaxMsgs /\ nInits \in 0 .. MaxInits
  /\ used \in BOOLEAN /\ broken \in BOOLEAN

(* Every node that is allocated is in the queue or in the pool, once.      *)
NodeInOnePlace ==
  ~broken =>
    /\ IsInjective(Chain \o m_lstFreeObj)
    /\ ToSet(Chain \o m_lstFreeObj) = nodes
    /\ m_nSize > 0 => m_pTail = Chain[m_nSize]

(* Every block that is allocated has one owner: a node in the queue, a     *)
(* node that was cleared, or a reader; none that is owned is free.         *)
Owners(a) ==
  {<<"node", p>> : p \in {p \in nodes : Owns(msg[p]) /\ msg[p].szData = a}}
  \cup {<<"reader", r>> : r \in {r \in Readers : Owns(oNode[r].msg) /\ oNode[r].msg.szData = a}}

BlockHasOneOwner ==
  ~broken => \A a \in Addrs : Cardinality(Owners(a)) = IF a \in Allocated THEN 1 ELSE 0

(* The queue implements BoundedQueue: what its nodes and their buffers     *)
(* hold, from m_pHead on, is the queue of the messages accepted.           *)
Message(id, b) ==
  IF id = 0 THEN <<>>
  ELSE [id |-> id, n |-> b.m_nSize,
        bytes |-> IF b.szData \in Allocated THEN mem[b.szData] ELSE 0]

MessageIn(p) == IF p = 0 THEN <<>> ELSE Message(attachID[p], msg[p])

Abstract == INSTANCE BoundedQueue WITH
  Messages <- {m \in [id : 1 .. MaxMsgs, n : Sizes \ {0}, bytes : 1 .. MaxMsgs] : m.bytes <= m.id},
  Limits   <- Limits \cup {0},
  queue    <- [i \in 1 .. m_nSize |-> MessageIn(Chain[i])],
  limit    <- m_nMaxSize,
  got      <- [r \in Readers |-> Message(oNode[r].attachID, oNode[r].msg)]

ImplementsQueue == Abstract!Spec
=============================================================================
