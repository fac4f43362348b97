-------------------------- MODULE SendPool_proofs --------------------------
(***************************************************************************)
(* Proofs, for every number of senders, of workers and of send objects, of *)
(* the invariants of SendPool.                                             *)
(***************************************************************************)
EXTENDS SendPool, FiniteSetTheorems, WellFoundedInduction, TLAPS

----------------------------------------------------------------------------
(* Where the send objects are: in the pool, in the hands of a sender, with *)
(* the system, in the hands of a worker, or lost; every one that is        *)
(* allocated is in one of these places, and no two hands hold the same.    *)

Calling == [s \in Senders |-> send[s].obj]

Pooled  == {m_objFreeList[i] : i \in DOMAIN m_objFreeList}
Sending == {Calling[s] : s \in Senders} \ {NoObject}
Out     == {o \in Objects : posted[o] # <<>>}
Working == {worker[w] : w \in Workers} \ {NoObject}

Split(D, P, S, O, W, L) ==
  /\ D = P \cup S \cup O \cup W \cup L
  /\ P \cap S = {} /\ P \cap O = {} /\ P \cap W = {} /\ P \cap L = {}
  /\ S \cap O = {} /\ S \cap W = {} /\ S \cap L = {}
  /\ O \cap W = {} /\ O \cap L = {} /\ W \cap L = {}

Hands ==
  /\ \A i, j \in DOMAIN m_objFreeList : m_objFreeList[i] = m_objFreeList[j] => i = j
  /\ \A s, t \in Senders : Calling[s] = Calling[t] /\ Calling[s] # NoObject => s = t
  /\ \A w, v \in Workers : worker[w] = worker[v] /\ worker[w] # NoObject => w = v
OnePlace == Split(DOMAIN heap, Pooled, Sending, Out, Working, lost) /\ Hands

(* A sender that holds an object has something to send, and the object's   *)
(* own buffer, where it is to be used, has room for it.                    *)
SenderOK(s) ==
  /\ send[s].obj # NoObject <=> send[s].pc = "post"
  /\ send[s].pc # "idle" => send[s].left > 0 /\ send[s].seg > 0
  /\ send[s].pc = "post" /\ send[s].buffer => heap[send[s].obj].nLen >= PacketSize(s)
SendersOK == \A s \in Senders : SenderOK(s)
PacketOK == \A o \in Objects : packet[o] # "none" => posted[o] # <<>>

(* As long as everything is copied, a buffer that has a size leads to its  *)
(* own memory, and what is outstanding is what its sender copied there.    *)
OwnBytes(o) ==
  heap[o].szBuffer = "own" /\ heap[o].own = posted[o][1] /\ heap[o].nLen >= posted[o][2]
BytesOK ==
  ~unbuffered => /\ \A o \in DOMAIN heap : heap[o].nLen > 0 => heap[o].szBuffer = "own"
                 /\ \A o \in Out : OwnBytes(o)

PoolInv == TypeOK /\ OnePlace /\ SendersOK /\ PacketOK /\ BytesOK

(* The fields of a call.                                                   *)
Calls == [pc : {"idle", "loop", "post"}, left : Nat, seg : Lens \cup {0, SegmentSize},
          block : BOOLEAN, buffer : BOOLEAN, obj : Objects \cup {NoObject}]

----------------------------------------------------------------------------
(* Lists and hands.                                                        *)

(* A list loses its head, which is then in it no more, or gains an object  *)
(* that was not in it.                                                     *)
LEMMA TakeHead ==
  ASSUME NEW S, NEW q \in Seq(S), q # <<>>,
         \A i, j \in DOMAIN q : q[i] = q[j] => i = j
  PROVE  /\ Head(q) \in S /\ Tail(q) \in Seq(S) /\ Len(Tail(q)) <= Len(q)
         /\ \A i, j \in DOMAIN Tail(q) : Tail(q)[i] = Tail(q)[j] => i = j
         /\ {q[i] : i \in DOMAIN q} = {Head(q)} \cup {Tail(q)[i] : i \in DOMAIN Tail(q)}
         /\ Head(q) \notin {Tail(q)[i] : i \in DOMAIN Tail(q)}
<1> DEFINE n == Len(q)
           r == Tail(q)
<1>1. n \in Nat \ {0} /\ DOMAIN q = 1 .. n /\ Head(q) = q[1] /\ Head(q) \in S
  OBVIOUS
<1>2. /\ r \in Seq(S) /\ Len(r) = n - 1 /\ DOMAIN r = 1 .. n - 1
      /\ \A i \in 1 .. n - 1 : r[i] = q[i + 1]
  OBVIOUS
<1> HIDE DEF n, r
<1>3. \A i \in 1 .. n - 1 : i + 1 \in 1 .. n /\ i + 1 # 1
  BY <1>1
<1>4. 1 \in 1 .. n /\ \A i \in 1 .. n : i # 1 => i - 1 \in 1 .. n - 1 /\ (i - 1) + 1 = i
  BY <1>1
<1>5. \A i, j \in 1 .. n - 1 : r[i] = r[j] => i = j
  <2> SUFFICES ASSUME NEW i \in 1 .. n - 1, NEW j \in 1 .. n - 1, r[i] = r[j] PROVE i = j
    OBVIOUS
  <2>1. i + 1 \in DOMAIN q /\ j + 1 \in DOMAIN q
    BY <1>1, <1>3
  <2>2. q[i + 1] = q[j + 1]
    BY <1>2
  <2>3. i + 1 = j + 1
    BY <2>1, <2>2
  <2>4. QED
    BY <1>1, <2>3
<1>6. {q[i] : i \in 1 .. n} \subseteq {q[1]} \cup {r[i] : i \in 1 .. n - 1}
  <2>1. \A i \in 1 .. n : i # 1 => q[i] = r[i - 1]
    BY <1>2, <1>4
  <2>2. QED
    BY <1>4, <2>1
<1>7. {q[1]} \cup {r[i] : i \in 1 .. n - 1} \subseteq {q[i] : i \in 1 .. n}
  <2>1. \A i \in 1 .. n - 1 : r[i] \in {q[k] : k \in 1 .. n}
    BY <1>2, <1>3
  <2>2. QED
    BY <1>4, <2>1
<1>8. q[1] \notin {r[i] : i \in 1 .. n - 1}
  BY <1>1, <1>2, <1>3, <1>4
<1>9. Len(r) <= n
  BY <1>1, <1>2
<1>10. QED
  BY <1>1, <1>2, <1>5, <1>6, <1>7, <1>8, <1>9 DEF r, n

LEMMA AddLast ==
  ASSUME NEW S, NEW q \in Seq(S), NEW s \in S,
         \A i, j \in DOMAIN q : q[i] = q[j] => i = j, s \notin {q[i] : i \in DOMAIN q}
  PROVE  /\ Append(q, s) \in Seq(S) /\ Len(Append(q, s)) = Len(q) + 1
         /\ \A i, j \in DOMAIN Append(q, s) : Append(q, s)[i] = Append(q, s)[j] => i = j
         /\ {Append(q, s)[i] : i \in DOMAIN Append(q, s)} = {q[i] : i \in DOMAIN q} \cup {s}
<1> DEFINE n == Len(q)
           r == Append(q, s)
<1>1. n \in Nat /\ DOMAIN q = 1 .. n
  OBVIOUS
<1>2. r \in Seq(S) /\ Len(r) = n + 1 /\ DOMAIN r = 1 .. n + 1 /\ r[n + 1] = s /\ \A i \in 1 .. n : r[i] = q[i]
  OBVIOUS
<1> HIDE DEF n, r
<1>3. 1 .. n + 1 = (1 .. n) \cup {n + 1}
  BY <1>1
<1>4. \A i, j \in 1 .. n + 1 : r[i] = r[j] => i = j
  BY <1>1, <1>2, <1>3
<1>5. {r[i] : i \in 1 .. n + 1} = {q[i] : i \in 1 .. n} \cup {s}
  BY <1>1, <1>2, <1>3
<1>6. QED
  BY <1>1, <1>2, <1>4, <1>5 DEF r, n

(* A hand that was empty takes an object nobody has, or gives up what it   *)
(* has.                                                                    *)
LEMMA HandTakes ==
  ASSUME NEW I, NEW f, NEW g, NEW i \in I, NEW none, NEW v,
         \A j, k \in I : f[j] = f[k] /\ f[j] # none => j = k,
         f[i] = none, v # none, v \notin {f[j] : j \in I} \ {none},
         g[i] = v, \A j \in I : j # i => g[j] = f[j]
  PROVE  /\ \A j, k \in I : g[j] = g[k] /\ g[j] # none => j = k
         /\ {g[j] : j \in I} \ {none} = ({f[j] : j \in I} \ {none}) \cup {v}
<1>1. \A j, k \in I : g[j] = g[k] /\ g[j] # none => j = k
  OBVIOUS
<1>2. ({f[j] : j \in I} \ {none}) \cup {v} \subseteq {g[j] : j \in I} \ {none}
  <2> SUFFICES ASSUME NEW x \in ({f[j] : j \in I} \ {none}) \cup {v} PROVE x \in {g[j] : j \in I} \ {none}
    OBVIOUS
  <2>1. CASE x = v
    BY <2>1
  <2>2. ASSUME NEW j \in I, x = f[j], x # none PROVE x \in {g[k] : k \in I} \ {none}
    BY <2>2
  <2>3. QED
    BY <2>1, <2>2
<1>3. {g[j] : j \in I} \ {none} \subseteq ({f[j] : j \in I} \ {none}) \cup {v}
  OBVIOUS
<1>4. QED
  BY <1>1, <1>2, <1>3

LEMMA HandGives ==
  ASSUME NEW I, NEW f, NEW g, NEW i \in I, NEW none,
         \A j, k \in I : f[j] = f[k] /\ f[j] # none => j = k,
         f[i] # none, g[i] = none, \A j \in I : j # i => g[j] = f[j]
  PROVE  /\ \A j, k \in I : g[j] = g[k] /\ g[j] # none => j = k
         /\ {g[j] : j \in I} \ {none} = ({f[j] : j \in I} \ {none}) \ {f[i]}
<1>1. \A j, k \in I : g[j] = g[k] /\ g[j] # none => j = k
  OBVIOUS
<1>2. ({f[j] : j \in I} \ {none}) \ {f[i]} \subseteq {g[j] : j \in I} \ {none}
  <2> SUFFICES ASSUME NEW j \in I, f[j] # none, f[j] # f[i] PROVE f[j] \in {g[k] : k \in I} \ {none}
    OBVIOUS
  <2>1. g[j] = f[j]
    OBVIOUS
  <2>2. QED
    BY <2>1
<1>3. {g[j] : j \in I} \ {none} \subseteq ({f[j] : j \in I} \ {none}) \ {f[i]}
  OBVIOUS
<1>4. QED
  BY <1>1, <1>2, <1>3

(* The heap has room for a new object, which is none of its objects.       *)
LEMMA Least ==
  ASSUME NEW T, T \subseteq Nat, T # {}
  PROVE  \E x \in T : \A y \in T : x <= y
<1> DEFINE R == OpToRel(<, Nat)
<1>1. IsWellFoundedOn(R, Nat)
  BY NatLessThanWellFounded
<1>2. PICK x \in T : \A y \in T : ~ (<<y, x>> \in R)
  <2> HIDE DEF R
  <2> QED
    BY <1>1, WFMin
<1>3. \A y \in T : ~ (y < x)
  BY <1>2 DEF OpToRel
<1>4. QED
  BY <1>3

LEMMA NewObjectIsNew ==
  ASSUME DOMAIN heap \subseteq Objects, DOMAIN heap # Objects
  PROVE  NewObject \in Objects \ DOMAIN heap
<1> DEFINE T == Objects \ DOMAIN heap
<1>1. T \subseteq Nat
  BY DEF Objects
<1>2. T # {}
  OBVIOUS
<1>3. \E o \in T : \A q \in T : o <= q
  <2> HIDE DEF T
  <2> QED
    BY <1>1, <1>2, Least
<1>4. QED
  BY <1>3 DEF NewObject

LEMMA NoObjectIsNone == NoObject \notin Objects
BY NamesAssumption

----------------------------------------------------------------------------
(* What the operators of the pool and of a call do.                        *)

LEMMA InvParts ==
  ASSUME PoolInv
  PROVE  /\ m_objFreeList \in Seq(Objects) /\ m_nMaxCount \in Nat /\ Len(m_objFreeList) <= m_nMaxCount
         /\ DOMAIN heap \subseteq Objects /\ Pooled \subseteq DOMAIN heap /\ Sending \subseteq DOMAIN heap
         /\ Out \subseteq DOMAIN heap /\ Working \subseteq DOMAIN heap /\ lost \subseteq DOMAIN heap
         /\ send \in [Senders -> Calls]
         /\ Split(DOMAIN heap, Pooled, Sending, Out, Working, lost) /\ Hands
BY BoundsAssumption DEF PoolInv, TypeOK, OnePlace, Split, Calls

LEMMA Sender ==
  ASSUME PoolInv, NEW s \in Senders, send[s].pc = "post"
  PROVE  /\ send[s].obj \in Sending /\ send[s].obj \in DOMAIN heap /\ send[s].obj \in Objects
         /\ Calling[s] = send[s].obj /\ send[s].obj # NoObject
<1>1. send[s].obj # NoObject /\ Calling[s] = send[s].obj
  BY DEF PoolInv, SendersOK, SenderOK, Calling
<1>2. send[s].obj \in Sending
  BY <1>1 DEF Sending
<1>3. QED
  BY <1>1, <1>2, InvParts

LEMMA IdleSender ==
  ASSUME PoolInv, NEW s \in Senders, send[s].pc # "post"
  PROVE  send[s].obj = NoObject /\ Calling[s] = NoObject
BY DEF PoolInv, SendersOK, SenderOK, Calling

LEMMA PacketSizeType ==
  ASSUME PoolInv, NEW s \in Senders, send[s].pc # "idle"
  PROVE  PacketSize(s) \in Nat /\ PacketSize(s) > 0 /\ PacketSize(s) <= send[s].left
<1>1. send[s].left \in Nat /\ send[s].seg \in Nat
  <2>1. send[s] \in Calls
    BY InvParts
  <2>2. send[s].left \in Nat /\ send[s].seg \in Lens \cup {0, SegmentSize}
    BY <2>1 DEF Calls
  <2>3. \A x \in Lens \cup {0, SegmentSize} : x \in Nat
    <3>1. 0 \in Nat /\ SegmentSize \in Nat /\ \A x \in Lens : x \in Nat
      BY BoundsAssumption
    <3>2. QED
      BY <3>1
  <2>4. QED
    BY <2>2, <2>3
<1>2. send[s].left > 0 /\ send[s].seg > 0
  BY DEF PoolInv, SendersOK, SenderOK
<1>3. QED
  BY <1>1, <1>2 DEF PacketSize

LEMMA CallBecomes ==
  ASSUME send \in [Senders -> Calls], NEW s \in Senders, NEW c \in Calls, Becomes(s, c)
  PROVE  /\ send' \in [Senders -> Calls] /\ send'[s] = c
         /\ \A t \in Senders : t # s => send'[t] = send[t] /\ Calling'[t] = Calling[t]
         /\ Calling'[s] = c.obj
BY DEF Becomes, Calling

LEMMA ReturnedIsCall == Returned \in Calls /\ Returned.obj = NoObject /\ Returned.pc = "idle"
BY BoundsAssumption DEF Returned, Calls

(* What HasSent leaves: the same call with less to send, or none.          *)
LEMMA HasSentCall ==
  ASSUME PoolInv, NEW s \in Senders, send[s].pc # "idle", HasSent(s, PacketSize(s))
  PROVE  \E c \in Calls : /\ Becomes(s, c) /\ c.obj = NoObject /\ c.pc # "post"
                          /\ c.pc # "idle" => c.left > 0 /\ c.seg > 0
<1>1. send[s] \in Calls
  BY InvParts
<1>2. PacketSize(s) \in Nat
  BY PacketSizeType
<1>3. CASE send[s].left > PacketSize(s)
  <2>1. PICK c : c = [send[s] EXCEPT !.pc = "loop", !.obj = NoObject, !.left = @ - PacketSize(s)]
    OBVIOUS
  <2>2. send[s].left - PacketSize(s) \in Nat /\ send[s].left - PacketSize(s) > 0
    BY <1>1, <1>2, <1>3 DEF Calls
  <2>3. /\ c \in Calls /\ c.obj = NoObject /\ c.pc = "loop" /\ c.left = send[s].left - PacketSize(s)
        /\ c.seg = send[s].seg
    BY <1>1, <2>1, <2>2 DEF Calls
  <2>4. Becomes(s, c)
    BY <1>3, <2>1 DEF HasSent
  <2>5. c.seg > 0
    BY <2>3 DEF PoolInv, SendersOK, SenderOK
  <2>6. QED
    BY <2>2, <2>3, <2>4, <2>5
<1>4. CASE ~(send[s].left > PacketSize(s))
  BY <1>4, ReturnedIsCall DEF HasSent
<1>5. QED
  BY <1>3, <1>4

(* A sender that keeps its call, and whose object keeps its size, stays    *)
(* as it is.                                                               *)
LEMMA SenderStays ==
  ASSUME PoolInv, NEW s \in Senders, send'[s] = send[s],
         send[s].pc = "post" => heap'[send[s].obj].nLen = heap[send[s].obj].nLen
  PROVE  SenderOK(s)'
<1>1. SenderOK(s)
  BY DEF PoolInv, SendersOK
<1>2. QED
  BY <1>1 DEF SenderOK, PacketSize

LEMMA Pushed ==
  ASSUME PoolInv, NEW o \in DOMAIN heap, o \notin Pooled, NEW h, DOMAIN h = DOMAIN heap, push(o, h),
         UNCHANGED m_nMaxCount
  PROVE  /\ m_objFreeList' \in Seq(Objects) /\ Len(m_objFreeList') <= m_nMaxCount'
         /\ \A i, j \in DOMAIN m_objFreeList' : m_objFreeList'[i] = m_objFreeList'[j] => i = j
         /\ \/ Pooled' = Pooled \cup {o} /\ DOMAIN heap' = DOMAIN heap
            \/ Pooled' = Pooled /\ DOMAIN heap' = DOMAIN heap \ {o}
         /\ \A q \in DOMAIN heap' : heap'[q] = h[q]
<1>1. /\ m_objFreeList \in Seq(Objects) /\ m_nMaxCount \in Nat /\ Len(m_objFreeList) <= m_nMaxCount
      /\ o \in Objects /\ Hands
  BY InvParts
<1>2. \A i, j \in DOMAIN m_objFreeList : m_objFreeList[i] = m_objFreeList[j] => i = j
  BY <1>1 DEF Hands
<1>3. CASE Len(m_objFreeList) < m_nMaxCount
  <2>1. m_objFreeList' = Append(m_objFreeList, o) /\ heap' = h
    BY <1>3 DEF push
  <2>2. o \notin {m_objFreeList[i] : i \in DOMAIN m_objFreeList}
    BY DEF Pooled
  <2>3. /\ Append(m_objFreeList, o) \in Seq(Objects)
        /\ Len(Append(m_objFreeList, o)) = Len(m_objFreeList) + 1
        /\ \A i, j \in DOMAIN Append(m_objFreeList, o) :
             Append(m_objFreeList, o)[i] = Append(m_objFreeList, o)[j] => i = j
        /\ {Append(m_objFreeList, o)[i] : i \in DOMAIN Append(m_objFreeList, o)}
             = {m_objFreeList[i] : i \in DOMAIN m_objFreeList} \cup {o}
    BY <1>1, <1>2, <2>2, AddLast
  <2>4. Len(m_objFreeList) \in Nat
    BY <1>1
  <2>5. Len(m_objFreeList') <= m_nMaxCount'
    BY <1>1, <1>3, <2>1, <2>3, <2>4
  <2>6. Pooled' = Pooled \cup {o}
    BY <2>1, <2>3 DEF Pooled
  <2>7. QED
    BY <2>1, <2>3, <2>5, <2>6
<1>4. CASE ~(Len(m_objFreeList) < m_nMaxCount)
  BY <1>1, <1>2, <1>4 DEF push, Pooled, Restrict
<1>5. QED
  BY <1>3, <1>4

LEMMA Cleared ==
  ASSUME PoolInv, clear
  PROVE  /\ m_objFreeList' = <<>> /\ Pooled' = {} /\ DOMAIN heap' = DOMAIN heap \ Pooled
         /\ \A q \in DOMAIN heap' : heap'[q] = heap[q]
BY DEF clear, Restrict, ToSet, Pooled

----------------------------------------------------------------------------
(* The steps.                                                              *)

LEMMA PoolInit == Init => PoolInv
<1> SUFFICES ASSUME Init PROVE PoolInv
  OBVIOUS
<1>1. TypeOK
  <2>1. send \in [Senders -> Calls]
    BY ReturnedIsCall DEF Init
  <2>2. m_objFreeList \in Seq(Objects) /\ Len(m_objFreeList) <= m_nMaxCount
    BY BoundsAssumption DEF Init
  <2>3. DOMAIN heap = {}
    BY DEF Init
  <2>4. QED
    BY <2>1, <2>2, <2>3 DEF Init, TypeOK, Calls
<1>2. \A s \in Senders : Calling[s] = NoObject /\ send[s] = Returned
  BY DEF Init, Calling, Returned
<1>3. /\ Pooled = {} /\ Sending = {} /\ Out = {} /\ Working = {} /\ lost = {} /\ DOMAIN heap = {}
  BY <1>2 DEF Init, Pooled, Sending, Out, Working
<1>4. Hands
  BY <1>2 DEF Init, Hands
<1>5. SendersOK
  BY <1>2 DEF SendersOK, SenderOK, Returned
<1>6. PacketOK /\ BytesOK
  BY <1>3 DEF Init, PacketOK, BytesOK
<1>7. QED
  BY <1>1, <1>3, <1>4, <1>5, <1>6 DEF PoolInv, OnePlace, Split

(* A step of the call of s that leaves everything else alone.              *)
LEMMA CallOnly ==
  ASSUME PoolInv, NEW s \in Senders, send[s].pc # "post", NEW c \in Calls, Becomes(s, c),
         c.obj = NoObject, c.pc # "post", c.pc # "idle" => c.left > 0 /\ c.seg > 0,
         UNCHANGED <<poolVars, heap, worker, netVars, lost, unbuffered>>
  PROVE  PoolInv'
<1>1. /\ send' \in [Senders -> Calls] /\ send'[s] = c
      /\ \A t \in Senders : t # s => send'[t] = send[t] /\ Calling'[t] = Calling[t]
      /\ Calling'[s] = c.obj
  BY InvParts, CallBecomes
<1>2. TypeOK'
  BY <1>1 DEF PoolInv, TypeOK, Calls, poolVars, netVars
<1>3. \A t \in Senders : Calling'[t] = Calling[t]
  BY <1>1, IdleSender
<1>4. Sending' = Sending
  BY <1>3 DEF Sending
<1>5. OnePlace'
  BY <1>3, <1>4 DEF PoolInv, OnePlace, Split, Hands, Pooled, Out, Working, poolVars, netVars
<1>6. ASSUME NEW t \in Senders PROVE SenderOK(t)'
  <2>1. CASE t = s
    BY <1>1, <2>1 DEF SenderOK
  <2>2. CASE t # s
    BY <1>1, <2>2, SenderStays
  <2>3. QED
    BY <2>1, <2>2
<1>7. PacketOK' /\ BytesOK'
  BY DEF PoolInv, PacketOK, BytesOK, OwnBytes, Out, poolVars, netVars
<1>8. QED
  BY <1>2, <1>5, <1>6, <1>7 DEF PoolInv, SendersOK

LEMMA SendStep ==
  ASSUME PoolInv, NEW s \in Senders, Send(s)
  PROVE  PoolInv'
<1>1. send[s].pc = "idle" /\ UNCHANGED <<poolVars, heap, worker, netVars, lost, unbuffered>>
  BY DEF Send, At
<1>2. PICK n \in Lens \ {0}, block \in BOOLEAN, segment \in BOOLEAN, buffer \in BOOLEAN :
        Becomes(s, [send[s] EXCEPT !.pc = "loop", !.left = n, !.block = block, !.buffer = buffer,
                                   !.seg = IF segment THEN SegmentSize ELSE n])
  BY DEF Send
<1>3. PICK c : c = [send[s] EXCEPT !.pc = "loop", !.left = n, !.block = block, !.buffer = buffer,
                                   !.seg = IF segment THEN SegmentSize ELSE n]
  OBVIOUS
<1>4. send[s] \in Calls /\ send[s].obj = NoObject
  BY <1>1, InvParts, IdleSender
<1>5. n \in Nat /\ n > 0 /\ SegmentSize > 0
  BY BoundsAssumption
<1>6. c \in Calls
  BY <1>3, <1>4, <1>5 DEF Calls
<1>7. c.obj = NoObject /\ c.pc = "loop" /\ c.left > 0 /\ c.seg > 0
  BY <1>3, <1>4, <1>5 DEF Calls
<1>8. Becomes(s, c)
  BY <1>2, <1>3
<1>9. QED
  BY <1>1, <1>6, <1>7, <1>8, CallOnly

LEMMA SendBlockingStep ==
  ASSUME PoolInv, NEW s \in Senders, SendBlocking(s)
  PROVE  PoolInv'
<1>1. send[s].pc = "loop" /\ UNCHANGED <<poolVars, heap, worker, netVars, lost, unbuffered>>
  BY DEF SendBlocking, At
<1>2. HasSent(s, PacketSize(s)) \/ Becomes(s, Returned)
  BY DEF SendBlocking
<1>3. QED
  BY <1>1, <1>2, HasSentCall, ReturnedIsCall, CallOnly

(* The sender s comes to hold the object o, with room for what it sends.   *)
LEMMA PopGets ==
  ASSUME PoolInv, NEW s \in Senders, send[s].pc = "loop",
         NEW o \in Objects, o \notin Sending \cup Out \cup Working \cup lost,
         Becomes(s, [send[s] EXCEPT !.pc = "post", !.obj = o]),
         o \in DOMAIN heap', DOMAIN heap' = DOMAIN heap \cup {o},
         \A q \in DOMAIN heap : q # o => heap'[q] = heap[q],
         heap'[o] \in Object, send[s].buffer => heap'[o].nLen >= PacketSize(s),
         ~unbuffered /\ heap'[o].nLen > 0 => heap'[o].szBuffer = "own",
         m_objFreeList' \in Seq(Objects), Len(m_objFreeList') <= m_nMaxCount,
         \A i, j \in DOMAIN m_objFreeList' : m_objFreeList'[i] = m_objFreeList'[j] => i = j,
         Pooled' = Pooled \ {o},
         UNCHANGED <<m_nMaxCount, worker, netVars, lost, unbuffered>>
  PROVE  PoolInv'
<1>1. PICK c : c = [send[s] EXCEPT !.pc = "post", !.obj = o]
  OBVIOUS
<1>2. send[s] \in Calls /\ send[s].obj = NoObject /\ Calling[s] = NoObject
  BY InvParts, IdleSender
<1>3. /\ c \in Calls /\ c.pc = "post" /\ c.obj = o /\ c.left = send[s].left /\ c.seg = send[s].seg
      /\ c.buffer = send[s].buffer
  BY <1>1, <1>2 DEF Calls
<1>4. /\ send' \in [Senders -> Calls] /\ send'[s] = c
      /\ \A t \in Senders : t # s => send'[t] = send[t] /\ Calling'[t] = Calling[t]
      /\ Calling'[s] = o
  <2>1. Becomes(s, c) /\ send \in [Senders -> Calls]
    BY <1>1, InvParts
  <2>2. /\ send' \in [Senders -> Calls] /\ send'[s] = c /\ Calling'[s] = c.obj
        /\ \A t \in Senders : t # s => send'[t] = send[t] /\ Calling'[t] = Calling[t]
    BY <1>3, <2>1, CallBecomes
  <2>3. QED
    BY <1>3, <2>2
<1>5. TypeOK'
  <2>1. \A q \in DOMAIN heap' : heap'[q] \in Object
    BY DEF PoolInv, TypeOK
  <2>2. DOMAIN heap' \subseteq Objects /\ lost' \subseteq DOMAIN heap'
    BY InvParts
  <2>3. QED
    BY <1>4, <2>1, <2>2 DEF PoolInv, TypeOK, Calls, netVars
<1>6. /\ \A t, u \in Senders : Calling'[t] = Calling'[u] /\ Calling'[t] # NoObject => t = u
      /\ Sending' = Sending \cup {o}
  <2>1. \A t, u \in Senders : Calling[t] = Calling[u] /\ Calling[t] # NoObject => t = u
    BY InvParts DEF Hands
  <2>2. o \notin {Calling[t] : t \in Senders} \ {NoObject} /\ o # NoObject
    BY NoObjectIsNone DEF Sending
  <2>3. PICK f : f = Calling
    OBVIOUS
  <2>4. PICK g : g = Calling'
    OBVIOUS
  <2>5. /\ \A t, u \in Senders : g[t] = g[u] /\ g[t] # NoObject => t = u
        /\ {g[t] : t \in Senders} \ {NoObject} = ({f[t] : t \in Senders} \ {NoObject}) \cup {o}
    BY <1>2, <1>4, <2>1, <2>2, <2>3, <2>4, HandTakes
  <2>6. QED
    BY <2>3, <2>4, <2>5 DEF Sending
<1>7. OnePlace'
  <2>1. Hands'
    BY <1>6, InvParts DEF Hands
  <2>2. Out' = Out /\ Working' = Working /\ lost' = lost
    BY DEF Out, Working, netVars
  <2>3. Split(DOMAIN heap', Pooled', Sending', Out', Working', lost')
    BY <1>6, <2>2, InvParts DEF Split
  <2>4. QED
    BY <2>1, <2>3 DEF OnePlace
<1>8. ASSUME NEW t \in Senders PROVE SenderOK(t)'
  <2>1. CASE t = s
    <3>1. /\ send'[s].obj # NoObject /\ send'[s].pc = "post"
          /\ send'[s].left > 0 /\ send'[s].seg > 0
      BY <1>3, <1>4, NoObjectIsNone DEF PoolInv, SendersOK, SenderOK
    <3>2. PacketSize(s)' = PacketSize(s)
      BY <1>3, <1>4 DEF PacketSize
    <3>3. QED
      BY <1>3, <1>4, <2>1, <3>1, <3>2 DEF SenderOK
  <2>2. CASE t # s
    <3>1. send'[t] = send[t]
      BY <1>4, <2>2
    <3>2. send[t].pc = "post" => send[t].obj \in DOMAIN heap /\ send[t].obj # o
      BY Sender
    <3>3. QED
      BY <3>1, <3>2, SenderStays
  <2>3. QED
    BY <2>1, <2>2
<1>9. PacketOK'
  BY DEF PoolInv, PacketOK, netVars
<1>10. BytesOK'
  <2> SUFFICES ASSUME ~unbuffered PROVE BytesOK'
    BY DEF BytesOK
  <2>1. /\ \A q \in DOMAIN heap : heap[q].nLen > 0 => heap[q].szBuffer = "own"
        /\ \A q \in Out : OwnBytes(q)
    BY DEF PoolInv, BytesOK
  <2>2. \A q \in Out : heap'[q] = heap[q]
    BY InvParts
  <2>3. \A q \in Out : OwnBytes(q)'
    BY <2>1, <2>2 DEF OwnBytes, netVars
  <2>4. \A q \in DOMAIN heap' : heap'[q].nLen > 0 => heap'[q].szBuffer = "own"
    BY <2>1
  <2>5. QED
    BY <2>3, <2>4 DEF BytesOK, Out, netVars
<1>11. QED
  BY <1>5, <1>7, <1>8, <1>9, <1>10 DEF PoolInv, SendersOK

LEMMA PopSize ==
  ASSUME PoolInv, NEW s \in Senders, send[s].pc = "loop", NEW n, n = IF send[s].buffer THEN PacketSize(s) ELSE 0
  PROVE  n \in Nat /\ (send[s].buffer => n >= PacketSize(s))
BY PacketSizeType

LEMMA PopFreeStep ==
  ASSUME PoolInv, NEW s \in Senders, send[s].pc = "loop", NEW n \in Nat, send[s].buffer => n >= PacketSize(s),
         PopFree(s, n), UNCHANGED <<m_nMaxCount, worker, netVars, unbuffered>>
  PROVE  PoolInv'
<1>1. PICK o : o = Head(m_objFreeList)
  OBVIOUS
<1>2. /\ m_objFreeList # <<>> /\ m_objFreeList' = Tail(m_objFreeList)
      /\ m_objFreeList \in Seq(Objects) /\ Len(m_objFreeList) <= m_nMaxCount /\ m_nMaxCount \in Nat
      /\ \A i, j \in DOMAIN m_objFreeList : m_objFreeList[i] = m_objFreeList[j] => i = j
  BY InvParts DEF PopFree, Hands
<1>3. /\ o \in Objects /\ m_objFreeList' \in Seq(Objects) /\ Len(m_objFreeList') <= Len(m_objFreeList)
      /\ \A i, j \in DOMAIN m_objFreeList' : m_objFreeList'[i] = m_objFreeList'[j] => i = j
      /\ {m_objFreeList[i] : i \in DOMAIN m_objFreeList}
           = {o} \cup {m_objFreeList'[i] : i \in DOMAIN m_objFreeList'}
      /\ o \notin {m_objFreeList'[i] : i \in DOMAIN m_objFreeList'}
  <2>1. PICK q : q = m_objFreeList
    OBVIOUS
  <2>2. q \in Seq(Objects) /\ q # <<>> /\ \A i, j \in DOMAIN q : q[i] = q[j] => i = j
    BY <1>2, <2>1
  <2>3. /\ Head(q) \in Objects /\ Tail(q) \in Seq(Objects) /\ Len(Tail(q)) <= Len(q)
        /\ \A i, j \in DOMAIN Tail(q) : Tail(q)[i] = Tail(q)[j] => i = j
        /\ {q[i] : i \in DOMAIN q} = {Head(q)} \cup {Tail(q)[i] : i \in DOMAIN Tail(q)}
        /\ Head(q) \notin {Tail(q)[i] : i \in DOMAIN Tail(q)}
    BY <2>2, TakeHead
  <2>4. o = Head(q) /\ m_objFreeList' = Tail(q)
    BY <1>1, <1>2, <2>1
  <2>5. QED
    BY <2>1, <2>3, <2>4
<1>4. Pooled' = Pooled \ {o} /\ o \in Pooled
  BY <1>3 DEF Pooled
<1>5. Len(m_objFreeList') <= m_nMaxCount
  BY <1>2, <1>3
<1>6. o \in DOMAIN heap /\ o \notin Sending \cup Out \cup Working \cup lost /\ heap[o] \in Object
  BY <1>4, InvParts DEF Split, PoolInv, TypeOK
<1>7. CASE /\ Becomes(s, [send[s] EXCEPT !.pc = "post", !.obj = o])
           /\ heap' = IF heap[o].nLen < n THEN [heap EXCEPT ![o].nLen = n, ![o].szBuffer = "own"] ELSE heap
           /\ UNCHANGED lost
  <2>1. /\ DOMAIN heap' = DOMAIN heap /\ o \in DOMAIN heap'
        /\ \A q \in DOMAIN heap : q # o => heap'[q] = heap[q]
    BY <1>6, <1>7
  <2>2. heap[o].nLen < n => heap'[o].nLen = n /\ heap'[o].szBuffer = "own" /\ heap'[o].own = heap[o].own
    BY <1>6, <1>7 DEF Object
  <2>3. heap'[o] \in Object
    BY <1>6, <1>7 DEF Object
  <2>4. heap'[o].nLen >= n
    <3>1. heap[o].nLen \in Nat
      BY <1>6 DEF Object
    <3>2. QED
      BY <1>7, <2>2, <3>1
  <2>5. send[s].buffer => heap'[o].nLen >= PacketSize(s)
    <3>1. heap'[o].nLen \in Nat /\ PacketSize(s) \in Nat
      BY <2>3, PacketSizeType DEF Object
    <3>2. QED
      BY <2>4, <3>1
  <2>6. ~unbuffered /\ heap'[o].nLen > 0 => heap'[o].szBuffer = "own"
    BY <1>6, <1>7, <2>2 DEF PoolInv, BytesOK
  <2>7. DOMAIN heap' = DOMAIN heap \cup {o}
    BY <1>6, <2>1
  <2>8. UNCHANGED <<m_nMaxCount, worker, netVars, lost, unbuffered>>
    BY <1>7
  <2>9. QED
    BY <1>3, <1>4, <1>5, <1>6, <1>7, <2>1, <2>3, <2>5, <2>6, <2>7, <2>8, PopGets
<1>8. CASE Becomes(s, Returned) /\ lost' = lost \cup {o} /\ UNCHANGED heap
  <2>1. /\ send' \in [Senders -> Calls] /\ send'[s] = Returned
        /\ \A t \in Senders : t # s => send'[t] = send[t] /\ Calling'[t] = Calling[t]
        /\ Calling'[s] = NoObject
    BY <1>8, InvParts, ReturnedIsCall, CallBecomes
  <2>2. TypeOK'
    BY <1>3, <1>5, <1>6, <1>8, <2>1 DEF PoolInv, TypeOK, Calls, netVars
  <2>3. \A t \in Senders : Calling'[t] = Calling[t]
    BY <2>1, IdleSender
  <2>4. Hands'
    BY <1>3, <2>3, InvParts DEF Hands
  <2>5. Sending' = Sending /\ Out' = Out /\ Working' = Working
    BY <2>3 DEF Sending, Out, Working, netVars
  <2>6. Split(DOMAIN heap', Pooled', Sending', Out', Working', lost')
    BY <1>4, <1>8, <2>5, InvParts DEF Split
  <2>7. ASSUME NEW t \in Senders PROVE SenderOK(t)'
    <3>1. CASE t = s
      BY <2>1, <3>1, ReturnedIsCall DEF SenderOK
    <3>2. CASE t # s
      BY <1>8, <2>1, <3>2, SenderStays
    <3>3. QED
      BY <3>1, <3>2
  <2>8. PacketOK' /\ BytesOK'
    BY <1>8 DEF PoolInv, PacketOK, BytesOK, OwnBytes, Out, netVars
  <2>9. QED
    BY <2>2, <2>4, <2>6, <2>7, <2>8 DEF PoolInv, SendersOK, OnePlace
<1>9. QED
  BY <1>1, <1>7, <1>8 DEF PopFree

LEMMA PopNewStep ==
  ASSUME PoolInv, NEW s \in Senders, send[s].pc = "loop", NEW n \in Nat, send[s].buffer => n >= PacketSize(s),
         PopNew(s, n), UNCHANGED <<m_nMaxCount, worker, netVars, unbuffered>>
  PROVE  PoolInv'
<1>1. m_objFreeList = <<>> /\ UNCHANGED <<m_objFreeList, lost>>
  BY DEF PopNew
<1>2. CASE /\ DOMAIN heap # Objects
           /\ heap' = [o \in DOMAIN heap \cup {NewObject} |->
                         IF o \in DOMAIN heap THEN heap[o]
                         ELSE [nLen |-> n, szBuffer |-> IF n > 0 THEN "own" ELSE "none", own |-> NoSender]]
           /\ Becomes(s, [send[s] EXCEPT !.pc = "post", !.obj = NewObject])
  <2>1. PICK o : o = NewObject
    OBVIOUS
  <2>2. PICK r : r = [nLen |-> n, szBuffer |-> IF n > 0 THEN "own" ELSE "none", own |-> NoSender]
    OBVIOUS
  <2>3. o \in Objects /\ o \notin DOMAIN heap
    BY <1>2, <2>1, InvParts, NewObjectIsNew
  <2>4. heap' = [q \in DOMAIN heap \cup {o} |-> IF q \in DOMAIN heap THEN heap[q] ELSE r]
    BY <1>2, <2>1, <2>2
  <2>5. /\ DOMAIN heap' = DOMAIN heap \cup {o} /\ heap'[o] = r
        /\ \A q \in DOMAIN heap : q # o => heap'[q] = heap[q]
    BY <2>3, <2>4
  <2>6. r \in Object /\ r.nLen = n /\ (n > 0 => r.szBuffer = "own")
    BY <2>2 DEF Object
  <2>7. o \notin Sending \cup Out \cup Working \cup lost /\ o \notin Pooled
    BY <2>3, InvParts
  <2>8. Pooled' = Pooled \ {o}
    BY <1>1, <2>7 DEF Pooled
  <2>9. /\ m_objFreeList' \in Seq(Objects) /\ Len(m_objFreeList') <= m_nMaxCount
        /\ \A i, j \in DOMAIN m_objFreeList' : m_objFreeList'[i] = m_objFreeList'[j] => i = j
    BY <1>1, InvParts DEF Hands
  <2>10. Becomes(s, [send[s] EXCEPT !.pc = "post", !.obj = o])
    BY <1>2, <2>1
  <2>11. /\ heap'[o] \in Object /\ (send[s].buffer => heap'[o].nLen >= PacketSize(s))
         /\ (~unbuffered /\ heap'[o].nLen > 0 => heap'[o].szBuffer = "own") /\ o \in DOMAIN heap'
    BY <2>5, <2>6
  <2>12. UNCHANGED <<m_nMaxCount, worker, netVars, lost, unbuffered>>
    BY <1>1
  <2>13. QED
    BY <2>3, <2>5, <2>7, <2>8, <2>9, <2>10, <2>11, <2>12, PopGets
<1>3. CASE Becomes(s, Returned) /\ UNCHANGED heap
  <2>1. UNCHANGED <<poolVars, heap, worker, netVars, lost, unbuffered>>
    BY <1>1, <1>3 DEF poolVars
  <2>2. QED
    BY <1>3, <2>1, ReturnedIsCall, CallOnly
<1>4. QED
  BY <1>2, <1>3 DEF PopNew

LEMMA SendPopStep ==
  ASSUME PoolInv, NEW s \in Senders, SendPop(s)
  PROVE  PoolInv'
<1>1. send[s].pc = "loop" /\ UNCHANGED <<m_nMaxCount, worker, netVars, unbuffered>>
  BY DEF SendPop, At
<1>2. PICK n : n = IF send[s].buffer THEN PacketSize(s) ELSE 0
  OBVIOUS
<1>3. PopFree(s, n) \/ PopNew(s, n)
  BY <1>2 DEF SendPop
<1>4. n \in Nat /\ (send[s].buffer => n >= PacketSize(s))
  BY <1>1, <1>2, PopSize
<1>5. QED
  BY <1>1, <1>3, <1>4, PopFreeStep, PopNewStep

(* What SendCopy leaves of the other objects, and of the one it is for.    *)
LEMMA Copied ==
  ASSUME PoolInv, NEW s \in Senders, send[s].pc = "post", NEW o, o = send[s].obj, NEW h, h = SendCopy(s)
  PROVE  /\ DOMAIN h = DOMAIN heap /\ \A q \in DOMAIN heap : h[q] \in Object /\ h[q].nLen = heap[q].nLen
         /\ \A q \in DOMAIN heap : q # o => h[q] = heap[q]
         /\ send[s].buffer /\ ~unbuffered =>
              h[o].szBuffer = "own" /\ h[o].own = s /\ h[o].nLen >= PacketSize(s)
<1>1. o \in DOMAIN heap /\ \A q \in DOMAIN heap : heap[q] \in Object
  BY Sender DEF PoolInv, TypeOK
<1>2. CASE ~send[s].buffer
  <2>1. h = [heap EXCEPT ![o].szBuffer = "caller"]
    BY <1>2 DEF SendCopy
  <2>2. h[o] \in Object /\ h[o].nLen = heap[o].nLen
    BY <1>1, <2>1 DEF Object
  <2>3. QED
    BY <1>1, <1>2, <2>1, <2>2
<1>3. CASE send[s].buffer
  <2>1. heap[o].nLen >= PacketSize(s)
    BY <1>3 DEF PoolInv, SendersOK, SenderOK
  <2>2. ~unbuffered => heap[o].szBuffer = "own"
    <3>1. heap[o].nLen \in Nat /\ PacketSize(s) \in Nat /\ PacketSize(s) > 0
      BY <1>1, PacketSizeType DEF Object
    <3>2. heap[o].nLen > 0
      BY <2>1, <3>1
    <3>3. QED
      BY <1>1, <3>2 DEF PoolInv, BytesOK
  <2>3. CASE heap[o].szBuffer = "own"
    <3>1. h = [heap EXCEPT ![o].own = s]
      BY <1>3, <2>3 DEF SendCopy
    <3>2. h[o] \in Object /\ h[o].nLen = heap[o].nLen /\ h[o].szBuffer = "own" /\ h[o].own = s
      BY <1>1, <2>3, <3>1 DEF Object
    <3>3. QED
      BY <1>1, <2>1, <3>1, <3>2
  <2>4. CASE heap[o].szBuffer # "own"
    <3>1. h = heap
      BY <1>3, <2>4 DEF SendCopy
    <3>2. QED
      BY <1>1, <2>2, <2>4, <3>1
  <2>5. QED
    BY <2>3, <2>4
<1>4. QED
  BY <1>2, <1>3

(* The sender s gives the object o out of its hands.                       *)
LEMMA SenderGives ==
  ASSUME PoolInv, NEW s \in Senders, send[s].pc = "post", NEW c \in Calls, Becomes(s, c), c.obj = NoObject
  PROVE  /\ \A t, u \in Senders : Calling'[t] = Calling'[u] /\ Calling'[t] # NoObject => t = u
         /\ Sending' = Sending \ {send[s].obj}
<1>1. /\ \A t \in Senders : t # s => Calling'[t] = Calling[t]
      /\ Calling'[s] = NoObject
  BY InvParts, CallBecomes
<1>2. \A t, u \in Senders : Calling[t] = Calling[u] /\ Calling[t] # NoObject => t = u
  BY InvParts DEF Hands
<1>3. Calling[s] = send[s].obj /\ Calling[s] # NoObject
  BY Sender
<1>4. PICK f : f = Calling
  OBVIOUS
<1>5. PICK g : g = Calling'
  OBVIOUS
<1>6. /\ \A t, u \in Senders : g[t] = g[u] /\ g[t] # NoObject => t = u
      /\ {g[t] : t \in Senders} \ {NoObject} = ({f[t] : t \in Senders} \ {NoObject}) \ {f[s]}
  BY <1>1, <1>2, <1>3, <1>4, <1>5, HandGives
<1>7. QED
  BY <1>3, <1>4, <1>5, <1>6 DEF Sending

(* The calls stay right when s has given its object away, and the objects  *)
(* of the others are as large as they were.                                *)
LEMMA SendersStay ==
  ASSUME PoolInv, NEW s \in Senders, send[s].pc = "post", NEW c \in Calls, Becomes(s, c), c.obj = NoObject,
         c.pc # "post", c.pc # "idle" => c.left > 0 /\ c.seg > 0,
         \A q \in DOMAIN heap : q # send[s].obj => heap'[q].nLen = heap[q].nLen
  PROVE  SendersOK'
<1>1. /\ send' \in [Senders -> Calls] /\ send'[s] = c
      /\ \A t \in Senders : t # s => send'[t] = send[t]
  BY InvParts, CallBecomes
<1>2. ASSUME NEW t \in Senders PROVE SenderOK(t)'
  <2>1. CASE t = s
    BY <1>1, <2>1 DEF SenderOK
  <2>2. CASE t # s
    <3>1. send[t].pc = "post" => send[t].obj \in DOMAIN heap /\ send[t].obj # send[s].obj
      BY <2>2, Sender, InvParts DEF Hands
    <3>2. QED
      BY <1>1, <2>2, <3>1, SenderStays
  <2>3. QED
    BY <2>1, <2>2
<1>3. QED
  BY <1>2 DEF SendersOK

LEMMA WSASendToStep ==
  ASSUME PoolInv, NEW s \in Senders, WSASendTo(s)
  PROVE  PoolInv'
<1>1. PICK o : o = send[s].obj
  OBVIOUS
<1>2. PICK h : h = SendCopy(s)
  OBVIOUS
<1>3. /\ send[s].pc = "post" /\ unbuffered' = (unbuffered \/ ~send[s].buffer)
      /\ UNCHANGED <<m_nMaxCount, worker, packet, isOpen, lost>>
  BY DEF WSASendTo, At
<1>4. o \in Sending /\ o \in DOMAIN heap /\ o \in Objects /\ o # NoObject
  BY <1>1, <1>3, Sender
<1>5. o \notin Pooled \cup Out \cup Working \cup lost
  BY <1>4, InvParts DEF Split
<1>6. /\ DOMAIN h = DOMAIN heap /\ \A q \in DOMAIN heap : h[q] \in Object /\ h[q].nLen = heap[q].nLen
      /\ \A q \in DOMAIN heap : q # o => h[q] = heap[q]
      /\ send[s].buffer /\ ~unbuffered =>
           h[o].szBuffer = "own" /\ h[o].own = s /\ h[o].nLen >= PacketSize(s)
  BY <1>1, <1>2, <1>3, Copied
<1>7. ASSUME NEW q \in Out, ~unbuffered PROVE h[q] = heap[q] /\ OwnBytes(q) /\ q \in DOMAIN heap /\ q # o
  BY <1>5, <1>6, <1>7, InvParts DEF PoolInv, BytesOK
<1>8. CASE heap' = h /\ posted' = [posted EXCEPT ![o] = <<s, PacketSize(s)>>]
           /\ HasSent(s, PacketSize(s)) /\ UNCHANGED m_objFreeList
  <2>1. PICK c \in Calls : /\ Becomes(s, c) /\ c.obj = NoObject /\ c.pc # "post"
                           /\ c.pc # "idle" => c.left > 0 /\ c.seg > 0
    BY <1>3, <1>8, HasSentCall
  <2>2. send' \in [Senders -> Calls]
    BY <2>1, InvParts, CallBecomes
  <2>3. PICK z : z = <<s, PacketSize(s)>>
    OBVIOUS
  <2>4. z \in Senders \X Nat /\ z # <<>> /\ z[1] = s /\ z[2] = PacketSize(s)
    BY <1>3, <2>3, PacketSizeType
  <2>5. /\ posted \in [Objects -> (Senders \X Nat) \cup {<<>>}]
        /\ posted' = [posted EXCEPT ![o] = z]
    BY <1>8, <2>3 DEF PoolInv, TypeOK
  <2>6. /\ posted' \in [Objects -> (Senders \X Nat) \cup {<<>>}] /\ posted'[o] = z
        /\ \A q \in Objects : q # o => posted'[q] = posted[q]
    BY <1>4, <2>4, <2>5
  <2>7. TypeOK'
    BY <1>3, <1>6, <1>8, <2>2, <2>6 DEF PoolInv, TypeOK, Calls
  <2>8. Out' = Out \cup {o} /\ Working' = Working /\ Pooled' = Pooled /\ DOMAIN heap' = DOMAIN heap
    BY <1>3, <1>4, <1>6, <1>8, <2>4, <2>6 DEF Out, Working, Pooled
  <2>9. /\ \A t, u \in Senders : Calling'[t] = Calling'[u] /\ Calling'[t] # NoObject => t = u
        /\ Sending' = Sending \ {o}
    BY <1>1, <1>3, <2>1, SenderGives
  <2>10. Split(DOMAIN heap', Pooled', Sending', Out', Working', lost')
    BY <1>3, <1>4, <2>8, <2>9, InvParts DEF Split
  <2>11. Hands'
    BY <1>3, <1>8, <2>9, InvParts DEF Hands
  <2>12. SendersOK'
    BY <1>1, <1>3, <1>6, <1>8, <2>1, SendersStay
  <2>13. PacketOK'
    BY <1>3, <2>4, <2>6 DEF PoolInv, PacketOK
  <2>14. ASSUME ~unbuffered' PROVE /\ \A q \in DOMAIN heap' : heap'[q].nLen > 0 => heap'[q].szBuffer = "own"
                                   /\ \A q \in Out' : OwnBytes(q)'
    <3>1. ~unbuffered /\ send[s].buffer
      BY <1>3, <2>14
    <3>2. OwnBytes(o)'
      BY <1>6, <1>8, <2>4, <2>6, <3>1 DEF OwnBytes
    <3>3. ASSUME NEW q \in Out PROVE OwnBytes(q)'
      <4>1. heap'[q] = heap[q] /\ OwnBytes(q) /\ q # o /\ q \in Objects
        BY <1>7, <1>8, <3>1 DEF Out
      <4>2. posted'[q] = posted[q]
        BY <2>6, <4>1
      <4>3. QED
        BY <4>1, <4>2 DEF OwnBytes
    <3>4. \A q \in DOMAIN heap' : heap'[q].nLen > 0 => heap'[q].szBuffer = "own"
      BY <1>6, <1>8, <3>1 DEF PoolInv, BytesOK
    <3>5. QED
      BY <2>8, <3>2, <3>3, <3>4
  <2>15. BytesOK'
    BY <2>14 DEF BytesOK
  <2>16. QED
    BY <2>7, <2>10, <2>11, <2>12, <2>13, <2>15 DEF PoolInv, OnePlace
<1>9. CASE push(o, h) /\ Becomes(s, Returned) /\ UNCHANGED posted
  <2>1. /\ m_objFreeList' \in Seq(Objects) /\ Len(m_objFreeList') <= m_nMaxCount'
        /\ \A i, j \in DOMAIN m_objFreeList' : m_objFreeList'[i] = m_objFreeList'[j] => i = j
        /\ \/ Pooled' = Pooled \cup {o} /\ DOMAIN heap' = DOMAIN heap
           \/ Pooled' = Pooled /\ DOMAIN heap' = DOMAIN heap \ {o}
        /\ \A q \in DOMAIN heap' : heap'[q] = h[q]
    BY <1>3, <1>4, <1>5, <1>6, <1>9, Pushed
  <2>2. send' \in [Senders -> Calls]
    BY <1>9, InvParts, CallBecomes, ReturnedIsCall
  <2>3. \A q \in DOMAIN heap : q # o => q \in DOMAIN heap' /\ heap'[q] = heap[q]
    BY <1>6, <2>1
  <2>4. DOMAIN heap' \subseteq DOMAIN heap
    BY <2>1
  <2>5. TypeOK'
    <3>1. DOMAIN heap' \subseteq Objects /\ \A q \in DOMAIN heap' : heap'[q] \in Object
      BY <1>6, <2>1, <2>4, InvParts
    <3>2. lost' \subseteq DOMAIN heap'
      BY <1>3, <1>5, <2>3, InvParts
    <3>3. QED
      BY <1>3, <1>9, <2>1, <2>2, <3>1, <3>2 DEF PoolInv, TypeOK, Calls
  <2>6. Out' = Out /\ Working' = Working
    BY <1>3, <1>9 DEF Out, Working
  <2>7. /\ \A t, u \in Senders : Calling'[t] = Calling'[u] /\ Calling'[t] # NoObject => t = u
        /\ Sending' = Sending \ {o}
    BY <1>1, <1>3, <1>9, ReturnedIsCall, SenderGives
  <2>8. Split(DOMAIN heap', Pooled', Sending', Out', Working', lost')
    <3>1. Split(DOMAIN heap, Pooled, Sending, Out, Working, lost) /\ lost' = lost
      BY <1>3, InvParts
    <3>2. CASE Pooled' = Pooled \cup {o} /\ DOMAIN heap' = DOMAIN heap
      BY <1>4, <2>6, <2>7, <3>1, <3>2 DEF Split
    <3>3. CASE Pooled' = Pooled /\ DOMAIN heap' = DOMAIN heap \ {o}
      BY <1>4, <2>6, <2>7, <3>1, <3>3 DEF Split
    <3>4. QED
      BY <2>1, <3>2, <3>3
  <2>9. Hands'
    BY <1>3, <2>1, <2>7, InvParts DEF Hands
  <2>10. SendersOK'
    BY <1>1, <1>3, <1>9, <2>3, ReturnedIsCall, SendersStay
  <2>11. PacketOK'
    BY <1>3, <1>9 DEF PoolInv, PacketOK
  <2>12. ASSUME ~unbuffered' PROVE /\ \A q \in DOMAIN heap' : heap'[q].nLen > 0 => heap'[q].szBuffer = "own"
                                   /\ \A q \in Out' : OwnBytes(q)'
    <3>1. ~unbuffered /\ send[s].buffer
      BY <1>3, <2>12
    <3>2. ASSUME NEW q \in Out PROVE OwnBytes(q)'
      BY <1>7, <1>9, <2>3, <3>1 DEF OwnBytes
    <3>3. \A q \in DOMAIN heap : h[q].nLen > 0 => h[q].szBuffer = "own"
      BY <1>6, <3>1 DEF PoolInv, BytesOK
    <3>4. \A q \in DOMAIN heap' : heap'[q].nLen > 0 => heap'[q].szBuffer = "own"
      BY <2>1, <2>4, <3>3
    <3>5. QED
      BY <2>6, <3>2, <3>4
  <2>13. BytesOK'
    BY <2>12 DEF BytesOK
  <2>14. QED
    BY <2>5, <2>8, <2>9, <2>10, <2>11, <2>13 DEF PoolInv, OnePlace
<1>10. QED
  BY <1>1, <1>2, <1>8, <1>9 DEF WSASendTo

(* A step that leaves the objects where they are, and the senders alone.   *)
LEMMA PacketStep ==
  ASSUME PoolInv, TypeOK', PacketOK', UNCHANGED <<poolVars, heap, send, worker, posted, lost, unbuffered>>
  PROVE  PoolInv'
<1>1. OnePlace'
  <2>1. Pooled' = Pooled /\ Calling' = Calling /\ Sending' = Sending /\ Out' = Out /\ Working' = Working
    BY DEF Calling, Pooled, Sending, Out, Working, poolVars
  <2>2. Hands'
    BY <2>1, InvParts DEF Hands, poolVars
  <2>3. QED
    BY <2>1, <2>2, InvParts DEF OnePlace
<1>2. SendersOK' /\ BytesOK'
  BY DEF PoolInv, SendersOK, SenderOK, PacketSize, BytesOK, OwnBytes, Out
<1>3. QED
  BY <1>1, <1>2 DEF PoolInv

LEMMA SentStep ==
  ASSUME PoolInv, NEW o \in Objects, Sent(o)
  PROVE  PoolInv'
<1>1. TypeOK' /\ PacketOK'
  BY DEF PoolInv, TypeOK, PacketOK, Sent, IsPosted, poolVars
<1>2. QED
  BY <1>1, PacketStep DEF Sent

LEMMA CloseSocketStep ==
  ASSUME PoolInv, CloseSocket
  PROVE  PoolInv'
<1>1. TypeOK' /\ PacketOK'
  BY DEF PoolInv, TypeOK, PacketOK, CloseSocket, IsPosted, poolVars
<1>2. QED
  BY <1>1, PacketStep DEF CloseSocket

(* The object o comes back from the system: the worker w has it, or nobody. *)
LEMMA TakenBack ==
  ASSUME PoolInv, NEW o \in Objects, packet[o] # "none",
         packet' = [packet EXCEPT ![o] = "none"], posted' = [posted EXCEPT ![o] = <<>>],
         UNCHANGED <<poolVars, heap, send, isOpen, unbuffered>>
  PROVE  /\ o \in Out /\ o \in DOMAIN heap /\ Out' = Out \ {o} /\ PacketOK' /\ SendersOK' /\ BytesOK'
         /\ packet' \in [Objects -> {"none", "bytes", "empty"}]
         /\ posted' \in [Objects -> (Senders \X Nat) \cup {<<>>}]
         /\ Pooled' = Pooled /\ Calling' = Calling /\ Sending' = Sending
<1>1. /\ posted \in [Objects -> (Senders \X Nat) \cup {<<>>}]
      /\ packet \in [Objects -> {"none", "bytes", "empty"}]
  BY DEF PoolInv, TypeOK
<1>2. /\ posted' \in [Objects -> (Senders \X Nat) \cup {<<>>}]
      /\ packet' \in [Objects -> {"none", "bytes", "empty"}]
      /\ posted'[o] = <<>> /\ packet'[o] = "none"
      /\ \A q \in Objects : q # o => posted'[q] = posted[q] /\ packet'[q] = packet[q]
  BY <1>1
<1>3. o \in Out /\ o \in DOMAIN heap
  BY InvParts DEF PoolInv, PacketOK, Out
<1>4. Out' = Out \ {o}
  BY <1>2 DEF Out
<1>5. PacketOK'
  BY <1>2 DEF PoolInv, PacketOK
<1>6. SendersOK' /\ Pooled' = Pooled /\ Calling' = Calling /\ Sending' = Sending
  BY DEF PoolInv, SendersOK, SenderOK, PacketSize, Pooled, Calling, Sending, poolVars
<1>7. \A q \in Out' : posted'[q] = posted[q] /\ q \in Out
  BY <1>2, <1>4 DEF Out
<1>8. BytesOK'
  BY <1>7 DEF PoolInv, BytesOK, OwnBytes
<1>9. QED
  BY <1>2, <1>3, <1>4, <1>5, <1>6, <1>8

LEMMA DequeueStep ==
  ASSUME PoolInv, NEW w \in Workers, NEW o \in Objects, Dequeue(w, o)
  PROVE  PoolInv'
<1>1. /\ o \in Out /\ o \in DOMAIN heap /\ Out' = Out \ {o} /\ PacketOK' /\ SendersOK' /\ BytesOK'
      /\ packet' \in [Objects -> {"none", "bytes", "empty"}]
      /\ posted' \in [Objects -> (Senders \X Nat) \cup {<<>>}]
      /\ Pooled' = Pooled /\ Calling' = Calling /\ Sending' = Sending
  BY TakenBack DEF Dequeue
<1>2. worker[w] = NoObject /\ worker' = [worker EXCEPT ![w] = o]
      /\ UNCHANGED <<poolVars, heap, send, isOpen, lost, unbuffered>>
  BY DEF Dequeue
<1>3. worker \in [Workers -> Objects \cup {NoObject}]
  BY DEF PoolInv, TypeOK
<1>4. TypeOK'
  BY <1>1, <1>2, <1>3 DEF PoolInv, TypeOK, poolVars
<1>5. o # NoObject /\ o \notin {worker[v] : v \in Workers} \ {NoObject}
  BY <1>1, NoObjectIsNone, InvParts DEF Split, Working
<1>6. /\ \A v, u \in Workers : worker[v] = worker[u] /\ worker[v] # NoObject => v = u
      /\ worker'[w] = o /\ \A v \in Workers : v # w => worker'[v] = worker[v]
  BY <1>2, <1>3, InvParts DEF Hands
<1>7. /\ \A v, u \in Workers : worker'[v] = worker'[u] /\ worker'[v] # NoObject => v = u
      /\ Working' = Working \cup {o}
  <2>1. PICK f : f = worker
    OBVIOUS
  <2>2. PICK g : g = worker'
    OBVIOUS
  <2>3. /\ \A v, u \in Workers : g[v] = g[u] /\ g[v] # NoObject => v = u
        /\ {g[v] : v \in Workers} \ {NoObject} = ({f[v] : v \in Workers} \ {NoObject}) \cup {o}
    BY <1>2, <1>5, <1>6, <2>1, <2>2, HandTakes
  <2>4. QED
    BY <2>1, <2>2, <2>3 DEF Working
<1>8. Hands'
  BY <1>1, <1>2, <1>7, InvParts DEF Hands, poolVars
<1>9. Split(DOMAIN heap', Pooled', Sending', Out', Working', lost')
  BY <1>1, <1>2, <1>7, InvParts DEF Split
<1>10. QED
  BY <1>1, <1>4, <1>8, <1>9 DEF PoolInv, OnePlace

LEMMA DequeueAbortedStep ==
  ASSUME PoolInv, NEW w \in Workers, NEW o \in Objects, DequeueAborted(w, o)
  PROVE  PoolInv'
<1>1. /\ o \in Out /\ o \in DOMAIN heap /\ Out' = Out \ {o} /\ PacketOK' /\ SendersOK' /\ BytesOK'
      /\ packet' \in [Objects -> {"none", "bytes", "empty"}]
      /\ posted' \in [Objects -> (Senders \X Nat) \cup {<<>>}]
      /\ Pooled' = Pooled /\ Calling' = Calling /\ Sending' = Sending
  BY TakenBack DEF DequeueAborted
<1>2. lost' = lost \cup {o} /\ UNCHANGED <<poolVars, heap, send, worker, isOpen, unbuffered>>
  BY DEF DequeueAborted
<1>3. TypeOK'
  BY <1>1, <1>2 DEF PoolInv, TypeOK, poolVars
<1>4. Hands' /\ Working' = Working
  BY <1>1, <1>2, InvParts DEF Hands, Working, poolVars
<1>5. Split(DOMAIN heap', Pooled', Sending', Out', Working', lost')
  BY <1>1, <1>2, <1>4, InvParts DEF Split
<1>6. QED
  BY <1>1, <1>3, <1>4, <1>5 DEF PoolInv, OnePlace

LEMMA PostSendStep ==
  ASSUME PoolInv, NEW w \in Workers, PostSend(w)
  PROVE  PoolInv'
<1>1. PICK o : o = worker[w]
  OBVIOUS
<1>2. /\ worker[w] # NoObject /\ push(o, heap) /\ worker' = [worker EXCEPT ![w] = NoObject]
      /\ UNCHANGED <<m_nMaxCount, send, netVars, lost, unbuffered>>
  BY <1>1 DEF PostSend
<1>3. worker \in [Workers -> Objects \cup {NoObject}]
  BY DEF PoolInv, TypeOK
<1>4. o \in Working /\ o \in DOMAIN heap /\ o \notin Pooled \cup Sending \cup Out \cup lost
  <2>1. o \in Working
    BY <1>1, <1>2 DEF Working
  <2>2. QED
    BY <2>1, InvParts DEF Split
<1>5. /\ m_objFreeList' \in Seq(Objects) /\ Len(m_objFreeList') <= m_nMaxCount'
      /\ \A i, j \in DOMAIN m_objFreeList' : m_objFreeList'[i] = m_objFreeList'[j] => i = j
      /\ \/ Pooled' = Pooled \cup {o} /\ DOMAIN heap' = DOMAIN heap
         \/ Pooled' = Pooled /\ DOMAIN heap' = DOMAIN heap \ {o}
      /\ \A q \in DOMAIN heap' : heap'[q] = heap[q]
  BY <1>2, <1>4, Pushed
<1>6. /\ DOMAIN heap' \subseteq DOMAIN heap /\ \A q \in DOMAIN heap : q # o => q \in DOMAIN heap'
  BY <1>5
<1>7. TypeOK'
  <2>1. DOMAIN heap' \subseteq Objects /\ \A q \in DOMAIN heap' : heap'[q] \in Object
    BY <1>5, <1>6 DEF PoolInv, TypeOK
  <2>2. lost' \subseteq DOMAIN heap'
    BY <1>2, <1>4, <1>6, InvParts
  <2>3. worker' \in [Workers -> Objects \cup {NoObject}]
    BY <1>2, <1>3
  <2>4. QED
    BY <1>2, <1>5, <2>1, <2>2, <2>3 DEF PoolInv, TypeOK, netVars
<1>8. /\ \A v, u \in Workers : worker'[v] = worker'[u] /\ worker'[v] # NoObject => v = u
      /\ Working' = Working \ {o}
  <2>1. PICK f : f = worker
    OBVIOUS
  <2>2. PICK g : g = worker'
    OBVIOUS
  <2>3. \A v, u \in Workers : f[v] = f[u] /\ f[v] # NoObject => v = u
    BY <2>1, InvParts DEF Hands
  <2>4. g[w] = NoObject /\ f[w] # NoObject /\ \A v \in Workers : v # w => g[v] = f[v]
    BY <1>2, <1>3, <2>1, <2>2
  <2>5. /\ \A v, u \in Workers : g[v] = g[u] /\ g[v] # NoObject => v = u
        /\ {g[v] : v \in Workers} \ {NoObject} = ({f[v] : v \in Workers} \ {NoObject}) \ {f[w]}
    BY <2>3, <2>4, HandGives
  <2>6. QED
    BY <1>1, <2>1, <2>2, <2>5 DEF Working
<1>9. Calling' = Calling /\ Sending' = Sending /\ Out' = Out
  BY <1>2 DEF Calling, Sending, Out, netVars
<1>10. Hands'
  BY <1>5, <1>8, <1>9, InvParts DEF Hands
<1>11. Split(DOMAIN heap', Pooled', Sending', Out', Working', lost')
  <2>1. Split(DOMAIN heap, Pooled, Sending, Out, Working, lost) /\ lost' = lost
    BY <1>2, InvParts
  <2>2. CASE Pooled' = Pooled \cup {o} /\ DOMAIN heap' = DOMAIN heap
    BY <1>4, <1>8, <1>9, <2>1, <2>2 DEF Split
  <2>3. CASE Pooled' = Pooled /\ DOMAIN heap' = DOMAIN heap \ {o}
    BY <1>4, <1>8, <1>9, <2>1, <2>3 DEF Split
  <2>4. QED
    BY <1>5, <2>2, <2>3
<1>12. SendersOK'
  <2> SUFFICES ASSUME NEW s \in Senders PROVE SenderOK(s)'
    BY DEF SendersOK
  <2>1. send'[s] = send[s]
    BY <1>2
  <2>2. send[s].pc = "post" => heap'[send[s].obj].nLen = heap[send[s].obj].nLen
    BY <1>4, <1>5, <1>6, Sender
  <2>3. QED
    BY <2>1, <2>2, SenderStays
<1>13. PacketOK'
  BY <1>2 DEF PoolInv, PacketOK, netVars
<1>14. BytesOK'
  <2>1. \A q \in Out : heap'[q] = heap[q] /\ posted'[q] = posted[q]
    BY <1>2, <1>4, <1>5, <1>6, InvParts DEF netVars
  <2>2. QED
    BY <1>2, <1>5, <1>6, <1>9, <2>1 DEF PoolInv, BytesOK, OwnBytes
<1>15. QED
  BY <1>7, <1>10, <1>11, <1>12, <1>13, <1>14 DEF PoolInv, OnePlace

LEMMA ClearStep ==
  ASSUME PoolInv, clear, m_nMaxCount' \in MaxCounts, isOpen' \in BOOLEAN,
         UNCHANGED <<send, worker, posted, packet, lost, unbuffered>>
  PROVE  PoolInv'
<1>1. /\ m_objFreeList' = <<>> /\ Pooled' = {} /\ DOMAIN heap' = DOMAIN heap \ Pooled
      /\ \A q \in DOMAIN heap' : heap'[q] = heap[q]
  BY Cleared
<1>2. /\ Calling' = Calling /\ Sending' = Sending /\ Out' = Out /\ Working' = Working /\ lost' = lost
  BY DEF Calling, Sending, Out, Working
<1>3. Split(DOMAIN heap', Pooled', Sending', Out', Working', lost')
  BY <1>1, <1>2, InvParts DEF Split
<1>4. Sending \subseteq DOMAIN heap' /\ Out \subseteq DOMAIN heap' /\ lost \subseteq DOMAIN heap'
  BY <1>2, <1>3 DEF Split
<1>5. TypeOK'
  <2>1. m_objFreeList' \in Seq(Objects) /\ Len(m_objFreeList') <= m_nMaxCount'
    BY <1>1, BoundsAssumption
  <2>2. \A q \in DOMAIN heap' : heap'[q] \in Object
    BY <1>1 DEF PoolInv, TypeOK
  <2>3. DOMAIN heap' \subseteq Objects /\ lost' \subseteq DOMAIN heap'
    BY <1>1, <1>4, InvParts
  <2>4. QED
    BY <2>1, <2>2, <2>3 DEF PoolInv, TypeOK
<1>6. Hands'
  BY <1>1, <1>2, InvParts DEF Hands
<1>7. SendersOK'
  <2> SUFFICES ASSUME NEW s \in Senders PROVE SenderOK(s)'
    BY DEF SendersOK
  <2>1. send[s].pc = "post" => heap'[send[s].obj].nLen = heap[send[s].obj].nLen
    BY <1>1, <1>4, Sender
  <2>2. QED
    BY <2>1, SenderStays
<1>8. PacketOK'
  BY DEF PoolInv, PacketOK
<1>9. BytesOK'
  BY <1>1, <1>2, <1>4 DEF PoolInv, BytesOK, OwnBytes
<1>10. QED
  BY <1>3, <1>5, <1>6, <1>7, <1>8, <1>9 DEF PoolInv, OnePlace

LEMMA PoolStep == PoolInv /\ [Next]_vars => PoolInv'
<1> SUFFICES ASSUME PoolInv, [Next]_vars PROVE PoolInv'
  OBVIOUS
<1>1. ASSUME NEW s \in Senders, Send(s) \/ SenderRuns(s) PROVE PoolInv'
  BY <1>1, SendStep, SendBlockingStep, SendPopStep, WSASendToStep DEF SenderRuns
<1>2. ASSUME NEW o \in Objects, Sent(o) \/ \E w \in Workers : Dequeue(w, o) \/ DequeueAborted(w, o)
      PROVE  PoolInv'
  BY <1>2, SentStep, DequeueStep, DequeueAbortedStep
<1>3. ASSUME NEW w \in Workers, PostSend(w) PROVE PoolInv'
  BY <1>3, PostSendStep
<1>4. CASE CloseSocket
  BY <1>4, CloseSocketStep
<1>5. CASE ClosePool \/ Open
  <2>1. m_nMaxCount \in MaxCounts /\ isOpen \in BOOLEAN
    BY DEF PoolInv, TypeOK
  <2>2. /\ clear /\ m_nMaxCount' \in MaxCounts /\ isOpen' \in BOOLEAN
        /\ UNCHANGED <<send, worker, posted, packet, lost, unbuffered>>
    BY <1>5, <2>1 DEF ClosePool, Open, netVars
  <2>3. QED
    BY <2>2, ClearStep
<1>6. CASE UNCHANGED vars
  <2>1. UNCHANGED <<poolVars, heap, send, worker, posted, packet, isOpen, lost, unbuffered>>
    BY <1>6 DEF vars, netVars
  <2>2. TypeOK' /\ PacketOK'
    BY <2>1 DEF PoolInv, TypeOK, PacketOK, poolVars
  <2>3. QED
    BY <2>1, <2>2, PacketStep
<1>7. QED
  BY <1>1, <1>2, <1>3, <1>4, <1>5, <1>6 DEF Next

LEMMA PoolAlways == Spec => []PoolInv
BY PoolInit, PoolStep, PTL DEF Spec

----------------------------------------------------------------------------

(* An object that is allocated is in exactly one place.                    *)
LEMMA OnePlaceEach ==
  ASSUME PoolInv
  PROVE  SendObjectInOnePlace
<1> SUFFICES ASSUME NEW o \in Objects
             PROVE  Cardinality(Places(o)) = IF o \in DOMAIN heap THEN 1 ELSE 0
  BY DEF SendObjectInOnePlace
<1> DEFINE InPool   == {<<"pool", i>> : i \in {i \in DOMAIN m_objFreeList : m_objFreeList[i] = o}}
           InSender == {<<"sender", s>> : s \in {s \in Senders : send[s].obj = o}}
           InPosted == {<<"posted", x>> : x \in {x \in {posted[o]} : x # <<>>}}
           InWorker == {<<"worker", w>> : w \in {w \in Workers : worker[w] = o}}
           InLost   == {<<"lost", x>> : x \in lost \cap {o}}
<1>1. Places(o) = InPool \cup InSender \cup InPosted \cup InWorker \cup InLost
  BY DEF Places
<1>2. Split(DOMAIN heap, Pooled, Sending, Out, Working, lost) /\ Hands /\ o # NoObject
  BY InvParts, NoObjectIsNone
<1>3. /\ o \notin Pooled => InPool = {}
      /\ o \in Pooled => \E x : InPool = {x}
  <2>1. o \notin Pooled => InPool = {}
    BY DEF Pooled
  <2>2. ASSUME o \in Pooled PROVE \E x : InPool = {x}
    <3>1. PICK i \in DOMAIN m_objFreeList : m_objFreeList[i] = o
      BY <2>2 DEF Pooled
    <3>2. {j \in DOMAIN m_objFreeList : m_objFreeList[j] = o} = {i}
      BY <1>2, <3>1 DEF Hands
    <3>3. InPool = {<<"pool", i>>}
      BY <3>2
    <3>4. QED
      BY <3>3
  <2>3. QED
    BY <2>1, <2>2
<1>4. /\ o \notin Sending => InSender = {}
      /\ o \in Sending => \E x : InSender = {x}
  <2>1. \A s \in Senders : Calling[s] = send[s].obj
    BY DEF Calling
  <2>2. o \notin Sending => InSender = {}
    BY <1>2, <2>1 DEF Sending
  <2>3. ASSUME o \in Sending PROVE \E x : InSender = {x}
    <3>1. PICK s \in Senders : send[s].obj = o
      BY <2>1, <2>3 DEF Sending
    <3>2. {t \in Senders : send[t].obj = o} = {s}
      BY <1>2, <2>1, <3>1 DEF Hands
    <3>3. InSender = {<<"sender", s>>}
      BY <3>2
    <3>4. QED
      BY <3>3
  <2>4. QED
    BY <2>2, <2>3
<1>5. /\ o \notin Out => InPosted = {}
      /\ o \in Out => \E x : InPosted = {x}
  <2>1. CASE posted[o] = <<>>
    BY <2>1 DEF Out
  <2>2. CASE posted[o] # <<>>
    <3>1. {x \in {posted[o]} : x # <<>>} = {posted[o]}
      BY <2>2
    <3>2. InPosted = {<<"posted", posted[o]>>}
      BY <3>1
    <3>3. QED
      BY <2>2, <3>2 DEF Out
  <2>3. QED
    BY <2>1, <2>2
<1>6. /\ o \notin Working => InWorker = {}
      /\ o \in Working => \E x : InWorker = {x}
  <2>1. o \notin Working => InWorker = {}
    BY <1>2 DEF Working
  <2>2. ASSUME o \in Working PROVE \E x : InWorker = {x}
    <3>1. PICK w \in Workers : worker[w] = o
      BY <2>2 DEF Working
    <3>2. {v \in Workers : worker[v] = o} = {w}
      BY <1>2, <3>1 DEF Hands
    <3>3. InWorker = {<<"worker", w>>}
      BY <3>2
    <3>4. QED
      BY <3>3
  <2>3. QED
    BY <2>1, <2>2
<1>7. /\ o \notin lost => InLost = {}
      /\ o \in lost => \E x : InLost = {x}
  <2>1. o \in lost => InLost = {<<"lost", o>>}
    OBVIOUS
  <2>2. QED
    BY <2>1
<1> HIDE DEF InPool, InSender, InPosted, InWorker, InLost
<1>8. o \notin DOMAIN heap => Places(o) = {}
  BY <1>1, <1>2, <1>3, <1>4, <1>5, <1>6, <1>7 DEF Split
<1>9. o \in DOMAIN heap => \E x : Places(o) = {x}
  <2> SUFFICES ASSUME o \in DOMAIN heap PROVE \E x : Places(o) = {x}
    OBVIOUS
  <2>1. CASE o \in Pooled
    <3>1. Places(o) = InPool
      BY <1>1, <1>2, <1>4, <1>5, <1>6, <1>7, <2>1 DEF Split
    <3>2. QED
      BY <1>3, <2>1, <3>1
  <2>2. CASE o \in Sending
    <3>1. Places(o) = InSender
      BY <1>1, <1>2, <1>3, <1>5, <1>6, <1>7, <2>2 DEF Split
    <3>2. QED
      BY <1>4, <2>2, <3>1
  <2>3. CASE o \in Out
    <3>1. Places(o) = InPosted
      BY <1>1, <1>2, <1>3, <1>4, <1>6, <1>7, <2>3 DEF Split
    <3>2. QED
      BY <1>5, <2>3, <3>1
  <2>4. CASE o \in Working
    <3>1. Places(o) = InWorker
      BY <1>1, <1>2, <1>3, <1>4, <1>5, <1>7, <2>4 DEF Split
    <3>2. QED
      BY <1>6, <2>4, <3>1
  <2>5. CASE o \in lost
    <3>1. Places(o) = InLost
      BY <1>1, <1>2, <1>3, <1>4, <1>5, <1>6, <2>5 DEF Split
    <3>2. QED
      BY <1>7, <2>5, <3>1
  <2>6. QED
    BY <1>2, <2>1, <2>2, <2>3, <2>4, <2>5 DEF Split
<1>10. o \notin DOMAIN heap => Cardinality(Places(o)) = 0
  BY <1>8, FS_EmptySet
<1>11. o \in DOMAIN heap => Cardinality(Places(o)) = 1
  BY <1>9, FS_Singleton
<1>12. QED
  BY <1>10, <1>11

LEMMA BytesEach ==
  ASSUME PoolInv
  PROVE  BytesStayAsGiven
BY DEF PoolInv, BytesOK, BytesStayAsGiven, IsPosted, Out, OwnBytes

(* The free list of the pool has no more objects in it than m_nMaxCount,   *)
(* and what is recorded of every call, object and packet is of its type    *)
(* (SocketSendPool.h:92-105).                                              *)
THEOREM TypeCorrect == Spec => []TypeOK
<1>1. PoolInv => TypeOK
  BY DEF PoolInv
<1>2. QED
  BY <1>1, PoolAlways, PTL

(* However sends, answers, failures to allocate, PostSend and the closing  *)
(* of the source interleave, a send object that is allocated is in the     *)
(* pool, with one sender, posted, with one worker, or lost, and in only    *)
(* one of these: pop and push hand it on and never share it                *)
(* (SocketSendPool.h:21-105, UdpSource.cpp:314-434).                       *)
THEOREM SendObjectInOnePlaceCorrect == Spec => []SendObjectInOnePlace
BY PoolAlways, OnePlaceEach, PTL

(* As long as every send copies, what Send posted stays in the object's    *)
(* own buffer, with room for it, until the system has sent it: pop lets    *)
(* nobody else have the object, and makes the buffer larger where it must  *)
(* (SocketSendPool.h:39-91, UdpSource.cpp:379-433).                        *)
THEOREM BytesStayAsGivenCorrect == Spec => []BytesStayAsGiven
BY PoolAlways, BytesEach, PTL
=============================================================================
