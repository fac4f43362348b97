------------------------------ MODULE SendPool ------------------------------
(***************************************************************************)
(* CSocketSendPool and the sends that use it: CUdpSource::Send (the loops  *)
(* of the two TCP sources are the same), the workers' PostSend, and Open   *)
(* and Close of the source as far as they touch the pool and the socket.   *)
(*                                                                         *)
(* A send object carries its own buffer behind it, or points to memory of  *)
(* the caller when it sends without copying.  Bytes are represented by the *)
(* thread that sends them.                                                 *)
(***************************************************************************)
EXTENDS Integers, FiniteSets, SequencesExt

CONSTANTS
  Senders,      \* threads that call Send
  Workers,      \* threads of the runner
  NoObject, NoSender,
  Lens,         \* the lengths of what is sent
  SegmentSize,  \* m_nSendBufferSize
  MaxCounts,    \* the values of nMaxCount
  MaxObjects,   \* bound: send objects the heap has room for
  Options,      \* which options the callers use
  Answers       \* which calls may fail

Objects == 1 .. MaxObjects

ASSUME BoundsAssumption ==
  /\ Lens \subseteq Nat /\ MaxCounts \subseteq Nat /\ MaxObjects \in Nat
  /\ SegmentSize \in Nat \ {0}
  /\ Options \subseteq {"block", "segment", "buffer", "nobuffer"}
  /\ Answers \subseteq {"oom", "senderror"}
ASSUME NamesAssumption == NoObject \notin Objects /\ NoSender \notin Senders

VARIABLES
  m_objFreeList,  \* the free objects, oldest first
  m_nMaxCount,
  heap,           \* the objects that are allocated
  send,           \* the call of each sender
  worker,         \* the object each worker gives back, or NoObject
  posted,         \* of each object: <<whose bytes, how many>> it was posted with, or <<>>
  packet,         \* the objects in the port, and whether with bytes
  isOpen,         \* whether the source has a socket
  lost,           \* history: objects that nobody will give back
  unbuffered      \* history: something was sent without a copy

poolVars == <<m_objFreeList, m_nMaxCount>>
netVars  == <<posted, packet, isOpen>>
vars == <<poolVars, heap, send, worker, netVars, lost, unbuffered>>

(* An object: the size of its own buffer, where its pointer leads, and     *)
(* whose bytes its own buffer holds.                                       *)
Object == [nLen : Nat, szBuffer : {"none", "own", "caller"}, own : Senders \cup {NoSender}]

Returned == [pc |-> "idle", left |-> 0, seg |-> 0, block |-> FALSE,
             buffer |-> FALSE, obj |-> NoObject]

Becomes(s, f) == send' = [send EXCEPT ![s] = f]
At(s, label)  == send[s].pc = label
PacketSize(s) == IF send[s].left > send[s].seg THEN send[s].seg ELSE send[s].left

----------------------------------------------------------------------------
(* CSocketSendPool.                                                        *)

NewObject == CHOOSE o \in Objects \ DOMAIN heap : \A q \in Objects \ DOMAIN heap : o <= q

(* Variant: a buffer that is too small is used as it is.                   *)
PopFreeNoGrowth(s, n) ==
  /\ m_objFreeList # <<>>
  /\ m_objFreeList' = Tail(m_objFreeList)
  /\ Becomes(s, [send[s] EXCEPT !.pc = "post", !.obj = Head(m_objFreeList)])
  /\ UNCHANGED <<heap, lost>>

(* pop(n) of a list that is not empty.  The object's buffer is made larger *)
(* where that is needed, and only then does szBuffer lead to it.  Where    *)
(* there is no memory for that, the object is in nobody's hands.           *)
PopFree(s, n) ==
  /\ m_objFreeList # <<>>
  /\ m_objFreeList' = Tail(m_objFreeList)
  /\ LET o == Head(m_objFreeList)
         grow == heap[o].nLen < n
     IN \/ /\ Becomes(s, [send[s] EXCEPT !.pc = "post", !.obj = o])
           /\ heap' = IF grow THEN [heap EXCEPT ![o].nLen = n, ![o].szBuffer = "own"] ELSE heap
           /\ UNCHANGED lost
        \/ /\ grow /\ "oom" \in Answers
           /\ Becomes(s, Returned)
           /\ lost' = lost \cup {o}
           /\ UNCHANGED heap

(* pop(n) of an empty list.                                                *)
PopNew(s, n) ==
  /\ m_objFreeList = <<>>
  /\ \/ /\ DOMAIN heap # Objects
        /\ heap' = [o \in DOMAIN heap \cup {NewObject} |->
                       IF o \in DOMAIN heap THEN heap[o]
                       ELSE [nLen |-> n, szBuffer |-> IF n > 0 THEN "own" ELSE "none", own |-> NoSender]]
        /\ Becomes(s, [send[s] EXCEPT !.pc = "post", !.obj = NewObject])
     \/ /\ DOMAIN heap = Objects \/ "oom" \in Answers
        /\ Becomes(s, Returned)
        /\ UNCHANGED heap
  /\ UNCHANGED <<m_objFreeList, lost>>

(* Variant: an object too many is kept nowhere, and not freed.             *)
PushForgets(o, h) ==
  /\ m_objFreeList' = IF Len(m_objFreeList) < m_nMaxCount THEN Append(m_objFreeList, o)
                                                          ELSE m_objFreeList
  /\ heap' = h

(* Variant: the bound is taken one too high.                               *)
PushOneMore(o, h) ==
  IF Len(m_objFreeList) <= m_nMaxCount
    THEN m_objFreeList' = Append(m_objFreeList, o) /\ heap' = h
    ELSE heap' = Restrict(h, DOMAIN h \ {o}) /\ UNCHANGED m_objFreeList

(* push, of the object o of the heap h.                                    *)
push(o, h) ==
  IF Len(m_objFreeList) < m_nMaxCount
    THEN m_objFreeList' = Append(m_objFreeList, o) /\ heap' = h
    ELSE heap' = Restrict(h, DOMAIN h \ {o}) /\ UNCHANGED m_objFreeList

clear == heap' = Restrict(heap, DOMAIN heap \ ToSet(m_objFreeList)) /\ m_objFreeList' = <<>>

----------------------------------------------------------------------------
(* CUdpSource::Send.                                                       *)

Send(s) ==
  /\ At(s, "idle")
  /\ \E n \in Lens \ {0}, block, segment, buffer \in BOOLEAN :
       /\ block => "block" \in Options /\ ~buffer
       /\ segment => "segment" \in Options
       /\ ~block => (IF buffer THEN "buffer" ELSE "nobuffer") \in Options
       /\ Becomes(s, [send[s] EXCEPT !.pc = "loop", !.left = n, !.block = block, !.buffer = buffer,
                                     !.seg = IF segment THEN SegmentSize ELSE n])
  /\ UNCHANGED <<poolVars, heap, worker, netVars, lost, unbuffered>>

(* The loop goes on while anything is left.                                *)
HasSent(s, n) ==
  Becomes(s, IF send[s].left > n THEN [send[s] EXCEPT !.pc = "loop", !.obj = NoObject, !.left = @ - n]
                                 ELSE Returned)

(* A blocking send uses the caller's memory and no object.                 *)
SendBlocking(s) ==
  /\ At(s, "loop") /\ send[s].block
  /\ \/ isOpen /\ HasSent(s, PacketSize(s))
     \/ (~isOpen \/ "senderror" \in Answers) /\ Becomes(s, Returned)
  /\ UNCHANGED <<poolVars, heap, worker, netVars, lost, unbuffered>>

SendPop(s) ==
  /\ At(s, "loop") /\ ~send[s].block
  /\ LET n == IF send[s].buffer THEN PacketSize(s) ELSE 0
     IN PopFree(s, n) \/ PopNew(s, n)
  /\ UNCHANGED <<m_nMaxCount, worker, netVars, unbuffered>>

(* The heap when the bytes were copied to where szBuffer leads, or         *)
(* szBuffer was made to lead to the bytes.                                 *)
SendCopy(s) ==
  LET o == send[s].obj
  IN IF ~send[s].buffer THEN [heap EXCEPT ![o].szBuffer = "caller"]
     ELSE IF heap[o].szBuffer = "own" THEN [heap EXCEPT ![o].own = s] ELSE heap

(* WSASendTo and what is before and after it.  A send that is pending      *)
(* counts as sent; after any other error the object goes back.             *)
WSASendTo(s) ==
  /\ At(s, "post")
  /\ LET o == send[s].obj
     IN \/ /\ isOpen
           /\ heap' = SendCopy(s)
           /\ posted' = [posted EXCEPT ![o] = <<s, PacketSize(s)>>]
           /\ HasSent(s, PacketSize(s))
           /\ UNCHANGED m_objFreeList
        \/ /\ ~isOpen \/ "senderror" \in Answers
           /\ push(o, SendCopy(s)) /\ Becomes(s, Returned)
           /\ UNCHANGED posted
  /\ unbuffered' = (unbuffered \/ ~send[s].buffer)
  /\ UNCHANGED <<m_nMaxCount, worker, packet, isOpen, lost>>

----------------------------------------------------------------------------
(* The system sends what was posted; the workers give the objects back.    *)

IsPosted(o) == posted[o] # <<>> /\ packet[o] = "none"

Sent(o) ==
  /\ IsPosted(o) /\ isOpen
  /\ packet' = [packet EXCEPT ![o] = "bytes"]
  /\ UNCHANGED <<poolVars, heap, send, worker, posted, isOpen, lost, unbuffered>>

Dequeue(w, o) ==
  /\ worker[w] = NoObject /\ packet[o] = "bytes"
  /\ worker' = [worker EXCEPT ![w] = o]
  /\ packet' = [packet EXCEPT ![o] = "none"]
  /\ posted' = [posted EXCEPT ![o] = <<>>]
  /\ UNCHANGED <<poolVars, heap, send, isOpen, lost, unbuffered>>

(* The packet of a send that was aborted has no bytes: the runner takes no *)
(* more notice of it, and of its object.                                   *)
DequeueAborted(w, o) ==
  /\ worker[w] = NoObject /\ packet[o] = "empty"
  /\ packet' = [packet EXCEPT ![o] = "none"]
  /\ posted' = [posted EXCEPT ![o] = <<>>]
  /\ lost' = lost \cup {o}
  /\ UNCHANGED <<poolVars, heap, send, worker, isOpen, unbuffered>>

PostSend(w) ==
  /\ worker[w] # NoObject
  /\ push(worker[w], heap)
  /\ worker' = [worker EXCEPT ![w] = NoObject]
  /\ UNCHANGED <<m_nMaxCount, send, netVars, lost, unbuffered>>

----------------------------------------------------------------------------
(* The source.  Close closes the socket, which aborts what is outstanding, *)
(* and clears the pool; Open does it first, and then initialises the pool, *)
(* which clears it again.                                                  *)

CloseSocket ==
  /\ isOpen
  /\ isOpen' = FALSE
  /\ packet' = [o \in Objects |-> IF IsPosted(o) THEN "empty" ELSE packet[o]]
  /\ UNCHANGED <<poolVars, heap, send, worker, posted, lost, unbuffered>>

ClosePool ==
  /\ ~isOpen
  /\ clear
  /\ UNCHANGED <<m_nMaxCount, send, worker, netVars, lost, unbuffered>>

Open ==
  /\ ~isOpen
  /\ clear
  /\ m_nMaxCount' \in MaxCounts
  /\ isOpen' = TRUE
  /\ UNCHANGED <<send, worker, posted, packet, lost, unbuffered>>

----------------------------------------------------------------------------

Init ==
  /\ m_objFreeList = <<>> /\ m_nMaxCount \in MaxCounts
  /\ heap = <<>>
  /\ send = [s \in Senders |-> Returned] /\ worker = [w \in Workers |-> NoObject]
  /\ posted = [o \in Objects |-> <<>>] /\ packet = [o \in Objects |-> "none"]
  /\ isOpen = FALSE /\ lost = {} /\ unbuffered = FALSE

SenderRuns(s) ==
  SendBlocking(s) \/ SendPop(s) \/ WSASendTo(s)

Next ==
  \/ \E s \in Senders : Send(s) \/ SenderRuns(s)
  \/ \E o \in Objects : Sent(o) \/ \E w \in Workers : Dequeue(w, o) \/ DequeueAborted(w, o)
  \/ \E w \in Workers : PostSend(w)
  \/ CloseSocket \/ ClosePool \/ Open

Spec == Init /\ [][Next]_vars

----------------------------------------------------------------------------

(* Types, and that the pool keeps no more than it may.                     *)
TypeOK ==
  /\ m_objFreeList \in Seq(Objects) /\ m_nMaxCount \in MaxCounts
  /\ Len(m_objFreeList) <= m_nMaxCount
  /\ DOMAIN heap \subseteq Objects /\ \A o \in DOMAIN heap : heap[o] \in Object
  /\ lost \subseteq DOMAIN heap
  /\ send \in [Senders -> [pc : {"idle", "loop", "post"}, left : Nat,
                           seg : Lens \cup {0, SegmentSize}, block : BOOLEAN, buffer : BOOLEAN,
                           obj : Objects \cup {NoObject}]]
  /\ worker \in [Workers -> Objects \cup {NoObject}]
  /\ posted \in [Objects -> (Senders \X Nat) \cup {<<>>}]
  /\ packet \in [Objects -> {"none", "bytes", "empty"}]
  /\ isOpen \in BOOLEAN /\ unbuffered \in BOOLEAN

(* Every send object that is allocated is in one place: in the pool, with  *)
(* a sender, posted, with a worker - or lost, after an aborted send or a   *)
(* failure to enlarge it.                                                  *)
Places(o) ==
  {<<"pool", i>> : i \in {i \in DOMAIN m_objFreeList : m_objFreeList[i] = o}}
  \cup {<<"sender", s>> : s \in {s \in Senders : send[s].obj = o}}
  \cup {<<"posted", x>> : x \in {x \in {posted[o]} : x # <<>>}}
  \cup {<<"worker", w>> : w \in {w \in Workers : worker[w] = o}}
  \cup {<<"lost", x>> : x \in lost \cap {o}}

SendObjectInOnePlace ==
  \A o \in Objects : Cardinality(Places(o)) = IF o \in DOMAIN heap THEN 1 ELSE 0

(* As long as nothing is sent without a copy, what a buffered send posted  *)
(* stays as it was given until it is sent: in the object's own buffer,     *)
(* which is large enough.                                                  *)
BytesStayAsGiven ==
  ~unbuffered =>
    \A o \in Objects : IsPosted(o) =>
      /\ heap[o].szBuffer = "own" /\ heap[o].own = posted[o][1]
      /\ heap[o].nLen >= posted[o][2]
=============================================================================
