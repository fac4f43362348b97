---------------------------- MODULE BoundedQueue ----------------------------
(***************************************************************************)
(* What CSLMessageQueue promises its users: messages are taken in the      *)
(* order in which they were accepted, complete, and by one reader each.    *)
(* The promise is not unconditional: three uses end it (`broken'), and     *)
(* nothing is said of the queue after that.                                *)
(***************************************************************************)
EXTENDS Integers, Sequences

CONSTANTS Readers, Messages, Sizes, Limits

VARIABLES
  queue,   \* the messages accepted and not taken
  limit,   \* how many there may be, 0 for any number
  got,     \* the message each reader has
  used,    \* a message has left the queue
  broken

vars == <<queue, limit, got, used, broken>>

Init ==
  /\ queue = <<>> /\ limit \in Limits
  /\ got \in [Readers -> {<<>>}]
  /\ ~used /\ ~broken

SetLimit(n) == limit' = n /\ UNCHANGED <<queue, got, used, broken>>

HasRoom == limit = 0 \/ Len(queue) < limit

Enqueue(m) ==
  /\ HasRoom
  /\ queue' = Append(queue, m)
  /\ UNCHANGED <<limit, got, used, broken>>

Dequeue(r) ==
  /\ queue # <<>>
  /\ got' = [got EXCEPT ![r] = Head(queue)]
  /\ queue' = Tail(queue)
  /\ used' = TRUE
  /\ UNCHANGED <<limit, broken>>

Forget(r) == got' = [got EXCEPT ![r] = <<>>] /\ UNCHANGED <<queue, limit, used, broken>>

Clear == queue' = <<>> /\ used' = TRUE /\ UNCHANGED <<limit, got, broken>>

(* What may end the promise: a message of no bytes; a message that lies in *)
(* memory of the heap, and a clearing, once a message has left the queue.  *)
Break(n, heap) ==
  /\ HasRoom
  /\ n = 0 \/ (heap /\ used)
  /\ broken' = TRUE

BreakClear == queue # <<>> /\ used /\ broken' = TRUE

Next ==
  \/ /\ ~broken
     /\ \/ \E n \in Limits : SetLimit(n)
        \/ \E m \in Messages : Enqueue(m)
        \/ \E n \in Sizes, heap \in BOOLEAN : Break(n, heap)
        \/ \E r \in Readers : Dequeue(r) \/ Forget(r)
        \/ Clear \/ BreakClear
  \/ broken /\ broken'

Spec == Init /\ [][Next]_vars
=============================================================================
