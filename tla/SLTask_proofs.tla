---------------------------- MODULE SLTask_proofs ----------------------------
(***************************************************************************)
(* Proofs about SLTask: its state is well typed, no message of an active   *)
(* task is left without a signal, and Close never leaves the queue's lock  *)
(* with a thread it has killed.                                            *)
(*                                                                         *)
(* The second part is about Pools, the kinds of pool that tasks and their  *)
(* queues, sessions and applications take nodes, objects and memory from.  *)
(* The two modules share no constant and no variable, and neither part     *)
(* uses anything of the other.                                             *)
(***************************************************************************)
EXTENDS SLTask, Pools, FiniteSetTheorems, SequenceTheorems, WellFoundedInduction, TLAPS

----------------------------------------------------------------------------
(* Type correctness.                                                       *)

LEMMA ZeroInBounds == 0 \in 0 .. QueueMaxSize /\ 0 \in 0 .. MaxMessages /\ 0 \in 0 .. MaxActivates
BY BoundsAssumption

(* A release keeps the count within the semaphore's maximum.               *)
LEMMA UnLockType ==
  ASSUME TypeOK, UnLock
  PROVE  nCount' \in 0 .. QueueMaxSize /\ worker' \in [Workers -> WorkerStates]
<1>1. QueueMaxSize \in Nat
  BY BoundsAssumption
<1>2. nCount' \in 0 .. QueueMaxSize
  BY <1>1 DEF UnLock, TypeOK
<1>3. worker' \in [Workers -> WorkerStates]
  BY DEF UnLock, TypeOK, WorkerGoes, WorkerStates, Waiting
<1>. QED BY <1>2, <1>3

LEMMA EnqueueType ==
  ASSUME TypeOK, Enqueue
  PROVE  /\ m_msgQueue' \in Seq(Messages)
         /\ nPosted' \in 0 .. MaxMessages
         /\ UNCHANGED <<m_nMaxSize, m_lock>>
<1>1. MaxMessages \in Nat
  BY BoundsAssumption
<1>2. nPosted + 1 \in Messages
  BY <1>1 DEF Enqueue, TypeOK, Messages
<1>3. nPosted' \in 0 .. MaxMessages
  BY <1>1 DEF Enqueue, TypeOK
<1>4. m_msgQueue' \in Seq(Messages)
  BY <1>2 DEF Enqueue, TypeOK
<1>. QED BY <1>3, <1>4 DEF Enqueue

LEMMA InitType == Init => TypeOK
<1>. SUFFICES ASSUME Init PROVE TypeOK
  OBVIOUS
<1>1. m_msgQueue \in Seq(Messages)
  BY DEF Init
<1>2. nCount \in 0 .. QueueMaxSize /\ nPosted \in 0 .. MaxMessages /\ nActivated \in 0 .. MaxActivates
  BY ZeroInBounds DEF Init
<1>3. worker \in [Workers -> WorkerStates] /\ poster \in [Posters -> {"idle", "signal"}]
  BY DEF Init, WorkerStates
<1>. QED BY <1>1, <1>2, <1>3 DEF Init, TypeOK, OwnerStates

LEMMA NextType == TypeOK /\ [Next]_vars => TypeOK'
<1>. SUFFICES ASSUME TypeOK, [Next]_vars PROVE TypeOK'
  OBVIOUS
<1>. USE DEF queueVars, semaphoreVars, ownerVars, countVars, WorkerStates, OwnerStates
<1>0. QueueMaxSize \in Nat /\ MaxMessages \in Nat /\ MaxActivates \in Nat
  BY BoundsAssumption
<1>1. CASE UNCHANGED vars
  BY <1>1 DEF TypeOK, vars
<1>2. ASSUME NEW p \in Posters, PostMessage(p) PROVE TypeOK'
  BY <1>2, EnqueueType DEF PostMessage, TypeOK
<1>3. ASSUME NEW p \in Posters, Signal(p) PROVE TypeOK'
  BY <1>3, UnLockType DEF Signal, TypeOK
<1>4. ASSUME NEW p \in Posters, Push(p) PROVE TypeOK'
  BY <1>4, EnqueueType DEF Push, TypeOK
<1>5. ASSUME NEW p \in Posters, Pop(p) PROVE TypeOK'
  BY <1>5 DEF Pop, TypeOK
<1>6. ASSUME NEW w \in Workers, IsStop(w) PROVE TypeOK'
  BY <1>6 DEF IsStop, TypeOK, WorkerGoes
<1>7. ASSUME NEW w \in Workers, Lock(w) PROVE TypeOK'
  BY <1>0, <1>7 DEF Lock, TypeOK, WorkerGoes
<1>8. ASSUME NEW w \in Workers, GetMessage(w) PROVE TypeOK'
  BY <1>8 DEF GetMessage, TypeOK, WorkerGoes
<1>9. ASSUME NEW w \in Workers, Dequeue(w) PROVE TypeOK'
  <2>1. m_msgQueue' \in Seq(Messages)
    BY <1>9, HeadTailProperties DEF Dequeue, TypeOK
  <2>2. worker' \in [Workers -> WorkerStates]
    BY <1>9 DEF Dequeue, TypeOK, WorkerGoes
  <2>. QED BY <1>9, <2>1, <2>2 DEF Dequeue, TypeOK
<1>10. ASSUME NEW w \in Workers, ProcessMessage(w) PROVE TypeOK'
  BY <1>10 DEF ProcessMessage, TypeOK, WorkerGoes
<1>11. ASSUME Activate PROVE TypeOK'
  BY <1>0, <1>11 DEF Activate, TypeOK
<1>12. ASSUME StartThreads PROVE TypeOK'
  <2>1. Signalled \in SUBSET Workers
    BY DEF Signalled
  <2>2. Cardinality(Signalled) \in Nat
    BY <2>1, ThreadsAssumption, FS_Subset, FS_CardinalityType
  <2>. QED BY <1>12, <2>2 DEF StartThreads, ClearThreads, TypeOK
<1>13. ASSUME Close PROVE TypeOK'
  <2>1. Cardinality(Alive) \in Nat
    BY ThreadsAssumption, FS_Subset, FS_CardinalityType DEF Alive
  <2>. QED BY <1>13, <2>1 DEF Close, TypeOK
<1>14. ASSUME CloseUnLock PROVE TypeOK'
  BY <1>14, UnLockType DEF CloseUnLock, TypeOK
<1>15. ASSUME CloseSemaphore PROVE TypeOK'
  BY ZeroInBounds, <1>15 DEF CloseSemaphore, TypeOK
<1>16. ASSUME Stop PROVE TypeOK'
  BY <1>16 DEF Stop, TypeOK, Alive
<1>17. ASSUME NEW w \in Workers, StopWait(w) PROVE TypeOK'
  BY <1>17 DEF StopWait, TypeOK
<1>18. ASSUME Kill PROVE TypeOK'
  BY <1>18 DEF Kill, ClearThreads, TypeOK
<1>19. ASSUME ClearQueue PROVE TypeOK'
  BY <1>19 DEF ClearQueue, TypeOK
<1>. QED
  BY <1>1, <1>2, <1>3, <1>4, <1>5, <1>6, <1>7, <1>8, <1>9, <1>10, <1>11, <1>12, <1>13,
     <1>14, <1>15, <1>16, <1>17, <1>18, <1>19 DEF Next, Run, Closing

(* The state of the task is always well typed; in particular the count of  *)
(* the semaphore stays within its maximum and no more than QueueMaxSize.   *)
THEOREM TypeCorrect == Spec => []TypeOK
<1>1. Init => TypeOK
  BY InitType
<1>2. TypeOK /\ [Next]_vars => TypeOK'
  BY NextType
<1>. QED BY <1>1, <1>2, PTL DEF Spec
----------------------------------------------------------------------------
(* The lock.  A worker that Stop has waited for is not in the queue and    *)
(* cannot get there again: the command to stop is given, and with the      *)
(* semaphore closed nothing wakes it.  So the lock is left with a thread   *)
(* that was terminated by an Activate or not at all.                       *)

HolderDequeues == \A w \in Workers : m_lock = w <=> worker[w] = "dequeue"
LeftByActivate == m_lock = DeadThread => killed
StopsForGood ==
  /\ owner \in {"stop", "wait"} => ~m_hSemaphore
  /\ owner = "wait" => /\ m_ThreadCmd = "stop"
                       /\ \A w \in Workers \ waitFor :
                            \/ worker[w] \in {"none", "wait", "process", "check"}
                            \/ worker[w] = "get" /\ m_lock = DeadThread
LockInv == TypeOK /\ HolderDequeues /\ LeftByActivate /\ StopsForGood

(* A release moves no worker but one that waits, and only while the        *)
(* semaphore is open.                                                      *)
LEMMA UnLockMoves ==
  ASSUME TypeOK, UnLock
  PROVE  /\ \A w \in Workers : worker[w] # "wait" => worker'[w] = worker[w]
         /\ \A w \in Workers : worker[w] = "wait" => worker'[w] \in {"wait", "get"}
         /\ ~m_hSemaphore => worker' = worker
BY DEF UnLock, TypeOK, WorkerGoes, Waiting

LEMMA UnLockKeepsLock ==
  ASSUME LockInv, UnLock, m_lock' = m_lock, m_hSemaphore' = m_hSemaphore,
         m_ThreadCmd' = m_ThreadCmd, owner' = owner, waitFor' = waitFor, killed' = killed
  PROVE  HolderDequeues' /\ LeftByActivate' /\ StopsForGood'
<1>1. HolderDequeues'
  BY UnLockMoves DEF LockInv, HolderDequeues
<1>2. LeftByActivate'
  BY DEF LockInv, LeftByActivate
<1>3. StopsForGood'
  BY UnLockMoves DEF LockInv, StopsForGood
<1>. QED BY <1>1, <1>2, <1>3

LEMMA InitLock == Init => LockInv
<1>. SUFFICES ASSUME Init PROVE LockInv
  OBVIOUS
<1>1. HolderDequeues /\ LeftByActivate
  BY ThreadsAssumption DEF Init, HolderDequeues, LeftByActivate
<1>. QED BY <1>1, InitType DEF Init, LockInv, StopsForGood

LEMMA NextLock == LockInv /\ [Next]_vars => LockInv'
<1>. SUFFICES ASSUME LockInv, [Next]_vars PROVE LockInv'
  OBVIOUS
<1>. USE DEF queueVars, semaphoreVars, ownerVars, countVars
<1>. DEFINE Rest == HolderDequeues' /\ LeftByActivate' /\ StopsForGood'
<1>0. TypeOK /\ TypeOK'
  BY NextType DEF LockInv
<1>1. CASE UNCHANGED vars
  BY <1>0, <1>1 DEF LockInv, HolderDequeues, LeftByActivate, StopsForGood, vars
<1>2. ASSUME NEW p \in Posters, PostMessage(p) PROVE Rest
  BY <1>2 DEF PostMessage, Enqueue, LockInv, HolderDequeues, LeftByActivate, StopsForGood
<1>3. ASSUME NEW p \in Posters, Signal(p) PROVE Rest
  BY <1>3, UnLockKeepsLock DEF Signal
<1>4. ASSUME NEW p \in Posters, Push(p) PROVE Rest
  BY <1>4 DEF Push, Enqueue, LockInv, HolderDequeues, LeftByActivate, StopsForGood
<1>5. ASSUME NEW p \in Posters, Pop(p) PROVE Rest
  BY <1>5 DEF Pop, LockInv, HolderDequeues, LeftByActivate, StopsForGood
<1>6. ASSUME NEW w \in Workers, IsStop(w) PROVE Rest
  BY <1>0, <1>6 DEF IsStop, WorkerGoes, TypeOK, LockInv, HolderDequeues, LeftByActivate, StopsForGood
<1>7. ASSUME NEW w \in Workers, Lock(w) PROVE Rest
  BY <1>0, <1>7 DEF Lock, WorkerGoes, TypeOK, LockInv, HolderDequeues, LeftByActivate, StopsForGood
<1>8. ASSUME NEW w \in Workers, GetMessage(w) PROVE Rest
  <2>1. \A v \in Workers : worker[v] # "dequeue"
    BY <1>8, ThreadsAssumption DEF GetMessage, LockInv, HolderDequeues
  <2>2. HolderDequeues'
    BY <1>0, <1>8, <2>1 DEF GetMessage, WorkerGoes, TypeOK, HolderDequeues
  <2>3. LeftByActivate' /\ StopsForGood'
    BY <1>0, <1>8, ThreadsAssumption DEF GetMessage, WorkerGoes, TypeOK, LockInv, LeftByActivate, StopsForGood
  <2>. QED BY <2>2, <2>3
<1>9. ASSUME NEW w \in Workers, Dequeue(w) PROVE Rest
  <2>1. \A v \in Workers : v # w => worker[v] # "dequeue"
    BY <1>9 DEF Dequeue, LockInv, HolderDequeues
  <2>2. HolderDequeues'
    BY <1>0, <1>9, <2>1, ThreadsAssumption DEF Dequeue, WorkerGoes, TypeOK, HolderDequeues
  <2>3. LeftByActivate'
    <3>1. m_lock' = NoThread /\ killed' = killed
      BY <1>9 DEF Dequeue
    <3>. QED BY <3>1, ThreadsAssumption DEF LeftByActivate
  <2>4. StopsForGood'
    <3>1. m_lock = w
      BY <1>9 DEF Dequeue, LockInv, HolderDequeues
    <3>2. \A v \in Workers : v # w => worker'[v] = worker[v]
      BY <1>0, <1>9 DEF Dequeue, WorkerGoes, TypeOK
    <3>3. worker'[w] \in {"process", "check"} /\ owner' = owner /\ waitFor' = waitFor
      BY <1>0, <1>9 DEF Dequeue, WorkerGoes, TypeOK
    <3>4. m_lock # DeadThread /\ m_ThreadCmd' = m_ThreadCmd /\ m_hSemaphore' = m_hSemaphore
      BY <1>9, <3>1, ThreadsAssumption DEF Dequeue
    <3>. QED BY <3>1, <3>2, <3>3, <3>4, <1>0, <1>9 DEF Dequeue, LockInv, StopsForGood, TypeOK
  <2>. QED BY <2>2, <2>3, <2>4
<1>10. ASSUME NEW w \in Workers, ProcessMessage(w) PROVE Rest
  BY <1>0, <1>10
     DEF ProcessMessage, WorkerGoes, TypeOK, LockInv, HolderDequeues, LeftByActivate, StopsForGood
<1>11. ASSUME Activate PROVE Rest
  BY <1>0, <1>11 DEF Activate, TypeOK, LockInv, HolderDequeues, LeftByActivate, StopsForGood
<1>12. ASSUME StartThreads PROVE Rest
  <2>1. HolderDequeues'
    BY <1>12, ThreadsAssumption DEF StartThreads, ClearThreads, HolderDequeues
  <2>2. LeftByActivate'
    <3>1. m_lock \in Workers => Alive # {}
      BY <1>12 DEF StartThreads, Alive, LockInv, HolderDequeues
    <3>. QED BY <1>12, <3>1 DEF StartThreads, ClearThreads, LockInv, LeftByActivate
  <2>3. StopsForGood'
    BY <1>12 DEF StartThreads, StopsForGood
  <2>. QED BY <2>1, <2>2, <2>3
<1>13. ASSUME Close PROVE Rest
  BY <1>13 DEF Close, LockInv, HolderDequeues, LeftByActivate, StopsForGood
<1>14. ASSUME CloseUnLock PROVE Rest
  BY <1>14, UnLockKeepsLock DEF CloseUnLock
<1>15. ASSUME CloseSemaphore PROVE Rest
  BY <1>15 DEF CloseSemaphore, LockInv, HolderDequeues, LeftByActivate, StopsForGood
<1>16. ASSUME Stop PROVE Rest
  BY <1>16 DEF Stop, Alive, LockInv, HolderDequeues, LeftByActivate, StopsForGood
<1>17. ASSUME NEW w \in Workers, StopWait(w) PROVE Rest
  BY <1>17 DEF StopWait, LockInv, HolderDequeues, LeftByActivate, StopsForGood
<1>18. ASSUME Kill PROVE Rest
  <2>1. m_lock \notin Workers
    BY <1>18 DEF Kill, LockInv, HolderDequeues, StopsForGood
  <2>. QED BY <1>18, <2>1 DEF Kill, ClearThreads, LockInv, HolderDequeues, LeftByActivate, StopsForGood
<1>19. ASSUME ClearQueue PROVE Rest
  BY <1>19 DEF ClearQueue, LockInv, HolderDequeues, LeftByActivate, StopsForGood
<1>. QED
  BY <1>0, <1>1, <1>2, <1>3, <1>4, <1>5, <1>6, <1>7, <1>8, <1>9, <1>10, <1>11, <1>12, <1>13,
     <1>14, <1>15, <1>16, <1>17, <1>18, <1>19 DEF Next, Run, Closing, LockInv

(* Whatever the application calls and whenever, the thread that holds the  *)
(* lock of the queue is one that runs and is about to release it: Close    *)
(* kills none that holds it.  Only an Activate of a task whose threads     *)
(* live may have terminated the holder (SLTask.h:67-78,                    *)
(* ThreadGroup.cpp:45, 86-123).                                            *)
THEOREM LockHolderIsAliveCorrect == Spec => []LockHolderIsAlive
<1>1. LockInv => LockHolderIsAlive
  BY DEF LockInv, HolderDequeues, LeftByActivate, LockHolderIsAlive
<1>. QED BY <1>1, InitLock, NextLock, PTL DEF Spec

----------------------------------------------------------------------------
(* The signals.  A release that finds the semaphore full is lost; then the *)
(* count alone covers the queue, which holds no more than QueueMaxSize     *)
(* messages beside those that were never to be signalled.                  *)

QueueFits ==
  m_hSemaphore => /\ m_nMaxSize = QueueMaxSize /\ QueueMaxSize > 0
                  /\ Len(m_msgQueue) <= QueueMaxSize + nUnsignalled
SignalInv == LockInv /\ QueueFits /\ NoMessageUnsignalled

LEMMA SignalledFinite ==
  /\ IsFiniteSet(Signalled) /\ Cardinality(Signalled) \in Nat
  /\ IsFiniteSet(Signalling) /\ Cardinality(Signalling) \in Nat
<1>1. Signalled \in SUBSET Workers /\ Signalling \in SUBSET Posters
  BY DEF Signalled, Signalling
<1>. QED BY <1>1, ThreadsAssumption, FS_Subset, FS_CardinalityType

LEMMA WorkerIsSignalled ==
  ASSUME TypeOK, NEW w \in Workers, WorkerGoes(w, "get"), w \notin Signalled
  PROVE  Cardinality(Signalled') = Cardinality(Signalled) + 1
<1>1. Signalled' = Signalled \cup {w}
  BY DEF Signalled, TypeOK, WorkerGoes
<1>. QED BY <1>1, SignalledFinite, FS_AddElement

LEMMA WorkerUsesSignal ==
  ASSUME TypeOK, NEW w \in Signalled, NEW label, label \notin {"get", "dequeue"},
         WorkerGoes(w, label)
  PROVE  Cardinality(Signalled') = Cardinality(Signalled) - 1
<1>1. Signalled' = Signalled \ {w}
  BY DEF Signalled, TypeOK, WorkerGoes
<1>. QED BY <1>1, SignalledFinite, FS_RemoveElement

LEMMA WorkerMovesOn ==
  ASSUME TypeOK, NEW w \in Workers, NEW label, WorkerGoes(w, label),
         w \in Signalled <=> label \in {"get", "dequeue"}
  PROVE  Signalled' = Signalled
BY DEF Signalled, TypeOK, WorkerGoes

(* A release is received by a worker, counted, or lost at the maximum.     *)
LEMMA UnLockSignals ==
  ASSUME TypeOK, UnLock, m_hSemaphore
  PROVE  \/ nCount' + Cardinality(Signalled') = nCount + Cardinality(Signalled) + 1
         \/ nCount' = QueueMaxSize /\ Signalled' = Signalled
<1>1. QueueMaxSize \in Nat
  BY BoundsAssumption
<1>2. CASE \E w \in Waiting : WorkerGoes(w, "get") /\ UNCHANGED nCount
  <2>1. PICK w \in Waiting : WorkerGoes(w, "get") /\ UNCHANGED nCount
    BY <1>2
  <2>2. w \in Workers /\ w \notin Signalled
    BY DEF Waiting, Signalled
  <2>3. Cardinality(Signalled') = Cardinality(Signalled) + 1
    BY <2>1, <2>2, WorkerIsSignalled
  <2>. QED BY <1>1, <2>1, <2>3, SignalledFinite DEF TypeOK
<1>3. CASE UNCHANGED worker /\ nCount' = IF nCount < QueueMaxSize THEN nCount + 1 ELSE nCount
  <2>1. Signalled' = Signalled
    BY <1>3 DEF Signalled
  <2>. QED BY <1>1, <1>3, <2>1, SignalledFinite DEF TypeOK
<1>. QED BY <1>2, <1>3 DEF UnLock

LEMMA InitSignal == Init => SignalInv
<1>. SUFFICES ASSUME Init PROVE SignalInv
  OBVIOUS
<1>. QED BY InitLock DEF Init, SignalInv, QueueFits, NoMessageUnsignalled

(* An accepted message finds room, and its poster is about to signal it.   *)
LEMMA PostMessageSignals ==
  ASSUME SignalInv, NEW p \in Posters, PostMessage(p)
  PROVE  QueueFits' /\ NoMessageUnsignalled'
<1>. USE DEF semaphoreVars, ownerVars
<1>0. TypeOK /\ QueueMaxSize \in Nat
  BY BoundsAssumption DEF SignalInv, LockInv
<1>1. Len(m_msgQueue') = Len(m_msgQueue) + 1 /\ Len(m_msgQueue) \in Nat
  BY <1>0 DEF PostMessage, Enqueue, TypeOK
<1>2. Signalling' = Signalling \cup {p} /\ p \notin Signalling
  BY <1>0 DEF PostMessage, Signalling, TypeOK
<1>3. Cardinality(Signalling') = Cardinality(Signalling) + 1
  BY <1>2, SignalledFinite, FS_AddElement
<1>4. Signalled' = Signalled
  BY DEF PostMessage, Signalled
<1>5. QueueFits'
  BY <1>0, <1>1 DEF PostMessage, Enqueue, SignalInv, QueueFits, TypeOK
<1>6. NoMessageUnsignalled'
  BY <1>0, <1>1, <1>3, <1>4, SignalledFinite
     DEF PostMessage, SignalInv, NoMessageUnsignalled, TypeOK
<1>. QED BY <1>5, <1>6

LEMMA SignalSignals ==
  ASSUME SignalInv, NEW p \in Posters, Signal(p)
  PROVE  QueueFits' /\ NoMessageUnsignalled'
<1>. USE DEF queueVars, ownerVars
<1>0. TypeOK /\ QueueMaxSize \in Nat /\ Len(m_msgQueue) \in Nat
  BY BoundsAssumption DEF SignalInv, LockInv, TypeOK
<1>1. Signalling' = Signalling \ {p} /\ p \in Signalling
  BY <1>0 DEF Signal, Signalling, TypeOK
<1>2. Cardinality(Signalling') = Cardinality(Signalling) - 1
  BY <1>1, SignalledFinite, FS_RemoveElement
<1>3. Cardinality(Signalling') \in Nat /\ Cardinality(Signalled') \in Nat
  <2>1. Signalled' \in SUBSET Workers /\ Signalling' \in SUBSET Posters
    BY DEF Signalled, Signalling
  <2>. QED BY <2>1, ThreadsAssumption, FS_Subset, FS_CardinalityType
<1>4. CASE ~m_hSemaphore
  BY <1>4 DEF Signal, QueueFits, NoMessageUnsignalled
<1>5. CASE m_hSemaphore
  <2>1. \/ nCount' + Cardinality(Signalled') = nCount + Cardinality(Signalled) + 1
        \/ nCount' = QueueMaxSize /\ Signalled' = Signalled
    BY <1>0, <1>5, UnLockSignals DEF Signal
  <2>2. nCount' \in 0 .. QueueMaxSize
    BY <1>0, UnLockType DEF Signal
  <2>3. UNCHANGED <<m_msgQueue, m_nMaxSize, m_hSemaphore, nUnsignalled>>
    BY <1>5 DEF Signal
  <2>4. QueueFits'
    BY <2>3 DEF SignalInv, QueueFits
  <2>5. /\ Len(m_msgQueue) <= QueueMaxSize + nUnsignalled
        /\ Len(m_msgQueue) <= nCount + Cardinality(Signalled) + Cardinality(Signalling) + nUnsignalled
    BY <1>5 DEF SignalInv, QueueFits, NoMessageUnsignalled
  <2>6. nCount \in Nat /\ nUnsignalled \in Nat /\ nCount' \in Nat
    BY <1>0, <2>2 DEF TypeOK
  <2>7. Len(m_msgQueue) <= nCount' + Cardinality(Signalled') + Cardinality(Signalling') + nUnsignalled
    <3>1. CASE nCount' + Cardinality(Signalled') = nCount + Cardinality(Signalled) + 1
      BY <1>0, <1>2, <1>3, <2>5, <2>6, <3>1, SignalledFinite
    <3>2. CASE nCount' = QueueMaxSize
      BY <1>0, <1>3, <2>5, <2>6, <3>2
    <3>. QED BY <2>1, <3>1, <3>2
  <2>8. NoMessageUnsignalled'
    BY <2>3, <2>7 DEF NoMessageUnsignalled
  <2>. QED BY <2>4, <2>8
<1>. QED BY <1>4, <1>5

LEMMA CloseUnLockSignals ==
  ASSUME SignalInv, CloseUnLock
  PROVE  QueueFits' /\ NoMessageUnsignalled'
<1>. USE DEF queueVars, countVars
<1>0. TypeOK /\ QueueMaxSize \in Nat /\ Len(m_msgQueue) \in Nat
  BY BoundsAssumption DEF SignalInv, LockInv, TypeOK
<1>1. UNCHANGED <<m_msgQueue, m_nMaxSize, m_hSemaphore, nUnsignalled>> /\ Signalling' = Signalling
  BY DEF CloseUnLock, Signalling
<1>2. QueueFits'
  BY <1>1 DEF SignalInv, QueueFits
<1>3. CASE ~m_hSemaphore
  BY <1>1, <1>2, <1>3 DEF NoMessageUnsignalled
<1>4. CASE m_hSemaphore
  <2>1. \/ nCount' + Cardinality(Signalled') = nCount + Cardinality(Signalled) + 1
        \/ nCount' = QueueMaxSize /\ Signalled' = Signalled
    BY <1>0, <1>4, UnLockSignals DEF CloseUnLock
  <2>2. nCount' \in 0 .. QueueMaxSize
    BY <1>0, UnLockType DEF CloseUnLock
  <2>3. Signalled' \in SUBSET Workers
    BY DEF Signalled
  <2>4. Cardinality(Signalled') \in Nat
    BY <2>3, ThreadsAssumption, FS_Subset, FS_CardinalityType
  <2>5. /\ Len(m_msgQueue) <= QueueMaxSize + nUnsignalled
        /\ Len(m_msgQueue) <= nCount + Cardinality(Signalled) + Cardinality(Signalling) + nUnsignalled
    BY <1>4 DEF SignalInv, QueueFits, NoMessageUnsignalled
  <2>6. nCount \in Nat /\ nUnsignalled \in Nat /\ nCount' \in Nat
    BY <1>0, <2>2 DEF TypeOK
  <2>7. Len(m_msgQueue) <= nCount' + Cardinality(Signalled') + Cardinality(Signalling) + nUnsignalled
    <3>1. CASE nCount' + Cardinality(Signalled') = nCount + Cardinality(Signalled) + 1
      <4>1. nCount' + Cardinality(Signalled') + Cardinality(Signalling) + nUnsignalled
              = nCount + Cardinality(Signalled) + Cardinality(Signalling) + nUnsignalled + 1
        BY <2>4, <2>6, <3>1, SignalledFinite
      <4>2. QED BY <1>0, <2>5, <2>6, <4>1, SignalledFinite
    <3>2. CASE nCount' = QueueMaxSize
      BY <1>0, <2>4, <2>5, <2>6, <3>2, SignalledFinite
    <3>. QED BY <2>1, <3>1, <3>2
  <2>8. NoMessageUnsignalled'
    BY <1>1, <2>7 DEF NoMessageUnsignalled
  <2>. QED BY <1>2, <2>8
<1>. QED BY <1>3, <1>4

(* A worker that takes a signal from the semaphore carries it to the       *)
(* queue, and uses it up with the message it takes.                        *)
LEMMA LockSignals ==
  ASSUME SignalInv, NEW w \in Workers, Lock(w)
  PROVE  QueueFits' /\ NoMessageUnsignalled'
<1>. USE DEF queueVars, ownerVars, countVars
<1>0. TypeOK /\ QueueMaxSize \in Nat /\ Len(m_msgQueue) \in Nat
  BY BoundsAssumption DEF SignalInv, LockInv, TypeOK
<1>1. UNCHANGED <<m_msgQueue, m_nMaxSize, m_hSemaphore, nUnsignalled>> /\ Signalling' = Signalling
  BY DEF Lock, Signalling
<1>2. QueueFits'
  BY <1>1 DEF SignalInv, QueueFits
<1>3. w \notin Signalled
  BY DEF Lock, Signalled
<1>4. CASE ~m_hSemaphore
  BY <1>1, <1>2, <1>4 DEF NoMessageUnsignalled
<1>5. CASE m_hSemaphore /\ nCount > 0
  <2>1. nCount' = nCount - 1 /\ Cardinality(Signalled') = Cardinality(Signalled) + 1
    BY <1>0, <1>3, <1>5, WorkerIsSignalled DEF Lock
  <2>2. NoMessageUnsignalled'
    BY <1>0, <1>1, <2>1, SignalledFinite DEF SignalInv, NoMessageUnsignalled, TypeOK
  <2>. QED BY <1>2, <2>2
<1>6. CASE m_hSemaphore /\ nCount = 0
  <2>1. nCount' = nCount /\ Signalled' = Signalled
    BY <1>0, <1>3, <1>6, WorkerMovesOn DEF Lock
  <2>2. NoMessageUnsignalled'
    BY <1>1, <2>1 DEF SignalInv, NoMessageUnsignalled
  <2>. QED BY <1>2, <2>2
<1>. QED BY <1>4, <1>5, <1>6 DEF Lock

LEMMA DequeueSignals ==
  ASSUME SignalInv, NEW w \in Workers, Dequeue(w)
  PROVE  QueueFits' /\ NoMessageUnsignalled'
<1>. USE DEF semaphoreVars, ownerVars, countVars
<1>0. TypeOK /\ QueueMaxSize \in Nat /\ Len(m_msgQueue) \in Nat
  BY BoundsAssumption DEF SignalInv, LockInv, TypeOK
<1>1. /\ UNCHANGED <<m_nMaxSize, m_hSemaphore, nCount, nUnsignalled>>
      /\ Signalling' = Signalling /\ w \in Signalled
  BY DEF Dequeue, Signalling, Signalled
<1>2. Cardinality(Signalled') = Cardinality(Signalled) - 1
  BY <1>0, <1>1, WorkerUsesSignal DEF Dequeue
<1>3. Cardinality(Signalled') \in Nat
  <2>1. Signalled' \in SUBSET Workers
    BY DEF Signalled
  <2>. QED BY <2>1, ThreadsAssumption, FS_Subset, FS_CardinalityType
<1>4. nCount \in Nat /\ nUnsignalled \in Nat
  BY <1>0 DEF TypeOK
<1>5. \/ Len(m_msgQueue') = Len(m_msgQueue) - 1
      \/ Len(m_msgQueue') = 0
  BY <1>0, HeadTailProperties DEF Dequeue, TypeOK
<1>6. QueueFits'
  BY <1>0, <1>1, <1>4, <1>5 DEF SignalInv, QueueFits
<1>7. m_hSemaphore =>
        Len(m_msgQueue) <= nCount + Cardinality(Signalled) + Cardinality(Signalling) + nUnsignalled
  BY DEF SignalInv, NoMessageUnsignalled
<1>8. m_hSemaphore =>
        Len(m_msgQueue') <= nCount + Cardinality(Signalled') + Cardinality(Signalling) + nUnsignalled
  BY <1>0, <1>2, <1>3, <1>4, <1>5, <1>7, SignalledFinite
<1>9. NoMessageUnsignalled'
  BY <1>1, <1>8 DEF NoMessageUnsignalled
<1>. QED BY <1>6, <1>9

(* Push accounts for its message itself, and Pop only shortens the queue.  *)
LEMMA PushSignals ==
  ASSUME SignalInv, NEW p \in Posters, Push(p)
  PROVE  QueueFits' /\ NoMessageUnsignalled'
<1>. USE DEF semaphoreVars, ownerVars
<1>0. TypeOK /\ QueueMaxSize \in Nat
  BY BoundsAssumption DEF SignalInv, LockInv
<1>1. Len(m_msgQueue') = Len(m_msgQueue) + 1 /\ Len(m_msgQueue) \in Nat
  BY <1>0 DEF Push, Enqueue, TypeOK
<1>2. Signalled' = Signalled /\ Signalling' = Signalling
  BY DEF Push, Signalled, Signalling
<1>3. QueueFits'
  BY <1>0, <1>1 DEF Push, Enqueue, SignalInv, QueueFits, TypeOK
<1>4. NoMessageUnsignalled'
  BY <1>0, <1>1, <1>2, SignalledFinite DEF Push, SignalInv, NoMessageUnsignalled, TypeOK
<1>. QED BY <1>3, <1>4

LEMMA PopSignals ==
  ASSUME SignalInv, NEW p \in Posters, Pop(p)
  PROVE  QueueFits' /\ NoMessageUnsignalled'
<1>. USE DEF semaphoreVars, ownerVars, countVars
<1>0. TypeOK /\ QueueMaxSize \in Nat
  BY BoundsAssumption DEF SignalInv, LockInv
<1>1. Len(m_msgQueue') = Len(m_msgQueue) - 1 /\ Len(m_msgQueue) \in Nat
  BY <1>0, HeadTailProperties DEF Pop, TypeOK
<1>2. Signalled' = Signalled /\ Signalling' = Signalling
  BY DEF Pop, Signalled, Signalling
<1>3. QueueFits'
  BY <1>0, <1>1 DEF Pop, SignalInv, QueueFits, TypeOK
<1>4. NoMessageUnsignalled'
  BY <1>0, <1>1, <1>2, SignalledFinite DEF Pop, SignalInv, NoMessageUnsignalled, TypeOK
<1>. QED BY <1>3, <1>4

LEMMA NextSignal == SignalInv /\ [Next]_vars => SignalInv'
<1>. SUFFICES ASSUME SignalInv, [Next]_vars PROVE SignalInv'
  OBVIOUS
<1>. USE DEF queueVars, semaphoreVars, ownerVars, countVars
<1>. DEFINE Rest == QueueFits' /\ NoMessageUnsignalled'
            Steady == UNCHANGED <<m_msgQueue, m_nMaxSize, m_hSemaphore, nCount, poster, nUnsignalled>>
<1>0. TypeOK /\ LockInv'
  BY NextLock DEF SignalInv, LockInv
<1>1. ASSUME Steady, Signalled' = Signalled PROVE Rest
  <2>1. Signalling' = Signalling
    BY <1>1 DEF Signalling
  <2>. QED BY <1>1, <2>1 DEF SignalInv, QueueFits, NoMessageUnsignalled
<1>2. ASSUME UNCHANGED vars PROVE Rest
  BY <1>1, <1>2 DEF vars, Signalled
<1>3. ASSUME NEW w \in Workers, Run(w) PROVE Rest
  <2>1. CASE IsStop(w)
    <3>1. Signalled' = Signalled
      BY <1>0, <2>1 DEF IsStop, Signalled, WorkerGoes, TypeOK
    <3>. QED BY <1>1, <2>1, <3>1 DEF IsStop
  <2>2. CASE GetMessage(w)
    <3>1. Signalled' = Signalled
      BY <1>0, <2>2 DEF GetMessage, Signalled, WorkerGoes, TypeOK
    <3>. QED BY <1>1, <2>2, <3>1 DEF GetMessage
  <2>3. CASE ProcessMessage(w)
    <3>1. Signalled' = Signalled
      BY <1>0, <2>3 DEF ProcessMessage, Signalled, WorkerGoes, TypeOK
    <3>. QED BY <1>1, <2>3, <3>1 DEF ProcessMessage
  <2>. QED BY <1>3, <2>1, <2>2, <2>3, LockSignals, DequeueSignals DEF Run
<1>4. ASSUME Activate PROVE Rest
  <2>1. QueueMaxSize \in Nat /\ Len(m_msgQueue) \in Nat
    BY <1>0, BoundsAssumption DEF TypeOK
  <2>2. Signalled' = Signalled /\ Signalling' = Signalling
    BY <1>0, <1>4 DEF Activate, TypeOK, Signalled, Signalling
  <2>3. QueueFits'
    <3>1. m_hSemaphore' => QueueMaxSize > 0
      BY <1>4 DEF Activate
    <3>2. m_nMaxSize' = QueueMaxSize /\ Len(m_msgQueue') <= QueueMaxSize + nUnsignalled'
      BY <1>4, <2>1 DEF Activate
    <3>. QED BY <3>1, <3>2 DEF QueueFits
  <2>4. NoMessageUnsignalled'
    BY <1>4, <2>1, <2>2, SignalledFinite DEF Activate, NoMessageUnsignalled
  <2>. QED BY <2>3, <2>4
<1>5. ASSUME StartThreads PROVE Rest
  <2>1. Signalled' = {} /\ Signalling' = Signalling
    BY <1>5 DEF StartThreads, Signalled, Signalling
  <2>2. Cardinality(Signalled') = 0
    BY <2>1, FS_EmptySet
  <2>3. /\ UNCHANGED <<m_msgQueue, m_nMaxSize, m_hSemaphore, nCount>>
        /\ nUnsignalled' = nUnsignalled + Cardinality(Signalled)
    BY <1>5 DEF StartThreads
  <2>4. nUnsignalled \in Nat /\ nCount \in Nat /\ QueueMaxSize \in Nat /\ Len(m_msgQueue) \in Nat
    BY <1>0, BoundsAssumption DEF TypeOK
  <2>5. QueueFits'
    BY <2>3, <2>4, SignalledFinite DEF SignalInv, QueueFits
  <2>6. NoMessageUnsignalled'
    BY <2>1, <2>2, <2>3, <2>4, SignalledFinite DEF SignalInv, NoMessageUnsignalled
  <2>. QED BY <2>5, <2>6
<1>6. ASSUME Close PROVE Rest
  BY <1>1, <1>6 DEF Close, Signalled
<1>7. ASSUME CloseSemaphore PROVE Rest
  BY <1>7 DEF CloseSemaphore, QueueFits, NoMessageUnsignalled
<1>8. ASSUME Stop PROVE Rest
  BY <1>1, <1>8 DEF Stop, Signalled
<1>9. ASSUME NEW w \in Workers, StopWait(w) PROVE Rest
  BY <1>1, <1>9 DEF StopWait, Signalled
<1>10. ASSUME Kill PROVE Rest
  BY <1>10 DEF Kill, SignalInv, LockInv, StopsForGood, QueueFits, NoMessageUnsignalled
<1>11. ASSUME ClearQueue PROVE Rest
  <2>1. Len(m_msgQueue') = 0
    BY <1>11 DEF ClearQueue
  <2>2. Signalled' = Signalled /\ Signalling' = Signalling
    BY <1>11 DEF ClearQueue, Signalled, Signalling
  <2>3. nCount \in Nat /\ nUnsignalled \in Nat /\ QueueMaxSize \in Nat
    BY <1>0, BoundsAssumption DEF TypeOK
  <2>. QED BY <1>11, <2>1, <2>2, <2>3, SignalledFinite
           DEF ClearQueue, SignalInv, QueueFits, NoMessageUnsignalled
<1>. QED
  BY <1>0, <1>2, <1>3, <1>4, <1>5, <1>6, <1>7, <1>8, <1>9, <1>10, <1>11, PostMessageSignals,
     SignalSignals, PushSignals, PopSignals, CloseUnLockSignals DEF Next, Closing, SignalInv

(* For any number of posters and workers and any size of the queue, an     *)
(* active task never holds a message that no signal leads a worker to      *)
(* (SLTask.h:42-49, 103-113).                                              *)
THEOREM NoMessageUnsignalledCorrect == Spec => []NoMessageUnsignalled
<1>1. SignalInv => NoMessageUnsignalled
  BY DEF SignalInv
<1>. QED BY <1>1, InitSignal, NextSignal, PTL DEF Spec

----------------------------------------------------------------------------
(* The pools: what a heap, a list and an object are, step by step.         *)

(* Two objects share no cell.                                              *)
Apart(o, q) == \/ o.chunk # q.chunk
               \/ o.first + o.size <= q.first
               \/ q.first + q.size <= o.first

(* What Apart means: no cell of one is a cell of the other.                *)
LEMMA ApartObjects ==
  ASSUME NEW o \in AnyObject, NEW q \in AnyObject
  PROVE  Apart(o, q) <=> CellsOf(o) \cap CellsOf(q) = {}
<1>0. /\ o.first \in Nat \ {0} /\ o.size \in Nat \ {0} /\ q.first \in Nat \ {0}
          /\ q.size \in Nat \ {0}
  BY DEF AnyObject
<1>1. ASSUME Apart(o, q), NEW x \in CellsOf(o), x \in CellsOf(q) PROVE FALSE
  <2>1. PICK i \in o.first .. o.first + o.size - 1 : x = <<o.chunk, i>>
    BY <1>1 DEF CellsOf
  <2>2. PICK j \in q.first .. q.first + q.size - 1 : x = <<q.chunk, j>>
    BY <1>1 DEF CellsOf
  <2>3. o.chunk = q.chunk /\ i = j
    BY <2>1, <2>2
  <2>4. QED
    BY <1>0, <1>1, <2>3 DEF Apart
<1>2. ASSUME ~Apart(o, q) PROVE CellsOf(o) \cap CellsOf(q) # {}
  <2>1. PICK i : i = IF o.first <= q.first THEN q.first ELSE o.first
    OBVIOUS
  <2>2. i \in o.first .. o.first + o.size - 1 /\ i \in q.first .. q.first + q.size - 1
         /\ o.chunk = q.chunk
    BY <1>0, <1>2, <2>1 DEF Apart
  <2>3. <<o.chunk, i>> \in CellsOf(o) /\ <<o.chunk, i>> \in CellsOf(q)
    BY <2>2 DEF CellsOf
  <2>4. QED
    BY <2>3
<1>3. QED
  BY <1>1, <1>2

(* Every nonempty set of naturals has a least element.                     *)
LEMMA Least ==
  ASSUME NEW T, T \subseteq Nat, T # {}
  PROVE  \E x \in T : \A y \in T : x <= y
<1> DEFINE R == OpToRel(<, Nat)
<1>1. IsWellFoundedOn(R, Nat)
  BY NatLessThanWellFounded
<1>2. PICK x \in T : \A y \in T : ~ (<<y, x>> \in R)
  <2> HIDE DEF R
  <2> QED
    BY <1>1, WFMin
<1>3. \A y \in T : ~ (y < x)
  BY <1>2 DEF OpToRel
<1>4. QED
  BY <1>3

(* Of n numbers one is the i-th smallest, for each i of 1 .. n.            *)
LEMMA Ranked ==
  ASSUME NEW N \in Nat, NEW S, S \subseteq 1 .. N, NEW i \in Nat \ {0}, i <= Cardinality(S)
  PROVE  \E c \in S : Cardinality({d \in S : d < c}) = i - 1
<1> DEFINE Below(m) == {d \in S : d < m}
           T == {m \in Nat : Cardinality(Below(m)) >= i}
<1>0. \A d \in S : d \in Int /\ 1 <= d /\ d <= N
  OBVIOUS
<1>1. IsFiniteSet(S)
  <2>1. IsFiniteSet(1 .. N) /\ S \in SUBSET (1 .. N)
    BY FS_Interval
  <2>2. QED
    BY <2>1, FS_Subset
<1>2. \A m : IsFiniteSet(Below(m)) /\ Cardinality(Below(m)) \in Nat
  <2>1. SUFFICES ASSUME NEW m PROVE IsFiniteSet(Below(m)) /\ Cardinality(Below(m)) \in Nat
    OBVIOUS
  <2>2. Below(m) \in SUBSET S
    OBVIOUS
  <2>3. QED
    BY <1>1, <2>2, FS_Subset, FS_CardinalityType
<1>3. N + 1 \in T
  <2>0. \A d \in S : d < N + 1
    BY <1>0
  <2>1. Below(N + 1) = S
    BY <2>0
  <2>2. QED
    BY <2>1
<1>4. PICK m \in T : \A y \in T : m <= y
  <2>1. T \subseteq Nat /\ T # {}
    BY <1>3
  <2> HIDE DEF T
  <2>2. QED
    BY <2>1, Least
<1>5. m # 0
  <2>1. SUFFICES ASSUME m = 0 PROVE FALSE
    OBVIOUS
  <2>0. \A d \in S : ~(d < m)
    BY <1>0, <2>1
  <2>2. Below(m) = {}
    BY <2>0
  <2>3. Cardinality(Below(m)) = 0
    BY <2>2, FS_EmptySet
  <2>4. QED
    BY <2>3
<1>6. m - 1 \in Nat /\ m - 1 \notin T
  BY <1>4, <1>5
<1>7. Cardinality(Below(m - 1)) < i
  BY <1>2, <1>6
<1>8. CASE m - 1 \in S
  <2>0. \A d \in S : (d < m <=> d < m - 1 \/ d = m - 1) /\ (d < m - 1 => d # m - 1)
    BY <1>0, <1>6
  <2>1. Below(m) = Below(m - 1) \cup {m - 1} /\ m - 1 \notin Below(m - 1)
    BY <1>8, <2>0
  <2>2. Cardinality(Below(m)) = Cardinality(Below(m - 1)) + 1
    <3>1. PICK B : B = Below(m - 1)
      OBVIOUS
    <3>2. PICK x : x = m - 1
      OBVIOUS
    <3>3. IsFiniteSet(B) /\ x \notin B /\ Below(m) = B \cup {x}
      BY <1>2, <2>1, <3>1, <3>2
    <3>4. Cardinality(B \cup {x}) = Cardinality(B) + 1
      BY <3>3, FS_AddElement
    <3> HIDE DEF Below
    <3>5. QED
      BY <3>1, <3>3, <3>4
  <2>3. Cardinality(Below(m - 1)) = i - 1
    BY <1>2, <1>4, <1>7, <2>2
  <2>4. QED
    BY <1>8, <2>3
<1>9. CASE m - 1 \notin S
  <2>0. \A d \in S : d < m <=> d < m - 1
    BY <1>0, <1>6, <1>9
  <2>1. Below(m) = Below(m - 1)
    BY <2>0
  <2>2. Cardinality(Below(m)) >= i /\ i \in Nat /\ Cardinality(Below(m)) \in Nat
    BY <1>2, <1>4
  <2>3. Cardinality(Below(m)) = Cardinality(Below(m - 1))
    <3> HIDE DEF Below
    <3> QED
      BY <2>1
  <2>4. QED
    <3> HIDE DEF Below
    <3> QED
      BY <1>7, <2>2, <2>3
<1>10. QED
  BY <1>8, <1>9

(* Where the heap has room for k chunks, NewChunk names k different ones.  *)
LEMMA NewChunkFacts ==
  ASSUME MaxChunks \in Nat, DOMAIN heap \subseteq Chunks, NEW k \in Nat, RoomFor(k)
  PROVE  /\ \A i \in 1 .. k : NewChunk(i) \in Chunks \ DOMAIN heap
         /\ \A i, j \in 1 .. k : NewChunk(i) = NewChunk(j) => i = j
<1> DEFINE S == Chunks \ DOMAIN heap
<1>1. IsFiniteSet(Chunks) /\ Cardinality(Chunks) = MaxChunks
  BY FS_Interval DEF Chunks
<1>2. IsFiniteSet(DOMAIN heap) /\ Cardinality(DOMAIN heap) \in Nat
  BY <1>1, FS_Subset, FS_CardinalityType
<1>3. Cardinality(S) = MaxChunks - Cardinality(DOMAIN heap)
  <2>1. Chunks \cap DOMAIN heap = DOMAIN heap
    OBVIOUS
  <2>2. QED
    BY <1>1, <2>1, FS_Difference
<1>4. k <= Cardinality(S)
  BY <1>2, <1>3 DEF RoomFor
<1>5. ASSUME NEW i \in 1 .. k
      PROVE  NewChunk(i) \in S /\ Cardinality({d \in S : d < NewChunk(i)}) = i - 1
  <2>1. S \subseteq 1 .. MaxChunks /\ i \in Nat \ {0} /\ i <= Cardinality(S)
    BY <1>2, <1>3, <1>4 DEF Chunks
  <2>2. \E c \in S : Cardinality({d \in S : d < c}) = i - 1
    <3> HIDE DEF S
    <3> QED
      BY <2>1, Ranked
  <2>3. QED
    BY <2>2 DEF NewChunk
<1>6. \A i, j \in 1 .. k : NewChunk(i) = NewChunk(j) => i - 1 = j - 1
  BY <1>5
<1>7. \A i, j \in 1 .. k : i - 1 = j - 1 => i = j
  OBVIOUS
<1>8. \A i \in 1 .. k : NewChunk(i) \in Chunks \ DOMAIN heap
  BY <1>5
<1>9. QED
  BY <1>6, <1>7, <1>8

(* What a step does to the heap.                                           *)
LEMMA AllocatesFacts ==
  ASSUME NEW S, NEW n, Allocates(S, n)
  PROVE  /\ DOMAIN heap' = DOMAIN heap \cup S
         /\ \A c \in S : heap'[c] = n
         /\ \A c \in DOMAIN heap \ S : heap'[c] = heap[c]
BY DEF Allocates

(* An object that is deleted gives its chunk back to the heap.             *)
LEMMA FreesFacts ==
  ASSUME NEW c, Frees(c)
  PROVE  /\ DOMAIN heap' = DOMAIN heap \ {c}
         /\ \A d \in DOMAIN heap \ {c} : heap'[d] = heap[d]
BY DEF Frees, Restrict

(* What a step does to who holds what.                                     *)
LEMMA GetsFacts ==
  ASSUME PoolBounds, PoolTypeOK, NEW u \in Users, holds[u] = None,
         NEW o \in AnyObject, NEW n \in {1} \cup Sizes, Gets(u, o, n)
  PROVE  /\ holds' \in [Users -> [obj : AnyObject, asked : {1} \cup Sizes] \cup {None}]
         /\ Holders' = Holders \cup {u}
         /\ u \notin Holders
         /\ holds'[u].obj = o /\ holds'[u].asked = n
         /\ \A v \in Holders : holds'[v] = holds[v]
<1>1. holds' = [holds EXCEPT ![u] = [obj |-> o, asked |-> n]]
  BY DEF Gets
<1>2. [obj |-> o, asked |-> n] \in [obj : AnyObject, asked : {1} \cup Sizes]
  OBVIOUS
<1>3. [obj |-> o, asked |-> n] # None
  BY <1>2 DEF PoolBounds
<1>4. PICK r : r = [obj |-> o, asked |-> n]
  OBVIOUS
<1>5. r # None /\ r.obj = o /\ r.asked = n
       /\ r \in [obj : AnyObject, asked : {1} \cup Sizes]
  BY <1>2, <1>3, <1>4
<1>6. holds \in [Users -> [obj : AnyObject, asked : {1} \cup Sizes] \cup {None}]
  BY DEF PoolTypeOK
<1>7. holds'[u] = r /\ \A v \in Users : v # u => holds'[v] = holds[v]
  BY <1>1, <1>4, <1>6
<1>8. QED
  BY <1>1, <1>4, <1>5, <1>6, <1>7 DEF Holders

(* A user that gives its object back has none; the others keep theirs.     *)
LEMMA LosesFacts ==
  ASSUME PoolTypeOK, NEW u \in Users, Loses(u)
  PROVE  /\ holds' \in [Users -> [obj : AnyObject, asked : {1} \cup Sizes] \cup {None}]
         /\ Holders' = Holders \ {u}
         /\ \A v \in Holders \ {u} : holds'[v] = holds[v]
BY DEF Loses, PoolTypeOK, Holders

(* What Alloc returns.                                                     *)
LEMMA AllocSmallFacts ==
  ASSUME NEW k \in Nat, \A i \in 1 .. k : NewChunk(i) \in Chunks
  PROVE  /\ AllocSmall(k) \in Seq(AnyObject)
         /\ Len(AllocSmall(k)) = k
         /\ \A i \in 1 .. k : AllocSmall(k)[i] = Object(NewChunk(i), 1, 1)
<1>1. \A i \in 1 .. k : Object(NewChunk(i), 1, 1) \in AnyObject
  BY DEF Object, AnyObject
<1>2. QED
  BY <1>1 DEF AllocSmall

(* The objects of an array, one behind the other in one chunk.             *)
LEMMA AllocArrayFacts ==
  ASSUME NEW k \in Nat, NewChunk(1) \in Chunks
  PROVE  /\ AllocArray(k) \in Seq(AnyObject)
         /\ Len(AllocArray(k)) = k
         /\ \A i \in 1 .. k : AllocArray(k)[i] = Object(NewChunk(1), i, 1)
<1>1. \A i \in 1 .. k : Object(NewChunk(1), i, 1) \in AnyObject
  BY DEF Object, AnyObject
<1>2. QED
  BY <1>1 DEF AllocArray

(* The case of one chunk.                                                  *)
LEMMA FirstChunk ==
  ASSUME PoolBounds, PoolTypeOK, RoomFor(1)
  PROVE  NewChunk(1) \in Chunks \ DOMAIN heap
<1>1. 1 \in 1 .. 1 /\ 1 \in Nat
  OBVIOUS
<1>2. MaxChunks \in Nat /\ DOMAIN heap \subseteq Chunks
  BY DEF PoolBounds, PoolTypeOK
<1>3. QED
  BY <1>1, <1>2, NewChunkFacts

(* The case of the k chunks of CSmallObjectPool::Alloc.                    *)
LEMMA NewChunksFacts ==
  ASSUME PoolBounds, PoolTypeOK, NEW k \in Nat, RoomFor(k)
  PROVE  /\ \A i \in 1 .. k : NewChunk(i) \in Chunks \ DOMAIN heap
         /\ \A i, j \in 1 .. k : NewChunk(i) = NewChunk(j) => i = j
         /\ NewChunks(k) \subseteq Chunks
         /\ \A c : c \in NewChunks(k) <=> \E i \in 1 .. k : c = NewChunk(i)
<1>2. MaxChunks \in Nat /\ DOMAIN heap \subseteq Chunks
  BY DEF PoolBounds, PoolTypeOK
<1>3. QED
  BY <1>2, NewChunkFacts DEF NewChunks

----------------------------------------------------------------------------
(* The pools: type correctness.                                            *)

(* What TypeOK needs to be inductive: there is a chunk to take from.       *)
ScopeHasChunk == scope.left > 0 => scope.chunk # 0

HeapOK == DOMAIN heap \subseteq Chunks /\ \A c \in DOMAIN heap : heap[c] \in Nat

(* The heap stays well typed when chunks are allocated, and when one is    *)
(* freed.                                                                  *)
LEMMA AllocatesType ==
  ASSUME HeapOK, NEW S, S \subseteq Chunks, NEW n \in Nat, Allocates(S, n)
  PROVE  HeapOK'
<1>1. /\ DOMAIN heap' = DOMAIN heap \cup S
      /\ \A c \in S : heap'[c] = n
      /\ \A c \in DOMAIN heap \ S : heap'[c] = heap[c]
  BY AllocatesFacts
<1>2. \A c \in DOMAIN heap' : c \in S \/ c \in DOMAIN heap \ S
  BY <1>1
<1>3. \A c \in DOMAIN heap' : heap'[c] \in Nat
  BY <1>1, <1>2 DEF HeapOK
<1>4. QED
  BY <1>1, <1>3 DEF HeapOK, Chunks

LEMMA FreesType ==
  ASSUME HeapOK, NEW c, Frees(c)
  PROVE  HeapOK'
BY FreesFacts DEF HeapOK, Chunks

(* The first object of a new list is handed out and the rest is free.      *)
LEMMA NewListType ==
  ASSUME NEW s \in Seq(AnyObject), Len(s) > 0
  PROVE  s[1] \in AnyObject /\ Tail(s) \in Seq(AnyObject)
OBVIOUS

(* What a step that hands out an object does to the types.                 *)
PopParts(u, n) ==
  /\ HeapOK' /\ free' \in Seq(AnyObject) /\ userList' \in Seq(AnyObject)
  /\ scope' \in [chunk : {0} \cup Chunks, left : 0 .. BlockSize] /\ ScopeHasChunk'
  /\ \E o \in AnyObject : Gets(u, o, n)
  /\ kind = "block" => Len(free') <= Len(free)

(* Each way to hand out an object keeps the types.                         *)
LEMMA PopTypes ==
  ASSUME PoolBounds, PoolTypeOK, ScopeHasChunk, NEW u \in Users
  PROVE  /\ PopSmall(u) \/ PopSmallEx(u) \/ PopFixed(u) => PopParts(u, 1)
         /\ \A n \in Sizes :
              \/ AllocateBlock(u, n) \/ AllocateNormal(u, n)
              \/ AllocateScopeLeft(u, n) \/ AllocateScopeLarge(u, n)
              \/ AllocateScopeNext(u, n)
              => PopParts(u, n)
<1>1. /\ HeapOK /\ free \in Seq(AnyObject) /\ userList \in Seq(AnyObject)
      /\ scope \in [chunk : {0} \cup Chunks, left : 0 .. BlockSize]
      /\ param.grow \in Nat \ {0} /\ BlockSize \in Nat \ {0} /\ Chunks \subseteq Nat \ {0}
  <2>1. param.grow \in GrowCounts \cup {1} /\ GrowCounts \subseteq Nat \ {0}
         /\ BlockSize \in Nat \ {0}
    BY DEF PoolTypeOK, PoolBounds
  <2>1a. \A x \in GrowCounts \cup {1} : x \in Nat \ {0}
    BY <2>1
  <2>2. param.grow \in Nat \ {0}
    BY <2>1, <2>1a, Zenon
  <2>3. QED
    BY <2>1, <2>2 DEF PoolTypeOK, HeapOK, Chunks
<1>1a. UNCHANGED scope => ScopeHasChunk'
  BY DEF ScopeHasChunk
<1>2. free # <<>> => /\ Head(free) \in AnyObject
                     /\ Tail(free) \in Seq(AnyObject) /\ Len(Tail(free)) <= Len(free)
  BY <1>1
<1>3. ASSUME NEW i \in Nat \ {0}, NEW s \in Nat \ {0}, NewChunk(1) \in Chunks
      PROVE  Object(NewChunk(1), i, s) \in AnyObject
  BY <1>3 DEF Object, AnyObject
<1>4. ASSUME PopSmall(u) PROVE PopParts(u, 1)
  <2>1. CASE free # <<>> /\ Gets(u, Head(free), 1) /\ free' = Tail(free) /\ UNCHANGED heap
    BY <1>1, <1>1a, <1>2, <1>4, <2>1 DEF PopSmall, PopParts, HeapOK, Chunks,
       AnyObject
  <2>2. CASE free = <<>> /\ RoomFor(1 + param.grow)
    <3>1. PICK k \in Nat : k = 1 + param.grow
      BY <1>1
    <3>2. Gets(u, AllocSmall(k)[1], 1) /\ free' = Tail(AllocSmall(k))
           /\ Allocates(NewChunks(k), 1)
      BY <1>4, <2>2, <3>1 DEF PopSmall
    <3>3. /\ \A i \in 1 .. k : NewChunk(i) \in Chunks
          /\ NewChunks(k) \subseteq Chunks
      BY <2>2, <3>1, NewChunksFacts
    <3>4. AllocSmall(k) \in Seq(AnyObject) /\ Len(AllocSmall(k)) > 0
      BY <1>1, <3>1, <3>3, AllocSmallFacts
    <3>5. HeapOK'
      BY <1>1, <3>2, <3>3, AllocatesType
    <3>6. QED
      BY <1>1, <1>1a, <1>4, <3>2, <3>4, <3>5, NewListType DEF PopSmall, PopParts,
         Chunks, AnyObject
  <2>3. QED
    BY <1>4, <2>1, <2>2 DEF PopSmall
<1>5. ASSUME PopSmallEx(u) PROVE PopParts(u, 1)
  <2>1. CASE free # <<>> /\ Gets(u, Head(free), 1) /\ free' = Tail(free) /\ UNCHANGED heap
    BY <1>1, <1>1a, <1>2, <1>5, <2>1 DEF PopSmallEx, PopParts, HeapOK, Chunks,
       AnyObject
  <2>2. CASE free = <<>> /\ RoomFor(1)
    <3>2. /\ Gets(u, AllocArray(param.grow)[1], 1)
              /\ free' = Tail(AllocArray(param.grow))
          /\ Allocates({NewChunk(1)}, param.grow)
      BY <1>5, <2>2 DEF PopSmallEx
    <3>3. NewChunk(1) \in Chunks
      BY <2>2, FirstChunk
    <3>4. AllocArray(param.grow) \in Seq(AnyObject)
           /\ Len(AllocArray(param.grow)) > 0
      BY <1>1, <3>3, AllocArrayFacts
    <3>5. HeapOK'
      BY <1>1, <3>2, <3>3, AllocatesType
    <3>6. QED
      BY <1>1, <1>1a, <1>5, <3>2, <3>4, <3>5, NewListType DEF PopSmallEx, PopParts,
         Chunks, AnyObject
  <2>3. QED
    BY <1>5, <2>1, <2>2 DEF PopSmallEx
<1>6. ASSUME PopFixed(u) PROVE PopParts(u, 1)
  <2>1. <<Head(free)>> \o userList \in Seq(AnyObject)
    BY <1>1, <1>1a, <1>2, <1>6 DEF PopFixed
  <2>2. QED
    BY <1>1, <1>1a, <1>2, <1>6, <2>1 DEF PopFixed, PopParts, HeapOK, Chunks,
       AnyObject
<1>7. ASSUME NEW n \in Sizes, AllocateBlock(u, n) PROVE PopParts(u, n)
  <2>1. n \in Nat \ {0}
    BY DEF PoolBounds
  <2>2. CASE n <= BlockSize /\ free # <<>>
    BY <1>1, <1>1a, <1>2, <1>7, <2>2 DEF AllocateBlock, PopParts, HeapOK, Chunks,
       AnyObject
  <2>3. CASE ~(n <= BlockSize /\ free # <<>>)
    <3>1. PICK s : s = IF n > BlockSize THEN n ELSE BlockSize
      OBVIOUS
    <3>2. s \in Nat \ {0}
      BY <1>1, <2>1, <3>1
    <3>3. /\ RoomFor(1) /\ Gets(u, Object(NewChunk(1), 1, s), n)
          /\ Allocates({NewChunk(1)}, s) /\ UNCHANGED free
      BY <1>7, <2>3, <3>1 DEF AllocateBlock
    <3>4. NewChunk(1) \in Chunks
      BY <3>3, FirstChunk
    <3>5. HeapOK'
      BY <1>1, <3>2, <3>3, <3>4, AllocatesType
    <3>6. QED
      BY <1>1, <1>1a, <1>3, <1>7, <3>2, <3>3, <3>4, <3>5 DEF AllocateBlock, PopParts,
         Chunks, AnyObject
  <2>4. QED
    BY <2>2, <2>3
<1>8. ASSUME NEW n \in Sizes, AllocateNormal(u, n) PROVE PopParts(u, n)
  <2>2. CASE free # <<>>
    BY <1>1, <1>1a, <1>2, <1>8, <2>2 DEF AllocateNormal, PopParts, HeapOK, Chunks,
       AnyObject
  <2>3. CASE free = <<>>
    <3>3. /\ RoomFor(1) /\ Gets(u, Object(NewChunk(1), 1, 1), n)
          /\ free' = Tail(AllocArray(BlockSize))
          /\ Allocates({NewChunk(1)}, BlockSize)
      BY <1>8, <2>3 DEF AllocateNormal
    <3>4. NewChunk(1) \in Chunks
      BY <3>3, FirstChunk
    <3>5. HeapOK'
      BY <1>1, <3>3, <3>4, AllocatesType
    <3>6. Tail(AllocArray(BlockSize)) \in Seq(AnyObject)
      BY <1>1, <3>4, AllocArrayFacts
    <3>7. Object(NewChunk(1), 1, 1) \in AnyObject
      BY <1>3, <3>4
    <3>8. QED
      BY <1>1, <1>1a, <1>8, <3>3, <3>5, <3>6, <3>7 DEF AllocateNormal, PopParts,
         Chunks, AnyObject
  <2>4. QED
    BY <2>2, <2>3
<1>9. ASSUME NEW n \in Sizes, AllocateScopeLeft(u, n) PROVE PopParts(u, n)
  <2>1. n \in Nat \ {0}
    BY DEF PoolBounds
  <2>2. scope.left >= n /\ scope.left - n \in 0 .. BlockSize /\ scope.left - n + 1 \in Nat \ {0}
    BY <1>1, <1>9, <2>1 DEF AllocateScopeLeft
  <2>3. scope.chunk \in Chunks
    BY <1>1, <2>1, <2>2 DEF ScopeHasChunk
  <2>4. Object(scope.chunk, scope.left - n + 1, n) \in AnyObject
    BY <2>1, <2>2, <2>3 DEF Object, AnyObject
  <2>5. scope' = [scope EXCEPT !.left = scope.left - n]
    BY <1>9 DEF AllocateScopeLeft
  <2>6. scope' \in [chunk : {0} \cup Chunks, left : 0 .. BlockSize]
         /\ scope'.chunk = scope.chunk
    BY <1>1, <2>2, <2>5
  <2>7. ScopeHasChunk'
    BY <1>1, <2>3, <2>6 DEF ScopeHasChunk
  <2>8. QED
    BY <1>1, <1>9, <2>4, <2>6, <2>7 DEF AllocateScopeLeft, PopParts, HeapOK
<1>10. ASSUME NEW n \in Sizes, AllocateScopeLarge(u, n) PROVE PopParts(u, n)
  <2>1. n \in Nat \ {0}
    BY DEF PoolBounds
  <2>2. NewChunk(1) \in Chunks
    BY <1>10, FirstChunk DEF AllocateScopeLarge
  <2>3. HeapOK'
    BY <1>1, <1>10, <2>1, <2>2, AllocatesType DEF AllocateScopeLarge
  <2>4. scope' \in [chunk : {0} \cup Chunks, left : 0 .. BlockSize] /\ ScopeHasChunk'
    BY <1>1, <1>1a, <1>10, <2>2 DEF AllocateScopeLarge, ScopeHasChunk
  <2>5. QED
    BY <1>1, <1>1a, <1>3, <1>10, <2>1, <2>2, <2>3, <2>4 DEF AllocateScopeLarge, PopParts,
       Chunks, AnyObject
<1>11. ASSUME NEW n \in Sizes, AllocateScopeNext(u, n) PROVE PopParts(u, n)
  <2>1. n \in Nat \ {0}
    BY DEF PoolBounds
  <2>2. NewChunk(1) \in Chunks
    BY <1>11, FirstChunk DEF AllocateScopeNext
  <2>3. HeapOK'
    BY <1>1, <1>11, <2>1, <2>2, AllocatesType DEF AllocateScopeNext
  <2>4. BlockSize - n \in 0 .. BlockSize /\ BlockSize - n + 1 \in Nat \ {0}
    BY <1>1, <1>11, <2>1 DEF AllocateScopeNext
  <2>5. scope' \in [chunk : {0} \cup Chunks, left : 0 .. BlockSize] /\ ScopeHasChunk'
    BY <1>1, <1>11, <2>2, <2>4 DEF AllocateScopeNext, ScopeHasChunk
  <2>6. QED
    BY <1>1, <1>1a, <1>3, <1>11, <2>1, <2>2, <2>3, <2>4, <2>5 DEF AllocateScopeNext,
       PopParts, Chunks, AnyObject
<1>12. QED
  BY <1>4, <1>5, <1>6, <1>7, <1>8, <1>9, <1>10, <1>11

(* What a step that takes one back does to them.                           *)
PushParts ==
  /\ HeapOK' /\ free' \in Seq(AnyObject) /\ userList' \in Seq(AnyObject)
  /\ UNCHANGED scope
  /\ kind = "block" => Len(free') <= param.max

(* Each way to take one back keeps the types, and the limit of             *)
(* CSLBlockAlloc.                                                          *)
LEMMA PushTypes ==
  ASSUME PoolBounds, PoolTypeOK, NEW u \in Users, holds[u] # None,
         \/ PushSmall(u) \/ PushSmallEx(u) \/ PushFixed(u)
         \/ DeallocateBlock(u) \/ DeallocateNormal(u) \/ DeallocateScope(u)
  PROVE  PushParts
<1>1. /\ HeapOK /\ free \in Seq(AnyObject) /\ userList \in Seq(AnyObject)
      /\ kind = "block" => Len(free) <= param.max
  BY DEF PoolTypeOK, HeapOK
<1>2. param.max \in Nat
  BY DEF PoolTypeOK, PoolBounds
<1>3. holds[u].obj \in AnyObject
  BY DEF PoolTypeOK
<1>4. /\ Append(free, holds[u].obj) \in Seq(AnyObject)
      /\ <<holds[u].obj>> \o free \in Seq(AnyObject)
      /\ Len(<<holds[u].obj>> \o free) = Len(free) + 1
  BY <1>1, <1>3
<1>5. UNCHANGED heap => HeapOK'
  BY <1>1 DEF HeapOK, Chunks
<1>6. Frees(holds[u].obj.chunk) => HeapOK'
  BY <1>1, FreesType
<1>7. CASE PushSmall(u)
  BY <1>1, <1>4, <1>5, <1>6, <1>7 DEF PushSmall, PushParts
<1>8. CASE PushSmallEx(u)
  BY <1>1, <1>4, <1>5, <1>8 DEF PushSmallEx, PushParts
<1>9. CASE PushFixed(u)
  <2>1. ASSUME NEW i \in DOMAIN userList
        PROVE  RemoveAt(userList, i) \in Seq(AnyObject)
    <3>1. i \in 1 .. Len(userList)
      BY <1>1, <2>1
    <3>2. SubSeq(userList, 1, i - 1) \in Seq(AnyObject)
           /\ SubSeq(userList, i + 1, Len(userList)) \in Seq(AnyObject)
      BY <1>1, <3>1
    <3>3. QED
      BY <3>2 DEF RemoveAt
  <2>2. QED
    BY <1>1, <1>4, <1>5, <1>9, <2>1 DEF PushFixed, PushParts
<1>10. CASE DeallocateBlock(u)
  <2>1. CASE Len(free) >= param.max
    BY <1>1, <1>6, <1>10, <2>1 DEF DeallocateBlock, PushParts
  <2>2. CASE ~(Len(free) >= param.max)
    <3>1. Len(free) \in Nat /\ Len(free) + 1 <= param.max
      BY <1>1, <1>2, <2>2
    <3>2. QED
      BY <1>1, <1>4, <1>5, <1>10, <2>2, <3>1 DEF DeallocateBlock, PushParts
  <2>3. QED
    BY <2>1, <2>2
<1>11. CASE DeallocateNormal(u)
  BY <1>1, <1>4, <1>5, <1>11 DEF DeallocateNormal, PushParts
<1>12. CASE DeallocateScope(u)
  BY <1>1, <1>5, <1>12 DEF DeallocateScope, PushParts
<1>13. QED
  BY <1>7, <1>8, <1>9, <1>10, <1>11, <1>12

(* And clear.                                                              *)
ClearParts ==
  /\ HeapOK' /\ free' \in Seq(AnyObject) /\ userList' \in Seq(AnyObject)
  /\ scope' \in [chunk : {0} \cup Chunks, left : 0 .. BlockSize] /\ ScopeHasChunk'
  /\ kind = "block" => Len(free') <= param.max

(* So does clear, of each kind of pool.                                    *)
LEMMA ClearTypes ==
  ASSUME PoolBounds, PoolTypeOK, ScopeHasChunk, clear,
         \A u \in Holders : holds[u].obj.chunk \in DOMAIN heap
  PROVE  ClearParts
<1>1. /\ HeapOK /\ free \in Seq(AnyObject) /\ userList \in Seq(AnyObject)
      /\ scope \in [chunk : {0} \cup Chunks, left : 0 .. BlockSize]
      /\ <<>> \in Seq(AnyObject) /\ Len(<<>>) = 0
  BY DEF PoolTypeOK, HeapOK
<1>2. param.max \in Nat /\ BlockSize \in Nat
  BY DEF PoolTypeOK, PoolBounds
<1>3. UNCHANGED scope => ScopeHasChunk'
  BY DEF ScopeHasChunk
<1>4. ASSUME FreesAll PROVE HeapOK'
  <2>1. DOMAIN <<>> = {}
    OBVIOUS
  <2>2. DOMAIN heap' = {}
    BY <1>4, <2>1 DEF FreesAll
  <2>3. QED
    BY <2>2 DEF HeapOK
<1>5. ASSUME FreesFree PROVE HeapOK'
  BY <1>1, <1>5 DEF FreesFree, HeapOK, Restrict, Chunks
<1>6. /\ NoScope \in [chunk : {0} \cup Chunks, left : 0 .. BlockSize]
      /\ scope' = NoScope => ScopeHasChunk'
  BY <1>2 DEF NoScope, ScopeHasChunk
<1>7. CASE ClearSmall
  BY <1>1, <1>2, <1>3, <1>5, <1>7 DEF ClearSmall, ClearParts
<1>8. CASE ClearSmallEx
  BY <1>1, <1>2, <1>3, <1>4, <1>8 DEF ClearSmallEx, ClearParts
<1>9. CASE ClearFixed
  BY <1>1, <1>2, <1>3, <1>4, <1>9 DEF ClearFixed, ClearParts
<1>10. CASE ClearBlock
  BY <1>1, <1>2, <1>3, <1>5, <1>10 DEF ClearBlock, ClearParts
<1>11. CASE ClearNormal
  BY <1>1, <1>2, <1>3, <1>4, <1>11 DEF ClearNormal, ClearParts
<1>12. CASE ClearScope
  BY <1>1, <1>2, <1>4, <1>6, <1>12 DEF ClearScope, ClearParts
<1>13. QED
  BY <1>7, <1>8, <1>9, <1>10, <1>11, <1>12 DEF clear

(* And the second critical section of init.                                *)
LEMMA InitAllocTypes ==
  ASSUME PoolBounds, PoolTypeOK, InitAlloc
  PROVE  /\ HeapOK' /\ free' \in Seq(AnyObject) /\ kind # "block"
         /\ param' \in [max : Limits, grow : GrowCounts \cup {1}]
<1>1. HeapOK /\ free \in Seq(AnyObject)
  BY DEF PoolTypeOK, HeapOK
<1>2. PICK max \in Limits, k \in InitCounts, grow \in GrowCounts :
        /\ param' = [max |-> max, grow |-> grow]
        /\ InitSmall(k) \/ InitSmallEx(k) \/ InitFixed(max)
  BY DEF InitAlloc
<1>3. k \in Nat /\ max \in Nat
  BY DEF PoolBounds
<1>4. param' \in [max : Limits, grow : GrowCounts \cup {1}]
  BY <1>2
<1>5. CASE InitSmall(k)
  <2>1. /\ \A i \in 1 .. k : NewChunk(i) \in Chunks
        /\ NewChunks(k) \subseteq Chunks
    BY <1>3, <1>5, NewChunksFacts DEF InitSmall
  <2>2. AllocSmall(k) \in Seq(AnyObject)
    BY <1>3, <2>1, AllocSmallFacts
  <2>3. free' \in Seq(AnyObject)
    BY <1>1, <1>5, <2>2, ConcatProperties DEF InitSmall
  <2>4. HeapOK'
    BY <1>1, <1>5, <2>1, AllocatesType DEF InitSmall
  <2>5. QED
    BY <1>4, <1>5, <2>3, <2>4 DEF InitSmall
<1>6. CASE InitSmallEx(k)
  <2>1. NewChunk(1) \in Chunks
    BY <1>6, FirstChunk DEF InitSmallEx
  <2>2. AllocArray(k) \in Seq(AnyObject)
    BY <1>3, <2>1, AllocArrayFacts
  <2>3. free' \in Seq(AnyObject)
    BY <1>1, <1>6, <2>2, ConcatProperties DEF InitSmallEx
  <2>4. HeapOK'
    BY <1>1, <1>3, <1>6, <2>1, AllocatesType DEF InitSmallEx
  <2>5. QED
    BY <1>4, <1>6, <2>3, <2>4 DEF InitSmallEx
<1>7. CASE InitFixed(max)
  <2>1. PICK s \in Nat : s = IF max < 3 THEN 3 ELSE max
    BY <1>3
  <2>2. free' = AllocArray(s) /\ Allocates({NewChunk(1)}, s) /\ kind = "fixed"
    BY <1>7, <2>1 DEF InitFixed
  <2>3. NewChunk(1) \in Chunks
    BY <1>7, FirstChunk DEF InitFixed
  <2>4. AllocArray(s) \in Seq(AnyObject)
    BY <2>3, AllocArrayFacts
  <2>5. HeapOK'
    BY <1>1, <2>2, <2>3, AllocatesType
  <2>6. QED
    BY <1>4, <2>2, <2>4, <2>5
<1>8. QED
  BY <1>2, <1>5, <1>6, <1>7

----------------------------------------------------------------------------
(* The pools: the inductive invariant.                                     *)

InHeap(o)       == o.chunk \in DOMAIN heap /\ o.first + o.size - 1 <= heap[o.chunk]
WholeChunk(o)   == o.first = 1 /\ o.size = heap[o.chunk]
Covers(o, c, i) == o.chunk = c /\ o.first <= i /\ i < o.first + o.size

HeldAllocated ==
  \A u \in Holders : InHeap(holds[u].obj) /\ holds[u].obj.size >= holds[u].asked

(* Only the nodes of CSLNormalMemoryPool are left in the list by a clear.  *)
FreeAllocated ==
  \A i \in DOMAIN free : InHeap(free[i]) \/ (kind = "normal" /\ DOMAIN heap = {})

FreeApart   == \A i, j \in DOMAIN free : i # j => Apart(free[i], free[j])
HeldApart   == \A u, v \in Holders : u # v => Apart(holds[u].obj, holds[v].obj)
FreeNotHeld == \A u \in Holders, i \in DOMAIN free : Apart(holds[u].obj, free[i])

BlocksFit ==
  kind = "block" => /\ \A u \in Holders : holds[u].obj.size >= BlockSize
                    /\ \A i \in DOMAIN free : free[i].size >= BlockSize

(* What is deleted with an object is that object's chunk and no more.      *)
ChunksAreWhole ==
  kind \in {"small", "block"} =>
    /\ \A u \in Holders : WholeChunk(holds[u].obj)
    /\ \A i \in DOMAIN free : WholeChunk(free[i])

AllCovered ==
  kind \notin {"scope", "normal"} =>
    \A c \in DOMAIN heap : \A i \in 1 .. heap[c] :
      \/ \E j \in DOMAIN free : Covers(free[j], c, i)
      \/ \E u \in Holders : Covers(holds[u].obj, c, i)

ScopeLeftIsFree ==
  kind = "scope" =>
    /\ free = <<>>
    /\ scope.left > 0 => scope.chunk \in DOMAIN heap /\ scope.left <= heap[scope.chunk]
    /\ \A u \in Holders : holds[u].obj.chunk = scope.chunk => holds[u].obj.first > scope.left

UserListIsHeld ==
  kind = "fixed" =>
    /\ \A i, j \in DOMAIN userList : i # j => userList[i] # userList[j]
    /\ \A i \in DOMAIN userList : \E u \in Holders : userList[i] = holds[u].obj
    /\ \A u \in Holders : \E i \in DOMAIN userList : userList[i] = holds[u].obj

(* Between the critical sections of init a fixed pool has nothing.         *)
FixedEmptyInInit == kind = "fixed" /\ initing => DOMAIN heap = {} /\ free = <<>>

ObjectsInv == /\ HeldAllocated /\ FreeAllocated
              /\ FreeApart /\ HeldApart /\ FreeNotHeld
              /\ BlocksFit /\ ChunksAreWhole /\ AllCovered
KindInv == ScopeLeftIsFree /\ UserListIsHeld /\ FixedEmptyInInit

PoolInv == /\ PoolTypeOK /\ ScopeHasChunk
           /\ Defined => ObjectsInv /\ KindInv

LEMMA PoolObjects ==
  ASSUME PoolTypeOK
  PROVE  /\ \A v \in Holders : holds[v].obj \in AnyObject
         /\ \A i \in DOMAIN free : free[i] \in AnyObject
<1>1. \A v \in Holders : holds[v] \in [obj : AnyObject, asked : {1} \cup Sizes]
  BY DEF PoolTypeOK, Holders
<1>2. \A v \in Holders : holds[v].obj \in AnyObject
  BY <1>1
<1>3. free \in Seq(AnyObject)
  BY DEF PoolTypeOK
<1>4. QED
  BY <1>2, <1>3

LEMMA ApartSymmetric ==
  ASSUME NEW o, NEW q, Apart(o, q)
  PROVE  Apart(q, o)
BY DEF Apart

(* The next free object is handed out.                                     *)
LEMMA TakesFree ==
  ASSUME PoolBounds, PoolTypeOK, ObjectsInv,
         NEW u \in Users, holds[u] = None, NEW n \in {1} \cup Sizes,
         free # <<>>, InHeap(Head(free)), Head(free).size >= n,
         Gets(u, Head(free), n), free' = Tail(free), UNCHANGED <<heap, kind>>
  PROVE  ObjectsInv'
<1>1. /\ free \in Seq(AnyObject) /\ DOMAIN free = 1 .. Len(free) /\ Len(free) \in Nat \ {0}
      /\ Head(free) = free[1] /\ Head(free) \in AnyObject
  BY DEF PoolTypeOK
<1>2. /\ DOMAIN free' = 1 .. Len(free) - 1
      /\ \A i \in DOMAIN free' : free'[i] = free[i + 1]
  BY <1>1
<1>3. 1 \in DOMAIN free /\ \A i \in DOMAIN free' : i + 1 \in DOMAIN free /\ i + 1 # 1
  BY <1>1, <1>2
<1>4. \A i, j \in DOMAIN free' : i # j => i + 1 # j + 1
  BY <1>2
<1>5. \A j \in DOMAIN free : j = 1 \/ \E i \in DOMAIN free' : free'[i] = free[j]
  <2>1. SUFFICES ASSUME NEW j \in DOMAIN free, j # 1
        PROVE \E i \in DOMAIN free' : free'[i] = free[j]
    OBVIOUS
  <2>2. j - 1 \in DOMAIN free' /\ (j - 1) + 1 = j
    BY <1>1, <1>2, <2>1
  <2>3. QED
    BY <1>2, <2>2
<1>6. /\ Holders' = Holders \cup {u} /\ u \notin Holders
      /\ holds'[u].obj = free[1] /\ holds'[u].asked = n
      /\ \A v \in Holders : holds'[v] = holds[v]
  BY <1>1, GetsFacts
<1>7. HeldAllocated'
  BY <1>1, <1>6 DEF ObjectsInv, HeldAllocated, InHeap
<1>8. FreeAllocated'
  BY <1>2, <1>3 DEF ObjectsInv, FreeAllocated, InHeap
<1>9. FreeApart'
  BY <1>2, <1>3, <1>4 DEF ObjectsInv, FreeApart
<1>10. HeldApart'
  BY <1>3, <1>6, ApartSymmetric DEF ObjectsInv, HeldApart, FreeNotHeld
<1>11. FreeNotHeld'
  BY <1>2, <1>3, <1>6 DEF ObjectsInv, FreeApart, FreeNotHeld
<1>12. BlocksFit'
  BY <1>2, <1>3, <1>6 DEF ObjectsInv, BlocksFit
<1>13. ChunksAreWhole'
  BY <1>2, <1>3, <1>6 DEF ObjectsInv, ChunksAreWhole, WholeChunk
<1>14. AllCovered'
  BY <1>5, <1>6 DEF ObjectsInv, AllCovered, Covers
<1>15. QED
  BY <1>7, <1>8, <1>9, <1>10, <1>11, <1>12, <1>13, <1>14 DEF ObjectsInv

(* An object is put into the list at k; h says where in the list the       *)
(* others were.                                                            *)
PutAt(o, k, h) ==
  /\ k \in DOMAIN free' /\ free'[k] = o
  /\ \A i \in DOMAIN free' : i # k => h[i] \in DOMAIN free /\ free'[i] = free[h[i]]
  /\ \A i, j \in DOMAIN free' : i # k /\ j # k /\ i # j => h[i] # h[j]
  /\ \A j \in DOMAIN free : \E i \in DOMAIN free' : i # k /\ h[i] = j

LEMMA GivesBack ==
  ASSUME PoolTypeOK, ObjectsInv, NEW u \in Users, holds[u] # None, Loses(u),
         NEW k, NEW h, PutAt(holds[u].obj, k, h),
         UNCHANGED <<heap, kind>>
  PROVE  ObjectsInv'
<1>1. u \in Holders
  BY DEF Holders
<1>2. /\ Holders' = Holders \ {u}
      /\ \A v \in Holders' : holds'[v] = holds[v]
  BY LosesFacts
<1>3. DOMAIN heap # {}
  BY <1>1 DEF ObjectsInv, HeldAllocated, InHeap
<1>. USE DEF PutAt
<1>7. HeldAllocated'
  BY <1>2 DEF ObjectsInv, HeldAllocated, InHeap
<1>8. FreeAllocated'
  BY <1>1, <1>3 DEF ObjectsInv, FreeAllocated, HeldAllocated, InHeap
<1>9. FreeApart'
  BY <1>1, ApartSymmetric DEF ObjectsInv, FreeApart, FreeNotHeld
<1>10. HeldApart'
  BY <1>2 DEF ObjectsInv, HeldApart
<1>11. FreeNotHeld'
  BY <1>1, <1>2 DEF ObjectsInv, HeldApart, FreeNotHeld
<1>12. BlocksFit'
  BY <1>1, <1>2 DEF ObjectsInv, BlocksFit
<1>13. ChunksAreWhole'
  BY <1>1, <1>2 DEF ObjectsInv, ChunksAreWhole, WholeChunk
<1>14. AllCovered'
  <2>1. \A j \in DOMAIN free : \E i \in DOMAIN free' : free'[i] = free[j]
    OBVIOUS
  <2>2. \A v \in Holders : v = u \/ (v \in Holders' /\ holds'[v] = holds[v])
    BY <1>2
  <2>3. QED
    BY <2>1, <2>2 DEF ObjectsInv, AllCovered, Covers
<1>15. QED
  BY <1>7, <1>8, <1>9, <1>10, <1>11, <1>12, <1>13, <1>14 DEF ObjectsInv

(* The object pools append what comes back; the others put it in front.    *)
LEMMA GivesBackAtEnd ==
  ASSUME PoolTypeOK, ObjectsInv, NEW u \in Users, holds[u] # None, Loses(u),
         free' = Append(free, holds[u].obj), UNCHANGED <<heap, kind>>
  PROVE  ObjectsInv'
<1>1. free \in Seq(AnyObject) /\ Len(free) \in Nat /\ DOMAIN free = 1 .. Len(free)
  BY DEF PoolTypeOK
<1>2. PICK k : k = Len(free) + 1
  OBVIOUS
<1>3. PICK h : h = [i \in 1 .. Len(free) |-> i]
  OBVIOUS
<1>4. /\ DOMAIN free' = 1 .. k /\ free'[k] = holds[u].obj
      /\ \A i \in 1 .. Len(free) : free'[i] = free[i]
  BY <1>1, <1>2
<1>5. k \in DOMAIN free' /\ \A i \in DOMAIN free' : i # k => i \in 1 .. Len(free)
  BY <1>1, <1>2, <1>4
<1>6. PutAt(holds[u].obj, k, h)
  BY <1>1, <1>3, <1>4, <1>5 DEF PutAt
<1>7. QED
  BY <1>6, GivesBack

LEMMA GivesBackAtFront ==
  ASSUME PoolTypeOK, ObjectsInv, NEW u \in Users, holds[u] # None, Loses(u),
         free' = <<holds[u].obj>> \o free, UNCHANGED <<heap, kind>>
  PROVE  ObjectsInv'
<1>1. free \in Seq(AnyObject) /\ Len(free) \in Nat /\ DOMAIN free = 1 .. Len(free)
  BY DEF PoolTypeOK
<1>2. PICK h : h = [i \in 2 .. Len(free) + 1 |-> i - 1]
  OBVIOUS
<1>3. holds[u].obj \in AnyObject
  BY DEF PoolTypeOK
<1>4. /\ DOMAIN free' = 1 .. Len(free) + 1 /\ free'[1] = holds[u].obj
      /\ \A i \in 2 .. Len(free) + 1 : free'[i] = free[i - 1]
  BY <1>1, <1>3
<1>5. PICK k : k = 1
  OBVIOUS
<1>6. k \in DOMAIN free' /\ free'[k] = holds[u].obj
  BY <1>1, <1>4, <1>5
<1>7. ASSUME NEW i \in DOMAIN free', i # k
      PROVE  h[i] = i - 1 /\ h[i] \in DOMAIN free /\ free'[i] = free[h[i]]
  <2>1. i \in 2 .. Len(free) + 1 /\ i - 1 \in DOMAIN free
    BY <1>1, <1>4, <1>5, <1>7
  <2>2. QED
    BY <1>2, <1>4, <2>1
<1>8. ASSUME NEW i \in DOMAIN free', NEW j \in DOMAIN free', i # k, j # k, i # j
      PROVE  h[i] # h[j]
  <2>1. i - 1 # j - 1
    BY <1>1, <1>4, <1>8
  <2>2. QED
    BY <1>7, <1>8, <2>1
<1>9. ASSUME NEW j \in DOMAIN free
      PROVE  \E i \in DOMAIN free' : i # k /\ h[i] = j
  <2>1. j + 1 \in DOMAIN free' /\ j + 1 # k /\ (j + 1) - 1 = j
    BY <1>1, <1>4, <1>5, <1>9
  <2>2. h[j + 1] = (j + 1) - 1
    BY <1>7, <2>1
  <2>3. QED
    BY <2>1, <2>2
<1>10. PutAt(holds[u].obj, k, h)
  BY <1>6, <1>7, <1>8, <1>9 DEF PutAt
<1>11. QED
  BY <1>10, GivesBack

(* An object is deleted with its chunk.                                    *)
LEMMA Drops ==
  ASSUME PoolTypeOK, ObjectsInv, NEW u \in Users, holds[u] # None, Loses(u),
         kind \in {"small", "block"}, Frees(holds[u].obj.chunk), UNCHANGED <<free, kind>>
  PROVE  ObjectsInv'
<1>1. u \in Holders
  BY DEF Holders
<1>2. /\ Holders' = Holders \ {u}
      /\ \A v \in Holders' : holds'[v] = holds[v]
  BY LosesFacts
<1>3. PICK c : c = holds[u].obj.chunk
  OBVIOUS
<1>4. DOMAIN heap' = DOMAIN heap \ {c} /\ \A d \in DOMAIN heap \ {c} : heap'[d] = heap[d]
  BY <1>3, FreesFacts
<1>5. /\ \A v \in Holders : holds[v].obj \in AnyObject
      /\ \A i \in DOMAIN free : free[i] \in AnyObject
  BY DEF PoolTypeOK, Holders
<1>6. ASSUME NEW o \in AnyObject, NEW q \in AnyObject, WholeChunk(o), WholeChunk(q), Apart(o, q)
      PROVE  o.chunk # q.chunk
  BY <1>6 DEF Apart, WholeChunk, AnyObject
<1>7. \A v \in Holders' : holds[v].obj.chunk # c
  BY <1>1, <1>2, <1>3, <1>5, <1>6 DEF ObjectsInv, HeldApart, ChunksAreWhole
<1>8. \A i \in DOMAIN free : free[i].chunk # c
  BY <1>1, <1>3, <1>5, <1>6 DEF ObjectsInv, FreeNotHeld, ChunksAreWhole
<1>9. HeldAllocated'
  BY <1>2, <1>4, <1>7 DEF ObjectsInv, HeldAllocated, InHeap
<1>10. FreeAllocated'
  BY <1>4, <1>8 DEF ObjectsInv, FreeAllocated, InHeap
<1>11. FreeApart'
  BY DEF ObjectsInv, FreeApart
<1>12. HeldApart'
  BY <1>2 DEF ObjectsInv, HeldApart
<1>13. FreeNotHeld'
  BY <1>2 DEF ObjectsInv, FreeNotHeld
<1>14. BlocksFit'
  BY <1>2 DEF ObjectsInv, BlocksFit
<1>15. ChunksAreWhole'
  BY <1>2, <1>4, <1>7, <1>8 DEF ObjectsInv, ChunksAreWhole, WholeChunk, HeldAllocated,
     FreeAllocated, InHeap
<1>16. AllCovered'
  <2>1. SUFFICES ASSUME NEW d \in DOMAIN heap', NEW x \in 1 .. heap'[d]
                 PROVE  \/ \E j \in DOMAIN free : Covers(free[j], d, x)
                        \/ \E v \in Holders' : Covers(holds'[v].obj, d, x)
    BY DEF AllCovered, Covers
  <2>2. d \in DOMAIN heap /\ d # c /\ x \in 1 .. heap[d]
    BY <1>4, <2>1
  <2>3. CASE \E j \in DOMAIN free : Covers(free[j], d, x)
    BY <2>3
  <2>4. CASE \E v \in Holders : Covers(holds[v].obj, d, x)
    <3>1. PICK v \in Holders : Covers(holds[v].obj, d, x)
      BY <2>4
    <3>2. v # u
      BY <1>3, <2>2, <3>1 DEF Covers
    <3>3. QED
      BY <1>2, <3>1, <3>2
  <2>5. QED
    BY <2>2, <2>3, <2>4 DEF ObjectsInv, AllCovered
<1>17. QED
  BY <1>9, <1>10, <1>11, <1>12, <1>13, <1>14, <1>15, <1>16 DEF ObjectsInv

(* Objects of chunks that are allocated in the step lie apart from those   *)
(* of before.                                                              *)
LEMMA FreshApart ==
  ASSUME NEW S, S \cap DOMAIN heap = {}, NEW o, o.chunk \in S, NEW q, InHeap(q)
  PROVE  Apart(o, q) /\ Apart(q, o)
BY DEF Apart, InHeap

(* An object that has a chunk of its own is handed out.                    *)
LEMMA TakesNewOne ==
  ASSUME PoolBounds, PoolTypeOK, ObjectsInv,
         NEW u \in Users, holds[u] = None, NEW n \in {1} \cup Sizes,
         NEW c, c \notin DOMAIN heap, NEW m, Allocates({c}, m),
         NEW o \in AnyObject, o.chunk = c, o.first + o.size - 1 <= m, o.size >= n,
         kind = "block" => o.first = 1 /\ o.size = m /\ m >= BlockSize,
         kind \in {"block", "scope"}, Gets(u, o, n), UNCHANGED <<free, kind>>
  PROVE  ObjectsInv'
<1>1. /\ Holders' = Holders \cup {u} /\ u \notin Holders
      /\ holds'[u].obj = o /\ holds'[u].asked = n
      /\ \A v \in Holders : holds'[v] = holds[v]
  BY GetsFacts
<1>2. DOMAIN heap' = DOMAIN heap \cup {c} /\ heap'[c] = m
       /\ \A d \in DOMAIN heap : heap'[d] = heap[d]
  <2>1. PICK S : S = {c}
    OBVIOUS
  <2>2. /\ DOMAIN heap' = DOMAIN heap \cup S
        /\ \A d \in S : heap'[d] = m
        /\ \A d \in DOMAIN heap \ S : heap'[d] = heap[d]
    BY <2>1, AllocatesFacts
  <2>3. QED
    BY <2>1, <2>2
<1>3. \A v \in Holders : InHeap(holds[v].obj)
  BY DEF ObjectsInv, HeldAllocated
<1>4. \A i \in DOMAIN free : InHeap(free[i])
  BY DEF ObjectsInv, FreeAllocated
<1>5. \A q : InHeap(q) => Apart(o, q) /\ Apart(q, o)
  BY DEF InHeap, Apart
<1>6. \A q : InHeap(q) => InHeap(q)' /\ (WholeChunk(q) => WholeChunk(q)')
  BY <1>2 DEF InHeap, WholeChunk
<1>7. InHeap(o)' /\ (kind = "block" => WholeChunk(o)' /\ o.size >= BlockSize)
  BY <1>2 DEF InHeap, WholeChunk
<1>8. \A v \in Holders' : holds'[v].obj = o \/ (v \in Holders /\ holds'[v] = holds[v])
  BY <1>1
<1>9. HeldAllocated'
  <2>1. SUFFICES ASSUME NEW v \in Holders'
                 PROVE  InHeap(holds[v].obj)' /\ holds'[v].obj.size >= holds'[v].asked
    BY DEF HeldAllocated
  <2>2. CASE v = u
    BY <1>1, <1>7, <2>2 DEF InHeap
  <2>3. CASE v # u
    <3>1. v \in Holders /\ holds'[v] = holds[v]
      BY <1>1, <2>3
    <3>2. InHeap(holds[v].obj) /\ holds[v].obj.size >= holds[v].asked
      BY <3>1 DEF ObjectsInv, HeldAllocated
    <3>3. QED
      BY <1>2, <3>1, <3>2 DEF InHeap
  <2>4. QED
    BY <2>2, <2>3
<1>10. FreeAllocated'
  BY <1>2, <1>4 DEF FreeAllocated, InHeap
<1>11. FreeApart'
  BY DEF ObjectsInv, FreeApart
<1>12. HeldApart'
  BY <1>1, <1>3, <1>5 DEF ObjectsInv, HeldApart
<1>13. FreeNotHeld'
  BY <1>1, <1>4, <1>5 DEF ObjectsInv, FreeNotHeld
<1>14. BlocksFit'
  BY <1>1, <1>7 DEF ObjectsInv, BlocksFit
<1>15. ChunksAreWhole'
  BY <1>1, <1>2, <1>3, <1>4 DEF ObjectsInv, ChunksAreWhole, WholeChunk, InHeap
<1>16. AllCovered'
  <2>1. SUFFICES ASSUME kind = "block", NEW d \in DOMAIN heap', NEW x \in 1 .. heap'[d]
                 PROVE  \/ \E j \in DOMAIN free : Covers(free[j], d, x)
                        \/ \E v \in Holders' : Covers(holds'[v].obj, d, x)
    BY DEF AllCovered, Covers
  <2>2. CASE d = c
    <3>1. Covers(o, d, x)
      BY <1>2, <2>1, <2>2 DEF Covers, AnyObject
    <3>2. QED
      BY <1>1, <3>1
  <2>3. CASE d # c
    <3>1. d \in DOMAIN heap /\ x \in 1 .. heap[d]
      BY <1>2, <2>1, <2>3
    <3>2. \/ \E j \in DOMAIN free : Covers(free[j], d, x)
          \/ \E v \in Holders : Covers(holds[v].obj, d, x)
      BY <2>1, <3>1 DEF ObjectsInv, AllCovered
    <3>3. QED
      BY <1>1, <3>2
  <2>4. QED
    BY <2>2, <2>3
<1>17. QED
  BY <1>9, <1>10, <1>11, <1>12, <1>13, <1>14, <1>15, <1>16 DEF ObjectsInv

(* A list of objects that divides chunks not allocated so far.             *)
NewList(s, S, n) ==
  /\ s \in Seq(AnyObject) /\ S \cap DOMAIN heap = {}
  /\ \A i \in 1 .. Len(s) : s[i].chunk \in S /\ s[i].first + s[i].size - 1 <= n
  /\ \A i, j \in 1 .. Len(s) : i # j => Apart(s[i], s[j])
  /\ kind = "small" => \A i \in 1 .. Len(s) : s[i].first = 1 /\ s[i].size = n
  /\ \A c \in S : \A x \in 1 .. n : \E i \in 1 .. Len(s) : Covers(s[i], c, x)

(* What Alloc of CSmallObjectPool makes is such a list, of a chunk per     *)
(* object.                                                                 *)
LEMMA SmallList ==
  ASSUME PoolBounds, PoolTypeOK, NEW k \in Nat, RoomFor(k)
  PROVE  NewList(AllocSmall(k), NewChunks(k), 1) /\ Len(AllocSmall(k)) = k
<1>1. /\ \A i \in 1 .. k : NewChunk(i) \in Chunks \ DOMAIN heap
      /\ \A i, j \in 1 .. k : NewChunk(i) = NewChunk(j) => i = j
      /\ \A c : c \in NewChunks(k) <=> \E i \in 1 .. k : c = NewChunk(i)
  BY NewChunksFacts
<1>2. PICK s : s = AllocSmall(k)
  OBVIOUS
<1>3. /\ s \in Seq(AnyObject) /\ Len(s) = k
      /\ \A i \in 1 .. k : s[i] = Object(NewChunk(i), 1, 1)
  BY <1>1, <1>2, AllocSmallFacts
<1>4. \A i \in 1 .. k : s[i].chunk = NewChunk(i) /\ s[i].first = 1 /\ s[i].size = 1
  BY <1>3 DEF Object
<1>5. NewChunks(k) \cap DOMAIN heap = {}
  BY <1>1
<1>6. \A i, j \in 1 .. k : i # j => Apart(s[i], s[j])
  BY <1>1, <1>4 DEF Apart
<1>7. \A c \in NewChunks(k) : \A x \in 1 .. 1 : \E i \in 1 .. k : Covers(s[i], c, x)
  BY <1>1, <1>4 DEF Covers
<1>8. \A i \in 1 .. k : s[i].chunk \in NewChunks(k) /\ s[i].first + s[i].size - 1 <= 1
  BY <1>1, <1>4
<1>9. QED
  BY <1>2, <1>3, <1>4, <1>5, <1>6, <1>7, <1>8 DEF NewList

(* An array is one, of one chunk.                                          *)
LEMMA ArrayList ==
  ASSUME PoolBounds, PoolTypeOK, NEW k \in Nat, RoomFor(1), kind # "small"
  PROVE  NewList(AllocArray(k), {NewChunk(1)}, k) /\ Len(AllocArray(k)) = k
<1>1. NewChunk(1) \in Chunks \ DOMAIN heap
  BY FirstChunk
<1>2. PICK s : s = AllocArray(k)
  OBVIOUS
<1>3. /\ s \in Seq(AnyObject) /\ Len(s) = k
      /\ \A i \in 1 .. k : s[i] = Object(NewChunk(1), i, 1)
  BY <1>1, <1>2, AllocArrayFacts
<1>4. \A i \in 1 .. k : s[i].chunk = NewChunk(1) /\ s[i].first = i /\ s[i].size = 1
  BY <1>3 DEF Object
<1>5. {NewChunk(1)} \cap DOMAIN heap = {}
  BY <1>1
<1>6. \A i, j \in 1 .. k : i # j => i + 1 <= j \/ j + 1 <= i
  OBVIOUS
<1>7. \A i, j \in 1 .. k : i # j => Apart(s[i], s[j])
  BY <1>4, <1>6 DEF Apart
<1>8. \A x \in 1 .. k : Covers(s[x], NewChunk(1), x)
  BY <1>4 DEF Covers
<1>9. \A i \in 1 .. k : s[i].chunk \in {NewChunk(1)} /\ s[i].first + s[i].size - 1 <= k
  BY <1>4
<1>10. QED
  BY <1>2, <1>3, <1>5, <1>7, <1>8, <1>9 DEF NewList

(* The first object of a new list is handed out, the rest is free.         *)
LEMMA TakesFromNewList ==
  ASSUME PoolBounds, PoolTypeOK, ObjectsInv,
         NEW u \in Users, holds[u] = None, NEW n \in {1} \cup Sizes, n <= 1, free = <<>>,
         NEW s, NEW S, NEW m, NewList(s, S, m), Len(s) > 0, Allocates(S, m),
         Gets(u, s[1], n), free' = Tail(s), kind \notin {"block", "scope"}, UNCHANGED kind
  PROVE  ObjectsInv'
<1>0. n \in Nat
  BY DEF PoolBounds
<1>1. /\ s \in Seq(AnyObject) /\ Len(s) \in Nat \ {0} /\ DOMAIN s = 1 .. Len(s)
      /\ 1 \in 1 .. Len(s) /\ s[1] \in AnyObject
  BY DEF NewList
<1>2. /\ DOMAIN free' = 1 .. Len(s) - 1
      /\ \A i \in DOMAIN free' : free'[i] = s[i + 1]
  BY <1>1
<1>3. \A i \in DOMAIN free' : i + 1 \in 1 .. Len(s) /\ i + 1 # 1
  BY <1>1, <1>2
<1>4. \A i, j \in DOMAIN free' : i # j => i + 1 # j + 1
  BY <1>2
<1>5. \A j \in 1 .. Len(s) : j = 1 \/ \E i \in DOMAIN free' : free'[i] = s[j]
  <2>1. SUFFICES ASSUME NEW j \in 1 .. Len(s), j # 1
        PROVE \E i \in DOMAIN free' : free'[i] = s[j]
    OBVIOUS
  <2>2. j - 1 \in DOMAIN free' /\ (j - 1) + 1 = j
    BY <1>1, <1>2, <2>1
  <2>3. QED
    BY <1>2, <2>2
<1>6. /\ Holders' = Holders \cup {u} /\ u \notin Holders
      /\ holds'[u].obj = s[1] /\ holds'[u].asked = n
      /\ \A v \in Holders : holds'[v] = holds[v]
  BY <1>1, GetsFacts
<1>7. /\ DOMAIN heap' = DOMAIN heap \cup S
      /\ \A c \in S : heap'[c] = m
      /\ \A c \in DOMAIN heap : heap'[c] = heap[c]
  BY AllocatesFacts DEF NewList
<1>8. \A v \in Holders : InHeap(holds[v].obj)
  BY DEF ObjectsInv, HeldAllocated
<1>9. \A i \in 1 .. Len(s) : InHeap(s[i])'
  BY <1>7 DEF NewList, InHeap
<1>10. HeldAllocated'
  <2>1. SUFFICES ASSUME NEW v \in Holders'
                 PROVE  InHeap(holds[v].obj)' /\ holds'[v].obj.size >= holds'[v].asked
    BY DEF HeldAllocated
  <2>2. CASE v = u
    <3>1. InHeap(s[1])'
      BY <1>1, <1>9
    <3>2. s[1].size >= n
      BY <1>0, <1>1 DEF AnyObject
    <3>3. QED
      BY <1>6, <2>2, <3>1, <3>2 DEF InHeap
  <2>3. CASE v # u
    <3>1. v \in Holders /\ holds'[v] = holds[v]
      BY <1>6, <2>3
    <3>2. InHeap(holds[v].obj) /\ holds[v].obj.size >= holds[v].asked
      BY <3>1 DEF ObjectsInv, HeldAllocated
    <3>3. QED
      BY <1>7, <3>1, <3>2 DEF InHeap
  <2>4. QED
    BY <2>2, <2>3
<1>11. FreeAllocated'
  BY <1>2, <1>3, <1>9 DEF FreeAllocated, InHeap
<1>12. FreeApart'
  BY <1>2, <1>3, <1>4 DEF FreeApart, NewList
<1>13. \A i \in 1 .. Len(s), v \in Holders : Apart(s[i], holds[v].obj)
        /\ Apart(holds[v].obj, s[i])
  BY <1>8, FreshApart DEF NewList
<1>14. HeldApart'
  BY <1>1, <1>6, <1>13 DEF ObjectsInv, HeldApart
<1>15. FreeNotHeld'
  BY <1>1, <1>2, <1>3, <1>6, <1>13 DEF FreeNotHeld, NewList
<1>16. BlocksFit'
  BY DEF BlocksFit
<1>17. ChunksAreWhole'
  <2>1. SUFFICES ASSUME kind = "small" PROVE ChunksAreWhole'
    BY DEF ChunksAreWhole
  <2>2. \A i \in 1 .. Len(s) : WholeChunk(s[i])'
    BY <1>7, <2>1 DEF NewList, WholeChunk
  <2>3. \A v \in Holders : WholeChunk(holds[v].obj)'
    BY <1>6, <1>7, <1>8, <2>1 DEF ObjectsInv, ChunksAreWhole, WholeChunk, InHeap
  <2>4. QED
    BY <1>1, <1>2, <1>3, <1>6, <2>2, <2>3 DEF ChunksAreWhole, WholeChunk
<1>18. AllCovered'
  <2>1. SUFFICES ASSUME kind \notin {"scope", "normal"}, NEW d \in DOMAIN heap', NEW x \in 1 .. heap'[d]
                 PROVE  \/ \E j \in DOMAIN free' : Covers(free'[j], d, x)
                        \/ \E v \in Holders' : Covers(holds'[v].obj, d, x)
    BY DEF AllCovered, Covers
  <2>2. CASE d \in S
    <3>1. PICK i \in 1 .. Len(s) : Covers(s[i], d, x)
      BY <1>7, <2>1, <2>2 DEF NewList
    <3>2. QED
      BY <1>5, <1>6, <3>1
  <2>3. CASE d \notin S
    <3>1. d \in DOMAIN heap /\ x \in 1 .. heap[d]
      BY <1>7, <2>1, <2>3
    <3>2. \E v \in Holders : Covers(holds[v].obj, d, x)
      BY <2>1, <3>1 DEF ObjectsInv, AllCovered
    <3>3. QED
      BY <1>6, <3>2
  <2>4. QED
    BY <2>2, <2>3
<1>19. QED
  BY <1>10, <1>11, <1>12, <1>14, <1>15, <1>16, <1>17, <1>18 DEF ObjectsInv

(* The new list is put behind the free objects.                            *)
LEMMA Fills ==
  ASSUME PoolTypeOK, ObjectsInv, NEW s, NEW S, NEW m, NewList(s, S, m), Allocates(S, m),
         free' = free \o s, kind \in ObjectKind, UNCHANGED <<kind, holds>>
  PROVE  ObjectsInv'
<1>1. /\ s \in Seq(AnyObject) /\ free \in Seq(AnyObject)
      /\ Len(s) \in Nat /\ Len(free) \in Nat /\ DOMAIN free = 1 .. Len(free)
  BY DEF NewList, PoolTypeOK
<1>2. kind \notin {"normal", "block", "scope"}
  BY DEF ObjectKind
<1>3. PICK l \in Nat : l = Len(free)
  BY <1>1
<1>4. /\ DOMAIN free' = 1 .. l + Len(s) /\ DOMAIN free = 1 .. l
      /\ \A i \in 1 .. l : free'[i] = free[i]
      /\ \A i \in 1 .. Len(s) : free'[l + i] = s[i] /\ l + i \in DOMAIN free'
  BY <1>1, <1>3
<1>5. ASSUME NEW i \in DOMAIN free', i \notin 1 .. l
      PROVE  i - l \in 1 .. Len(s) /\ free'[i] = s[i - l]
  <2>1. i - l \in 1 .. Len(s) /\ l + (i - l) = i
    BY <1>1, <1>4, <1>5
  <2>2. QED
    BY <1>4, <2>1
<1>6. /\ DOMAIN heap' = DOMAIN heap \cup S
      /\ \A c \in S : heap'[c] = m
      /\ \A c \in DOMAIN heap : heap'[c] = heap[c]
  BY AllocatesFacts DEF NewList
<1>7. Holders' = Holders
  BY DEF Holders
<1>8. /\ \A v \in Holders : InHeap(holds[v].obj)
      /\ \A i \in 1 .. l : InHeap(free[i])
  BY <1>2, <1>4 DEF ObjectsInv, HeldAllocated, FreeAllocated
<1>9. \A i \in 1 .. Len(s) : InHeap(s[i])'
  BY <1>6 DEF NewList, InHeap
<1>10. \A q : InHeap(q) => InHeap(q)' /\ \A i \in 1 .. Len(s) : Apart(q, s[i]) /\ Apart(s[i], q)
  BY <1>6, FreshApart DEF NewList, InHeap
<1>11. HeldAllocated'
  BY <1>7, <1>10 DEF ObjectsInv, HeldAllocated
<1>12. FreeAllocated'
  <2>1. ASSUME NEW i \in DOMAIN free'
       
        PROVE  free'[i].chunk \in DOMAIN heap' /\ free'[i].first + free'[i].size - 1 <= heap'[free'[i].chunk]
    <3>1. CASE i \in 1 .. l
      <4>1. InHeap(free[i])'
        <5>1. InHeap(free[i]) /\ free'[i] = free[i]
          BY <1>4, <1>8, <3>1
        <5>2. QED
          BY <1>6, <5>1 DEF InHeap
      <4>2. QED
        BY <1>4, <3>1, <4>1 DEF InHeap
    <3>2. CASE i \notin 1 .. l
      BY <1>5, <1>9, <2>1, <3>2 DEF InHeap
    <3>3. QED
      BY <3>1, <3>2
  <2>2. QED
    BY <2>1 DEF FreeAllocated, InHeap
<1>13. FreeApart'
  <2>1. SUFFICES ASSUME NEW i \in DOMAIN free', NEW j \in DOMAIN free', i # j
                 PROVE  Apart(free'[i], free'[j])
    BY DEF FreeApart, Apart
  <2>2. CASE i \in 1 .. l /\ j \in 1 .. l
    BY <1>4, <2>1, <2>2 DEF ObjectsInv, FreeApart
  <2>3. CASE i \in 1 .. l /\ j \notin 1 .. l
    BY <1>4, <1>5, <1>8, <1>10, <2>3
  <2>4. CASE i \notin 1 .. l /\ j \in 1 .. l
    BY <1>4, <1>5, <1>8, <1>10, <2>4
  <2>5. CASE i \notin 1 .. l /\ j \notin 1 .. l
    <3>1. i - l # j - l
      BY <1>4, <2>1
    <3>2. QED
      BY <1>5, <2>5, <3>1 DEF NewList
  <2>6. QED
    BY <2>2, <2>3, <2>4, <2>5
<1>14. HeldApart'
  BY <1>7 DEF ObjectsInv, HeldApart
<1>15. FreeNotHeld'
  <2>1. SUFFICES ASSUME NEW v \in Holders, NEW i \in DOMAIN free'
                 PROVE  Apart(holds[v].obj, free'[i])
    BY <1>7 DEF FreeNotHeld, Apart
  <2>2. CASE i \in 1 .. l
    BY <1>4, <2>2 DEF ObjectsInv, FreeNotHeld
  <2>3. CASE i \notin 1 .. l
    BY <1>5, <1>8, <1>10, <2>3
  <2>4. QED
    BY <2>2, <2>3
<1>16. BlocksFit'
  BY <1>2 DEF BlocksFit
<1>17. ChunksAreWhole'
  <2>1. SUFFICES ASSUME kind = "small" PROVE ChunksAreWhole'
    BY <1>2 DEF ChunksAreWhole
  <2>2. \A i \in 1 .. Len(s) : WholeChunk(s[i])'
    BY <1>6, <2>1 DEF NewList, WholeChunk
  <2>3. /\ \A v \in Holders : WholeChunk(holds[v].obj)'
        /\ \A i \in 1 .. l : WholeChunk(free[i])'
    BY <1>4, <1>6, <1>8, <2>1 DEF ObjectsInv, ChunksAreWhole, WholeChunk, InHeap
  <2>4. ASSUME NEW i \in DOMAIN free'
        PROVE  free'[i].first = 1 /\ free'[i].size = heap'[free'[i].chunk]
    <3>1. CASE i \in 1 .. l
      BY <1>4, <2>3, <3>1 DEF WholeChunk
    <3>2. CASE i \notin 1 .. l
      BY <1>5, <2>2, <2>4, <3>2 DEF WholeChunk
    <3>3. QED
      BY <3>1, <3>2
  <2>5. QED
    BY <1>7, <2>3, <2>4 DEF ChunksAreWhole, WholeChunk
<1>18. AllCovered'
  <2>1. SUFFICES ASSUME NEW d \in DOMAIN heap', NEW x \in 1 .. heap'[d]
                 PROVE  \/ \E j \in DOMAIN free' : Covers(free'[j], d, x)
                        \/ \E v \in Holders : Covers(holds[v].obj, d, x)
    BY <1>7 DEF AllCovered, Covers
  <2>2. CASE d \in S
    <3>1. PICK i \in 1 .. Len(s) : Covers(s[i], d, x)
      BY <1>6, <2>1, <2>2 DEF NewList
    <3>2. QED
      BY <1>4, <3>1
  <2>3. CASE d \notin S
    <3>1. d \in DOMAIN heap /\ x \in 1 .. heap[d]
      BY <1>6, <2>1, <2>3
    <3>2. \/ \E j \in 1 .. l : Covers(free[j], d, x)
          \/ \E v \in Holders : Covers(holds[v].obj, d, x)
      BY <1>2, <1>4, <3>1 DEF ObjectsInv, AllCovered
    <3>3. \A j \in 1 .. l : j \in DOMAIN free' /\ free'[j] = free[j]
      BY <1>1, <1>4
    <3>4. QED
      BY <3>2, <3>3
  <2>4. QED
    BY <2>2, <2>3
<1>19. QED
  BY <1>11, <1>12, <1>13, <1>14, <1>15, <1>16, <1>17, <1>18 DEF ObjectsInv

(* A clear that leaves the pool defined: of the pools that free every      *)
(* chunk nothing was in use.                                               *)
LEMMA ClearInv ==
  ASSUME PoolTypeOK, ObjectsInv, KindInv, clear, UNCHANGED <<kind, holds>>, Defined'
  PROVE  ObjectsInv' /\ KindInv'
<1>1. Holders' = Holders
  BY DEF Holders
<1>2. DOMAIN <<>> = {}
  OBVIOUS
<1>3. ASSUME FreesAll
      PROVE  DOMAIN heap' = {} /\ Holders = {}
  BY <1>2, <1>3 DEF FreesAll, Defined
<1>4. CASE FreesAll /\ free' = <<>> /\ kind \in {"smallex", "fixed"}
  <2>1. DOMAIN heap' = {} /\ Holders' = {} /\ DOMAIN free' = {}
    BY <1>1, <1>2, <1>3, <1>4
  <2>2. ObjectsInv'
    BY <2>1 DEF ObjectsInv, HeldAllocated, FreeAllocated, FreeApart, HeldApart, FreeNotHeld,
         BlocksFit, ChunksAreWhole, AllCovered
  <2>3. kind = "fixed" => userList' = <<>>
    BY <1>4 DEF clear, ClearSmall, ClearSmallEx, ClearFixed,
         ClearBlock, ClearNormal, ClearScope
  <2>4. KindInv'
    BY <1>2, <1>4, <2>1, <2>3 DEF KindInv, ScopeLeftIsFree, UserListIsHeld, FixedEmptyInInit
  <2>5. QED
    BY <2>2, <2>4
<1>5. CASE ClearNormal
  <2>1. DOMAIN heap' = {} /\ Holders' = {} /\ kind = "normal" /\ UNCHANGED free
    BY <1>1, <1>3, <1>5 DEF ClearNormal
  <2>2. QED
    BY <2>1 DEF ObjectsInv, HeldAllocated, FreeAllocated, FreeApart, HeldApart, FreeNotHeld,
         BlocksFit, ChunksAreWhole, AllCovered, KindInv, ScopeLeftIsFree, UserListIsHeld, FixedEmptyInInit
<1>6. CASE ClearScope
  <2>1. /\ DOMAIN heap' = {} /\ Holders' = {} /\ kind = "scope" /\ free' = <<>>
        /\ DOMAIN free' = {} /\ scope'.left = 0
    BY <1>1, <1>2, <1>3, <1>6 DEF ClearScope, KindInv, ScopeLeftIsFree, NoScope
  <2>2. QED
    BY <2>1 DEF ObjectsInv, HeldAllocated, FreeAllocated, FreeApart, HeldApart, FreeNotHeld,
         BlocksFit, ChunksAreWhole, AllCovered, KindInv, ScopeLeftIsFree, UserListIsHeld, FixedEmptyInInit
<1>7. CASE ClearSmall \/ ClearBlock
  <2>1. free' = <<>> /\ DOMAIN free' = {} /\ kind \in {"small", "block"} /\ FreesFree
    BY <1>2, <1>7 DEF ClearSmall, ClearBlock
  <2>2. /\ DOMAIN heap' = {holds[u].obj.chunk : u \in Holders}
        /\ \A c \in DOMAIN heap' : heap'[c] = heap[c] /\ c \in DOMAIN heap
    BY <2>1 DEF FreesFree, Restrict, ObjectsInv, HeldAllocated, InHeap
  <2>3. HeldAllocated'
    BY <1>1, <2>2 DEF ObjectsInv, HeldAllocated, InHeap
  <2>4. FreeAllocated' /\ FreeApart' /\ FreeNotHeld'
    BY <2>1 DEF FreeAllocated, FreeApart, FreeNotHeld
  <2>5. HeldApart'
    BY <1>1 DEF ObjectsInv, HeldApart
  <2>6. BlocksFit'
    BY <1>1, <2>1 DEF ObjectsInv, BlocksFit
  <2>7. ChunksAreWhole'
    BY <1>1, <2>1, <2>2 DEF ObjectsInv, ChunksAreWhole, WholeChunk
  <2>8. AllCovered'
    <3>1. SUFFICES ASSUME NEW c \in DOMAIN heap', NEW x \in 1 .. heap'[c]
                   PROVE  \E v \in Holders : Covers(holds[v].obj, c, x)
      BY <1>1 DEF AllCovered, Covers
    <3>2. PICK v \in Holders : c = holds[v].obj.chunk
      BY <2>2
    <3>3. holds[v].obj \in AnyObject /\ WholeChunk(holds[v].obj)
      BY <2>1 DEF ObjectsInv, ChunksAreWhole, PoolTypeOK, Holders
    <3>4. x \in 1 .. heap[c]
      BY <2>2, <3>1
    <3>5. Covers(holds[v].obj, c, x)
      BY <3>2, <3>3, <3>4 DEF Covers, WholeChunk, AnyObject
    <3>6. QED
      BY <3>5
  <2>9. KindInv'
    BY <2>1 DEF KindInv, ScopeLeftIsFree, UserListIsHeld, FixedEmptyInInit
  <2>10. QED
    BY <2>3, <2>4, <2>5, <2>6, <2>7, <2>8, <2>9 DEF ObjectsInv
<1>8. QED
  BY <1>4, <1>5, <1>6, <1>7 DEF clear, ClearSmallEx, ClearFixed

(* The second critical section of init: what it adds to the list divides   *)
(* new chunks.                                                             *)
LEMMA InitAllocInv ==
  ASSUME PoolBounds, PoolTypeOK, ObjectsInv, KindInv, InitAlloc
  PROVE  ObjectsInv' /\ KindInv'
<1>1. PICK max \in Limits, k \in InitCounts :
        InitSmall(k) \/ InitSmallEx(k) \/ InitFixed(max)
  BY DEF InitAlloc
<1>2. k \in Nat /\ max \in Nat
  BY DEF PoolBounds
<1>3. UNCHANGED <<kind, holds, userList, undefined>> /\ Holders' = Holders
       /\ initing /\ ~initing'
  BY DEF InitAlloc, Holders
<1>4. CASE InitSmall(k)
  <2>1. NewList(AllocSmall(k), NewChunks(k), 1)
    BY <1>2, <1>4, SmallList DEF InitSmall
  <2>2. ObjectsInv'
    BY <1>3, <1>4, <2>1, Fills DEF InitSmall, ObjectKind
  <2>3. QED
    BY <1>3, <1>4, <2>2 DEF InitSmall, KindInv, ScopeLeftIsFree, UserListIsHeld,
       FixedEmptyInInit
<1>5. CASE InitSmallEx(k)
  <2>1. NewList(AllocArray(k), {NewChunk(1)}, k)
    BY <1>2, <1>5, ArrayList DEF InitSmallEx
  <2>2. ObjectsInv'
    BY <1>3, <1>5, <2>1, Fills DEF InitSmallEx, ObjectKind
  <2>3. QED
    BY <1>3, <1>5, <2>2 DEF InitSmallEx, KindInv, ScopeLeftIsFree, UserListIsHeld,
       FixedEmptyInInit
<1>6. CASE InitFixed(max)
  <2>1. PICK n \in Nat : n = IF max < 3 THEN 3 ELSE max
    BY <1>2
  <2>2. /\ kind = "fixed" /\ RoomFor(1) /\ free' = AllocArray(n)
        /\ Allocates({NewChunk(1)}, n)
    BY <1>6, <2>1 DEF InitFixed
  <2>3. NewList(AllocArray(n), {NewChunk(1)}, n)
    BY <2>2, ArrayList
  <2>4. free = <<>>
    BY <1>3, <2>2 DEF KindInv, FixedEmptyInInit
  <2>5. free' = free \o AllocArray(n)
    BY <2>2, <2>3, <2>4, ConcatEmptySeq DEF NewList
  <2>6. ObjectsInv'
    BY <1>3, <2>2, <2>3, <2>5, Fills DEF ObjectKind
  <2>7. QED
    BY <1>3, <2>2, <2>6 DEF KindInv, ScopeLeftIsFree, UserListIsHeld, FixedEmptyInInit
<1>7. QED
  BY <1>1, <1>4, <1>5, <1>6

(* Handing out, of each kind of pool.                                      *)
LEMMA PopInv ==
  ASSUME PoolBounds, PoolTypeOK, ObjectsInv, KindInv, NEW u \in Users, HandOut(u),
         Defined'
  PROVE  ObjectsInv' /\ KindInv'
<1>. USE DEF KindInv, ScopeLeftIsFree, UserListIsHeld, FixedEmptyInInit
<1>1. holds[u] = None /\ UNCHANGED <<kind, param, initing>>
  BY DEF HandOut
<1>2. /\ free \in Seq(AnyObject)
      /\ free # <<>> => Head(free) = free[1] /\ 1 \in DOMAIN free
          /\ Head(free) \in AnyObject
  BY DEF PoolTypeOK
<1>3. free # <<>> /\ kind # "normal" => InHeap(Head(free))
  BY <1>2 DEF ObjectsInv, FreeAllocated
<1>4. free # <<>> => Head(free).size >= 1
  BY <1>2 DEF AnyObject
<1>5. 1 \in {1} \cup Sizes /\ \A n \in Sizes : n \in {1} \cup Sizes /\ n \in Nat \ {0}
  BY DEF PoolBounds
<1>6. param.grow \in Nat \ {0}
  <2>1. \A x \in GrowCounts \cup {1} : x \in Nat \ {0}
    BY DEF PoolBounds
  <2>2. param.grow \in GrowCounts \cup {1}
    BY DEF PoolTypeOK
  <2>3. QED
    BY <2>1, <2>2, Zenon
<1>7. CASE PopSmall(u)
  <2>1. kind = "small"
    BY <1>7 DEF PopSmall
  <2>2. CASE free # <<>> /\ Gets(u, Head(free), 1) /\ free' = Tail(free) /\ UNCHANGED heap
    BY <1>1, <1>3, <1>4, <1>5, <2>1, <2>2, TakesFree
  <2>3. CASE free = <<>> /\ RoomFor(1 + param.grow)
    <3>1. PICK k \in Nat : k = 1 + param.grow
      BY <1>6
    <3>2. /\ Gets(u, AllocSmall(k)[1], 1) /\ free' = Tail(AllocSmall(k))
          /\ Allocates(NewChunks(k), 1)
      BY <1>7, <2>3, <3>1 DEF PopSmall
    <3>3. NewList(AllocSmall(k), NewChunks(k), 1) /\ Len(AllocSmall(k)) > 0
      BY <1>6, <2>3, <3>1, SmallList
    <3>4. ObjectsInv'
      BY <1>1, <1>5, <2>1, <2>3, <3>2, <3>3, TakesFromNewList
    <3>5. QED
      BY <1>1, <2>1, <3>4
  <2>4. QED
    BY <1>7, <2>2, <2>3 DEF PopSmall
<1>8. CASE PopSmallEx(u)
  <2>1. kind = "smallex"
    BY <1>8 DEF PopSmallEx
  <2>2. CASE free # <<>> /\ Gets(u, Head(free), 1) /\ free' = Tail(free) /\ UNCHANGED heap
    BY <1>1, <1>3, <1>4, <1>5, <2>1, <2>2, TakesFree
  <2>3. CASE free = <<>> /\ RoomFor(1)
    <3>1. PICK k \in Nat : k = param.grow /\ k > 0
      BY <1>6
    <3>2. /\ Gets(u, AllocArray(k)[1], 1) /\ free' = Tail(AllocArray(k))
          /\ Allocates({NewChunk(1)}, k)
      BY <1>8, <2>3, <3>1 DEF PopSmallEx
    <3>3. NewList(AllocArray(k), {NewChunk(1)}, k) /\ Len(AllocArray(k)) > 0
      <4>1. NewList(AllocArray(k), {NewChunk(1)}, k) /\ Len(AllocArray(k)) = k
        BY <2>1, <2>3, ArrayList
      <4>2. QED
        BY <3>1, <4>1
    <3>4. ObjectsInv'
      BY <1>1, <1>5, <2>1, <2>3, <3>2, <3>3, TakesFromNewList
    <3>5. QED
      BY <1>1, <2>1, <3>4
  <2>4. QED
    BY <1>8, <2>2, <2>3 DEF PopSmallEx
<1>9. CASE PopFixed(u)
  <2>1. /\ kind = "fixed" /\ free # <<>> /\ Gets(u, Head(free), 1) /\ free' = Tail(free)
        /\ userList' = <<Head(free)>> \o userList /\ UNCHANGED heap
    BY <1>9 DEF PopFixed
  <2>2. ObjectsInv'
    BY <1>1, <1>3, <1>4, <1>5, <2>1, TakesFree
  <2>3. /\ Holders' = Holders \cup {u}
        /\ holds'[u].obj = free[1]
        /\ \A v \in Holders : holds'[v] = holds[v]
    BY <1>1, <1>2, <1>5, <2>1, GetsFacts
  <2>4. \A v \in Holders : holds[v].obj # free[1]
    <3>1. \A v \in Holders : Apart(holds[v].obj, free[1])
           /\ holds[v].obj \in AnyObject
      BY <1>2, <2>1 DEF ObjectsInv, FreeNotHeld, PoolTypeOK, Holders
    <3>2. \A o \in AnyObject : ~Apart(o, o)
      BY DEF Apart, AnyObject
    <3>3. QED
      BY <3>1, <3>2
  <2>5. /\ userList \in Seq(AnyObject) /\ DOMAIN userList = 1 .. Len(userList)
        /\ Len(userList) \in Nat
    BY DEF PoolTypeOK
  <2>6. /\ DOMAIN userList' = 1 .. Len(userList) + 1 /\ userList'[1] = free[1]
        /\ \A i \in 2 .. Len(userList) + 1 : userList'[i] = userList[i - 1]
            /\ i - 1 \in DOMAIN userList
        /\ \A i \in DOMAIN userList : i + 1 \in DOMAIN userList'
            /\ userList'[i + 1] = userList[i]
    <3>1. PICK o \in AnyObject : o = free[1] /\ userList' = <<o>> \o userList
      BY <1>2, <2>1
    <3>2. PICK l \in Nat : l = Len(userList)
      BY <2>5
    <3>3. /\ DOMAIN userList' = 1 .. l + 1 /\ userList'[1] = o
          /\ \A i \in 2 .. l + 1 : userList'[i] = userList[i - 1]
      BY <2>5, <3>1, <3>2
    <3>4. /\ \A i \in 2 .. l + 1 : i - 1 \in 1 .. l
          /\ \A i \in 1 .. l : i + 1 \in 2 .. l + 1 /\ i + 1 \in 1 .. l + 1 /\ (i + 1) - 1 = i
      BY <3>2
    <3>5. QED
      BY <2>5, <3>1, <3>2, <3>3, <3>4
  <2>7. ASSUME NEW i \in DOMAIN userList', NEW j \in DOMAIN userList', i # j
        PROVE  userList'[i] # userList'[j]
    <3>0. \A k \in DOMAIN userList : userList[k] # free[1]
      BY <2>1, <2>4
    <3>1. CASE i = 1
      <4>1. j \in 2 .. Len(userList) + 1
        BY <2>5, <2>6, <2>7, <3>1
      <4>2. QED
        BY <2>6, <3>0, <3>1, <4>1
    <3>2. CASE j = 1
      <4>1. i \in 2 .. Len(userList) + 1
        BY <2>5, <2>6, <2>7, <3>2
      <4>2. QED
        BY <2>6, <3>0, <3>2, <4>1
    <3>3. CASE i # 1 /\ j # 1
      <4>1. /\ i \in 2 .. Len(userList) + 1 /\ j \in 2 .. Len(userList) + 1
            /\ i - 1 # j - 1
        BY <2>5, <2>6, <2>7, <3>3
      <4>2. QED
        BY <2>1, <2>6, <4>1
    <3>4. QED
      BY <3>1, <3>2, <3>3
  <2>8. \A i \in DOMAIN userList' : \E v \in Holders' : userList'[i] = holds'[v].obj
    <3>1. ASSUME NEW i \in DOMAIN userList'
          PROVE \E v \in Holders' : userList'[i] = holds'[v].obj
      <4>1. CASE i = 1
        BY <2>3, <2>6, <4>1
      <4>2. CASE i # 1
        <5>1. i \in 2 .. Len(userList) + 1
          BY <2>5, <2>6, <3>1, <4>2
        <5>2. PICK v \in Holders : userList[i - 1] = holds[v].obj
          BY <2>1, <2>6, <5>1
        <5>3. QED
          BY <2>3, <2>6, <5>1, <5>2
      <4>3. QED
        BY <4>1, <4>2
    <3>2. QED
      BY <3>1
  <2>9. \A v \in Holders' : \E i \in DOMAIN userList' : userList'[i] = holds'[v].obj
    <3>1. ASSUME NEW v \in Holders'
          PROVE \E i \in DOMAIN userList' : userList'[i] = holds'[v].obj
      <4>1. CASE v = u
        <5>1. 1 \in DOMAIN userList'
          BY <2>5, <2>6
        <5>2. QED
          BY <2>3, <2>6, <4>1, <5>1
      <4>2. CASE v # u
        <5>1. PICK i \in DOMAIN userList : userList[i] = holds[v].obj
          BY <2>1, <2>3, <3>1, <4>2
        <5>2. i + 1 \in DOMAIN userList' /\ userList'[i + 1] = holds[v].obj
               /\ holds'[v] = holds[v]
          BY <2>3, <2>6, <3>1, <4>2, <5>1
        <5>3. QED
          BY <5>2
      <4>3. QED
        BY <4>1, <4>2
    <3>2. QED
      BY <3>1
  <2>10. ~initing
    BY <2>1
  <2>11. QED
    BY <1>1, <2>1, <2>2, <2>7, <2>8, <2>9, <2>10
<1>10. ASSUME NEW n \in Sizes, AllocateBlock(u, n) PROVE ObjectsInv' /\ KindInv'
  <2>1. kind = "block" /\ BlockSize \in Nat \ {0}
    BY <1>10 DEF AllocateBlock, PoolBounds
  <2>2. CASE n <= BlockSize /\ free # <<>>
    <3>1. Gets(u, Head(free), n) /\ free' = Tail(free) /\ UNCHANGED heap
      BY <1>10, <2>2 DEF AllocateBlock
    <3>2. Head(free).size >= n
      <4>1. Head(free).size >= BlockSize /\ Head(free).size \in Nat
        BY <1>2, <2>1, <2>2 DEF ObjectsInv, BlocksFit, AnyObject
      <4>2. QED
        BY <1>5, <2>1, <2>2, <4>1
    <3>3. ObjectsInv'
      BY <1>1, <1>3, <1>5, <2>1, <2>2, <3>1, <3>2, TakesFree
    <3>4. QED
      BY <1>1, <2>1, <3>3
  <2>3. CASE ~(n <= BlockSize /\ free # <<>>)
    <3>1. PICK m : m = IF n > BlockSize THEN n ELSE BlockSize
      OBVIOUS
    <3>2. m \in Nat \ {0} /\ m >= n /\ m >= BlockSize
      BY <1>5, <2>1, <3>1
    <3>3. PICK c : c = NewChunk(1)
      OBVIOUS
    <3>4. PICK o : o = Object(c, 1, m)
      OBVIOUS
    <3>5. /\ RoomFor(1) /\ Gets(u, o, n)
          /\ Allocates({c}, m) /\ UNCHANGED free
      BY <1>10, <2>3, <3>1, <3>3, <3>4 DEF AllocateBlock
    <3>6. c \in Chunks /\ c \notin DOMAIN heap
      BY <3>3, <3>5, FirstChunk
    <3>7. o \in AnyObject /\ o.chunk = c /\ o.first = 1 /\ o.size = m /\ 1 + m - 1 <= m
      BY <3>2, <3>4, <3>6 DEF Object, AnyObject
    <3>8. ObjectsInv'
      BY <1>1, <1>5, <2>1, <3>2, <3>5, <3>6, <3>7, TakesNewOne
    <3>9. QED
      BY <1>1, <2>1, <3>8
  <2>4. QED
    BY <2>2, <2>3
<1>11. ASSUME NEW n \in Sizes, AllocateNormal(u, n) PROVE ObjectsInv' /\ KindInv'
  <2>1. kind = "normal" /\ n <= 1
    BY <1>11 DEF AllocateNormal
  <2>2. CASE free # <<>>
    <3>1. /\ Gets(u, Head(free), n) /\ free' = Tail(free) /\ UNCHANGED heap
          /\ Head(free).chunk \in DOMAIN heap
      BY <1>11, <2>2 DEF AllocateNormal, Defined
    <3>2. InHeap(Head(free)) /\ Head(free).size >= n
      BY <1>2, <1>5, <2>1, <2>2, <3>1 DEF ObjectsInv, FreeAllocated, AnyObject
    <3>3. ObjectsInv'
      BY <1>1, <1>5, <2>2, <3>1, <3>2, TakesFree
    <3>4. QED
      BY <1>1, <2>1, <3>3
  <2>3. CASE free = <<>>
    <3>1. /\ RoomFor(1) /\ Gets(u, Object(NewChunk(1), 1, 1), n)
          /\ free' = Tail(AllocArray(BlockSize))
          /\ Allocates({NewChunk(1)}, BlockSize)
      BY <1>11, <2>3 DEF AllocateNormal
    <3>2. BlockSize \in Nat \ {0} /\ BlockSize \in Nat /\ 1 \in 1 .. BlockSize
      BY DEF PoolBounds
    <3>3. /\ NewList(AllocArray(BlockSize), {NewChunk(1)}, BlockSize)
          /\ Len(AllocArray(BlockSize)) > 0
      <4>1. /\ NewList(AllocArray(BlockSize), {NewChunk(1)}, BlockSize)
            /\ Len(AllocArray(BlockSize)) = BlockSize
        BY <2>1, <3>1, <3>2, ArrayList
      <4>2. QED
        BY <3>2, <4>1
    <3>4. AllocArray(BlockSize)[1] = Object(NewChunk(1), 1, 1)
      BY <3>2 DEF AllocArray
    <3>5. Gets(u, AllocArray(BlockSize)[1], n)
      BY <3>1, <3>4
    <3>6. ObjectsInv'
      BY <1>1, <1>5, <2>1, <2>3, <3>1, <3>3, <3>5, TakesFromNewList
    <3>7. QED
      BY <1>1, <2>1, <3>6
  <2>4. QED
    BY <2>2, <2>3
<1>12. ASSUME NEW n \in Sizes, AllocateScopeLeft(u, n) PROVE ObjectsInv' /\ KindInv'
  <2>1. PICK o : o = Object(scope.chunk, scope.left - n + 1, n)
    OBVIOUS
  <2>2. /\ kind = "scope" /\ scope.left >= n /\ scope' = [scope EXCEPT !.left = scope.left - n]
        /\ Gets(u, o, n) /\ UNCHANGED <<heap, free>>
    BY <1>12, <2>1 DEF AllocateScopeLeft
  <2>3. /\ scope \in [chunk : {0} \cup Chunks, left : 0 .. BlockSize]
        /\ BlockSize \in Nat /\ scope.left \in Nat /\ n \in Nat \ {0}
    BY <1>5 DEF PoolTypeOK, PoolBounds
  <2>4. scope.left > 0 /\ free = <<>> /\ scope.chunk \in DOMAIN heap
         /\ scope.left <= heap[scope.chunk]
    BY <2>2, <2>3
  <2>5. scope.chunk \in Chunks /\ heap[scope.chunk] \in Nat
    BY <2>4 DEF PoolTypeOK
  <2>6. /\ o.chunk = scope.chunk /\ o.first = scope.left - n + 1 /\ o.size = n
        /\ o.first + o.size = scope.left + 1
    BY <2>1, <2>3 DEF Object
  <2>7. o \in AnyObject
    BY <2>1, <2>2, <2>3, <2>5 DEF Object, AnyObject
  <2>8. InHeap(o)
    BY <2>3, <2>4, <2>5, <2>6 DEF InHeap
  <2>9. /\ Holders' = Holders \cup {u} /\ u \notin Holders
        /\ holds'[u].obj = o /\ holds'[u].asked = n
        /\ \A v \in Holders : holds'[v] = holds[v]
    BY <1>1, <1>5, <2>2, <2>7, GetsFacts
  <2>10. \A v \in Holders : Apart(o, holds[v].obj) /\ Apart(holds[v].obj, o)
    <3>1. SUFFICES ASSUME NEW v \in Holders, holds[v].obj.chunk = scope.chunk
                   PROVE  o.first + o.size <= holds[v].obj.first
      BY <2>6 DEF Apart
    <3>2. holds[v].obj.first \in Nat /\ holds[v].obj.first > scope.left
      BY <2>2, <3>1 DEF PoolTypeOK, Holders, AnyObject
    <3>3. QED
      BY <2>3, <2>6, <3>2
  <2>11. HeldAllocated'
    BY <2>2, <2>3, <2>6, <2>8, <2>9 DEF ObjectsInv, HeldAllocated, InHeap
  <2>12. HeldApart'
    BY <2>9, <2>10 DEF ObjectsInv, HeldApart
  <2>13. DOMAIN free' = {}
    BY <2>2, <2>4
  <2>14. FreeAllocated' /\ FreeApart' /\ FreeNotHeld' /\ BlocksFit' /\ ChunksAreWhole'
          /\ AllCovered'
    BY <1>1, <2>2, <2>13 DEF FreeAllocated, FreeApart, FreeNotHeld, BlocksFit, ChunksAreWhole,
       AllCovered
  <2>15. scope'.chunk = scope.chunk /\ scope'.left = scope.left - n
    BY <2>2, <2>3
  <2>16. scope'.left <= heap'[scope'.chunk]
    BY <2>2, <2>3, <2>4, <2>5, <2>15
  <2>17. ASSUME NEW v \in Holders', holds'[v].obj.chunk = scope'.chunk
         PROVE  holds'[v].obj.first > scope'.left
    <3>1. CASE v = u
      BY <2>3, <2>6, <2>9, <2>15, <3>1
    <3>2. CASE v # u
      <4>1. v \in Holders /\ holds'[v] = holds[v]
        BY <2>9, <2>17, <3>2
      <4>2. holds[v].obj.first \in Nat /\ holds[v].obj.first > scope.left
        BY <2>2, <2>15, <2>17, <4>1 DEF PoolTypeOK, Holders, AnyObject
      <4>3. QED
        BY <2>3, <2>15, <4>1, <4>2
    <3>3. QED
      BY <3>1, <3>2
  <2>18. KindInv'
    BY <1>1, <2>2, <2>4, <2>15, <2>16, <2>17
  <2>19. QED
    BY <2>11, <2>12, <2>14, <2>18 DEF ObjectsInv
<1>13. ASSUME NEW n \in Sizes, AllocateScopeLarge(u, n) PROVE ObjectsInv' /\ KindInv'
  <2>1. PICK c : c = NewChunk(1)
    OBVIOUS
  <2>2. PICK o : o = Object(c, 1, n)
    OBVIOUS
  <2>3. /\ kind = "scope" /\ RoomFor(1) /\ Allocates({c}, n) /\ Gets(u, o, n)
        /\ scope' = IF scope = NoScope THEN [chunk |-> c, left |-> 0] ELSE scope
        /\ UNCHANGED free
    BY <1>13, <2>1, <2>2 DEF AllocateScopeLarge
  <2>4. c \in Chunks /\ c \notin DOMAIN heap /\ n \in Nat \ {0}
    BY <1>5, <2>1, <2>3, FirstChunk
  <2>5. o \in AnyObject /\ o.chunk = c /\ o.first = 1 /\ o.size = n /\ 1 + n - 1 <= n
         /\ n >= n
    BY <2>2, <2>4 DEF Object, AnyObject
  <2>6. ObjectsInv'
    BY <1>1, <1>5, <2>3, <2>4, <2>5, TakesNewOne
  <2>7. /\ Holders' = Holders \cup {u} /\ u \notin Holders
        /\ holds'[u].obj = o /\ \A v \in Holders : holds'[v] = holds[v]
    BY <1>1, <1>5, <2>3, <2>5, GetsFacts
  <2>8. /\ \A v \in Holders : holds[v].obj.chunk \in DOMAIN heap
            /\ holds[v].obj.first \in Nat \ {0}
        /\ scope.left \in Nat
    BY DEF ObjectsInv, HeldAllocated, InHeap, PoolTypeOK, Holders, AnyObject
  <2>9. /\ DOMAIN heap' = DOMAIN heap \cup {c} /\ \A d \in DOMAIN heap : heap'[d] = heap[d]
    BY <2>3, <2>4 DEF Allocates
  <2>10. CASE scope = NoScope
    <3>1. scope'.left = 0
      BY <2>3, <2>10
    <3>2. \A v \in Holders' : holds'[v].obj.first > 0
      BY <2>5, <2>7, <2>8
    <3>3. QED
      BY <1>1, <2>3, <2>6, <3>1, <3>2
  <2>11. CASE scope # NoScope
    <3>1. scope' = scope
      BY <2>3, <2>11
    <3>2. ASSUME NEW v \in Holders', holds'[v].obj.chunk = scope.chunk
          PROVE  holds'[v].obj.first > scope.left
      <4>1. CASE v = u
        <5>1. scope.left = 0
          BY <2>3, <2>4, <2>5, <2>7, <2>8, <3>2, <4>1
        <5>2. QED
          BY <2>5, <2>7, <4>1, <5>1
      <4>2. CASE v # u
        BY <2>3, <2>7, <3>2, <4>2
      <4>3. QED
        BY <4>1, <4>2
    <3>3. scope.left > 0 => scope.chunk \in DOMAIN heap' /\ scope.left <= heap'[scope.chunk]
      BY <2>3, <2>9
    <3>4. QED
      BY <1>1, <2>3, <2>6, <3>1, <3>2, <3>3
  <2>12. QED
    BY <2>10, <2>11
<1>14. ASSUME NEW n \in Sizes, AllocateScopeNext(u, n) PROVE ObjectsInv' /\ KindInv'
  <2>1. PICK c : c = NewChunk(1)
    OBVIOUS
  <2>2. PICK o : o = Object(c, BlockSize - n + 1, n)
    OBVIOUS
  <2>3. /\ kind = "scope" /\ RoomFor(1) /\ Allocates({c}, BlockSize)
            /\ Gets(u, o, n)
        /\ scope' = [chunk |-> c, left |-> BlockSize - n] /\ n < BlockSize
        /\ UNCHANGED free
    BY <1>14, <2>1, <2>2 DEF AllocateScopeNext
  <2>4. c \in Chunks /\ c \notin DOMAIN heap /\ n \in Nat \ {0} /\ BlockSize \in Nat
    BY <1>5, <2>1, <2>3, FirstChunk DEF PoolBounds
  <2>5. /\ o.chunk = c /\ o.first = BlockSize - n + 1 /\ o.size = n
        /\ o.first + o.size - 1 <= BlockSize /\ o.size >= n
    BY <2>2, <2>4 DEF Object
  <2>6. o \in AnyObject
    BY <2>2, <2>3, <2>4 DEF Object, AnyObject
  <2>7. ObjectsInv'
    BY <1>1, <1>5, <2>3, <2>4, <2>5, <2>6, TakesNewOne
  <2>8. /\ Holders' = Holders \cup {u} /\ u \notin Holders
        /\ holds'[u].obj = o /\ \A v \in Holders : holds'[v] = holds[v]
    BY <1>1, <1>5, <2>3, <2>6, GetsFacts
  <2>9. \A v \in Holders : holds[v].obj.chunk \in DOMAIN heap
    BY DEF ObjectsInv, HeldAllocated, InHeap
  <2>10. c \in DOMAIN heap' /\ heap'[c] = BlockSize
    BY <2>3 DEF Allocates
  <2>11. scope'.chunk = c /\ scope'.left = BlockSize - n /\ BlockSize - n <= BlockSize
         /\ BlockSize - n + 1 > BlockSize - n
    BY <2>3, <2>4
  <2>12. \A v \in Holders' : holds'[v].obj.chunk = c => holds'[v].obj.first > BlockSize - n
    BY <2>4, <2>5, <2>8, <2>9, <2>11
  <2>13. QED
    BY <1>1, <2>3, <2>7, <2>10, <2>11, <2>12
<1>15. QED
  BY <1>7, <1>8, <1>9, <1>10, <1>11, <1>12, <1>13, <1>14 DEF HandOut

(* What RemoveAt leaves of a list: the ones before k, and the ones behind  *)
(* it.                                                                     *)
LEMMA RemoveAtFacts ==
  ASSUME NEW A, NEW s \in Seq(A), NEW k \in DOMAIN s
  PROVE  /\ DOMAIN RemoveAt(s, k) = 1 .. Len(s) - 1
         /\ \A i \in 1 .. k - 1 : RemoveAt(s, k)[i] = s[i]
         /\ \A i \in k .. Len(s) - 1 : RemoveAt(s, k)[i] = s[i + 1]
<1>1. Len(s) \in Nat /\ k \in 1 .. Len(s)
  OBVIOUS
<1>2. PICK p : p = SubSeq(s, 1, k - 1)
  OBVIOUS
<1>3. PICK q : q = SubSeq(s, k + 1, Len(s))
  OBVIOUS
<1>4. p \in Seq(A) /\ Len(p) = k - 1 /\ \A i \in 1 .. k - 1 : p[i] = s[i]
  BY <1>1, <1>2
<1>5. q \in Seq(A) /\ Len(q) = Len(s) - k /\ \A i \in 1 .. Len(s) - k : q[i] = s[k + i]
  BY <1>1, <1>3
<1>6. RemoveAt(s, k) = p \o q
  BY <1>2, <1>3 DEF RemoveAt
<1>7. /\ DOMAIN (p \o q) = 1 .. Len(s) - 1
      /\ \A i \in 1 .. k - 1 : (p \o q)[i] = p[i]
      /\ \A i \in k .. Len(s) - 1 : (p \o q)[i] = q[i - (k - 1)]
  BY <1>1, <1>4, <1>5
<1>8. \A i \in k .. Len(s) - 1 : i - (k - 1) \in 1 .. Len(s) - k /\ k + (i - (k - 1)) = i + 1
  BY <1>1
<1>9. QED
  BY <1>4, <1>5, <1>6, <1>7, <1>8

(* Taking back, of each kind of pool.                                      *)
LEMMA PushInv ==
  ASSUME PoolBounds, PoolTypeOK, ObjectsInv, KindInv, NEW u \in Users, TakeBack(u),
         Defined'
  PROVE  ObjectsInv' /\ KindInv'
<1>. USE DEF KindInv, ScopeLeftIsFree, UserListIsHeld, FixedEmptyInInit
<1>1. holds[u] # None /\ Loses(u) /\ u \in Holders
       /\ UNCHANGED <<kind, param, initing>>
  BY DEF TakeBack, Holders
<1>2. /\ Holders' = Holders \ {u}
      /\ \A v \in Holders \ {u} : holds'[v] = holds[v]
  BY <1>1, LosesFacts
<1>3. CASE PushSmall(u)
  <2>1. kind = "small"
    BY <1>3 DEF PushSmall
  <2>2. \/ free' = Append(free, holds[u].obj) /\ UNCHANGED heap
        \/ Frees(holds[u].obj.chunk) /\ UNCHANGED free
    BY <1>3 DEF PushSmall
  <2>3. ObjectsInv'
    BY <1>1, <2>1, <2>2, GivesBackAtEnd, Drops
  <2>4. QED
    BY <1>1, <2>1, <2>3
<1>4. CASE PushSmallEx(u)
  <2>1. kind = "smallex" /\ free' = Append(free, holds[u].obj) /\ UNCHANGED heap
    BY <1>4 DEF PushSmallEx
  <2>2. ObjectsInv'
    BY <1>1, <2>1, GivesBackAtEnd
  <2>3. QED
    BY <1>1, <2>1, <2>2
<1>5. CASE DeallocateBlock(u)
  <2>1. kind = "block"
    BY <1>5 DEF DeallocateBlock
  <2>2. \/ free' = <<holds[u].obj>> \o free /\ UNCHANGED heap
        \/ Frees(holds[u].obj.chunk) /\ UNCHANGED free
    BY <1>5 DEF DeallocateBlock
  <2>3. ObjectsInv'
    BY <1>1, <2>1, <2>2, GivesBackAtFront, Drops
  <2>4. QED
    BY <1>1, <2>1, <2>3
<1>6. CASE DeallocateNormal(u)
  <2>1. kind = "normal" /\ free' = <<holds[u].obj>> \o free /\ UNCHANGED heap
    BY <1>6 DEF DeallocateNormal
  <2>2. ObjectsInv'
    BY <1>1, <2>1, GivesBackAtFront
  <2>3. QED
    BY <1>1, <2>1, <2>2
<1>7. CASE DeallocateScope(u)
  <2>1. kind = "scope" /\ UNCHANGED <<heap, free, scope>>
    BY <1>7 DEF DeallocateScope
  <2>2. HeldAllocated' /\ HeldApart'
    BY <1>2, <2>1 DEF ObjectsInv, HeldAllocated, HeldApart, InHeap
  <2>3. DOMAIN free' = {}
    BY <2>1
  <2>4. FreeAllocated' /\ FreeApart' /\ FreeNotHeld' /\ BlocksFit' /\ ChunksAreWhole'
         /\ AllCovered'
    BY <1>1, <2>1, <2>3 DEF FreeAllocated, FreeApart, FreeNotHeld, BlocksFit, ChunksAreWhole,
       AllCovered
  <2>5. QED
    BY <1>1, <1>2, <2>1, <2>2, <2>4 DEF ObjectsInv
<1>8. CASE PushFixed(u)
  <2>1. kind = "fixed" /\ UNCHANGED heap /\ Defined
    BY <1>8 DEF PushFixed, TakeBack
  <2>2. PICK k \in DOMAIN userList :
          /\ userList[k] = holds[u].obj /\ userList' = RemoveAt(userList, k)
          /\ free' = <<holds[u].obj>> \o free
    BY <1>8 DEF PushFixed, Defined
  <2>3. ObjectsInv'
    BY <1>1, <2>1, <2>2, GivesBackAtFront
  <2>4. \A v \in Holders \ {u} : holds[v].obj # holds[u].obj
    <3>1. \A v \in Holders : holds[v].obj \in AnyObject
      BY DEF PoolTypeOK, Holders
    <3>2. \A o \in AnyObject : ~Apart(o, o)
      BY DEF Apart, AnyObject
    <3>3. QED
      BY <1>1, <3>1, <3>2 DEF ObjectsInv, HeldApart
  <2>5. PICK l \in Nat : l = Len(userList) /\ DOMAIN userList = 1 .. l
    BY DEF PoolTypeOK
  <2>6. /\ DOMAIN userList' = 1 .. l - 1
        /\ \A i \in 1 .. k - 1 : userList'[i] = userList[i]
        /\ \A i \in k .. l - 1 : userList'[i] = userList[i + 1]
    BY <2>2, <2>5, RemoveAtFacts DEF PoolTypeOK
  <2>7. PICK h : h = [i \in 1 .. l - 1 |-> IF i < k THEN i ELSE i + 1]
    OBVIOUS
  <2>8. \A i \in 1 .. l - 1 : h[i] \in 1 .. l /\ h[i] # k /\ userList'[i] = userList[h[i]]
    <3>1. ASSUME NEW i \in 1 .. l - 1, i < k
          PROVE  h[i] \in 1 .. l /\ h[i] # k /\ userList'[i] = userList[h[i]]
      <4>1. h[i] = i /\ i \in 1 .. k - 1
        BY <2>2, <2>5, <2>7, <3>1
      <4>2. QED
        BY <2>6, <3>1, <4>1
    <3>2. ASSUME NEW i \in 1 .. l - 1, ~(i < k)
          PROVE  h[i] \in 1 .. l /\ h[i] # k /\ userList'[i] = userList[h[i]]
      <4>1. h[i] = i + 1 /\ i \in k .. l - 1
        BY <2>2, <2>5, <2>7, <3>2
      <4>2. i + 1 \in 1 .. l /\ i + 1 # k
        BY <2>2, <2>5, <3>2
      <4>3. QED
        BY <2>6, <4>1, <4>2
    <3>3. QED
      BY <3>1, <3>2
  <2>9. \A i, j \in 1 .. l - 1 : i # j => h[i] # h[j]
    BY <2>2, <2>5, <2>7
  <2>10. \A j \in 1 .. l : j # k => \E i \in 1 .. l - 1 : h[i] = j
    <3>1. ASSUME NEW j \in 1 .. l, j # k PROVE \E i \in 1 .. l - 1 : h[i] = j
      <4>1. CASE j < k
        <5>1. j \in 1 .. l - 1 /\ h[j] = j
          BY <2>2, <2>5, <2>7, <4>1
        <5>2. QED
          BY <5>1
      <4>2. CASE j > k
        <5>1. j - 1 \in 1 .. l - 1 /\ ~(j - 1 < k) /\ (j - 1) + 1 = j
          BY <2>2, <2>5, <4>2
        <5>2. h[j - 1] = j
          BY <2>7, <5>1
        <5>3. QED
          BY <5>1, <5>2
      <4>3. QED
        BY <2>2, <2>5, <3>1, <4>1, <4>2
    <3>2. QED
      BY <3>1
  <2>11. \A i, j \in DOMAIN userList' : i # j => userList'[i] # userList'[j]
    BY <2>1, <2>5, <2>6, <2>8, <2>9
  <2>12. \A i \in DOMAIN userList' : \E v \in Holders' : userList'[i] = holds'[v].obj
    <3>1. ASSUME NEW i \in DOMAIN userList'
          PROVE \E v \in Holders' : userList'[i] = holds'[v].obj
      <4>1. PICK j \in DOMAIN userList : j = h[i] /\ j # k /\ userList'[i] = userList[j]
        BY <2>5, <2>6, <2>8, <3>1
      <4>2. PICK v \in Holders : userList[j] = holds[v].obj
        BY <2>1
      <4>3. v # u
        BY <2>1, <2>2, <4>1, <4>2
      <4>4. QED
        BY <1>2, <4>1, <4>2, <4>3
    <3>2. QED
      BY <3>1
  <2>13. \A v \in Holders' : \E i \in DOMAIN userList' : userList'[i] = holds'[v].obj
    <3>1. ASSUME NEW v \in Holders'
          PROVE \E i \in DOMAIN userList' : userList'[i] = holds'[v].obj
      <4>1. v \in Holders \ {u} /\ holds'[v] = holds[v]
        BY <1>2, <3>1
      <4>2. PICK j \in DOMAIN userList : userList[j] = holds[v].obj
        BY <2>1, <4>1
      <4>3. j # k
        BY <2>2, <2>4, <4>1, <4>2
      <4>4. PICK i \in 1 .. l - 1 : h[i] = j
        BY <2>5, <2>10, <4>3
      <4>5. QED
        BY <2>6, <2>8, <4>1, <4>2, <4>4
    <3>2. QED
      BY <3>1
  <2>14. ~initing
    BY <1>1, <2>1 DEF ObjectsInv, HeldAllocated, InHeap
  <2>15. QED
    BY <1>1, <2>1, <2>3, <2>11, <2>12, <2>13, <2>14
<1>9. QED
  BY <1>3, <1>4, <1>5, <1>6, <1>7, <1>8 DEF TakeBack

(* The invariant is inductive: it holds at first, and every step keeps it. *)
LEMMA PoolInvInit ==
  ASSUME PoolBounds, PoolInit
  PROVE  PoolInv
<1>1. DOMAIN heap = {} /\ DOMAIN free = {} /\ DOMAIN userList = {} /\ Holders = {}
  <2>1. DOMAIN <<>> = {}
    OBVIOUS
  <2>2. QED
    BY <2>1 DEF PoolInit, NoFreeList, NoUserList, Holders
<1>2. PoolTypeOK
  <2>1. 0 \in 0 .. BlockSize
    BY DEF PoolBounds
  <2>2. free \in Seq(AnyObject) /\ userList \in Seq(AnyObject) /\ Len(free) = 0
    BY DEF PoolInit, NoFreeList, NoUserList
  <2>3. param \in [max : Limits, grow : GrowCounts \cup {1}] /\ param.max \in Nat
    BY DEF PoolInit, PoolBounds
  <2>4. scope \in [chunk : {0} \cup Chunks, left : 0 .. BlockSize]
    BY <2>1 DEF PoolInit, NoScope
  <2>5. holds \in [Users -> [obj : AnyObject, asked : {1} \cup Sizes] \cup {None}]
    BY DEF PoolInit
  <2>6. DOMAIN heap \subseteq Chunks /\ (\A c \in DOMAIN heap : heap[c] \in Nat)
    BY <1>1
  <2>7. Len(free) <= param.max
    BY <2>2, <2>3
  <2>8. kind \in Kinds /\ initing = FALSE
    BY DEF PoolInit
  <2>9. QED
    BY <2>2, <2>3, <2>4, <2>5, <2>6, <2>7, <2>8 DEF PoolTypeOK
<1>3. ScopeHasChunk /\ scope.left = 0
  BY DEF PoolInit, ScopeHasChunk, NoScope
<1>4. ObjectsInv
  BY <1>1 DEF ObjectsInv, HeldAllocated, FreeAllocated, FreeApart, HeldApart, FreeNotHeld,
       BlocksFit, ChunksAreWhole, AllCovered
<1>5. KindInv
  BY <1>1, <1>3 DEF PoolInit, NoFreeList, KindInv, ScopeLeftIsFree, UserListIsHeld,
     FixedEmptyInInit
<1>6. QED
  BY <1>2, <1>3, <1>4, <1>5 DEF PoolInv

LEMMA PoolInvNext ==
  ASSUME PoolBounds, PoolInv, [PoolNext]_poolVars
  PROVE  PoolInv'
<1>1. PoolTypeOK /\ ScopeHasChunk
  BY DEF PoolInv
<1>2. /\ kind \in Kinds /\ param \in [max : Limits, grow : GrowCounts \cup {1}]
      /\ initing \in BOOLEAN
      /\ holds \in [Users -> [obj : AnyObject, asked : {1} \cup Sizes] \cup {None}]
      /\ kind = "block" => Len(free) <= param.max
      /\ free \in Seq(AnyObject) /\ userList \in Seq(AnyObject)
      /\ scope \in [chunk : {0} \cup Chunks, left : 0 .. BlockSize]
  BY <1>1 DEF PoolTypeOK
<1>3. CASE UNCHANGED poolVars
  <2>1. UNCHANGED <<kind, heap, free, userList, scope, param, initing, holds, undefined>>
    BY <1>3 DEF poolVars
  <2>2. PoolTypeOK' /\ ScopeHasChunk'
    BY <1>1, <2>1 DEF PoolTypeOK, ScopeHasChunk, Chunks, AnyObject
  <2>3. Defined' = Defined /\ Holders' = Holders
    BY <2>1 DEF Defined, Holders
  <2>4. ObjectsInv => ObjectsInv'
    BY <2>1, <2>3 DEF ObjectsInv, HeldAllocated, FreeAllocated, FreeApart, HeldApart,
       FreeNotHeld, BlocksFit, ChunksAreWhole, AllCovered, InHeap, WholeChunk
  <2>5. KindInv => KindInv'
    BY <2>1, <2>3 DEF KindInv, ScopeLeftIsFree, UserListIsHeld, FixedEmptyInInit
  <2>6. QED
    BY <2>2, <2>3, <2>4, <2>5 DEF PoolInv
<1>4. ASSUME clear, Defined, UNCHANGED <<kind, param, holds>>, initing' \in BOOLEAN
      PROVE  PoolInv'
  <2>1. ObjectsInv /\ KindInv
    BY <1>4 DEF PoolInv
  <2>2. Defined' => ObjectsInv' /\ KindInv'
    BY <1>1, <1>4, <2>1, ClearInv
  <2>3. \A u \in Holders : holds[u].obj.chunk \in DOMAIN heap
    BY <2>1 DEF ObjectsInv, HeldAllocated, InHeap
  <2>4. ClearParts
    BY <1>1, <1>4, <2>3, ClearTypes
  <2>5. QED
    BY <1>2, <1>4, <2>2, <2>4 DEF PoolInv, ClearParts, HeapOK, PoolTypeOK, Chunks,
       AnyObject
<1>5. CASE Clear
  BY <1>2, <1>4, <1>5 DEF Clear
<1>6. CASE InitClear
  BY <1>4, <1>6 DEF InitClear
<1>7. CASE InitAlloc
  <2>1. ObjectsInv' /\ KindInv'
    BY <1>1, <1>7, InitAllocInv DEF PoolInv, InitAlloc
  <2>2. /\ HeapOK' /\ free' \in Seq(AnyObject) /\ kind # "block"
        /\ param' \in [max : Limits, grow : GrowCounts \cup {1}]
    BY <1>1, <1>7, InitAllocTypes
  <2>3. QED
    BY <1>1, <1>2, <1>7, <2>1, <2>2 DEF InitAlloc, PoolInv, ScopeHasChunk, HeapOK,
       PoolTypeOK,
         Chunks, AnyObject
<1>8. ASSUME NEW u \in Users, HandOut(u) PROVE PoolInv'
  <2>1. ObjectsInv /\ KindInv /\ holds[u] = None /\ UNCHANGED <<kind, param, initing>>
    BY <1>8 DEF PoolInv, HandOut
  <2>2. Defined' => ObjectsInv' /\ KindInv'
    BY <1>1, <1>8, <2>1, PopInv
  <2>3. \E n \in {1} \cup Sizes : PopParts(u, n)
    BY <1>1, <1>8, PopTypes DEF HandOut
  <2>4. PICK n \in {1} \cup Sizes, o \in AnyObject : Gets(u, o, n)
    BY <2>3 DEF PopParts
  <2>5. holds' \in [Users -> [obj : AnyObject, asked : {1} \cup Sizes] \cup {None}]
    BY <1>1, <2>1, <2>4, GetsFacts
  <2>6. /\ HeapOK' /\ free' \in Seq(AnyObject) /\ userList' \in Seq(AnyObject)
        /\ scope' \in [chunk : {0} \cup Chunks, left : 0 .. BlockSize] /\ ScopeHasChunk'
        /\ kind = "block" => Len(free') <= Len(free)
    BY <2>3 DEF PopParts
  <2>7. kind = "block" => Len(free') <= param.max
    <3>1. param.max \in Limits
      BY <1>2
    <3>2. param.max \in Nat
      BY <3>1 DEF PoolBounds
    <3>3. Len(free) \in Nat /\ Len(free') \in Nat
      BY <1>2, <2>6
    <3>4. QED
      BY <1>2, <2>6, <3>2, <3>3
  <2>8. QED
    BY <1>2, <2>1, <2>2, <2>5, <2>6, <2>7 DEF PoolInv, HeapOK, PoolTypeOK, Chunks,
       AnyObject
<1>9. ASSUME NEW u \in Users, TakeBack(u) PROVE PoolInv'
  <2>1. ObjectsInv /\ KindInv /\ holds[u] # None /\ UNCHANGED <<kind, param, initing>>
         /\ Loses(u)
    BY <1>9 DEF PoolInv, TakeBack
  <2>2. Defined' => ObjectsInv' /\ KindInv'
    BY <1>1, <1>9, <2>1, PushInv
  <2>3. PushParts
    BY <1>1, <1>9, <2>1, PushTypes DEF TakeBack
  <2>4. holds' \in [Users -> [obj : AnyObject, asked : {1} \cup Sizes] \cup {None}]
    BY <1>1, <2>1, LosesFacts
  <2>5. QED
    BY <1>1, <1>2, <2>1, <2>2, <2>3, <2>4 DEF PoolInv, PushParts, ScopeHasChunk, HeapOK,
       PoolTypeOK,
         Chunks, AnyObject
<1>10. QED
  BY <1>3, <1>5, <1>6, <1>7, <1>8, <1>9 DEF PoolNext

(* The invariant of the pools, of every behaviour.                         *)
LEMMA PoolInvariant ==
  ASSUME PoolBounds
  PROVE  PoolSpec => []PoolInv
<1>1. PoolInit => PoolInv
  BY PoolInvInit
<1>2. PoolInv /\ [PoolNext]_poolVars => PoolInv'
  BY PoolInvNext
<1>3. QED
  BY <1>1, <1>2, PTL DEF PoolSpec

(* Every variable of a pool keeps its type, whatever the interleaving of   *)
(* pop, push, clear and the two critical sections of init: no pool hands   *)
(* out a chunk the heap has not given it, and CSLBlockAlloc never keeps    *)
(* more free blocks than nFreeLimit.                                       *)
THEOREM PoolTypeCorrect ==
  ASSUME PoolBounds
  PROVE  PoolSpec => []PoolTypeOK
<1>1. PoolInv => PoolTypeOK
  BY DEF PoolInv
<1>2. QED
  BY <1>1, PoolInvariant, PTL

(* What a user holds of a pool of any kind is allocated, as large as it    *)
(* asked for, and shares no cell with what another user holds or with what *)
(* is free.                                                                *)
THEOREM ObjectHasOneUserCorrect ==
  ASSUME PoolBounds
  PROVE  PoolSpec => []ObjectHasOneUser
<1>1. ASSUME PoolInv PROVE ObjectHasOneUser
  <2>1. SUFFICES ASSUME Defined, NEW u \in Holders
        PROVE  /\ InHeap(holds[u].obj) /\ holds[u].obj.size >= holds[u].asked
               /\ \A v \in Holders \ {u} :
                    CellsOf(holds[u].obj) \cap CellsOf(holds[v].obj) = {}
               /\ \A i \in DOMAIN free : CellsOf(holds[u].obj) \cap CellsOf(free[i]) = {}
    BY DEF ObjectHasOneUser, InHeap
  <2>2. HeldAllocated /\ HeldApart /\ FreeNotHeld
    BY <1>1, <2>1 DEF PoolInv, ObjectsInv
  <2>3. (\A v \in Holders : holds[v].obj \in AnyObject)
         /\ \A i \in DOMAIN free : free[i] \in AnyObject
    BY <1>1, PoolObjects DEF PoolInv
  <2>4. ASSUME NEW v \in Holders \ {u}
        PROVE  CellsOf(holds[u].obj) \cap CellsOf(holds[v].obj) = {}
    <3>1. Apart(holds[u].obj, holds[v].obj)
      BY <2>2, <2>4 DEF HeldApart
    <3>2. QED
      BY <2>3, <3>1, ApartObjects
  <2>5. ASSUME NEW i \in DOMAIN free
        PROVE CellsOf(holds[u].obj) \cap CellsOf(free[i]) = {}
    <3>1. Apart(holds[u].obj, free[i])
      BY <2>2 DEF FreeNotHeld
    <3>2. QED
      BY <2>3, <3>1, ApartObjects
  <2>6. QED
    BY <2>2, <2>4, <2>5 DEF HeldAllocated
<1>2. QED
  BY <1>1, PoolInvariant, PTL

(* Nothing of the object pools and of CSLBlockAlloc is lost: a cell that   *)
(* is allocated is that of a free object or of one a user holds, none of   *)
(* them is outside of what is allocated, and pUserList is what is held.    *)
THEOREM NothingLeaksCorrect ==
  ASSUME PoolBounds
  PROVE  PoolSpec => []NothingLeaks
<1>1. ASSUME PoolInv PROVE NothingLeaks
  <2>1. SUFFICES ASSUME Defined, kind \notin {"scope", "normal"}
        PROVE  /\ UNION {CellsOf(Object(c, 1, heap[c])) : c \in DOMAIN heap}
                    = (UNION {CellsOf(free[i]) : i \in DOMAIN free})
                      \cup (UNION {CellsOf(holds[u].obj) : u \in Holders})
               /\ kind = "fixed" => ToSet(userList) = {holds[u].obj : u \in Holders}
    BY DEF NothingLeaks
  <2> DEFINE All == UNION {CellsOf(Object(c, 1, heap[c])) : c \in DOMAIN heap}
             Fr == UNION {CellsOf(free[i]) : i \in DOMAIN free}
             He == UNION {CellsOf(holds[u].obj) : u \in Holders}
  <2>2. HeldAllocated /\ FreeAllocated /\ AllCovered /\ UserListIsHeld
    BY <1>1, <2>1 DEF PoolInv, ObjectsInv, KindInv
  <2>3. (\A v \in Holders : holds[v].obj \in AnyObject)
         /\ \A i \in DOMAIN free : free[i] \in AnyObject
    BY <1>1, PoolObjects DEF PoolInv
  <2>4. \A c \in DOMAIN heap : heap[c] \in Nat
    BY <1>1 DEF PoolInv, PoolTypeOK
  <2>5. ASSUME NEW x \in All PROVE x \in Fr \cup He
    <3>1. PICK c \in DOMAIN heap : x \in CellsOf(Object(c, 1, heap[c]))
      OBVIOUS
    <3>2. PICK i \in 1 .. heap[c] : x = <<c, i>>
      BY <2>4, <3>1 DEF CellsOf, Object
    <3>3. CASE \E j \in DOMAIN free : Covers(free[j], c, i)
      <4>1. PICK j \in DOMAIN free : Covers(free[j], c, i)
        BY <3>3
      <4>2. x \in CellsOf(free[j])
        BY <2>3, <2>4, <3>2, <4>1 DEF Covers, CellsOf, AnyObject
      <4>3. QED
        BY <4>2
    <3>4. CASE \E u \in Holders : Covers(holds[u].obj, c, i)
      <4>1. PICK u \in Holders : Covers(holds[u].obj, c, i)
        BY <3>4
      <4>2. x \in CellsOf(holds[u].obj)
        BY <2>3, <2>4, <3>2, <4>1 DEF Covers, CellsOf, AnyObject
      <4>3. QED
        BY <4>2
    <3>5. QED
      BY <2>1, <2>2, <3>2, <3>3, <3>4 DEF AllCovered
  <2>6. ASSUME NEW o \in AnyObject, InHeap(o), NEW x \in CellsOf(o) PROVE x \in All
    <3>1. PICK i \in o.first .. o.first + o.size - 1 : x = <<o.chunk, i>>
      BY DEF CellsOf
    <3>2. i \in 1 .. heap[o.chunk] /\ o.chunk \in DOMAIN heap
      BY <2>4, <2>6 DEF InHeap, AnyObject
    <3>3. x \in CellsOf(Object(o.chunk, 1, heap[o.chunk]))
      BY <2>4, <3>1, <3>2 DEF CellsOf, Object
    <3>4. QED
      BY <3>2, <3>3
  <2>7. Fr \subseteq All
    <3>1. \A j \in DOMAIN free : InHeap(free[j])
      BY <2>1, <2>2 DEF FreeAllocated
    <3> HIDE DEF All
    <3>2. QED
      BY <2>3, <2>6, <3>1
  <2>8. He \subseteq All
    <3>1. \A u \in Holders : InHeap(holds[u].obj)
      BY <2>2 DEF HeldAllocated
    <3> HIDE DEF All
    <3>2. QED
      BY <2>3, <2>6, <3>1
  <2>9. ASSUME kind = "fixed" PROVE ToSet(userList) = {holds[u].obj : u \in Holders}
    BY <2>2, <2>9 DEF UserListIsHeld, ToSet
  <2>10. All = Fr \cup He
    <3> HIDE DEF All, Fr, He
    <3> QED
      BY <2>5, <2>7, <2>8
  <2>11. QED
    BY <2>9, <2>10
<1>2. QED
  BY <1>1, PoolInvariant, PTL
=============================================================================
