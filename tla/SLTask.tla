------------------------------- MODULE SLTask -------------------------------
(***************************************************************************)
(* CSLTask: a bounded message queue (CSLMessageQueue), a semaphore that    *)
(* counts its messages (CSemaphore) and a group of worker threads          *)
(* (CThreadGroup) that take and process them.  Threads of the application  *)
(* post messages; its main thread activates the task, also while threads   *)
(* of an earlier Activate live, and closes it.                             *)
(*                                                                         *)
(* The queue is the sequence of its messages, which are numbered in the    *)
(* order of their posting.  How CSLMessageQueue keeps them in linked nodes *)
(* is not modelled here.                                                   *)
(***************************************************************************)
EXTENDS Integers, Sequences, FiniteSets

CONSTANTS
  Workers,         \* the threads Activate may start
  Posters,         \* the application threads that post messages
  QueueMaxSize,    \* the nQueueMaxSize given to Activate
  MaxMessages,     \* bound: messages accepted in one behaviour
  MaxActivates,    \* bound: calls of Activate in one behaviour
  Calls,           \* which calls the application makes
  NoThread, DeadThread

(* "post" and "early": PostMessage after Activate, and at any time;        *)
(* "push": Push; "pop": Pop; "close": Close; "fewer": not a call, but that *)
(* not every thread can be started.                                        *)
CallKinds == {"post", "early", "push", "pop", "close", "fewer"}

ASSUME BoundsAssumption ==
  QueueMaxSize \in Nat /\ MaxMessages \in Nat /\ MaxActivates \in Nat /\ Calls \subseteq CallKinds
ASSUME ThreadsAssumption ==
  /\ IsFiniteSet(Workers) /\ IsFiniteSet(Posters)
  /\ {NoThread, DeadThread} \cap Workers = {} /\ NoThread # DeadThread

VARIABLES
  m_msgQueue,    \* the messages in the queue, oldest first
  m_nMaxSize,    \* the queue's limit, 0 for none
  m_lock,        \* the worker inside the queue's lock across steps, DeadThread
                 \*   where that worker was terminated, or NoThread
  m_hSemaphore,  \* whether the semaphore's handle is valid
  nCount,        \* the count of the semaphore
  m_ThreadCmd,   \* the thread group's command
  worker,        \* where each worker is, "none" if there is no such thread
  poster,        \* where each poster is
  owner,         \* where the thread that calls Activate and Close is
  nUnLocks,      \*   how many UnLocks of Close are left
  waitFor,       \*   the threads Stop has not waited for yet
  nPosted,       \* how many messages were accepted
  nActivated,    \* how often Activate was called
  nUnsignalled,  \* history: messages whose signal was not given, or was lost
  killed         \* history: an Activate has terminated threads that lived

queueVars     == <<m_msgQueue, m_nMaxSize, m_lock>>
semaphoreVars == <<m_hSemaphore, nCount>>
ownerVars     == <<owner, nUnLocks, waitFor>>
countVars     == <<nPosted, nActivated, nUnsignalled, killed>>
vars == <<queueVars, semaphoreVars, m_ThreadCmd, worker, poster, ownerVars, countVars>>

Messages == 1 .. MaxMessages
Alive    == {w \in Workers : worker[w] # "none"}

WorkerGoes(w, label) == worker' = [worker EXCEPT ![w] = label]

----------------------------------------------------------------------------
(* CSemaphore.  A release wakes a thread that waits or, where none does,   *)
(* adds to the count unless that is at its maximum; it fails without a     *)
(* valid handle.                                                           *)

Waiting == {w \in Workers : worker[w] = "wait"}

(* Variant: the count has no maximum.                                      *)
UnLockNoMaximum ==
  \/ /\ m_hSemaphore
     /\ \E w \in Waiting : WorkerGoes(w, "get")
     /\ UNCHANGED nCount
  \/ /\ m_hSemaphore /\ Waiting = {}
     /\ nCount' = nCount + 1
     /\ UNCHANGED worker
  \/ /\ ~m_hSemaphore
     /\ UNCHANGED <<nCount, worker>>

UnLock ==
  \/ /\ m_hSemaphore
     /\ \E w \in Waiting : WorkerGoes(w, "get")
     /\ UNCHANGED nCount
  \/ /\ m_hSemaphore /\ Waiting = {}
     /\ nCount' = IF nCount < QueueMaxSize THEN nCount + 1 ELSE nCount
     /\ UNCHANGED worker
  \/ /\ ~m_hSemaphore
     /\ UNCHANGED <<nCount, worker>>

----------------------------------------------------------------------------
(* The application's threads.                                              *)

(* Variant: the limit is not tested.                                       *)
EnqueueNoLimit ==
  /\ m_lock = NoThread
  /\ nPosted < MaxMessages
  /\ m_msgQueue' = Append(m_msgQueue, nPosted + 1)
  /\ nPosted' = nPosted + 1
  /\ UNCHANGED <<m_nMaxSize, m_lock>>

Enqueue ==
  /\ m_lock = NoThread
  /\ m_nMaxSize > 0 => Len(m_msgQueue) < m_nMaxSize
  /\ nPosted < MaxMessages
  /\ m_msgQueue' = Append(m_msgQueue, nPosted + 1)
  /\ nPosted' = nPosted + 1
  /\ UNCHANGED <<m_nMaxSize, m_lock>>

(* PostMessage enqueues, then releases the semaphore.                      *)
PostMessage(p) ==
  /\ poster[p] = "idle"
  /\ "early" \in Calls \/ ("post" \in Calls /\ m_hSemaphore)
  /\ Enqueue
  /\ poster' = [poster EXCEPT ![p] = "signal"]
  /\ UNCHANGED <<semaphoreVars, m_ThreadCmd, worker, ownerVars, nActivated, nUnsignalled, killed>>

(* Variant: only the message that finds the queue empty is signalled.      *)
SignalIfFirst(p) ==
  /\ poster[p] = "signal"
  /\ IF Len(m_msgQueue) <= 1 THEN UnLock ELSE UNCHANGED <<nCount, worker>>
  /\ poster' = [poster EXCEPT ![p] = "idle"]
  /\ nUnsignalled' = IF m_hSemaphore THEN nUnsignalled ELSE nUnsignalled + 1
  /\ UNCHANGED <<queueVars, m_hSemaphore, m_ThreadCmd, ownerVars, nPosted, nActivated, killed>>

Signal(p) ==
  /\ poster[p] = "signal"
  /\ UnLock
  /\ poster' = [poster EXCEPT ![p] = "idle"]
  /\ nUnsignalled' = IF m_hSemaphore THEN nUnsignalled ELSE nUnsignalled + 1
  /\ UNCHANGED <<queueVars, m_hSemaphore, m_ThreadCmd, ownerVars, nPosted, nActivated, killed>>

Push(p) ==
  /\ poster[p] = "idle"
  /\ "push" \in Calls
  /\ Enqueue
  /\ nUnsignalled' = nUnsignalled + 1
  /\ UNCHANGED <<semaphoreVars, m_ThreadCmd, worker, poster, ownerVars, nActivated, killed>>

Pop(p) ==
  /\ poster[p] = "idle"
  /\ "pop" \in Calls
  /\ m_lock = NoThread
  /\ m_msgQueue # <<>>
  /\ m_msgQueue' = Tail(m_msgQueue)
  /\ UNCHANGED <<m_nMaxSize, m_lock, semaphoreVars, m_ThreadCmd, worker, poster, ownerVars, countVars>>

----------------------------------------------------------------------------
(* A worker: the loop of Run.                                              *)

IsStop(w) ==
  /\ worker[w] = "check"
  /\ WorkerGoes(w, IF m_ThreadCmd = "stop" THEN "none" ELSE "lock")
  /\ UNCHANGED <<queueVars, semaphoreVars, m_ThreadCmd, poster, ownerVars, countVars>>

(* The result of Lock is not looked at: without a semaphore it fails, and  *)
(* the worker goes on as if it had been signalled.                         *)
Lock(w) ==
  /\ worker[w] = "lock"
  /\ \/ /\ m_hSemaphore /\ nCount > 0
        /\ nCount' = nCount - 1
        /\ WorkerGoes(w, "get")
     \/ /\ m_hSemaphore /\ nCount = 0
        /\ WorkerGoes(w, "wait")
        /\ UNCHANGED nCount
     \/ /\ ~m_hSemaphore
        /\ WorkerGoes(w, "get")
        /\ UNCHANGED nCount
  /\ UNCHANGED <<queueVars, m_hSemaphore, m_ThreadCmd, poster, ownerVars, countVars>>

(* GetMessage is Dequeue: it enters the lock of the queue and takes the    *)
(* oldest message, if there is one.                                        *)
GetMessage(w) ==
  /\ worker[w] = "get"
  /\ m_lock = NoThread
  /\ m_lock' = w
  /\ WorkerGoes(w, "dequeue")
  /\ UNCHANGED <<m_msgQueue, m_nMaxSize, semaphoreVars, m_ThreadCmd, poster, ownerVars, countVars>>

Dequeue(w) ==
  /\ worker[w] = "dequeue"
  /\ \/ /\ m_msgQueue # <<>>
        /\ m_msgQueue' = Tail(m_msgQueue)
        /\ WorkerGoes(w, "process")
     \/ /\ m_msgQueue = <<>>
        /\ WorkerGoes(w, "check")
        /\ UNCHANGED m_msgQueue
  /\ m_lock' = NoThread
  /\ UNCHANGED <<m_nMaxSize, semaphoreVars, m_ThreadCmd, poster, ownerVars, countVars>>

ProcessMessage(w) ==
  /\ worker[w] = "process"
  /\ WorkerGoes(w, "check")
  /\ UNCHANGED <<queueVars, semaphoreVars, m_ThreadCmd, poster, ownerVars, countVars>>

Run(w) == IsStop(w) \/ Lock(w) \/ GetMessage(w) \/ Dequeue(w) \/ ProcessMessage(w)

----------------------------------------------------------------------------
(* The owner: Activate and Close.                                          *)

(* Activate sets up the queue and the semaphore, and then starts threads.  *)
(* What is in the queue stays there; a semaphore has a maximum above 0.    *)
(* The handle of an old semaphore is overwritten: a worker that waits for  *)
(* that one is never woken.                                                *)
Activate ==
  /\ owner = "idle"
  /\ nActivated < MaxActivates
  /\ nActivated' = nActivated + 1
  /\ m_nMaxSize' = QueueMaxSize
  /\ m_hSemaphore' = (QueueMaxSize > 0)
  /\ nCount' = 0
  /\ worker' = [w \in Workers |-> IF worker[w] = "wait" THEN "stuck" ELSE worker[w]]
  /\ owner' = "start"
  /\ nUnsignalled' = Len(m_msgQueue)
  /\ UNCHANGED <<m_msgQueue, m_lock, m_ThreadCmd, poster, nUnLocks, waitFor, nPosted, killed>>

(* CThreadGroup::Clear terminates the threads wherever they are: one that  *)
(* is inside the queue's lock leaves it locked.                            *)
ClearThreads ==
  /\ m_lock' = IF m_lock \in Workers THEN DeadThread ELSE m_lock
  /\ m_ThreadCmd' = "nothing"

(* Start clears the group first.  Of the threads it begins then, the first *)
(* that cannot be started ends it; those before it run.  A signal that a   *)
(* worker has received and not used yet is lost with it.                   *)
Signalled == {w \in Workers : worker[w] \in {"get", "dequeue"}}
StartThreads ==
  /\ owner = "start"
  /\ ClearThreads
  /\ \E S \in IF "fewer" \in Calls THEN SUBSET Workers ELSE {Workers} :
       worker' = [w \in Workers |-> IF w \in S THEN "check" ELSE "none"]
  /\ nUnsignalled' = nUnsignalled + Cardinality(Signalled)
  /\ killed' = (killed \/ Alive # {})
  /\ owner' = "idle"
  /\ UNCHANGED <<m_msgQueue, m_nMaxSize, semaphoreVars, poster, nUnLocks, waitFor, nPosted, nActivated>>

(* Close releases the semaphore once for every thread, closes it, tells    *)
(* the threads to stop, waits for each of them, kills those that are left  *)
(* and clears the queue.                                                   *)
Close ==
  /\ owner = "idle" /\ "close" \in Calls
  /\ nUnLocks' = Cardinality(Alive)
  /\ owner' = "unlock"
  /\ UNCHANGED <<queueVars, semaphoreVars, m_ThreadCmd, worker, poster, waitFor, countVars>>

CloseUnLock ==
  /\ owner = "unlock" /\ nUnLocks > 0
  /\ UnLock
  /\ nUnLocks' = nUnLocks - 1
  /\ UNCHANGED <<queueVars, m_hSemaphore, m_ThreadCmd, poster, owner, waitFor, countVars>>

CloseSemaphore ==
  /\ owner = "unlock" /\ nUnLocks = 0
  /\ m_hSemaphore' = FALSE
  /\ nCount' = 0
  /\ owner' = "stop"
  /\ UNCHANGED <<queueVars, m_ThreadCmd, worker, poster, nUnLocks, waitFor, countVars>>

(* Variant: the threads are waited for and not told to stop.               *)
StopWithoutCmd ==
  /\ owner = "stop"
  /\ waitFor' = Alive
  /\ owner' = "wait"
  /\ UNCHANGED <<queueVars, semaphoreVars, m_ThreadCmd, worker, poster, nUnLocks, countVars>>

Stop ==
  /\ owner = "stop"
  /\ m_ThreadCmd' = "stop"
  /\ waitFor' = Alive
  /\ owner' = "wait"
  /\ UNCHANGED <<queueVars, semaphoreVars, worker, poster, nUnLocks, countVars>>

(* The wait ends with the thread or after 200 ms.  That is taken to be     *)
(* long enough for a thread to finish what it does on its own: it runs out *)
(* only on one that waits for the semaphore or, for ever, for the lock, or *)
(* is in ProcessMessage.                                                   *)
StopWait(w) ==
  /\ owner = "wait" /\ w \in waitFor
  /\ \/ worker[w] \in {"none", "wait", "process"}
     \/ worker[w] = "get" /\ m_lock = DeadThread
  /\ waitFor' = waitFor \ {w}
  /\ UNCHANGED <<queueVars, semaphoreVars, m_ThreadCmd, worker, poster, owner, nUnLocks, countVars>>

Kill ==
  /\ owner = "wait" /\ waitFor = {}
  /\ ClearThreads
  /\ worker' = [w \in Workers |-> "none"]
  /\ owner' = "clear"
  /\ UNCHANGED <<m_msgQueue, m_nMaxSize, semaphoreVars, poster, nUnLocks, waitFor, countVars>>

ClearQueue ==
  /\ owner = "clear"
  /\ m_lock = NoThread
  /\ m_msgQueue' = <<>>
  /\ owner' = "idle"
  /\ UNCHANGED <<m_nMaxSize, m_lock, semaphoreVars, m_ThreadCmd, worker, poster, nUnLocks, waitFor, countVars>>

Closing ==
  CloseUnLock \/ CloseSemaphore \/ Stop \/ (\E w \in Workers : StopWait(w)) \/ Kill \/ ClearQueue

----------------------------------------------------------------------------

Init ==
  /\ m_msgQueue = <<>>
  /\ m_nMaxSize = 0
  /\ m_lock = NoThread
  /\ m_hSemaphore = FALSE
  /\ nCount = 0
  /\ m_ThreadCmd = "nothing"
  /\ worker = [w \in Workers |-> "none"]
  /\ poster = [p \in Posters |-> "idle"]
  /\ owner = "idle"
  /\ nUnLocks = 0
  /\ waitFor = {}
  /\ nPosted = 0
  /\ nActivated = 0
  /\ nUnsignalled = 0
  /\ killed = FALSE

Next ==
  \/ \E p \in Posters : PostMessage(p) \/ Signal(p) \/ Push(p) \/ Pop(p)
  \/ \E w \in Workers : Run(w)
  \/ Activate \/ StartThreads \/ Close \/ Closing

Spec == Init /\ [][Next]_vars

(* The scheduler runs every thread, ProcessMessage returns and time        *)
(* passes.                                                                 *)
Fairness ==
  /\ \A p \in Posters : WF_vars(Signal(p))
  /\ \A w \in Workers : WF_vars(Run(w))
  /\ WF_vars(StartThreads \/ Closing)

FairSpec == Spec /\ Fairness

----------------------------------------------------------------------------

WorkerStates == {"none", "check", "lock", "wait", "stuck", "get", "dequeue", "process"}
OwnerStates  == {"idle", "start", "unlock", "stop", "wait", "clear"}

TypeOK ==
  /\ m_msgQueue \in Seq(Messages)
  /\ m_nMaxSize \in {0, QueueMaxSize}
  /\ m_lock \in Workers \cup {NoThread, DeadThread}
  /\ m_hSemaphore \in BOOLEAN
  /\ nCount \in 0 .. QueueMaxSize
  /\ m_ThreadCmd \in {"nothing", "stop"}
  /\ worker \in [Workers -> WorkerStates]
  /\ poster \in [Posters -> {"idle", "signal"}]
  /\ owner \in OwnerStates
  /\ nUnLocks \in Nat
  /\ waitFor \subseteq Workers
  /\ nPosted \in 0 .. MaxMessages
  /\ nActivated \in 0 .. MaxActivates
  /\ nUnsignalled \in Nat /\ killed \in BOOLEAN

(* No message waits in the queue of an active task without a signal that   *)
(* leads a worker to it: one in the semaphore, one a worker has received   *)
(* and not used yet, or one that is about to be given.  So a worker is     *)
(* blocked only while there is nothing for it to do, although a release is *)
(* lost when the semaphore is full, Pop takes messages without their       *)
(* signals, and a second Activate replaces the semaphore and terminates    *)
(* workers that have received theirs (SLTask.h:42-49, 73-78, 103-113).     *)
Signalling == {p \in Posters : poster[p] = "signal"}
NoMessageUnsignalled ==
  m_hSemaphore =>
    Len(m_msgQueue) <= nCount + Cardinality(Signalled) + Cardinality(Signalling) + nUnsignalled

(* The holder of the queue's lock is alive and about to release it: Close  *)
(* never kills a thread inside the queue.  Only an Activate of a task      *)
(* whose threads live does, and leaves the lock locked for ever            *)
(* (SLTask.h:67-78, ThreadGroup.cpp:45, 86-123).                           *)
LockHolderIsAlive ==
  /\ \A w \in Workers : m_lock = w => worker[w] = "dequeue"
  /\ m_lock = DeadThread => killed

(* A message in the queue of an active task that was signalled is taken,   *)
(* unless the task is closed or activated again first, or the lock of the  *)
(* queue was left with a terminated thread.                                *)
EveryMessageIsTaken ==
  \A m \in Messages :
    (/\ \E i \in DOMAIN m_msgQueue : m_msgQueue[i] = m
     /\ m_hSemaphore /\ Alive # {} /\ nUnsignalled = 0 /\ m_lock # DeadThread)
      ~> (\/ ~m_hSemaphore \/ owner = "start"
          \/ ~\E i \in DOMAIN m_msgQueue : m_msgQueue[i] = m)

(* Close returns: it leaves no lock behind that it would wait for for ever *)
(* itself.                                                                 *)
CloseReturns == (owner = "unlock" /\ m_lock # DeadThread) ~> (owner = "idle")
=============================================================================
