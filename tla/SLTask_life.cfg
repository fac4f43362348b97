\* All that an application may call, at any time, through two calls of Activate.
\* A second Activate may leave the lock with a thread it terminates; then Close
\* and all others wait for ever, and the system stops.
CONSTANTS
  Workers = {w1, w2}
  Posters = {p1, p2}
  QueueMaxSize = 2
  MaxMessages = 3
  MaxActivates = 2
  Calls = {"early", "push", "pop", "close", "fewer"}
  NoThread = NoThread
  DeadThread = DeadThread
SPECIFICATION FairSpec
CHECK_DEADLOCK FALSE
INVARIANTS
  TypeOK
  NoMessageUnsignalled
  LockHolderIsAlive
PROPERTIES
  EveryMessageIsTaken
  CloseReturns
