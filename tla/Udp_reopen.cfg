\* Source and runner opened and closed twice, in any order.  The bounds may be
\* reached and no call be made, so the system may stop.
CONSTANTS
  Workers = {w1, w2}
  nPostRecv = 2
  PoolLimits = {0, 1}
  MaxObjects = 3
  MaxOpens = 2
  MaxEmpty = 1
  Answers = {"nosocket", "bind", "assoc", "oom", "nobufs", "fewer"}
SPECIFICATION FairSpec
CHECK_DEADLOCK FALSE
INVARIANTS
  TypeOK
  ReceiveHasOneOwner
  ReceivesKept
PROPERTIES
  DatagramIsTaken
