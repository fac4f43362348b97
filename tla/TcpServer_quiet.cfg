\* No application thread: only clients and workers end connections.
\* The clients may all be gone and the bound on connections reached, so the
\* system may stop.
CONSTANTS
  Sockets = {h1, h2}
  Sessions = {s1, s2}
  Workers = {w1, w2}
  Apps = {}
  MaxConns = 3
  MaxSends = 0
  MaxSocketNum = 1
  MaxFreePoolNum = 1
  DefaultFreePoolNum = 0
  Answers = {"reset", "oom"}
  NoSocket = NoSocket
  NoSession = NoSession
  NoThread = NoThread
SPECIFICATION FairSpec
CHECK_DEADLOCK FALSE
INVARIANTS
  AtMostMaxSocketNum
  LibraryCrossesNothing
PROPERTIES
  WatchedClientIsReleased
