\* Two connections, two threads and a list of two sockets; the application opens
\* and closes the runner, twice and in any state, and the server.  The server may
\* be closed for good, so the system may stop.
CONSTANTS
  MaxConns = 2
  Threads = {w1, w2}
  m_nQueueMaxSize = 2
  MaxOpens = 2
  MaxServerOpens = 1
  Answers = {"openfails", "fewer", "refuse", "recv"}
  NoThread = NoThread
  DeadThread = DeadThread
SPECIFICATION FairSpec
CHECK_DEADLOCK FALSE
INVARIANTS
  TypeOK
  SocketHasOneOwner
PROPERTIES
  QueuedSocketIsTaken
