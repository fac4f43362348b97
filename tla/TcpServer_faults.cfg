\* Every unlikely answer and asynchronous sends, on two connections at once or
\* one after the other in the handle and the block of the first, while an
\* application thread sends, disconnects and takes objects away with handles
\* it saw at any time before.  The free pool keeps one block, so that others
\* are freed while packets still name them.
CONSTANTS
  Sockets = {h1, h2}
  Sessions = {s1, s2}
  Workers = {w1}
  Apps = {a1}
  MaxConns = 2
  MaxSends = 1
  MaxSocketNum = 2
  MaxFreePoolNum = 1
  DefaultFreePoolNum = 1
  Answers = {"refuse", "assoc", "stop", "reset"}
  NoSocket = NoSocket
  NoSession = NoSession
  NoThread = NoThread
SPECIFICATION Spec
SYMMETRY Symmetry
INVARIANTS
  TypeOK
  SessionsOwnedOnce
  HandlesAccounted
  OnDisconnectOnce
  ReceiveOwnsItsBlock
  OnlyLostClientsAreDropped
  AttachFollowsConnection
