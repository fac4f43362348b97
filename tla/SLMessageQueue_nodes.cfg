\* Two readers and a queue that is initialised at most twice.  The bounds may be
\* reached, so the system may stop.
CONSTANTS
  Addrs = {a1, a2, a3}
  Null = Null
  Readers = {r1, r2}
  Sizes = {0, 1, 2}
  Limits = {0, 2}
  DefaultPool = 2
  MaxNodes = 7
  MaxMsgs = 3
  MaxInits = 2
SPECIFICATION Spec
SYMMETRY Symmetry
CHECK_DEADLOCK FALSE
INVARIANTS
  TypeOK
  NodeInOnePlace
  BlockHasOneOwner
PROPERTIES
  ImplementsQueue
