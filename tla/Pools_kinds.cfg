\* Every kind of pool, three users, and blocks of three cells.
CONSTANTS
  Kinds = {"small", "smallex", "fixed", "block", "normal", "scope"}
  Users = {u1, u2, u3}
  None = None
  MaxChunks = 5
  Limits = {0, 2}
  InitCounts = {0, 2}
  GrowCounts = {1, 2}
  Sizes = {1, 2, 3, 4}
  BlockSize = 3
SPECIFICATION PoolSpec
SYMMETRY Symmetry
CHECK_DEADLOCK FALSE
INVARIANTS
  PoolTypeOK
  ObjectHasOneUser
  NothingLeaks
