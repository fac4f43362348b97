\* Two connections, two workers and three blocks; the server and the runner are opened up
\* to twice and closed in any order.
CONSTANTS
  MaxConns = 2
  MaxOpens = 2
  Sessions = {s1, s2, s3}
  Workers = {w1, w2}
  m_nMaxFreePoolNum = 1
  m_nDefaultFreePoolNum = 1
  Answers = {"socketfails", "bindfails", "oom", "portfails", "threadfails"}
  NoSession = NoSession
SYMMETRY Symmetry
SPECIFICATION Spec
CHECK_DEADLOCK FALSE
INVARIANTS
  TypeOK
  CloseIsClean
