\* All calls but Open with a local port.  The sockets may all be used up and
\* nothing be left to do, so the system may stop.
CONSTANTS
  Handles = {h1, h2}
  App = app
  AutoThread = auto
  Workers = {w1}
  Invalid = Invalid
  NoThread = NoThread
  Killed = Killed
  MaxSockets = 2
  Calls = {"open", "close", "send", "auto", "noauto"}
  Answers = {"refused", "oom", "stop", "reset"}
SPECIFICATION FairSpec
CHECK_DEADLOCK FALSE
INVARIANTS
  TypeOK
  ClientListens
PROPERTIES
  LossIsRetried
