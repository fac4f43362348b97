\* Two senders, one of the runner's threads, and a source that is closed and opened.
CONSTANTS
  Senders = {s1, s2}
  Workers = {w1}
  NoObject = NoObject
  NoSender = NoSender
  Lens = {2}
  SegmentSize = 1
  MaxCounts = {0, 1}
  MaxObjects = 2
  Options = {"block", "segment", "buffer", "nobuffer"}
  Answers = {"oom", "senderror"}
SPECIFICATION Spec
SYMMETRY Symmetry
INVARIANTS
  TypeOK
  SendObjectInOnePlace
  BytesStayAsGiven
