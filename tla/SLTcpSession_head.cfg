\* Every message fits the buffer; a receive may end within a head.
CONSTANTS
  Sizes = {2, 3}
  MaxMessages = 3
  MaxPeers = 1
  MsgSizeByte = 2
  BufferSize = 4
  Word = 64
SPECIFICATION UnpackSpec
CHECK_DEADLOCK FALSE
INVARIANTS
  MessagesAreUnpacked
