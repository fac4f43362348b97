\* A head of four bytes, messages that fit the buffer and one that does not:
\* receives end in the head, after it, in the body and between messages.
CONSTANTS
  Sizes = {4, 5, 7}
  MaxMessages = 2
  MaxPeers = 2
  MsgSizeByte = 4
  BufferSize = 5
  Word = 64
SPECIFICATION UnpackSpec
CHECK_DEADLOCK FALSE
INVARIANTS
  UnpackTypeOK
  HandedInOrder
  NothingHeldBack
