---------------------------- MODULE SLTcpSession ----------------------------
(***************************************************************************)
(* CSLTcpSession: the unpacking of messages from the bytes of a TCP        *)
(* connection.  A message begins with its size, in m_nMsgSizeByte bytes;   *)
(* receives may end anywhere.  A message that fits the buffer of the       *)
(* session is handed to ProcessMessage in one piece, a longer one in the   *)
(* pieces it arrives in.  A session object serves one connection after     *)
(* another (CSLTcpSessionEvent).                                           *)
(*                                                                         *)
(* A byte is its position in the stream of its connection, and 0 stands    *)
(* for what lies in memory behind the bytes of a receive.                  *)
(***************************************************************************)
EXTENDS Integers, SequencesExt

CONSTANTS
  Sizes,        \* the sizes of the messages the peers send
  MaxMessages,  \* bound: messages sent on one connection
  MaxPeers,     \* bound: connections the session object serves
  MsgSizeByte,  \* m_nMsgSizeByte
  BufferSize,   \* m_nBufferSize
  Word          \* how many values a uint32 has

(* A size is read as a uint32 and then kept in an int: the peers send      *)
(* messages whose sizes are below half a word, which both represent.  (A   *)
(* larger one is a negative nMsgSize, and taken for a short message.)      *)
ASSUME SizesAssumption ==
  /\ MsgSizeByte \in {1, 2, 4} /\ BufferSize \in Nat /\ Word \in Nat \ {0}
  /\ Sizes \subseteq {s \in Nat : s >= MsgSizeByte /\ 2 * s < Word}
  /\ MaxMessages \in Nat /\ MaxPeers \in Nat

(* "The buffer must be at least as large as the largest message"           *)
(* (SLTcpSession.h:23-24): it holds a head, in any case.                   *)
ASSUME BufferAssumption == MsgSizeByte <= BufferSize

VARIABLES
  m_nNeedMsgSize,  \* how much of a long message is still to come
  m_szBuffer,      \* the first m_nLastMsgLeft bytes of the buffer
  p, nLen,         \* what SplitPacket is still to be called with, nLen = 0 when it has returned
  sent,            \* the peer: the sizes of the messages it sends
  misread,         \*   what bytes that are not the head of a message say as a size
  got,             \*   how many of its bytes were received
  delivered,       \* the calls of ProcessMessage for the connection
  nConns,          \* how many connections were served
  clean            \* history: every receive began and ended where SplitPacket is at ease

sessionVars == <<m_nNeedMsgSize, m_szBuffer>>
callVars    == <<p, nLen>>
peerVars    == <<sent, misread, got, nConns, clean>>
unpackVars == <<sessionVars, callVars, peerVars, delivered>>

----------------------------------------------------------------------------
(* The stream.  The head of a message is its first MsgSizeByte bytes.      *)

EndOf(sizes) ==
  LET end[k \in 0 .. Len(sizes)] == IF k = 0 THEN 0 ELSE end[k - 1] + sizes[k]
  IN  end

End   == EndOf(sent)
Total == End[Len(sent)]

IsLong(k)       == sent[k] > BufferSize
EndsIn(k)       == End[k - 1] < got /\ got < End[k]
EndsInHeadOf(k) == EndsIn(k) /\ got < End[k - 1] + MsgSizeByte

Bytes(from, n) == [i \in 1 .. n |-> IF i <= Len(from) THEN from[i] ELSE 0]
Behind(from, n) == SubSeq(from, n + 1, Len(from))

GetMsgSize(bytes) ==
  IF Len(bytes) < MsgSizeByte THEN 0
  ELSE IF \E k \in DOMAIN sent : \A i \in 1 .. MsgSizeByte : bytes[i] = End[k - 1] + i
         THEN sent[CHOOSE k \in DOMAIN sent : bytes[1] = End[k - 1] + 1]
         ELSE misread

----------------------------------------------------------------------------
(* SplitPacket: one action for each case of a call.  It calls itself last  *)
(* of all, so a call that does is followed by the next.                    *)

ProcessMessage(bytes) == delivered' = Append(delivered, bytes)
Buffer(bytes)         == m_szBuffer' = bytes
Return                == p' = <<>> /\ nLen' = 0
SplitPacket(rest, n)  == p' = rest /\ nLen' = n

(* Variant: all that came is taken for the rest of the message.            *)
LongMessageUntested ==
  /\ nLen > 0 /\ m_nNeedMsgSize > 0
  /\ ProcessMessage(Bytes(p, nLen))
  /\ m_nNeedMsgSize' = m_nNeedMsgSize - nLen
  /\ Return
  /\ UNCHANGED <<m_szBuffer, peerVars>>

(* What is still to come of a long message.                                *)
(* A call that goes beyond its end begins again with the same bytes.       *)
LongMessage ==
  /\ nLen > 0 /\ m_nNeedMsgSize > 0
  /\ \/ /\ m_nNeedMsgSize >= nLen
        /\ ProcessMessage(Bytes(p, nLen))
        /\ m_nNeedMsgSize' = m_nNeedMsgSize - nLen
        /\ Return
     \/ /\ m_nNeedMsgSize < nLen
        /\ ProcessMessage(Bytes(p, m_nNeedMsgSize))
        /\ m_nNeedMsgSize' = 0
        /\ SplitPacket(p, nLen)
  /\ UNCHANGED <<m_szBuffer, peerVars>>

(* A call at the beginning of a message.                                   *)
NewMessage ==
  /\ nLen > 0 /\ m_nNeedMsgSize = 0 /\ m_szBuffer = <<>>
  /\ LET size == GetMsgSize(Bytes(p, nLen))
     IN  \/ /\ size > 0 /\ size <= nLen
            /\ ProcessMessage(Bytes(p, size))
            /\ SplitPacket(Behind(p, size), nLen - size)
            /\ UNCHANGED sessionVars
         \/ /\ size > nLen /\ size > BufferSize
            /\ ProcessMessage(Bytes(p, nLen))
            /\ m_nNeedMsgSize' = size - nLen
            /\ Return
            /\ UNCHANGED m_szBuffer
         \/ /\ size = 0 \/ (size > nLen /\ size <= BufferSize)
            /\ Buffer(Bytes(p, nLen))
            /\ Return
            /\ UNCHANGED <<m_nNeedMsgSize, delivered>>
  /\ UNCHANGED peerVars

(* The buffer holds less than the head of a message, and so it remains.    *)
HeadContinues ==
  /\ nLen > 0 /\ m_nNeedMsgSize = 0 /\ m_szBuffer # <<>>
  /\ Len(m_szBuffer) + nLen < MsgSizeByte
  /\ Buffer(m_szBuffer \o Bytes(p, nLen))
  /\ Return
  /\ UNCHANGED <<m_nNeedMsgSize, peerVars, delivered>>

(* The buffer holds the beginning of a message.  Where the head has to be  *)
(* completed first, p moves on and nLen stays what it was.                 *)
Missing == IF Len(m_szBuffer) < MsgSizeByte THEN MsgSizeByte - Len(m_szBuffer) ELSE 0

(* Variant: the bytes of the message after the one in the buffer are lost. *)
MessageContinuesDropsRest ==
  /\ nLen > 0 /\ m_nNeedMsgSize = 0 /\ m_szBuffer # <<>>
  /\ Len(m_szBuffer) + nLen >= MsgSizeByte
  /\ LET begun == m_szBuffer \o Bytes(p, Missing)
         rest  == Behind(p, Missing)
         size  == GetMsgSize(begun)
         whole == Len(begun) + nLen
     IN  \/ /\ size = 0 \/ (whole < size /\ size <= BufferSize)
            /\ Buffer(begun \o Bytes(rest, nLen))
            /\ Return
            /\ UNCHANGED <<m_nNeedMsgSize, delivered>>
         \/ /\ 0 < size /\ size <= whole /\ size <= BufferSize
            /\ ProcessMessage(begun \o Bytes(rest, size - Len(begun)))
            /\ Buffer(<<>>)
            /\ Return
            /\ UNCHANGED m_nNeedMsgSize
  /\ UNCHANGED peerVars

MessageContinues ==
  /\ nLen > 0 /\ m_nNeedMsgSize = 0 /\ m_szBuffer # <<>>
  /\ Len(m_szBuffer) + nLen >= MsgSizeByte
  /\ LET begun == m_szBuffer \o Bytes(p, Missing)
         rest  == Behind(p, Missing)
         size  == GetMsgSize(begun)
         whole == Len(begun) + nLen
     IN  \/ /\ size = 0 \/ (whole < size /\ size <= BufferSize)
            /\ Buffer(begun \o Bytes(rest, nLen))
            /\ Return
            /\ UNCHANGED <<m_nNeedMsgSize, delivered>>
         \/ /\ 0 < size /\ size <= whole /\ size <= BufferSize
            /\ ProcessMessage(begun \o Bytes(rest, size - Len(begun)))
            /\ Buffer(<<>>)
            /\ SplitPacket(Behind(rest, size - Len(begun)), whole - size)
            /\ UNCHANGED m_nNeedMsgSize
         \/ /\ size > BufferSize
            /\ delivered' = delivered \o <<begun, Bytes(rest, nLen)>>
            /\ Buffer(<<>>)
            /\ m_nNeedMsgSize' = (size - nLen) % Word
            /\ Return
  /\ UNCHANGED peerVars

----------------------------------------------------------------------------
(* The connection.                                                         *)

Rest(n) == [i \in 1 .. n |-> got + i]

(* OnRecv is called with the next bytes, one call at a time.  It begins    *)
(* and ends well unless it begins within a head, or begins within a long   *)
(* message and goes beyond its end.                                        *)
OnRecv ==
  /\ nLen = 0
  /\ \E n \in 1 .. Total - got :
       /\ SplitPacket(Rest(n), n)
       /\ got' = got + n
       /\ clean' = /\ clean
                   /\ \A k \in DOMAIN sent :
                        ~EndsInHeadOf(k) /\ (EndsIn(k) /\ IsLong(k) => got + n <= End[k])
  /\ UNCHANGED <<sessionVars, sent, misread, nConns, delivered>>

NewPeer ==
  /\ sent' \in SeqOf(Sizes, MaxMessages)
  /\ misread' \in Sizes \cup {0}
  /\ got' = 0
  /\ delivered' = <<>>
  /\ clean' = TRUE

(* Variant: the object is not reset.                                       *)
InitWithoutReset ==
  /\ nLen = 0 /\ nConns < MaxPeers
  /\ NewPeer
  /\ nConns' = nConns + 1
  /\ UNCHANGED <<sessionVars, callVars>>

(* The connection is lost wherever its stream stands, and the object is    *)
(* given to the next one and reset.                                        *)
InitSession ==
  /\ nLen = 0 /\ nConns < MaxPeers
  /\ m_nNeedMsgSize' = 0
  /\ m_szBuffer' = <<>>
  /\ NewPeer
  /\ nConns' = nConns + 1
  /\ UNCHANGED callVars

UnpackInit ==
  /\ m_nNeedMsgSize = 0
  /\ m_szBuffer = <<>>
  /\ p = <<>> /\ nLen = 0
  /\ sent = <<>> /\ misread = 0 /\ got = 0
  /\ delivered = <<>>
  /\ nConns = 0
  /\ clean = TRUE

UnpackNext == LongMessage \/ NewMessage \/ HeadContinues \/ MessageContinues \/ OnRecv \/ InitSession

UnpackSpec == UnpackInit /\ [][UnpackNext]_unpackVars

----------------------------------------------------------------------------

UnpackTypeOK ==
  /\ m_nNeedMsgSize \in 0 .. Word - 1
  /\ m_szBuffer \in Seq(Nat) /\ p \in Seq(Nat)
  /\ nLen \in Nat
  /\ sent \in Seq(Sizes) /\ misread \in Sizes \cup {0}
  /\ got \in 0 .. Total
  /\ delivered \in Seq(Seq(Nat))
  /\ nConns \in 0 .. MaxPeers /\ clean \in BOOLEAN

Handed == FlattenSeq(delivered)
InOrder(n) == Handed = [i \in 1 .. n |-> i]
Whole(k) == \E j \in DOMAIN delivered : delivered[j] = [i \in 1 .. sent[k] |-> End[k - 1] + i]

(* Every byte is handed to ProcessMessage once and in order, and a message *)
(* that fits the buffer in one piece, however the messages are cut into    *)
(* receives that do not cut a head or join the end of a long message to    *)
(* what follows (SLTcpSession.cpp:74-196).                                 *)
HandedInOrder ==
  clean =>
    /\ InOrder(Len(Handed))
    /\ \A k \in DOMAIN sent : ~IsLong(k) /\ End[k - 1] < Len(Handed) => Whole(k)

(* When a call has returned nothing is lost and nothing is held back: what *)
(* was not handed on is in the buffer, is the beginning of one message,    *)
(* and has room there (SLTcpSession.cpp:101-107, 129-131, 170-175).        *)
NothingHeldBack ==
  clean /\ nLen = 0 =>
    /\ m_szBuffer = [i \in 1 .. got - Len(Handed) |-> Len(Handed) + i]
    /\ m_szBuffer # <<>> =>
         \E k \in DOMAIN sent :
           EndsIn(k) /\ End[k - 1] = Len(Handed) /\ (IsLong(k) => EndsInHeadOf(k))
    /\ Len(m_szBuffer) <= BufferSize

(* "Unpacks the messages": with a buffer at least as large as the largest  *)
(* message, each message is handed on whole and in turn (the comment at    *)
(* SLTcpSession.h:19-26).                                                  *)
MessagesAreUnpacked ==
  (\A k \in DOMAIN sent : ~IsLong(k)) =>
    \A j \in DOMAIN delivered :
      j \in DOMAIN sent /\ delivered[j] = [i \in 1 .. sent[j] |-> End[j - 1] + i]
=============================================================================
