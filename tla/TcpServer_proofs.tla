-------------------------- MODULE TcpServer_proofs --------------------------
(***************************************************************************)
(* Proofs, for every set of handles, blocks and threads and every bound,   *)
(* and whatever the application does, of the invariants of TcpServer: who  *)
(* owns each session block and each socket, how many of each there are,    *)
(* how often the end of a connection is reported, and, from Places on,     *)
(* what the operations the library has begun lead to until connections are *)
(* crossed: an outstanding receive owns its block, only lost clients are   *)
(* dropped, and the attached object follows its connection.                *)
(***************************************************************************)
EXTENDS TcpServer, FiniteSetTheorems, TLAPS

----------------------------------------------------------------------------
(* Type correctness.  It needs what the threads hold: Disconnect a block    *)
(* once it has found one, the listen thread a handle once it has accepted  *)
(* and a block once it has taken or allocated one.                         *)

HoldsBlock == \A t \in Threads : thread[t].pc = "erase" => thread[t].s \in Sessions
ListenerHolds ==
  /\ listener.pc # "accept" => listener.h \in Sockets
  /\ listener.pc \in {"associate", "insert", "init", "recv"} => listener.s \in Sessions
TypeInv == TypeOK /\ HoldsBlock /\ ListenerHolds

LEMMA HandleInType ==
  ASSUME TypeOK, NEW s, NEW h \in HandleIn(s)
  PROVE  h \in Sockets \cup {NoSocket}
BY DEF TypeOK, HandleIn

LEMMA IdleType == Idle \in ThreadStates
BY BoundsAssumption DEF Idle, ThreadStates

LEMMA DisconnectingType ==
  ASSUME NEW h \in Sockets \cup {NoSocket}, NEW f \in BOOLEAN,
         NEW why \in {"ended", "recv", "send", "app"}
  PROVE  Disconnecting(h, why, f) \in ThreadStates /\ Disconnecting(h, why, f).pc = "disconnect"
<1>1. [Idle EXCEPT !.pc = "disconnect", !.h = h, !.why = why, !.force = f] \in ThreadStates
  BY IdleType DEF ThreadStates
<1>2. [Idle EXCEPT !.pc = "disconnect", !.h = h, !.why = why, !.force = f].pc = "disconnect"
  BY IdleType DEF ThreadStates
<1>3. QED
  BY <1>1, <1>2 DEF Disconnecting

LEMMA ListenerFields ==
  ASSUME TypeOK
  PROVE  /\ listener.h \in Sockets \cup {NoSocket}
         /\ listener.s \in Sessions \cup {NoSession}
         /\ listener.c \in 0 .. MaxConns
BY DEF TypeOK, ListenerStates

LEMMA AcceptingType == Accepting \in ListenerStates
BY BoundsAssumption DEF ListenerStates, Accepting

LEMMA GotoType ==
  ASSUME TypeOK, NEW pc \in {"size", "take", "alloc", "insert", "init", "recv"}, Goto(pc)
  PROVE  /\ listener' \in ListenerStates
         /\ listener'.pc = pc /\ listener'.h = listener.h /\ listener'.s = listener.s
BY DEF TypeOK, ListenerStates, Goto

LEMMA HoldType ==
  ASSUME TypeOK, NEW s \in Sessions, listener' = [listener EXCEPT !.pc = "associate", !.s = s]
  PROVE  /\ listener' \in ListenerStates
         /\ listener'.pc = "associate" /\ listener'.h = listener.h /\ listener'.s = s
BY DEF TypeOK, ListenerStates

LEMMA ZeroConn == 0 \in 0 .. MaxConns
BY BoundsAssumption

LEMMA CloseSocketType ==
  ASSUME TypeOK, CloseSocket
  PROVE  open' \in [Sockets -> 0 .. MaxConns]
BY ZeroConn DEF TypeOK, CloseSocket

LEMMA InitType == Init => TypeInv
<1> SUFFICES ASSUME Init PROVE TypeInv
  OBVIOUS
<1>1. m_lstFreePool \in Seq(Sessions)
  BY BoundsAssumption DEF Init
<1>2. heap \subseteq Sessions
  BY DEF Init, ToSet
<1>3. thread \in [Threads -> ThreadStates] /\ HoldsBlock
  BY IdleType DEF Init, HoldsBlock, Idle
<1>4. recv \in [Conns -> Receives]
  BY BoundsAssumption DEF Init, Receives, NoRecv
<1>5. ListenerHolds
  BY DEF Init, ListenerHolds, Accepting
<1>6. listener \in ListenerStates /\ nSendFree \in 0 .. MaxSocketNum /\ nConns \in 0 .. MaxConns
  BY AcceptingType, BoundsAssumption DEF Init
<1>7. /\ hSocket \in [Sessions -> Sockets \cup {NoSocket}] /\ pAttachInfo \in [Sessions -> 0 .. MaxConns]
      /\ open \in [Sockets -> 0 .. MaxConns] /\ key \in [Conns -> Sessions \cup {NoSession}]
  BY ZeroConn DEF Init
<1>8. crossed \in BOOLEAN
  BY DEF Init
<1>9. QED
  BY <1>1, <1>2, <1>3, <1>4, <1>5, <1>6, <1>7, <1>8 DEF Init, TypeInv, TypeOK

LEMMA ListenProcType == TypeInv /\ ListenProc => TypeInv'
<1> SUFFICES ASSUME TypeInv, ListenProc PROVE TypeInv'
  OBVIOUS
<1> USE AcceptingType, ListenerFields DEF TypeInv, ListenerHolds, At
<1>a. TypeOK /\ HoldsBlock
  OBVIOUS
<1>b. Accepting.pc = "accept"
  BY DEF Accepting
<1>1. CASE WSAAccept
  <2>1. listener' \in ListenerStates /\ ListenerHolds'
    BY <1>1, BoundsAssumption DEF WSAAccept, ListenerStates, TypeOK
  <2>2. open' \in [Sockets -> 0 .. MaxConns] /\ nConns' \in 0 .. MaxConns
    BY <1>1, BoundsAssumption DEF WSAAccept, TypeOK
  <2>3. /\ crossed' \in BOOLEAN
        /\ UNCHANGED <<serverVars, blockVars, client, key, ioVars, known, told, thread>>
    BY <1>1 DEF WSAAccept, CrossedIf
  <2>4. QED
    BY <2>1, <2>2, <2>3 DEF TypeOK, HoldsBlock, serverVars, blockVars, ioVars
<1>2. CASE OnAccept
  <2>1. listener' \in ListenerStates /\ ListenerHolds'
    BY <1>2, <1>b, GotoType DEF OnAccept
  <2>2. open' \in [Sockets -> 0 .. MaxConns]
    BY <1>2, CloseSocketType DEF OnAccept, TypeOK
  <2>4. known' \subseteq Sockets
    BY <1>2 DEF OnAccept, TypeOK
  <2>3. UNCHANGED <<serverVars, blockVars, nConns, client, key, ioVars, told, crossed, thread>>
    BY <1>2 DEF OnAccept
  <2>5. QED
    BY <2>1, <2>2, <2>3, <2>4 DEF TypeOK, HoldsBlock, serverVars, blockVars, ioVars
<1>3. CASE CheckSize
  <2>1. listener' \in ListenerStates /\ ListenerHolds'
    BY <1>3, <1>b, GotoType DEF CheckSize
  <2>2. open' \in [Sockets -> 0 .. MaxConns]
    BY <1>3, CloseSocketType DEF CheckSize, TypeOK
  <2>3. UNCHANGED <<serverVars, blockVars, nConns, client, key, ioVars, appVars, thread>>
    BY <1>3 DEF CheckSize
  <2>4. QED
    BY <2>1, <2>2, <2>3 DEF TypeOK, HoldsBlock, serverVars, blockVars, ioVars, appVars
<1>4. CASE TakeFromPool
  <2>1. m_lstFreePool # <<>> => Head(m_lstFreePool) \in Sessions /\ Tail(m_lstFreePool) \in Seq(Sessions)
    BY DEF TypeOK
  <2>2. listener' \in ListenerStates /\ ListenerHolds'
    BY <1>4, <2>1, GotoType, HoldType DEF TakeFromPool
  <2>3. m_lstFreePool' \in Seq(Sessions) /\ hSocket' \in [Sessions -> Sockets \cup {NoSocket}]
    BY <1>4, <2>1 DEF TakeFromPool, TypeOK
  <2>4. /\ crossed' \in BOOLEAN
        /\ UNCHANGED <<m_mapSocketSession, m_lock, heap, pAttachInfo, netVars, ioVars, known, told,
                       thread>>
    BY <1>4 DEF TakeFromPool, CrossedIf, TypeOK
  <2>5. QED
    BY <2>2, <2>3, <2>4 DEF TypeOK, HoldsBlock, netVars, ioVars
<1>5. CASE AllocSession
  <2>1. listener' \in ListenerStates /\ ListenerHolds'
    BY <1>5, <1>b, HoldType DEF AllocSession
  <2>2. open' \in [Sockets -> 0 .. MaxConns]
    BY <1>5, CloseSocketType DEF AllocSession, TypeOK
  <2>4. heap' \subseteq Sessions
    BY <1>5 DEF AllocSession, TypeOK, blockVars
  <2>5. hSocket' \in [Sessions -> Sockets \cup {NoSocket}]
    BY <1>5 DEF AllocSession, TypeOK, blockVars
  <2>6. pAttachInfo' \in [Sessions -> 0 .. MaxConns]
    BY <1>5, ZeroConn DEF AllocSession, TypeOK, blockVars
  <2>3. UNCHANGED <<serverVars, nConns, client, key, ioVars, appVars, thread>>
    BY <1>5 DEF AllocSession
  <2>7. QED
    BY <2>1, <2>2, <2>3, <2>4, <2>5, <2>6 DEF TypeOK, HoldsBlock, serverVars, ioVars, appVars
<1>6. CASE AssociateSocket
  <2>1. listener' \in ListenerStates /\ ListenerHolds'
    BY <1>6, GotoType DEF AssociateSocket
  <2>2. key' \in [Conns -> Sessions \cup {NoSession}]
    BY <1>6 DEF AssociateSocket, TypeOK
  <2>3. UNCHANGED <<serverVars, blockVars, open, nConns, client, ioVars, appVars, thread>>
    BY <1>6 DEF AssociateSocket
  <2>4. QED
    BY <2>1, <2>2, <2>3 DEF TypeOK, HoldsBlock, serverVars, blockVars, ioVars, appVars
<1>7. CASE InsertSession
  <2>1. listener' \in ListenerStates /\ ListenerHolds'
    BY <1>7, GotoType DEF InsertSession
  <2>2. m_mapSocketSession' \in [Sockets -> Sessions \cup {NoSession}]
    BY <1>7 DEF InsertSession, TypeOK
  <2>3. UNCHANGED <<m_lstFreePool, m_lock, blockVars, netVars, ioVars, appVars, thread>>
    BY <1>7 DEF InsertSession
  <2>4. QED
    BY <2>1, <2>2, <2>3 DEF TypeOK, HoldsBlock, blockVars, netVars, ioVars, appVars
<1>8. CASE OnInitSocket
  <2>1. listener' \in ListenerStates /\ ListenerHolds'
    BY <1>8, GotoType DEF OnInitSocket
  <2>2. pAttachInfo' \in [Sessions -> 0 .. MaxConns]
    BY <1>8 DEF OnInitSocket, TypeOK
  <2>3. UNCHANGED <<serverVars, heap, hSocket, netVars, ioVars, appVars, thread>>
    BY <1>8 DEF OnInitSocket
  <2>4. QED
    BY <2>1, <2>2, <2>3 DEF TypeOK, HoldsBlock, serverVars, netVars, ioVars, appVars
<1>9. CASE FirstRecv
  <2>1. listener' \in ListenerStates /\ ListenerHolds'
    BY <1>9, <1>b DEF FirstRecv
  <2>2. ASSUME IsSocket(listener.h)
        PROVE  [on |-> open[listener.h], io |-> listener.s, got |-> FALSE] \in Receives
    BY <2>2 DEF IsSocket, Receives, TypeOK
  <2>3. recv' \in [Conns -> Receives]
    BY <1>9, <2>2 DEF FirstRecv, TypeOK
  <2>4. UNCHANGED <<serverVars, blockVars, netVars, sends, nSendFree, appVars, thread>>
    BY <1>9 DEF FirstRecv
  <2>5. QED
    BY <2>1, <2>3, <2>4 DEF TypeOK, HoldsBlock, serverVars, blockVars, netVars, appVars
<1>10. QED
  BY <1>1, <1>2, <1>3, <1>4, <1>5, <1>6, <1>7, <1>8, <1>9 DEF ListenProc

(* A thread that becomes something else keeps the invariant if that holds  *)
(* a block where it must.                                                  *)
LEMMA BecomesType ==
  ASSUME TypeInv, NEW t \in Threads, NEW r \in ThreadStates, Becomes(t, r),
         r.pc = "erase" => r.s \in Sessions
  PROVE  thread' \in [Threads -> ThreadStates] /\ HoldsBlock'
BY DEF TypeInv, TypeOK, HoldsBlock, Becomes

LEMMA IdlePc == Idle.pc = "idle" /\ Idle.pc # "erase"
BY DEF Idle

LEMMA DisconnectType ==
  ASSUME TypeInv, NEW t \in Threads, Disconnect(t)
  PROVE  TypeInv'
<1> USE IdleType, IdlePc DEF TypeInv
<1>a. TypeOK /\ HoldsBlock /\ ListenerHolds
  OBVIOUS
<1>b. thread[t] \in ThreadStates
  BY DEF TypeOK
<1>1. CASE DisconnectFind(t)
  <2> DEFINE h == thread[t].h
  <2>1. CASE h \in Connected
    <3> DEFINE r == [thread[t] EXCEPT !.pc = "erase", !.s = m_mapSocketSession[h],
                                      !.a = pAttachInfo[m_mapSocketSession[h]], !.c = open[h]]
    <3>1. m_mapSocketSession[h] \in Sessions /\ open[h] \in 0 .. MaxConns
      BY <2>1 DEF Connected, TypeOK
    <3>2. pAttachInfo[m_mapSocketSession[h]] \in 0 .. MaxConns
      BY <3>1 DEF TypeOK
    <3>3. r \in ThreadStates /\ r.s = m_mapSocketSession[h]
      BY <1>b, <3>1, <3>2 DEF ThreadStates
    <3>4. Becomes(t, r) /\ m_lock' = t /\ open' = [open EXCEPT ![h] = 0]
      BY <1>1, <2>1 DEF DisconnectFind
    <3>5. thread' \in [Threads -> ThreadStates] /\ HoldsBlock'
      <4> HIDE DEF r
      <4> QED BY <3>1, <3>3, <3>4, BecomesType
    <3>6. open' \in [Sockets -> 0 .. MaxConns]
      BY <3>4, ZeroConn DEF TypeOK
    <3>7. /\ crossed' \in BOOLEAN
          /\ UNCHANGED <<m_mapSocketSession, m_lstFreePool, blockVars, nConns, client, key,
                         ioVars, known, told, listener>>
      BY <1>1, <2>1 DEF DisconnectFind, CrossedIf
    <3>8. QED
      BY <3>4, <3>5, <3>6, <3>7 DEF TypeOK, ListenerHolds, blockVars, ioVars
  <2>2. CASE h \notin Connected
    <3>1. Becomes(t, Idle) /\ UNCHANGED <<m_lock, open>>
      BY <1>1, <2>2 DEF DisconnectFind
    <3>2. thread' \in [Threads -> ThreadStates] /\ HoldsBlock'
      BY <3>1, BecomesType
    <3>3. UNCHANGED <<m_mapSocketSession, m_lstFreePool, blockVars, nConns, client, key,
                      ioVars, appVars, listener>>
      BY <1>1, <2>2 DEF DisconnectFind, appVars
    <3>4. QED
      BY <3>1, <3>2, <3>3 DEF TypeOK, ListenerHolds, blockVars, ioVars, appVars
  <2>3. QED
    BY <2>1, <2>2
<1>2. CASE DisconnectErase(t)
  <2>1. thread[t].s \in Sessions
    BY <1>2 DEF DisconnectErase, HoldsBlock
  <2>2. \E r \in {Idle, [thread[t] EXCEPT !.pc = "notify"]} : Becomes(t, r)
    BY <1>2 DEF DisconnectErase
  <2>3. [thread[t] EXCEPT !.pc = "notify"] \in ThreadStates
        /\ [thread[t] EXCEPT !.pc = "notify"].pc = "notify"
    BY <1>b DEF ThreadStates
  <2>4. thread' \in [Threads -> ThreadStates] /\ HoldsBlock'
    BY <2>2, <2>3, BecomesType
  <2>5. m_lstFreePool' \in Seq(Sessions)
    <3>1. m_lstFreePool \in Seq(Sessions) /\ Append(m_lstFreePool, thread[t].s) \in Seq(Sessions)
      BY <2>1 DEF TypeOK
    <3>2. QED
      BY <1>2, <3>1 DEF DisconnectErase
  <2>6. heap' \subseteq Sessions
    BY <1>2 DEF DisconnectErase, TypeOK, blockVars
  <2>7. hSocket' \in [Sessions -> Sockets \cup {NoSocket}]
    BY <1>2 DEF DisconnectErase, TypeOK, blockVars
  <2>8. pAttachInfo' \in [Sessions -> 0 .. MaxConns]
    BY <1>2, ZeroConn DEF DisconnectErase, TypeOK, blockVars
  <2>9. m_mapSocketSession' \in [Sockets -> Sessions \cup {NoSession}] /\ m_lock' = NoThread
    BY <1>2 DEF DisconnectErase, TypeOK
  <2>10. crossed' \in BOOLEAN /\ UNCHANGED <<netVars, ioVars, known, told, listener>>
    BY <1>2 DEF DisconnectErase, CrossedIf, TypeOK
  <2>11. QED
    BY <2>4, <2>5, <2>6, <2>7, <2>8, <2>9, <2>10
       DEF TypeOK, ListenerHolds, netVars, ioVars
<1>3. CASE OnDisconnect(t)
  <2>1. thread' \in [Threads -> ThreadStates] /\ HoldsBlock'
    BY <1>3, BecomesType DEF OnDisconnect
  <2>2. told' \in [Conns -> Nat]
    <3>1. told \in [Conns -> Nat] /\ \A c \in Conns : told[c] + 1 \in Nat
      BY DEF TypeOK
    <3>2. told' = [told EXCEPT ![thread[t].c] = told[thread[t].c] + 1]
      BY <1>3 DEF OnDisconnect
    <3>3. QED
      BY <3>1, <3>2
  <2>3. UNCHANGED <<serverVars, blockVars, netVars, ioVars, known, crossed, listener>>
    BY <1>3 DEF OnDisconnect
  <2>4. QED
    BY <2>1, <2>2, <2>3 DEF TypeOK, ListenerHolds, serverVars, blockVars, netVars, ioVars
<1>4. QED
  BY <1>1, <1>2, <1>3 DEF Disconnect

(* An operation in flight on an open socket is a receive of the right type. *)
LEMMA ReceiveType ==
  ASSUME TypeOK, NEW h, IsSocket(h), NEW s \in Sessions \cup {NoSession}
  PROVE  [on |-> open[h], io |-> s, got |-> FALSE] \in Receives
BY DEF TypeOK, IsSocket, Receives

LEMMA NoRecvType == NoRecv \in Receives
BY ZeroConn DEF NoRecv, Receives

LEMMA SendsLess ==
  ASSUME TypeOK, NEW c \in Conns, sends[c] > 0, sends' = [sends EXCEPT ![c] = @ - 1]
  PROVE  sends' \in [Conns -> Nat]
<1>1. sends \in [Conns -> Nat] /\ sends[c] - 1 \in Nat
  BY DEF TypeOK
<1>2. QED
  BY <1>1

LEMMA SendsMore ==
  ASSUME TypeOK, NEW c, sends' = [sends EXCEPT ![c] = @ + 1]
  PROVE  sends' \in [Conns -> Nat]
<1>1. sends \in [Conns -> Nat] /\ \A d \in Conns : sends[d] + 1 \in Nat
  BY DEF TypeOK
<1>2. QED
  BY <1>1

LEMMA RunType ==
  ASSUME TypeInv, NEW w \in Workers, Run(w)
  PROVE  TypeInv'
<1> USE IdleType, IdlePc DEF TypeInv
<1>a. TypeOK /\ HoldsBlock /\ ListenerHolds /\ w \in Threads
  BY DEF Threads
<1>b. thread[w] \in ThreadStates
  BY <1>a DEF TypeOK
<1>1. ASSUME NEW c \in Conns, DequeueEndedRecv(w, c) PROVE TypeInv'
  <2>1. PICK h \in HandleIn(key[recv[c].on]) : Becomes(w, Disconnecting(h, "ended", FALSE))
    BY <1>1 DEF DequeueEndedRecv
  <2>2. Disconnecting(h, "ended", FALSE) \in ThreadStates
        /\ Disconnecting(h, "ended", FALSE).pc = "disconnect"
    BY <1>a, HandleInType, DisconnectingType
  <2>3. thread' \in [Threads -> ThreadStates] /\ HoldsBlock'
    BY <1>a, <2>1, <2>2, BecomesType
  <2>4. recv' \in [Conns -> Receives]
    BY <1>1, NoRecvType DEF DequeueEndedRecv, TypeOK
  <2>5. UNCHANGED <<serverVars, blockVars, netVars, sends, nSendFree, appVars, listener>>
    BY <1>1 DEF DequeueEndedRecv
  <2>6. QED
    BY <2>3, <2>4, <2>5 DEF TypeOK, ListenerHolds, serverVars, blockVars, netVars, appVars
<1>2. ASSUME NEW c \in Conns, DequeueEndedSend(w, c) PROVE TypeInv'
  <2>1. PICK h \in HandleIn(key[c]) : Becomes(w, Disconnecting(h, "ended", FALSE))
    BY <1>2 DEF DequeueEndedSend
  <2>2. Disconnecting(h, "ended", FALSE) \in ThreadStates
        /\ Disconnecting(h, "ended", FALSE).pc = "disconnect"
    BY <1>a, HandleInType, DisconnectingType
  <2>3. thread' \in [Threads -> ThreadStates] /\ HoldsBlock'
    BY <1>a, <2>1, <2>2, BecomesType
  <2>4. sends' \in [Conns -> Nat]
    BY <1>2, SendsLess DEF DequeueEndedSend
  <2>5. UNCHANGED <<serverVars, blockVars, netVars, recv, nSendFree, appVars, listener>>
    BY <1>2 DEF DequeueEndedSend
  <2>6. QED
    BY <2>3, <2>4, <2>5 DEF TypeOK, ListenerHolds, serverVars, blockVars, netVars, appVars
<1>3. ASSUME NEW c \in Conns, PostSend(w, c) PROVE TypeInv'
  <2>1. sends' \in [Conns -> Nat]
    BY <1>3, SendsLess DEF PostSend
  <2>2. nSendFree' \in 0 .. MaxSocketNum
    BY <1>3, BoundsAssumption DEF PostSend, PushSend, TypeOK
  <2>3. UNCHANGED <<serverVars, blockVars, netVars, recv, appVars, listener, thread>>
    BY <1>3 DEF PostSend
  <2>4. QED
    BY <2>1, <2>2, <2>3
       DEF TypeOK, HoldsBlock, ListenerHolds, serverVars, blockVars, netVars, appVars
<1>4. ASSUME NEW c \in Conns, OnRecv(w, c) PROVE TypeInv'
  <2> DEFINE r == [Idle EXCEPT !.pc = "onrecv", !.s = key[recv[c].on], !.io = recv[c].io, !.c = c]
  <2>1. key[recv[c].on] \in Sessions \cup {NoSession}
    <3>1. recv[c].on \in 0 .. MaxConns /\ recv[c].on # 0
      BY <1>4 DEF OnRecv, TypeOK, Receives
    <3>2. recv[c].on \in Conns
      BY <3>1, BoundsAssumption DEF Conns
    <3>3. QED
      BY <3>2 DEF TypeOK
  <2>2. recv[c].io \in Sessions \cup {NoSession} /\ c \in 0 .. MaxConns
    BY BoundsAssumption DEF TypeOK, Receives, Conns
  <2>3. r \in ThreadStates /\ r.pc = "onrecv"
    BY <2>1, <2>2 DEF ThreadStates
  <2>4. Becomes(w, r)
    BY <1>4 DEF OnRecv
  <2>5. thread' \in [Threads -> ThreadStates] /\ HoldsBlock'
    <3> HIDE DEF r
    <3> QED BY <1>a, <2>3, <2>4, BecomesType
  <2>6. recv' \in [Conns -> Receives]
    BY <1>4, NoRecvType DEF OnRecv, TypeOK
  <2>7. UNCHANGED <<serverVars, blockVars, netVars, sends, nSendFree, appVars, listener>>
    BY <1>4 DEF OnRecv
  <2>8. QED
    BY <2>5, <2>6, <2>7 DEF TypeOK, ListenerHolds, serverVars, blockVars, netVars, appVars
<1>5. ASSUME PostRecv(w) PROVE TypeInv'
  <2>1. PICK h \in HandleIn(thread[w].s) :
          \/ /\ IsSocket(h)
             /\ recv' = [recv EXCEPT ![thread[w].c] =
                           [on |-> open[h], io |-> thread[w].io, got |-> FALSE]]
             /\ Becomes(w, Idle)
          \/ /\ Becomes(w, Disconnecting(h, "recv", FALSE))
             /\ UNCHANGED recv
    BY <1>5 DEF PostRecv
  <2>2. Disconnecting(h, "recv", FALSE) \in ThreadStates
        /\ Disconnecting(h, "recv", FALSE).pc = "disconnect"
    BY <1>a, HandleInType, DisconnectingType
  <2>3. thread' \in [Threads -> ThreadStates] /\ HoldsBlock'
    BY <1>a, <2>1, <2>2, BecomesType
  <2>4. thread[w].io \in Sessions \cup {NoSession}
    BY <1>b DEF ThreadStates
  <2>5. recv' \in [Conns -> Receives]
    <3>1. IsSocket(h) => [on |-> open[h], io |-> thread[w].io, got |-> FALSE] \in Receives
      BY <2>4, ReceiveType
    <3>2. QED
      BY <2>1, <3>1 DEF TypeOK
  <2>6. UNCHANGED <<serverVars, blockVars, netVars, sends, nSendFree, appVars, listener>>
    BY <1>5 DEF PostRecv
  <2>7. QED
    BY <2>3, <2>5, <2>6 DEF TypeOK, ListenerHolds, serverVars, blockVars, netVars, appVars
<1>6. ASSUME StopRecv(w) PROVE TypeInv'
  <2>1. thread' \in [Threads -> ThreadStates] /\ HoldsBlock'
    BY <1>a, <1>6, BecomesType DEF StopRecv
  <2>2. UNCHANGED <<serverVars, blockVars, netVars, ioVars, appVars, listener>>
    BY <1>6 DEF StopRecv
  <2>3. QED
    BY <2>1, <2>2 DEF TypeOK, ListenerHolds, serverVars, blockVars, netVars, ioVars, appVars
<1>7. QED
  BY <1>1, <1>2, <1>3, <1>4, <1>5, <1>6 DEF Run

LEMMA AppType ==
  ASSUME TypeInv, NEW t \in Apps, App(t)
  PROVE  TypeInv'
<1> USE IdleType, IdlePc DEF TypeInv
<1>a. TypeOK /\ HoldsBlock /\ ListenerHolds /\ t \in Threads
  BY DEF Threads
<1>b. known \subseteq Sockets
  BY DEF TypeOK
<1>1. ASSUME NEW h \in known, Send(t, h) PROVE TypeInv'
  <2>1. Disconnecting(h, "send", FALSE) \in ThreadStates
        /\ Disconnecting(h, "send", FALSE).pc = "disconnect"
    BY <1>b, DisconnectingType
  <2>2. thread' \in [Threads -> ThreadStates] /\ HoldsBlock'
    <3>1. CASE UNCHANGED thread
      BY <3>1 DEF TypeOK, HoldsBlock
    <3>2. CASE Becomes(t, Disconnecting(h, "send", FALSE))
      BY <1>a, <2>1, <3>2, BecomesType
    <3>3. QED
      BY <1>1, <3>1, <3>2 DEF Send
  <2>3. sends' \in [Conns -> Nat]
    BY <1>1, SendsMore DEF Send, TypeOK
  <2>4. nSendFree' \in 0 .. MaxSocketNum
    <3>1. nSendFree \in 0 .. MaxSocketNum /\ MaxSocketNum \in Nat
      BY BoundsAssumption DEF TypeOK
    <3>2. PopSend => nSendFree' \in 0 .. MaxSocketNum
      BY <3>1 DEF PopSend
    <3>3. nSendFree' = (IF nSendFree = 0 /\ MaxSocketNum > 0 THEN 1 ELSE nSendFree)
            => nSendFree' \in 0 .. MaxSocketNum
      BY <3>1
    <3>4. QED
      BY <1>1, <3>2, <3>3 DEF Send
  <2>5. UNCHANGED <<serverVars, blockVars, netVars, recv, appVars, listener>>
    BY <1>1 DEF Send
  <2>6. QED
    BY <2>2, <2>3, <2>4, <2>5 DEF TypeOK, ListenerHolds, serverVars, blockVars, netVars, appVars
<1>2. ASSUME NEW h \in known, AppDisconnect(t, h) PROVE TypeInv'
  <2>1. PICK force \in BOOLEAN : Becomes(t, Disconnecting(h, "app", force))
    BY <1>2 DEF AppDisconnect
  <2>2. Disconnecting(h, "app", force) \in ThreadStates
        /\ Disconnecting(h, "app", force).pc = "disconnect"
    BY <1>b, DisconnectingType
  <2>3. thread' \in [Threads -> ThreadStates] /\ HoldsBlock'
    BY <1>a, <2>1, <2>2, BecomesType
  <2>4. UNCHANGED <<serverVars, blockVars, netVars, ioVars, appVars, listener>>
    BY <1>2 DEF AppDisconnect
  <2>5. QED
    BY <2>3, <2>4 DEF TypeOK, ListenerHolds, serverVars, blockVars, netVars, ioVars, appVars
<1>3. ASSUME NEW h \in known, SetAttachInfo(t, h) PROVE TypeInv'
  <2>1. pAttachInfo' \in [Sessions -> 0 .. MaxConns]
    BY <1>3, ZeroConn DEF SetAttachInfo, TypeOK
  <2>2. UNCHANGED <<serverVars, heap, hSocket, netVars, ioVars, appVars, listener, thread>>
    BY <1>3 DEF SetAttachInfo
  <2>3. QED
    BY <2>1, <2>2 DEF TypeOK, HoldsBlock, ListenerHolds, serverVars, netVars, ioVars, appVars
<1>4. QED
  BY <1>1, <1>2, <1>3 DEF App

LEMMA ClientType ==
  ASSUME TypeInv, NEW c \in Conns, ClientSends(c) \/ ClientLeaves(c)
  PROVE  TypeInv'
<1> USE DEF TypeInv
<1>1. CASE ClientSends(c)
  <2>1. recv' \in [Conns -> Receives]
    <3>1. recv \in [Conns -> Receives]
      BY DEF TypeOK
    <3>2. PICK r \in Conns : recv' = [recv EXCEPT ![r].got = TRUE]
      BY <1>1 DEF ClientSends
    <3>3. [recv[r] EXCEPT !.got = TRUE] \in Receives
      BY <3>1 DEF Receives
    <3>4. QED
      BY <3>1, <3>2, <3>3
  <2>2. UNCHANGED <<serverVars, blockVars, netVars, sends, nSendFree, appVars, listener, thread>>
    BY <1>1 DEF ClientSends
  <2>3. QED
    BY <2>1, <2>2 DEF TypeOK, HoldsBlock, ListenerHolds, serverVars, blockVars, netVars, appVars
<1>2. CASE ClientLeaves(c)
  <2>1. client' \in [Conns -> {"up", "closed", "reset"}]
    BY <1>2 DEF ClientLeaves, TypeOK
  <2>2. UNCHANGED <<serverVars, blockVars, open, nConns, key, ioVars, appVars, listener, thread>>
    BY <1>2 DEF ClientLeaves
  <2>3. QED
    BY <2>1, <2>2 DEF TypeOK, HoldsBlock, ListenerHolds, serverVars, blockVars, ioVars, appVars
<1>3. QED
  BY <1>1, <1>2

LEMMA TypeStep == TypeInv /\ [Next]_vars => TypeInv'
<1> SUFFICES ASSUME TypeInv, [Next]_vars PROVE TypeInv'
  OBVIOUS
<1>1. CASE UNCHANGED vars
  BY <1>1 DEF TypeInv, TypeOK, HoldsBlock, ListenerHolds, vars, serverVars, blockVars, netVars,
              ioVars, appVars
<1>2. CASE Next
  BY <1>2, ListenProcType, DisconnectType, RunType, AppType, ClientType DEF Next
<1>3. QED
  BY <1>1, <1>2

(* In every behaviour each variable keeps its type, a thread that erases   *)
(* an entry of the map holds its block, and the listen thread holds the    *)
(* socket and the block of the connection it is setting up.                *)
THEOREM TypeCorrect == Spec => []TypeOK
<1>1. Spec => []TypeInv
  BY InitType, TypeStep, PTL DEF Spec
<1>2. TypeInv => TypeOK
  BY DEF TypeInv
<1>3. QED
  BY <1>1, <1>2, PTL


----------------------------------------------------------------------------
(* A sequence loses its head and gains a last element.                     *)

LEMMA TakeHead ==
  ASSUME NEW S, NEW q \in Seq(S), q # <<>>, IsInjective(q)
  PROVE  /\ IsInjective(Tail(q))
         /\ ToSet(q) = {Head(q)} \cup ToSet(Tail(q))
         /\ Head(q) \notin ToSet(Tail(q))
<1> DEFINE n == Len(q)
<1>1. n \in Nat \ {0} /\ DOMAIN q = 1 .. n /\ Head(q) = q[1]
  OBVIOUS
<1>2. Tail(q) \in Seq(S) /\ DOMAIN Tail(q) = 1 .. n - 1 /\ \A i \in 1 .. n - 1 : Tail(q)[i] = q[i + 1]
  OBVIOUS
<1>3. \A i, j \in 1 .. n : q[i] = q[j] => i = j
  BY <1>1 DEF IsInjective
<1> HIDE DEF n
<1>4. IsInjective(Tail(q))
  <2>1. ASSUME NEW i \in 1 .. n - 1, NEW j \in 1 .. n - 1, Tail(q)[i] = Tail(q)[j] PROVE i = j
    <3>1. i + 1 \in 1 .. n /\ j + 1 \in 1 .. n /\ q[i + 1] = q[j + 1]
      BY <1>1, <1>2, <2>1
    <3>2. QED
      BY <3>1, <1>3, <1>1
  <2>2. QED
    BY <2>1, <1>2 DEF IsInjective
<1>5. ToSet(q) \subseteq {Head(q)} \cup ToSet(Tail(q))
  <2>1. ASSUME NEW i \in 1 .. n, i # 1 PROVE q[i] \in ToSet(Tail(q))
    <3>1. i - 1 \in 1 .. n - 1 /\ (i - 1) + 1 = i
      BY <1>1, <2>1
    <3>2. Tail(q)[i - 1] = q[i]
      BY <3>1, <1>2
    <3>3. QED
      BY <3>1, <3>2, <1>2 DEF ToSet
  <2>2. QED
    BY <2>1, <1>1 DEF ToSet
<1>6. {Head(q)} \cup ToSet(Tail(q)) \subseteq ToSet(q)
  <2>1. \A i \in 1 .. n - 1 : i + 1 \in 1 .. n
    BY <1>1
  <2>2. 1 \in 1 .. n
    BY <1>1
  <2>3. QED
    BY <2>1, <2>2, <1>1, <1>2 DEF ToSet
<1>7. Head(q) \notin ToSet(Tail(q))
  <2>1. ASSUME NEW i \in 1 .. n - 1 PROVE Tail(q)[i] # q[1]
    <3>1. i + 1 \in 1 .. n /\ 1 \in 1 .. n /\ i + 1 # 1
      BY <1>1
    <3>2. QED
      BY <3>1, <1>2, <1>3
  <2>2. QED
    BY <2>1, <1>1, <1>2 DEF ToSet
<1>8. QED
  BY <1>4, <1>5, <1>6, <1>7

LEMMA AddLast ==
  ASSUME NEW S, NEW q \in Seq(S), NEW s \in S, IsInjective(q), s \notin ToSet(q)
  PROVE  IsInjective(Append(q, s)) /\ ToSet(Append(q, s)) = ToSet(q) \cup {s}
<1> DEFINE n == Len(q)
           r == Append(q, s)
<1>1. n \in Nat /\ DOMAIN q = 1 .. n
  OBVIOUS
<1>2. DOMAIN r = 1 .. n + 1 /\ r[n + 1] = s /\ \A i \in 1 .. n : r[i] = q[i]
  OBVIOUS
<1>3. \A i, j \in 1 .. n : q[i] = q[j] => i = j
  BY <1>1 DEF IsInjective
<1>4. \A i \in 1 .. n : q[i] # s
  BY <1>1 DEF ToSet
<1> HIDE DEF n, r
<1>5. 1 .. n + 1 = (1 .. n) \cup {n + 1}
  BY <1>1
<1>6. IsInjective(r)
  BY <1>2, <1>3, <1>4, <1>5 DEF IsInjective
<1>7. ToSet(r) = ToSet(q) \cup {s}
  BY <1>1, <1>2, <1>5 DEF ToSet
<1>8. QED
  BY <1>6, <1>7 DEF r

----------------------------------------------------------------------------
(* Ownership.  The invariant adds to the two properties what m_lock is     *)
(* for: it is held exactly by the thread that is about to erase an entry,  *)
(* and the entry is still the one that thread has found.                   *)

LockHeld == \A t \in Threads : (thread[t].pc = "erase") <=> (m_lock = t)
ErasedIsThere ==
  \A t \in Threads : thread[t].pc = "erase" =>
    thread[t].h \in Connected /\ thread[t].s = m_mapSocketSession[thread[t].h]
LockInv == LockHeld /\ ErasedIsThere
OwnInv == TypeInv /\ LockInv /\ SessionsOwnedOnce /\ HandlesAccounted

LEMMA NothingClosing ==
  ASSUME LockInv, m_lock = NoThread
  PROVE  Closing = {} /\ \A t \in Threads : thread[t].pc # "erase"
BY NamesAssumption DEF LockInv, LockHeld, Closing

LEMMA OneClosing ==
  ASSUME LockInv, NEW t \in Threads, thread[t].pc = "erase"
  PROVE  Closing = {thread[t].h} /\ \A u \in Threads : thread[u].pc = "erase" => u = t
BY DEF LockInv, LockHeld, Closing

(* Steps that leave the map, the pool, the lock, the sockets and the       *)
(* listen thread alone, and the threads that hold the lock (Aside) or are  *)
(* somewhere between closing a socket and reporting it (Quiet).            *)
Untouched == UNCHANGED <<serverVars, heap, open, nConns, listener>>
KeepsThreadsAt(S) ==
  \A t \in Threads : thread'[t] # thread[t] => thread[t].pc \notin S /\ thread'[t].pc \notin S
Aside == Untouched /\ KeepsThreadsAt({"erase"})
Quiet == Untouched /\ UNCHANGED told /\ KeepsThreadsAt({"erase", "notify"})

LEMMA QuietAside == Quiet => Aside
BY DEF Quiet, Aside, KeepsThreadsAt

LEMMA AsideStep ==
  ASSUME OwnInv, Aside
  PROVE  LockInv' /\ SessionsOwnedOnce' /\ HandlesAccounted' /\ Connected' = Connected
<1>1. Connected' = Connected /\ InMap' = InMap /\ InHand' = InHand /\ Arriving' = Arriving
  BY DEF Aside, Untouched, KeepsThreadsAt, serverVars, Connected, InMap, InHand, Arriving
<1>2. LockInv'
  BY <1>1 DEF Aside, Untouched, KeepsThreadsAt, serverVars, OwnInv, LockInv, LockHeld, ErasedIsThere
<1>3. Closing' = Closing
  BY DEF Aside, Untouched, KeepsThreadsAt, Closing
<1>4. SessionsOwnedOnce'
  BY <1>1 DEF OwnInv, SessionsOwnedOnce, Aside, Untouched, serverVars
<1>5. HandlesAccounted'
  BY <1>1, <1>3 DEF OwnInv, HandlesAccounted, Aside, Untouched
<1>6. QED
  BY <1>1, <1>2, <1>4, <1>5

LEMMA BecomesKeeps ==
  ASSUME TypeInv, NEW t \in Threads, NEW r, Becomes(t, r), NEW S,
         thread[t].pc \notin S, r.pc \notin S
  PROVE  KeepsThreadsAt(S)
<1>1. thread \in [Threads -> ThreadStates] /\ thread' = [thread EXCEPT ![t] = r]
  BY DEF TypeInv, TypeOK, Becomes
<1>2. thread'[t] = r /\ \A u \in Threads : u # t => thread'[u] = thread[u]
  BY <1>1
<1>3. QED
  BY <1>2 DEF KeepsThreadsAt

LEMMA DisconnectingPc ==
  ASSUME NEW h, NEW why, NEW f
  PROVE  Disconnecting(h, why, f).pc = "disconnect"
BY DEF Disconnecting, Idle

LEMMA RunQuiet ==
  ASSUME TypeInv, NEW w \in Workers, Run(w)
  PROVE  Quiet
<1> DEFINE S == {"erase", "notify"}
           OthersKeep == KeepsThreadsAt(S)
<1> USE DEF serverVars, blockVars, netVars, appVars
<1>a. w \in Threads
  BY DEF Threads
<1>b. Idle.pc = "idle"
  BY DEF Idle
<1> HIDE DEF OthersKeep
<1>1. ASSUME NEW c \in Conns, DequeueEndedRecv(w, c) PROVE OthersKeep
  BY <1>1, <1>a, <1>b, BecomesKeeps, DisconnectingPc DEF DequeueEndedRecv, OthersKeep
<1>2. ASSUME NEW c \in Conns, DequeueEndedSend(w, c) PROVE OthersKeep
  BY <1>2, <1>a, <1>b, BecomesKeeps, DisconnectingPc DEF DequeueEndedSend, OthersKeep
<1>3. ASSUME NEW c \in Conns, PostSend(w, c) PROVE OthersKeep
  <2>1. thread' = thread
    BY <1>3 DEF PostSend
  <2>2. QED
    BY <2>1 DEF KeepsThreadsAt, OthersKeep
<1>4. ASSUME NEW c \in Conns, OnRecv(w, c) PROVE OthersKeep
  <2> DEFINE r == [Idle EXCEPT !.pc = "onrecv", !.s = key[recv[c].on], !.io = recv[c].io, !.c = c]
  <2>1. r.pc = "onrecv"
    BY DEF Idle
  <2>2. Becomes(w, r) /\ thread[w] = Idle
    BY <1>4 DEF OnRecv
  <2> HIDE DEF r
  <2>3. QED
    BY <2>1, <2>2, <1>a, <1>b, BecomesKeeps DEF OthersKeep
<1>5. ASSUME PostRecv(w) PROVE OthersKeep
  <2>1. PICK h \in HandleIn(thread[w].s) :
          Becomes(w, Idle) \/ Becomes(w, Disconnecting(h, "recv", FALSE))
    BY <1>5 DEF PostRecv
  <2>2. thread[w].pc = "onrecv"
    BY <1>5 DEF PostRecv
  <2>3. QED
    BY <2>1, <2>2, <1>a, <1>b, BecomesKeeps, DisconnectingPc DEF OthersKeep
<1>6. ASSUME StopRecv(w) PROVE OthersKeep
  BY <1>6, <1>a, <1>b, BecomesKeeps DEF StopRecv, OthersKeep
<1>7. OthersKeep
  BY <1>1, <1>2, <1>3, <1>4, <1>5, <1>6 DEF Run
<1>8. Untouched /\ UNCHANGED told
  BY DEF Untouched, Run, DequeueEndedRecv, DequeueEndedSend, PostSend, OnRecv, PostRecv, StopRecv
<1>9. QED
  BY <1>7, <1>8 DEF Quiet, OthersKeep

LEMMA AppQuiet ==
  ASSUME TypeInv, NEW t \in Apps, App(t)
  PROVE  Quiet
<1> USE DEF serverVars, blockVars, netVars, appVars
<1>a. t \in Threads /\ Idle.pc = "idle"
  BY DEF Threads, Idle
<1>1. PICK h \in known : Send(t, h) \/ AppDisconnect(t, h) \/ SetAttachInfo(t, h)
  BY DEF App
<1>2. CASE Send(t, h)
  <2>1. UNCHANGED thread \/ (thread[t] = Idle /\ Becomes(t, Disconnecting(h, "send", FALSE)))
    BY <1>2 DEF Send
  <2>2. KeepsThreadsAt({"erase", "notify"})
    <3>1. CASE UNCHANGED thread
      BY <3>1 DEF KeepsThreadsAt
    <3>2. CASE thread[t] = Idle /\ Becomes(t, Disconnecting(h, "send", FALSE))
      BY <3>2, <1>a, BecomesKeeps, DisconnectingPc
    <3>3. QED
      BY <2>1, <3>1, <3>2
  <2>3. QED
    BY <1>2, <2>2 DEF Send, Quiet, Untouched
<1>3. CASE AppDisconnect(t, h)
  <2>1. PICK f \in BOOLEAN : thread[t] = Idle /\ Becomes(t, Disconnecting(h, "app", f))
    BY <1>3 DEF AppDisconnect
  <2>2. QED
    BY <1>3, <2>1, <1>a, BecomesKeeps, DisconnectingPc DEF AppDisconnect, Quiet, Untouched
<1>4. CASE SetAttachInfo(t, h)
  <2>1. thread' = thread
    BY <1>4 DEF SetAttachInfo
  <2>2. Untouched /\ UNCHANGED told
    BY <1>4 DEF SetAttachInfo, Untouched
  <2>3. QED
    BY <2>1, <2>2 DEF Quiet, KeepsThreadsAt
<1>5. QED
  BY <1>1, <1>2, <1>3, <1>4

LEMMA ClientQuiet ==
  ASSUME NEW c \in Conns, ClientSends(c) \/ ClientLeaves(c)
  PROVE  Quiet
<1>1. thread' = thread
  BY DEF ClientSends, ClientLeaves
<1>2. Untouched /\ UNCHANGED told
  BY DEF ClientSends, ClientLeaves, Untouched, blockVars, netVars, appVars
<1>3. QED
  BY <1>1, <1>2 DEF Quiet, KeepsThreadsAt

LEMMA OnDisconnectAside ==
  ASSUME TypeInv, NEW t \in Threads, OnDisconnect(t)
  PROVE  Aside
<1>1. Idle.pc = "idle" /\ thread[t].pc = "notify" /\ Becomes(t, Idle)
  BY DEF Idle, OnDisconnect
<1>2. KeepsThreadsAt({"erase"})
  BY <1>1, BecomesKeeps
<1>3. QED
  BY <1>2 DEF OnDisconnect, Aside, Untouched, serverVars, blockVars, netVars

(* The steps of the listen thread leave the lock and the other threads     *)
(* alone, and all but InsertSession leave the map alone.                   *)
LEMMA ListenKeepsLock ==
  ASSUME LockInv, UNCHANGED <<m_mapSocketSession, m_lock, thread>>
  PROVE  LockInv' /\ Closing' = Closing /\ Connected' = Connected /\ InMap' = InMap
<1>1. Connected' = Connected /\ InMap' = InMap
  BY DEF Connected, InMap
<1>2. Closing' = Closing
  BY DEF Closing
<1>3. LockInv'
  BY <1>1 DEF LockInv, LockHeld, ErasedIsThere
<1>4. QED
  BY <1>1, <1>2, <1>3

LEMMA KeepsBlocks ==
  ASSUME OwnInv, UNCHANGED <<m_mapSocketSession, m_lock, thread, m_lstFreePool, heap>>, InHand' = InHand
  PROVE  SessionsOwnedOnce'
<1>1. Connected' = Connected /\ InMap' = InMap
  BY DEF Connected, InMap
<1>2. QED
  BY <1>1 DEF OwnInv, SessionsOwnedOnce

(* The handle the listen thread holds is given up: it is closed.           *)
LEMMA CloseArriving ==
  ASSUME OwnInv, CloseSocket, listener.pc # "accept", Arriving = {listener.h}, Arriving' = {},
         UNCHANGED <<m_mapSocketSession, m_lock, thread>>
  PROVE  HandlesAccounted'
<1>1. listener.h \in Sockets /\ open \in [Sockets -> 0 .. MaxConns]
  BY DEF OwnInv, TypeInv, TypeOK, ListenerHolds
<1>2. Closing' = Closing /\ Connected' = Connected
  BY ListenKeepsLock DEF OwnInv
<1>3. {h \in Sockets : open'[h] # 0} = {h \in Sockets : open[h] # 0} \ {listener.h}
  BY <1>1 DEF CloseSocket
<1>4. QED
  BY <1>2, <1>3 DEF OwnInv, HandlesAccounted

LEMMA ListenProcOwn ==
  ASSUME OwnInv, ListenProc
  PROVE  LockInv' /\ SessionsOwnedOnce' /\ HandlesAccounted'
<1>a. TypeOK /\ ListenerHolds /\ LockInv /\ SessionsOwnedOnce /\ HandlesAccounted
  BY DEF OwnInv, TypeInv
<1>b. Accepting.pc = "accept"
  BY DEF Accepting
<1> USE DEF At, serverVars, blockVars, netVars
<1>1. CASE WSAAccept
  <2>1. PICK h \in Sockets : /\ open[h] = 0
                            /\ open' = [open EXCEPT ![h] = nConns + 1]
                            /\ listener' = [pc |-> "accepted", h |-> h, s |-> NoSession, c |-> nConns + 1]
    BY <1>1 DEF WSAAccept
  <2>2. nConns + 1 # 0 /\ open \in [Sockets -> 0 .. MaxConns]
    BY <1>a, BoundsAssumption DEF TypeOK
  <2>3. {g \in Sockets : open'[g] # 0} = {g \in Sockets : open[g] # 0} \cup {h}
    BY <2>1, <2>2
  <2>4. LockInv' /\ Closing' = Closing /\ Connected' = Connected
    BY <1>1, <1>a, ListenKeepsLock DEF WSAAccept
  <2>5. InHand' = InHand /\ Arriving = {} /\ Arriving' = {h}
    BY <1>1, <2>1 DEF WSAAccept, InHand, Arriving
  <2>6. SessionsOwnedOnce'
    BY <1>1, <2>5, KeepsBlocks DEF WSAAccept
  <2>7. h \notin {g \in Sockets : open[g] # 0}
    BY <2>1
  <2>8. HandlesAccounted'
    BY <1>a, <2>3, <2>4, <2>5, <2>7 DEF HandlesAccounted
  <2>9. QED
    BY <2>4, <2>6, <2>8
<1>2. CASE OnAccept
  <2>1. UNCHANGED <<m_mapSocketSession, m_lock, thread, m_lstFreePool, heap>> /\ listener.pc = "accepted"
    BY <1>2 DEF OnAccept
  <2>2. LockInv' /\ Closing' = Closing /\ Connected' = Connected
    BY <1>a, <2>1, ListenKeepsLock
  <2>3. CASE Goto("size") /\ UNCHANGED open
    <3>1. listener'.pc = "size" /\ listener'.h = listener.h /\ listener'.s = listener.s
      BY <1>a, <2>3, GotoType
    <3>2. InHand' = InHand /\ Arriving' = Arriving
      BY <2>1, <3>1 DEF InHand, Arriving
    <3>3. QED
      BY <1>a, <2>1, <2>2, <2>3, <3>2, KeepsBlocks DEF HandlesAccounted
  <2>4. CASE CloseSocket /\ listener' = Accepting
    <3>1. InHand' = InHand /\ Arriving = {listener.h} /\ Arriving' = {}
      BY <1>b, <2>1, <2>4 DEF InHand, Arriving
    <3>2. QED
      BY <2>1, <2>2, <2>4, <3>1, KeepsBlocks, CloseArriving
  <2>5. QED
    BY <1>2, <2>3, <2>4 DEF OnAccept
<1>3. CASE CheckSize
  <2>1. UNCHANGED <<m_mapSocketSession, m_lock, thread, m_lstFreePool, heap>> /\ listener.pc = "size"
    BY <1>3 DEF CheckSize
  <2>2. LockInv' /\ Closing' = Closing /\ Connected' = Connected
    BY <1>a, <2>1, ListenKeepsLock
  <2>3. CASE Goto("take") /\ UNCHANGED open
    <3>1. listener'.pc = "take" /\ listener'.h = listener.h /\ listener'.s = listener.s
      BY <1>a, <2>3, GotoType
    <3>2. InHand' = InHand /\ Arriving' = Arriving
      BY <2>1, <3>1 DEF InHand, Arriving
    <3>3. QED
      BY <1>a, <2>1, <2>2, <2>3, <3>2, KeepsBlocks DEF HandlesAccounted
  <2>4. CASE CloseSocket /\ listener' = Accepting
    <3>1. InHand' = InHand /\ Arriving = {listener.h} /\ Arriving' = {}
      BY <1>b, <2>1, <2>4 DEF InHand, Arriving
    <3>2. QED
      BY <2>1, <2>2, <2>4, <3>1, KeepsBlocks, CloseArriving
  <2>5. QED
    BY <1>3, <2>3, <2>4 DEF CheckSize
<1>4. CASE TakeFromPool
  <2>1. UNCHANGED <<m_mapSocketSession, m_lock, thread, heap, open>> /\ listener.pc = "take"
    BY <1>4 DEF TakeFromPool
  <2>2. LockInv' /\ Closing' = Closing /\ Connected' = Connected /\ InMap' = InMap
    BY <1>a, <2>1, ListenKeepsLock
  <2>3. CASE m_lstFreePool # <<>>
    <3> DEFINE s == Head(m_lstFreePool)
    <3>1. m_lstFreePool \in Seq(Sessions) /\ s \in Sessions
      BY <1>a, <2>3 DEF TypeOK
    <3>2. m_lstFreePool' = Tail(m_lstFreePool)
          /\ listener' = [listener EXCEPT !.pc = "associate", !.s = s]
      BY <1>4, <2>3 DEF TakeFromPool
    <3>3. listener'.pc = "associate" /\ listener'.h = listener.h /\ listener'.s = s
      BY <1>a, <3>1, <3>2, HoldType
    <3>4. InHand = {} /\ InHand' = {s} /\ Arriving' = Arriving
      BY <2>1, <3>3 DEF InHand, Arriving
    <3>5. /\ IsInjective(m_lstFreePool')
          /\ ToSet(m_lstFreePool) = {s} \cup ToSet(m_lstFreePool')
          /\ s \notin ToSet(m_lstFreePool')
      BY <1>a, <2>3, <3>1, <3>2, TakeHead DEF SessionsOwnedOnce
    <3>6. SessionsOwnedOnce'
      BY <1>a, <2>1, <2>2, <3>4, <3>5 DEF SessionsOwnedOnce
    <3>7. HandlesAccounted'
      BY <1>a, <2>1, <2>2, <3>4 DEF HandlesAccounted
    <3>8. QED
      BY <2>2, <3>6, <3>7
  <2>4. CASE m_lstFreePool = <<>>
    <3>1. Goto("alloc") /\ UNCHANGED m_lstFreePool
      BY <1>4, <2>4 DEF TakeFromPool
    <3>2. listener'.pc = "alloc" /\ listener'.h = listener.h
      BY <1>a, <3>1 DEF Goto, TypeOK, ListenerStates
    <3>3. InHand' = InHand /\ Arriving' = Arriving
      BY <2>1, <3>2 DEF InHand, Arriving
    <3>4. QED
      BY <1>a, <2>1, <2>2, <3>1, <3>3, KeepsBlocks DEF HandlesAccounted
  <2>5. QED
    BY <2>3, <2>4
<1>5. CASE AllocSession
  <2>1. UNCHANGED <<m_mapSocketSession, m_lock, thread, m_lstFreePool>> /\ listener.pc = "alloc"
    BY <1>5 DEF AllocSession
  <2>2. LockInv' /\ Closing' = Closing /\ Connected' = Connected /\ InMap' = InMap
    BY <1>a, <2>1, ListenKeepsLock
  <2>3. ASSUME NEW s \in Sessions \ heap, heap' = heap \cup {s}, UNCHANGED open,
               listener' = [listener EXCEPT !.pc = "associate", !.s = s]
        PROVE  SessionsOwnedOnce' /\ HandlesAccounted'
    <3>1. listener'.pc = "associate" /\ listener'.h = listener.h /\ listener'.s = s
      BY <1>a, <2>3, HoldType
    <3>2. InHand = {} /\ InHand' = {s} /\ Arriving' = Arriving
      BY <2>1, <3>1 DEF InHand, Arriving
    <3>3. SessionsOwnedOnce'
      BY <1>a, <2>1, <2>2, <2>3, <3>2 DEF SessionsOwnedOnce
    <3>4. QED
      BY <1>a, <2>2, <2>3, <3>2, <3>3 DEF HandlesAccounted
  <2>4. CASE CloseSocket /\ listener' = Accepting /\ UNCHANGED heap
    <3>1. InHand' = InHand /\ Arriving = {listener.h} /\ Arriving' = {}
      BY <1>b, <2>1, <2>4 DEF InHand, Arriving
    <3>2. QED
      BY <2>1, <2>2, <2>4, <3>1, KeepsBlocks, CloseArriving
  <2>5. QED
    BY <1>5, <2>2, <2>3, <2>4 DEF AllocSession
<1>6. CASE AssociateSocket
  <2>1. UNCHANGED <<m_mapSocketSession, m_lock, thread, m_lstFreePool, heap, open>>
        /\ listener.pc = "associate" /\ Goto("insert")
    BY <1>6 DEF AssociateSocket
  <2>2. LockInv' /\ Closing' = Closing /\ Connected' = Connected
    BY <1>a, <2>1, ListenKeepsLock
  <2>3. listener'.pc = "insert" /\ listener'.h = listener.h /\ listener'.s = listener.s
    BY <1>a, <2>1, GotoType
  <2>4. InHand' = InHand /\ Arriving' = Arriving
    BY <2>1, <2>3 DEF InHand, Arriving
  <2>5. QED
    BY <1>a, <2>1, <2>2, <2>4, KeepsBlocks DEF HandlesAccounted
<1>7. CASE InsertSession
  <2> DEFINE h == listener.h
             s == listener.s
  <2>1. UNCHANGED <<m_lock, thread, m_lstFreePool, heap, open>> /\ Goto("init")
        /\ listener.pc = "insert" /\ m_lock = NoThread
    BY <1>7 DEF InsertSession
  <2>2. Closing = {} /\ Closing' = {} /\ \A t \in Threads : thread[t].pc # "erase"
    BY <1>a, <2>1, NothingClosing DEF Closing
  <2>3. h \in Sockets /\ s \in Sessions /\ Arriving = {h} /\ InHand = {s}
    BY <1>a, <2>1 DEF ListenerHolds, Arriving, InHand
  <2>4. h \notin Connected
    BY <1>a, <2>2, <2>3 DEF HandlesAccounted
  <2>5. m_mapSocketSession \in [Sockets -> Sessions \cup {NoSession}]
        /\ m_mapSocketSession' = [m_mapSocketSession EXCEPT ![h] = s]
    BY <1>7, <1>a, <2>4 DEF InsertSession, TypeOK
  <2>6. /\ m_mapSocketSession'[h] = s
        /\ \A g \in Sockets \ {h} : m_mapSocketSession'[g] = m_mapSocketSession[g]
    BY <2>3, <2>5
  <2>7. Connected' = Connected \cup {h} /\ InMap' = InMap \cup {s}
    <3>1. Connected' = Connected \cup {h}
      BY <2>3, <2>6, NamesAssumption DEF Connected
    <3>2. \A g \in Connected : m_mapSocketSession'[g] = m_mapSocketSession[g]
      BY <2>4, <2>6 DEF Connected
    <3>3. QED
      BY <2>6, <3>1, <3>2 DEF InMap
  <2>8. listener'.pc = "init"
    BY <1>a, <2>1, GotoType
  <2>9. InHand' = {} /\ Arriving' = {}
    BY <2>8 DEF InHand, Arriving
  <2>10. s \notin InMap
    BY <1>a, <2>3 DEF SessionsOwnedOnce
  <2>11. \A f, g \in Connected' : m_mapSocketSession'[f] = m_mapSocketSession'[g] => f = g
    <3>1. \A g \in Connected : m_mapSocketSession'[g] # s
      BY <2>4, <2>6, <2>10 DEF InMap, Connected
    <3>2. \A f, g \in Connected : m_mapSocketSession'[f] = m_mapSocketSession'[g] => f = g
      BY <1>a, <2>4, <2>6 DEF SessionsOwnedOnce, Connected
    <3>3. QED
      BY <2>6, <2>7, <3>1, <3>2
  <2>12. SessionsOwnedOnce'
    BY <1>a, <2>1, <2>3, <2>7, <2>9, <2>11 DEF SessionsOwnedOnce
  <2>13. HandlesAccounted'
    BY <1>a, <2>1, <2>2, <2>3, <2>7, <2>9 DEF HandlesAccounted
  <2>14. LockInv'
    BY <1>a, <2>1, <2>2 DEF LockInv, LockHeld, ErasedIsThere
  <2>15. QED
    BY <2>12, <2>13, <2>14
<1>8. CASE OnInitSocket \/ FirstRecv
  <2>1. UNCHANGED <<m_mapSocketSession, m_lock, thread, m_lstFreePool, heap, open>>
        /\ listener.pc \in {"init", "recv"} /\ (Goto("recv") \/ listener' = Accepting)
    BY <1>8 DEF OnInitSocket, FirstRecv
  <2>2. LockInv' /\ Closing' = Closing /\ Connected' = Connected
    BY <1>a, <2>1, ListenKeepsLock
  <2>3. listener'.pc \in {"recv", "accept"}
    BY <1>a, <1>b, <2>1, GotoType
  <2>4. InHand' = InHand /\ Arriving' = Arriving
    BY <2>1, <2>3 DEF InHand, Arriving
  <2>5. QED
    BY <1>a, <2>1, <2>2, <2>4, KeepsBlocks DEF HandlesAccounted
<1>9. QED
  BY <1>1, <1>2, <1>3, <1>4, <1>5, <1>6, <1>7, <1>8 DEF ListenProc

(* What DisconnectFind does when it finds the socket.                      *)
Found(t) ==
  LET h == thread[t].h
  IN  /\ h \in Connected
      /\ m_lock = NoThread /\ m_lock' = t
      /\ open' = [open EXCEPT ![h] = 0]
      /\ thread' = [thread EXCEPT ![t] = thread'[t]]
      /\ thread'[t].pc = "erase" /\ thread'[t].h = h
      /\ thread'[t].s = m_mapSocketSession[h] /\ thread'[t].c = open[h]

LEMMA FindCases ==
  ASSUME TypeInv, NEW t \in Threads, DisconnectFind(t)
  PROVE  Quiet \/ Found(t)
<1>1. thread \in [Threads -> ThreadStates] /\ thread[t] \in ThreadStates
  BY DEF TypeInv, TypeOK
<1> DEFINE h == thread[t].h
<1>2. CASE h \in Connected
  <2> DEFINE r == [thread[t] EXCEPT !.pc = "erase", !.s = m_mapSocketSession[h],
                                    !.a = pAttachInfo[m_mapSocketSession[h]], !.c = open[h]]
  <2>1. r.pc = "erase" /\ r.h = h /\ r.s = m_mapSocketSession[h] /\ r.c = open[h]
    BY <1>1 DEF ThreadStates
  <2>2. thread' = [thread EXCEPT ![t] = r] /\ m_lock = NoThread /\ m_lock' = t
        /\ open' = [open EXCEPT ![h] = 0]
    BY <1>2 DEF DisconnectFind, Becomes
  <2> HIDE DEF r
  <2>3. thread'[t] = r
    BY <1>1, <2>2
  <2>4. QED
    BY <1>2, <2>1, <2>2, <2>3 DEF Found
<1>3. CASE h \notin Connected
  <2>1. thread[t].pc = "disconnect" /\ Becomes(t, Idle) /\ Idle.pc = "idle"
    BY <1>3 DEF DisconnectFind, Idle
  <2>2. KeepsThreadsAt({"erase", "notify"})
    BY <2>1, BecomesKeeps
  <2>3. QED
    BY <1>3, <2>2 DEF DisconnectFind, Quiet, Untouched, serverVars, blockVars, appVars
<1>4. QED
  BY <1>2, <1>3

LEMMA FoundOwn ==
  ASSUME OwnInv, NEW t \in Threads, Found(t),
         UNCHANGED <<m_mapSocketSession, m_lstFreePool, heap, listener>>
  PROVE  LockInv' /\ SessionsOwnedOnce' /\ HandlesAccounted'
<1> DEFINE h == thread[t].h
<1>1. Closing = {} /\ \A u \in Threads : thread[u].pc # "erase"
  BY NothingClosing DEF Found, OwnInv
<1>2. thread \in [Threads -> ThreadStates] /\ open \in [Sockets -> 0 .. MaxConns]
  BY DEF OwnInv, TypeInv, TypeOK
<1>3. \A u \in Threads : u # t => thread'[u] = thread[u]
  BY <1>2 DEF Found
<1>4. Connected' = Connected /\ InMap' = InMap /\ InHand' = InHand /\ Arriving' = Arriving
  BY DEF Connected, InMap, InHand, Arriving
<1>5. LockInv'
  BY <1>1, <1>3, <1>4 DEF Found, LockInv, LockHeld, ErasedIsThere
<1>6. Closing' = {h}
  BY <1>1, <1>3 DEF Found, Closing
<1>7. {g \in Sockets : open'[g] # 0} = {g \in Sockets : open[g] # 0} \ {h}
  BY <1>2 DEF Found
<1>8. h \in Connected /\ h \notin Arriving
  BY <1>1 DEF Found, OwnInv, HandlesAccounted
<1>9. HandlesAccounted'
  BY <1>1, <1>4, <1>6, <1>7, <1>8 DEF OwnInv, HandlesAccounted
<1>10. SessionsOwnedOnce'
  BY <1>4 DEF OwnInv, SessionsOwnedOnce
<1>11. QED
  BY <1>5, <1>9, <1>10

LEMMA EraseThread ==
  ASSUME TypeInv, NEW t \in Threads, DisconnectErase(t)
  PROVE  /\ \A u \in Threads : u # t => thread'[u] = thread[u]
         /\ thread'[t].pc \in {"idle", "notify"}
         /\ thread'[t].pc = "notify" => thread'[t].c = thread[t].c
<1>1. thread \in [Threads -> ThreadStates] /\ thread[t] \in ThreadStates
  BY DEF TypeInv, TypeOK
<1> DEFINE r == [thread[t] EXCEPT !.pc = "notify"]
<1>2. r.pc = "notify" /\ r.c = thread[t].c
  BY <1>1 DEF ThreadStates
<1>3. Becomes(t, Idle) \/ Becomes(t, r)
  BY DEF DisconnectErase
<1> HIDE DEF r
<1>4. \A u \in Threads : u # t => thread'[u] = thread[u]
  BY <1>1, <1>3 DEF Becomes
<1>5. thread'[t] \in {Idle, r}
  BY <1>1, <1>3 DEF Becomes
<1>6. QED
  BY <1>2, <1>4, <1>5 DEF Idle

LEMMA EraseOwn ==
  ASSUME OwnInv, NEW t \in Threads, DisconnectErase(t)
  PROVE  /\ LockInv' /\ SessionsOwnedOnce' /\ HandlesAccounted'
         /\ thread[t].h \in Connected /\ Connected' = Connected \ {thread[t].h}
<1> DEFINE h == thread[t].h
           s == thread[t].s
<1>1. thread[t].pc = "erase" /\ m_lock' = NoThread /\ UNCHANGED <<open, listener>>
  BY DEF DisconnectErase, netVars
<1>2. h \in Connected /\ s = m_mapSocketSession[h] /\ s \in Sessions
  BY <1>1 DEF OwnInv, LockInv, ErasedIsThere, TypeInv, HoldsBlock
<1>3. Closing = {h} /\ \A u \in Threads : thread[u].pc = "erase" => u = t
  BY <1>1, OneClosing DEF OwnInv
<1>4. /\ \A u \in Threads : u # t => thread'[u] = thread[u]
      /\ thread'[t].pc \in {"idle", "notify"}
  BY EraseThread DEF OwnInv
<1>5. \A u \in Threads : thread'[u].pc # "erase"
  BY <1>3, <1>4
<1>6. LockInv' /\ Closing' = {}
  BY <1>1, <1>5, NamesAssumption DEF LockInv, LockHeld, ErasedIsThere, Closing
<1>7. m_mapSocketSession \in [Sockets -> Sessions \cup {NoSession}]
      /\ m_mapSocketSession' = [m_mapSocketSession EXCEPT ![h] = NoSession]
  BY DEF DisconnectErase, OwnInv, TypeInv, TypeOK
<1>8. h \in Sockets /\ m_mapSocketSession'[h] = NoSession
      /\ \A g \in Sockets \ {h} : m_mapSocketSession'[g] = m_mapSocketSession[g]
  BY <1>2, <1>7 DEF Connected
<1>9. Connected' = Connected \ {h}
  BY <1>8 DEF Connected
<1>10. \A f, g \in Connected : m_mapSocketSession[f] = m_mapSocketSession[g] => f = g
  BY DEF OwnInv, SessionsOwnedOnce
<1>11. InMap' = InMap \ {s}
  <2>1. \A g \in Connected \ {h} : m_mapSocketSession'[g] = m_mapSocketSession[g]
                                   /\ m_mapSocketSession[g] # s
    BY <1>2, <1>8, <1>10 DEF Connected
  <2>2. QED
    BY <1>2, <1>9, <2>1 DEF InMap
<1>12. \A f, g \in Connected' : m_mapSocketSession'[f] = m_mapSocketSession'[g] => f = g
  BY <1>8, <1>9, <1>10 DEF Connected
<1>13. InHand' = InHand /\ Arriving' = Arriving
  BY <1>1 DEF InHand, Arriving
<1>14. s \in InMap /\ s \in heap
  BY <1>2 DEF InMap, OwnInv, SessionsOwnedOnce
<1>15. SessionsOwnedOnce'
  <2>1. CASE heap' = heap \ {s} /\ UNCHANGED m_lstFreePool
    BY <1>11, <1>12, <1>13, <1>14, <2>1 DEF OwnInv, SessionsOwnedOnce
  <2>2. CASE m_lstFreePool' = Append(m_lstFreePool, s) /\ UNCHANGED heap
    <3>1. s \notin ToSet(m_lstFreePool) /\ IsInjective(m_lstFreePool)
      BY <1>14 DEF OwnInv, SessionsOwnedOnce
    <3>2. m_lstFreePool \in Seq(Sessions)
      BY DEF OwnInv, TypeInv, TypeOK
    <3>3. IsInjective(m_lstFreePool') /\ ToSet(m_lstFreePool') = ToSet(m_lstFreePool) \cup {s}
      BY <1>2, <2>2, <3>1, <3>2, AddLast
    <3>4. QED
      BY <1>11, <1>12, <1>13, <1>14, <2>2, <3>3 DEF OwnInv, SessionsOwnedOnce
  <2>3. QED
    BY <2>1, <2>2 DEF DisconnectErase, blockVars
<1>16. HandlesAccounted'
  BY <1>1, <1>3, <1>6, <1>9, <1>13 DEF OwnInv, HandlesAccounted
<1>17. QED
  BY <1>2, <1>6, <1>9, <1>15, <1>16

LEMMA OwnInit == Init => OwnInv
<1> SUFFICES ASSUME Init PROVE OwnInv
  OBVIOUS
<1>1. Connected = {} /\ InMap = {} /\ InHand = {} /\ Arriving = {}
  BY DEF Init, Connected, InMap, InHand, Arriving, Accepting
<1>2. \A t \in Threads : thread[t].pc = "idle"
  BY DEF Init, Idle
<1>3. LockInv
  BY <1>2, NamesAssumption DEF Init, LockInv, LockHeld, ErasedIsThere
<1>4. SessionsOwnedOnce
  BY <1>1 DEF Init, SessionsOwnedOnce
<1>5. HandlesAccounted
  BY <1>1 DEF Init, HandlesAccounted
<1>6. QED
  BY <1>3, <1>4, <1>5, InitType DEF OwnInv

(* Every step is one of five kinds.                                        *)
LEMMA StepCases ==
  ASSUME TypeInv, [Next]_vars
  PROVE  \/ Quiet
         \/ \E t \in Threads : OnDisconnect(t)
         \/ ListenProc
         \/ \E t \in Threads : DisconnectFind(t) /\ Found(t)
         \/ \E t \in Threads : DisconnectErase(t)
<1>1. CASE UNCHANGED vars
  <2>1. thread' = thread /\ Untouched /\ UNCHANGED told
    BY <1>1 DEF vars, serverVars, blockVars, netVars, appVars, Untouched
  <2>2. QED
    BY <2>1 DEF Quiet, KeepsThreadsAt
<1>2. CASE Next
  BY <1>2, RunQuiet, AppQuiet, ClientQuiet, FindCases DEF Next, Disconnect
<1>3. QED
  BY <1>1, <1>2

LEMMA OwnStep == OwnInv /\ [Next]_vars => OwnInv'
<1> SUFFICES ASSUME OwnInv, [Next]_vars PROVE OwnInv'
  OBVIOUS
<1>1. TypeInv /\ TypeInv'
  BY TypeStep DEF OwnInv
<1>2. CASE Aside
  BY <1>1, <1>2, AsideStep DEF OwnInv
<1>3. CASE ListenProc
  BY <1>1, <1>3, ListenProcOwn DEF OwnInv
<1>4. ASSUME NEW t \in Threads, DisconnectFind(t), Found(t) PROVE OwnInv'
  <2>1. UNCHANGED <<m_mapSocketSession, m_lstFreePool, heap, listener>>
    BY <1>4 DEF DisconnectFind, blockVars
  <2>2. QED
    BY <1>1, <1>4, <2>1, FoundOwn DEF OwnInv
<1>5. ASSUME NEW t \in Threads, DisconnectErase(t) PROVE OwnInv'
  BY <1>1, <1>5, EraseOwn DEF OwnInv
<1>6. QED
  BY <1>1, <1>2, <1>3, <1>4, <1>5, StepCases, QuietAside, OnDisconnectAside

LEMMA OwnCorrect == Spec => []OwnInv
BY OwnInit, OwnStep, PTL DEF Spec

(* Every allocated session block is always in exactly one place, so none   *)
(* serves two connections, none is freed twice and none is lost.           *)
THEOREM SessionsOwnedOnceCorrect == Spec => []SessionsOwnedOnce
<1>1. OwnInv => SessionsOwnedOnce
  BY DEF OwnInv
<1>2. QED
  BY <1>1, OwnCorrect, PTL

(* The open sockets are always those of the map and the one that is being  *)
(* accepted, whatever handle the system gives out again and when.          *)
THEOREM HandlesAccountedCorrect == Spec => []HandlesAccounted
<1>1. OwnInv => HandlesAccounted
  BY DEF OwnInv
<1>2. QED
  BY <1>1, OwnCorrect, PTL

----------------------------------------------------------------------------
(* The bounds.  The listen thread is the only one to add to the map, so    *)
(* what it read of the size stays true until it inserts.                   *)

RoomHeld ==
  listener.pc \in {"take", "alloc", "associate", "insert"} => Cardinality(Connected) < MaxSocketNum
CapInv == AtMostMaxSocketNum /\ RoomHeld

LEMMA ConnectedFinite == IsFiniteSet(Connected) /\ Cardinality(Connected) \in Nat
<1>1. Connected \in SUBSET Sockets
  BY DEF Connected
<1>2. IsFiniteSet(Connected)
  BY <1>1, FiniteAssumption, FS_Subset
<1>3. QED
  BY <1>2, FS_CardinalityType

LEMMA CapInit == Init => CapInv
<1> SUFFICES ASSUME Init PROVE CapInv
  OBVIOUS
<1>1. Connected = {} /\ listener.pc = "accept"
  BY DEF Init, Connected, Accepting
<1>2. Cardinality(Connected) = 0
  BY <1>1, FS_EmptySet
<1>3. QED
  BY <1>1, <1>2, BoundsAssumption DEF CapInv, AtMostMaxSocketNum, RoomHeld

LEMMA CapStep == OwnInv /\ CapInv /\ [Next]_vars => CapInv'
<1> SUFFICES ASSUME OwnInv, CapInv, [Next]_vars PROVE CapInv'
  OBVIOUS
<1>a. TypeInv /\ TypeOK /\ Cardinality(Connected) \in Nat /\ MaxSocketNum \in Nat
  BY ConnectedFinite, BoundsAssumption DEF OwnInv, TypeInv
<1>1. CASE Aside
  <2>1. Connected' = Connected /\ listener' = listener
    BY <1>1, AsideStep DEF Aside, Untouched
  <2>2. QED
    BY <2>1 DEF CapInv, AtMostMaxSocketNum, RoomHeld
<1>2. CASE ListenProc /\ ~InsertSession
  <2>1. Connected' = Connected
    BY <1>2 DEF ListenProc, WSAAccept, OnAccept, CheckSize, TakeFromPool, AllocSession,
                AssociateSocket, OnInitSocket, FirstRecv, serverVars, Connected
  <2>2. CASE CheckSize
    <3>1. Cardinality(Connected) < MaxSocketNum \/ listener' = Accepting
      BY <1>a, <2>2 DEF CheckSize
    <3>2. QED
      BY <2>1, <3>1 DEF CapInv, AtMostMaxSocketNum, RoomHeld, Accepting
  <2>3. CASE ~CheckSize
    <3>1. listener'.pc \in {"take", "alloc", "associate", "insert"}
            => listener.pc \in {"take", "alloc", "associate", "insert"}
      <4>1. CASE WSAAccept
        BY <4>1 DEF WSAAccept
      <4>2. CASE OnAccept
        BY <1>a, <4>2, GotoType DEF OnAccept, Accepting
      <4>3. CASE TakeFromPool \/ AllocSession \/ AssociateSocket
        BY <4>3 DEF TakeFromPool, AllocSession, AssociateSocket, At
      <4>4. CASE OnInitSocket \/ FirstRecv
        BY <1>a, <4>4, GotoType DEF OnInitSocket, FirstRecv, Accepting
      <4>5. QED
        BY <1>2, <2>3, <4>1, <4>2, <4>3, <4>4 DEF ListenProc
    <3>2. QED
      BY <2>1, <3>1 DEF CapInv, AtMostMaxSocketNum, RoomHeld
  <2>4. QED
    BY <2>2, <2>3
<1>3. CASE InsertSession
  <2>1. Cardinality(Connected) < MaxSocketNum
    BY <1>3 DEF InsertSession, At, CapInv, RoomHeld
  <2>2. listener'.pc = "init"
    BY <1>3, <1>a, GotoType DEF InsertSession
  <2>3. Connected' \subseteq Connected \cup {listener.h}
    BY <1>3, <1>a DEF InsertSession, Connected, TypeOK
  <2>4. IsFiniteSet(Connected \cup {listener.h})
        /\ Cardinality(Connected \cup {listener.h}) <= Cardinality(Connected) + 1
    BY <1>a, ConnectedFinite, FS_AddElement
  <2>5. Cardinality(Connected') <= Cardinality(Connected \cup {listener.h})
    BY <2>3, <2>4, FS_Subset
  <2>6. IsFiniteSet(Connected') /\ Cardinality(Connected \cup {listener.h}) \in Nat
    BY <2>3, <2>4, FS_Subset, FS_CardinalityType
  <2>7. Cardinality(Connected') \in Nat
    BY <2>6, FS_CardinalityType
  <2>8. Cardinality(Connected') <= MaxSocketNum
    BY <1>a, <2>1, <2>4, <2>5, <2>6, <2>7
  <2>9. QED
    BY <2>2, <2>8 DEF CapInv, AtMostMaxSocketNum, RoomHeld
<1>4. ASSUME NEW t \in Threads, Found(t), DisconnectFind(t) PROVE CapInv'
  <2>1. Connected' = Connected /\ listener' = listener
    BY <1>4 DEF DisconnectFind, Connected
  <2>2. QED
    BY <2>1 DEF CapInv, AtMostMaxSocketNum, RoomHeld
<1>5. ASSUME NEW t \in Threads, DisconnectErase(t) PROVE CapInv'
  <2>1. Connected' = Connected \ {thread[t].h} /\ listener' = listener
    BY <1>5, EraseOwn DEF DisconnectErase
  <2>2. Cardinality(Connected \ {thread[t].h}) <= Cardinality(Connected)
        /\ Cardinality(Connected \ {thread[t].h}) \in Nat
    BY ConnectedFinite, FS_RemoveElement, FS_Subset, FS_CardinalityType
  <2>3. QED
    BY <1>a, <2>1, <2>2 DEF CapInv, AtMostMaxSocketNum, RoomHeld
<1>6. QED
  BY <1>a, <1>1, <1>2, <1>3, <1>4, <1>5, StepCases, QuietAside, OnDisconnectAside

(* There are never more connections than m_nMaxSocketNum, although the     *)
(* size of the map is read without the lock, several steps before the      *)
(* insert.                                                                 *)
THEOREM AtMostMaxSocketNumCorrect == Spec => []AtMostMaxSocketNum
<1>1. Spec => [](OwnInv /\ CapInv)
  BY OwnInit, OwnStep, CapInit, CapStep, PTL DEF Spec
<1>2. CapInv => AtMostMaxSocketNum
  BY DEF CapInv
<1>3. QED
  BY <1>1, <1>2, PTL

LEMMA PoolStep == TypeInv /\ FreePoolBounded /\ [Next]_vars => FreePoolBounded'
<1> SUFFICES ASSUME TypeInv, FreePoolBounded, [Next]_vars PROVE FreePoolBounded'
  OBVIOUS
<1>a. m_lstFreePool \in Seq(Sessions) /\ MaxFreePoolNum \in Nat /\ DefaultFreePoolNum \in Nat
  BY BoundsAssumption DEF TypeInv, TypeOK
<1>b. UNCHANGED m_lstFreePool => FreePoolBounded'
  BY DEF FreePoolBounded
<1>1. CASE Aside
  BY <1>1, <1>b DEF Aside, Untouched, serverVars
<1>2. CASE ListenProc
  <2>1. CASE TakeFromPool
    <3>1. \/ UNCHANGED m_lstFreePool
          \/ m_lstFreePool # <<>> /\ m_lstFreePool' = Tail(m_lstFreePool)
      BY <2>1 DEF TakeFromPool
    <3>2. m_lstFreePool # <<>> => Len(Tail(m_lstFreePool)) <= Len(m_lstFreePool)
      BY <1>a
    <3>3. Len(m_lstFreePool) \in Nat /\ (m_lstFreePool # <<>> => Len(Tail(m_lstFreePool)) \in Nat)
      BY <1>a
    <3>4. QED
      BY <1>a, <1>b, <3>1, <3>2, <3>3 DEF FreePoolBounded
  <2>2. CASE ~TakeFromPool
    BY <1>2, <1>b, <2>2 DEF ListenProc, WSAAccept, OnAccept, CheckSize, AllocSession,
                           AssociateSocket, InsertSession, OnInitSocket, FirstRecv, serverVars
  <2>3. QED
    BY <2>1, <2>2
<1>3. ASSUME NEW t \in Threads, DisconnectFind(t) PROVE FreePoolBounded'
  BY <1>3, <1>b DEF DisconnectFind
<1>4. ASSUME NEW t \in Threads, DisconnectErase(t) PROVE FreePoolBounded'
  <2>1. CASE Len(m_lstFreePool) >= MaxFreePoolNum
    BY <1>4, <1>b, <2>1 DEF DisconnectErase
  <2>2. CASE ~(Len(m_lstFreePool) >= MaxFreePoolNum)
    <3>1. m_lstFreePool' = Append(m_lstFreePool, thread[t].s) /\ thread[t].s \in Sessions
      BY <1>4, <2>2 DEF DisconnectErase, TypeInv, HoldsBlock
    <3>2. Len(m_lstFreePool') = Len(m_lstFreePool) + 1 /\ Len(m_lstFreePool) \in Nat
      BY <1>a, <3>1
    <3>3. QED
      BY <1>a, <2>2, <3>2 DEF FreePoolBounded
  <2>3. QED
    BY <2>1, <2>2
<1>5. QED
  BY <1>1, <1>2, <1>3, <1>4, StepCases, QuietAside, OnDisconnectAside

(* The pool of free blocks stays within m_nMaxFreePoolNum, or within what  *)
(* Open put there if that was more.                                        *)
THEOREM FreePoolBoundedCorrect == Spec => []FreePoolBounded
<1>1. Init => FreePoolBounded
  <2> SUFFICES ASSUME Init PROVE FreePoolBounded
    OBVIOUS
  <2>1. Len(m_lstFreePool) = DefaultFreePoolNum
    BY BoundsAssumption DEF Init
  <2>2. QED
    BY <2>1, BoundsAssumption DEF FreePoolBounded
<1>2. Spec => [](TypeInv /\ FreePoolBounded)
  BY <1>1, InitType, TypeStep, PoolStep, PTL DEF Spec
<1>3. QED
  BY <1>2, PTL

----------------------------------------------------------------------------
(* The report.  A connection that does not exist yet has not been reported *)
(* and nobody is about to, and no connection is on two handles: so the one *)
(* Disconnect finds on its handle is on no other once that is closed.      *)

Unreported(c) == told[c] = 0 /\ Reporters(c) = {}
OnOneHandle == \A g, h \in Sockets : open[g] # 0 /\ open[g] = open[h] => g = h
FutureUnreported ==
  /\ \A h \in Sockets : open[h] <= nConns
  /\ \A c \in Conns : c > nConns => Unreported(c)
ReportInv == OnOneHandle /\ FutureUnreported /\ OnDisconnectOnce

LEMMA ReportInit == Init => ReportInv
<1> SUFFICES ASSUME Init PROVE ReportInv
  OBVIOUS
<1>1. \A t \in Threads : thread[t].pc = "idle"
  BY DEF Init, Idle
<1>2. \A c \in Conns : Unreported(c)
  BY <1>1 DEF Init, Unreported, Reporters
<1>3. \A h \in Sockets : open[h] = 0
  BY DEF Init
<1>4. QED
  BY <1>2, <1>3 DEF Init, ReportInv, OnOneHandle, FutureUnreported, OnDisconnectOnce, Unreported

(* Steps that open no socket, report nothing and add no reporter keep it.  *)
LEMMA FewerReporters ==
  ASSUME TypeOK, ReportInv, UNCHANGED <<told, nConns>>,
         \A c \in Conns : Reporters(c)' \subseteq Reporters(c),
         open' \in [Sockets -> 0 .. MaxConns],
         \A h \in Sockets : open'[h] \in {open[h], 0}
  PROVE  ReportInv'
<1>1. OnOneHandle'
  BY DEF ReportInv, OnOneHandle
<1>2. nConns \in Nat /\ \A h \in Sockets : open[h] \in Nat
  BY BoundsAssumption DEF TypeOK
<1>3. FutureUnreported'
  BY <1>2 DEF ReportInv, FutureUnreported, Unreported
<1>4. \A c \in Conns : IsOpen(c)' => IsOpen(c)
  BY DEF IsOpen, Conns
<1>5. OnDisconnectOnce'
  BY <1>4 DEF ReportInv, OnDisconnectOnce
<1>6. QED
  BY <1>1, <1>3, <1>5 DEF ReportInv

LEMMA ListenProcReport ==
  ASSUME OwnInv, ReportInv, ListenProc
  PROVE  ReportInv'
<1>a. TypeOK /\ TypeOK' /\ ListenerHolds
  BY ListenProcType DEF OwnInv, TypeInv
<1>b. thread' = thread /\ told' = told
  BY DEF ListenProc, WSAAccept, OnAccept, CheckSize, TakeFromPool, AllocSession, AssociateSocket,
         InsertSession, OnInitSocket, FirstRecv, appVars
<1>c. \A c \in Conns : Reporters(c)' = Reporters(c)
  BY <1>b DEF Reporters
<1>1. CASE WSAAccept
  <2> DEFINE c == nConns + 1
  <2>1. PICK h \in Sockets : open[h] = 0 /\ open' = [open EXCEPT ![h] = c]
    BY <1>1 DEF WSAAccept
  <2>2. nConns \in Nat /\ nConns' = c /\ c \in Conns /\ \A g \in Sockets : open[g] \in Nat
    BY <1>1, <1>a, BoundsAssumption DEF WSAAccept, TypeOK, Conns
  <2>3. open'[h] = c /\ \A g \in Sockets \ {h} : open'[g] = open[g]
    BY <1>a, <2>1 DEF TypeOK
  <2>4. \A g \in Sockets : open[g] <= nConns
    BY DEF ReportInv, FutureUnreported
  <2>5. OnOneHandle'
    BY <2>2, <2>3, <2>4 DEF ReportInv, OnOneHandle
  <2>6. \A d \in Conns : Unreported(d)' = Unreported(d)
    BY <1>b, <1>c DEF Unreported
  <2>7. FutureUnreported'
    <3>1. \A g \in Sockets : open'[g] <= c
      BY <2>2, <2>3, <2>4
    <3>2. \A d \in Conns : d > c => d > nConns
      BY <2>2 DEF Conns
    <3>3. QED
      BY <2>2, <2>6, <3>1, <3>2 DEF ReportInv, FutureUnreported
  <2>8. \A d \in Conns : IsOpen(d)' => IsOpen(d) \/ d = c
    BY <2>3 DEF IsOpen
  <2>9. Unreported(c)
    BY <2>2 DEF ReportInv, FutureUnreported
  <2>10. OnDisconnectOnce'
    BY <1>b, <1>c, <2>8, <2>9 DEF ReportInv, OnDisconnectOnce, Unreported
  <2>11. QED
    BY <2>5, <2>7, <2>10 DEF ReportInv
<1>2. CASE ~WSAAccept
  <2>1. nConns' = nConns /\ (UNCHANGED open \/ CloseSocket)
    BY <1>2 DEF ListenProc, OnAccept, CheckSize, TakeFromPool, AllocSession, AssociateSocket,
                InsertSession, OnInitSocket, FirstRecv, netVars
  <2>2. \A h \in Sockets : open'[h] \in {open[h], 0}
    BY <1>a, <2>1 DEF CloseSocket, TypeOK
  <2>3. open' \in [Sockets -> 0 .. MaxConns]
    BY <1>a DEF TypeOK
  <2>4. QED
    BY <1>a, <1>b, <1>c, <2>1, <2>2, <2>3, FewerReporters
<1>3. QED
  BY <1>1, <1>2

LEMMA FoundReport ==
  ASSUME OwnInv, ReportInv, NEW t \in Threads, DisconnectFind(t), Found(t)
  PROVE  ReportInv'
<1> DEFINE h == thread[t].h
<1>0. PICK c : c = open[h]
  OBVIOUS
<1>1. told' = told /\ nConns' = nConns /\ thread[t].pc = "disconnect"
  BY DEF DisconnectFind, appVars
<1>2. thread \in [Threads -> ThreadStates] /\ open \in [Sockets -> 0 .. MaxConns] /\ nConns \in Nat
  BY BoundsAssumption DEF OwnInv, TypeInv, TypeOK
<1>3. h \in Sockets /\ h \in Connected
  BY DEF Found, Connected
<1>4. c \in Conns
  <2>1. Closing = {}
    BY NothingClosing DEF Found, OwnInv
  <2>2. c # 0
    BY <1>0, <1>3, <2>1 DEF OwnInv, HandlesAccounted
  <2>3. QED
    BY <1>0, <1>2, <1>3, <2>2, BoundsAssumption DEF Conns
<1>5. IsOpen(c)
  BY <1>0, <1>3 DEF IsOpen
<1>6. Unreported(c)
  BY <1>4, <1>5 DEF ReportInv, OnDisconnectOnce, Unreported
<1>7. open'[h] = 0 /\ \A g \in Sockets \ {h} : open'[g] = open[g]
  BY <1>2, <1>3 DEF Found
<1>8. OnOneHandle'
  BY <1>3, <1>7 DEF ReportInv, OnOneHandle
<1>9. ~IsOpen(c)'
  <2>1. \A g \in Sockets \ {h} : open[g] # c
    BY <1>0, <1>3, <1>4 DEF ReportInv, OnOneHandle, Conns
  <2>2. QED
    BY <1>4, <1>7, <2>1 DEF IsOpen, Conns
<1>10. \A d \in Conns : IsOpen(d)' => IsOpen(d)
  BY <1>7 DEF IsOpen, Conns
<1>11. \A u \in Threads : u # t => thread'[u] = thread[u]
  BY <1>2 DEF Found
<1>12. thread'[t].pc = "erase" /\ thread'[t].c = c
  BY <1>0 DEF Found
<1>13. Reporters(c)' = {t}
  BY <1>6, <1>11, <1>12 DEF Unreported, Reporters
<1>14. \A d \in Conns : d # c => Reporters(d)' = Reporters(d)
  BY <1>1, <1>11, <1>12 DEF Reporters
<1>15. OnDisconnectOnce'
  <2>1. ASSUME NEW d \in Conns
        PROVE  /\ told'[d] \in {0, 1}
               /\ \A u, v \in Reporters(d)' : u = v
               /\ told'[d] = 1 => Reporters(d)' = {}
               /\ IsOpen(d)' => told'[d] = 0 /\ Reporters(d)' = {}
    <3>1. CASE d = c
      BY <1>1, <1>6, <1>9, <1>13, <3>1 DEF Unreported
    <3>2. CASE d # c
      BY <1>1, <1>10, <1>14, <3>2 DEF ReportInv, OnDisconnectOnce
    <3>3. QED
      BY <3>1, <3>2
  <2>2. QED
    BY <2>1 DEF OnDisconnectOnce
<1>16. FutureUnreported'
  <2>1. open[h] <= nConns /\ \A g \in Sockets : open[g] <= nConns
    BY <1>3 DEF ReportInv, FutureUnreported
  <2>2. \A g \in Sockets : open'[g] <= nConns
    BY <1>2, <1>7, <2>1
  <2>3. \A d \in Conns : d > nConns => Unreported(d) /\ d # c
    BY <1>0, <1>2, <1>3, <2>1 DEF ReportInv, FutureUnreported, Conns
  <2>4. QED
    BY <1>1, <1>14, <2>2, <2>3 DEF FutureUnreported, Unreported
<1>17. QED
  BY <1>8, <1>15, <1>16 DEF ReportInv

LEMMA EraseReport ==
  ASSUME OwnInv, ReportInv, NEW t \in Threads, DisconnectErase(t)
  PROVE  ReportInv'
<1>1. TypeOK /\ UNCHANGED <<told, nConns, open>> /\ thread[t].pc = "erase"
  BY DEF DisconnectErase, appVars, netVars, OwnInv, TypeInv
<1>2. \A c \in Conns : Reporters(c)' \subseteq Reporters(c)
  BY <1>1, EraseThread DEF Reporters, OwnInv
<1>3. open' \in [Sockets -> 0 .. MaxConns]
  BY <1>1 DEF TypeOK
<1>4. QED
  BY <1>1, <1>2, <1>3, FewerReporters

LEMMA OnDisconnectReport ==
  ASSUME OwnInv, ReportInv, NEW t \in Threads, OnDisconnect(t)
  PROVE  ReportInv'
<1>0. PICK c : c = thread[t].c
  OBVIOUS
<1>1. /\ UNCHANGED <<nConns, open>> /\ thread[t].pc = "notify"
      /\ told' = [told EXCEPT ![c] = told[c] + 1] /\ Becomes(t, Idle)
  BY <1>0 DEF OnDisconnect, netVars
<1>2. thread \in [Threads -> ThreadStates] /\ told \in [Conns -> Nat]
  BY DEF OwnInv, TypeInv, TypeOK
<1>3. thread'[t].pc = "idle" /\ \A u \in Threads : u # t => thread'[u] = thread[u]
  BY <1>1, <1>2 DEF Becomes, Idle
<1>4. \A d \in Conns : Reporters(d)' = Reporters(d) \ {t}
  BY <1>3 DEF Reporters
<1>5. \A d \in Conns : d # c => told'[d] = told[d] /\ t \notin Reporters(d)
  BY <1>0, <1>1, <1>2 DEF Reporters
<1>6. \A d \in Conns : IsOpen(d)' = IsOpen(d)
  BY <1>1 DEF IsOpen
<1>7. c \in Conns => t \in Reporters(c)
  BY <1>0, <1>1 DEF Reporters
<1>8. ASSUME c \in Conns
      PROVE  told'[c] = 1 /\ Reporters(c)' = {} /\ ~IsOpen(c)
  <2>1. told[c] = 0 /\ ~IsOpen(c) /\ Reporters(c) = {t}
    BY <1>7, <1>8 DEF ReportInv, OnDisconnectOnce
  <2>2. QED
    BY <1>1, <1>2, <1>4, <1>8, <2>1
<1>9. OnDisconnectOnce'
  <2>1. ASSUME NEW d \in Conns
        PROVE  /\ told'[d] \in {0, 1}
               /\ \A u, v \in Reporters(d)' : u = v
               /\ told'[d] = 1 => Reporters(d)' = {}
               /\ IsOpen(d)' => told'[d] = 0 /\ Reporters(d)' = {}
    <3>1. CASE d = c
      BY <1>6, <1>8, <3>1
    <3>2. CASE d # c
      BY <1>4, <1>5, <1>6, <3>2 DEF ReportInv, OnDisconnectOnce
    <3>3. QED
      BY <3>1, <3>2
  <2>2. QED
    BY <2>1 DEF OnDisconnectOnce
<1>10. FutureUnreported'
  <2>1. \A d \in Conns : d > nConns => Unreported(d) /\ d # c
    BY <1>7 DEF ReportInv, FutureUnreported, Unreported
  <2>2. \A d \in Conns : d > nConns => Unreported(d)'
    BY <1>4, <1>5, <2>1 DEF Unreported
  <2>3. QED
    BY <1>1, <2>2 DEF ReportInv, FutureUnreported
<1>11. QED
  BY <1>1, <1>9, <1>10 DEF ReportInv, OnOneHandle

LEMMA ReportStep == OwnInv /\ ReportInv /\ [Next]_vars => ReportInv'
<1> SUFFICES ASSUME OwnInv, ReportInv, [Next]_vars PROVE ReportInv'
  OBVIOUS
<1>a. TypeInv /\ TypeOK
  BY DEF OwnInv, TypeInv
<1>1. CASE Quiet
  <2>1. UNCHANGED <<told, nConns, open>>
    BY <1>1 DEF Quiet, Untouched
  <2>2. \A c \in Conns : Reporters(c)' \subseteq Reporters(c)
    BY <1>1 DEF Quiet, KeepsThreadsAt, Reporters
  <2>3. open' \in [Sockets -> 0 .. MaxConns]
    BY <1>a, <2>1 DEF TypeOK
  <2>4. QED
    BY <1>a, <2>1, <2>2, <2>3, FewerReporters
<1>2. QED
  BY <1>a, <1>1, ListenProcReport, FoundReport, EraseReport, OnDisconnectReport, StepCases

(* However many threads disconnect a connection at the same time, it is    *)
(* reported at most once, by one thread, after its socket was closed.      *)
THEOREM OnDisconnectOnceCorrect == Spec => []OnDisconnectOnce
<1>1. Spec => [](OwnInv /\ ReportInv)
  BY OwnInit, OwnStep, ReportInit, ReportStep, PTL DEF Spec
<1>2. ReportInv => OnDisconnectOnce
  BY DEF ReportInv
<1>3. QED
  BY <1>1, <1>2, PTL

----------------------------------------------------------------------------
(* Places.  Whatever the application does, an entry of the map leads to a  *)
(* block that leads back to the handle, an open socket that is set up has  *)
(* the key and the object of its block, and the listen thread knows what   *)
(* it is setting up unless that was closed under it.                       *)

SettingUp == Arriving \cup (IF listener.pc = "init" THEN {listener.h} ELSE {})

Placed(h) ==
  /\ h \in Connected => hSocket[m_mapSocketSession[h]] = h
  /\ open[h] # 0 /\ h \notin Arriving => key[open[h]] \in {m_mapSocketSession[h], NoSession}
  /\ open[h] # 0 /\ h \notin SettingUp => pAttachInfo[m_mapSocketSession[h]] \in {open[h], 0}

ListenerPlaced ==
  listener.pc # "accept" =>
    /\ listener.c \in Conns /\ listener.c <= nConns
    /\ open[listener.h] \in {listener.c, 0}
    /\ listener.pc \notin {"init", "recv"} => open[listener.h] = listener.c
    /\ listener.pc \in {"associate", "insert", "init", "recv"} /\ listener.s \in heap =>
         hSocket[listener.s] = listener.h
    /\ listener.pc \in {"init", "recv"} /\ open[listener.h] # 0 =>
         m_mapSocketSession[listener.h] = listener.s
    /\ key[listener.c] # NoSession =>
         listener.pc \in {"insert", "init", "recv"} /\ key[listener.c] = listener.s

KeysOfAccepted == \A c \in Conns : c > nConns => key[c] = NoSession
PlaceInv == (\A h \in Sockets : Placed(h)) /\ ListenerPlaced /\ KeysOfAccepted

LEMMA PlaceInit == Init => PlaceInv
<1> SUFFICES ASSUME Init PROVE PlaceInv
  OBVIOUS
<1>1. \A h \in Sockets : open[h] = 0 /\ h \notin Connected
  BY DEF Init, Connected
<1>2. ListenerPlaced
  BY DEF Init, ListenerPlaced, Accepting
<1>3. KeysOfAccepted
  BY DEF Init, KeysOfAccepted
<1>4. QED
  BY <1>1, <1>2, <1>3 DEF PlaceInv, Placed

(* The types the steps below go by.                                        *)
LEMMA PlaceTypes ==
  ASSUME OwnInv
  PROVE  /\ open \in [Sockets -> 0 .. MaxConns] /\ key \in [Conns -> Sessions \cup {NoSession}]
         /\ hSocket \in [Sessions -> Sockets \cup {NoSocket}]
         /\ pAttachInfo \in [Sessions -> 0 .. MaxConns]
         /\ m_mapSocketSession \in [Sockets -> Sessions \cup {NoSession}]
         /\ nConns \in 0 .. MaxConns /\ nConns \in Nat /\ MaxConns \in Nat
         /\ heap \subseteq Sessions /\ recv \in [Conns -> Receives] /\ sends \in [Conns -> Nat]
         /\ \A h \in Sockets : open[h] # 0 => open[h] \in Conns
BY BoundsAssumption DEF OwnInv, TypeInv, TypeOK, Conns

(* An open socket that has arrived is in the map and not being erased, and *)
(* the block of an entry is allocated and in no other place.               *)
LEMMA OpenInMap ==
  ASSUME OwnInv, NEW h \in Sockets, open[h] # 0, h \notin Arriving
  PROVE  h \in Connected /\ h \notin Closing
BY DEF OwnInv, HandlesAccounted

LEMMA EntryBlock ==
  ASSUME OwnInv, NEW h \in Connected
  PROVE  /\ h \in Sockets /\ m_mapSocketSession[h] \in Sessions /\ m_mapSocketSession[h] \in heap
         /\ m_mapSocketSession[h] \in InMap
         /\ m_mapSocketSession[h] \notin InHand
         /\ m_mapSocketSession[h] \notin ToSet(m_lstFreePool)
<1>1. h \in Sockets /\ m_mapSocketSession[h] \in Sessions /\ m_mapSocketSession[h] \in InMap
  BY DEF Connected, InMap, OwnInv, TypeInv, TypeOK
<1>2. QED
  BY <1>1 DEF OwnInv, SessionsOwnedOnce

(* A step that changes neither the map, the lock, the sockets, the keys    *)
(* nor the listen thread, and at most takes objects away.                  *)
Calm ==
  /\ UNCHANGED <<m_mapSocketSession, heap, hSocket, open, nConns, key, listener>>
  /\ \A s \in Sessions : pAttachInfo'[s] \in {pAttachInfo[s], 0}

LEMMA CalmPlace ==
  ASSUME OwnInv, PlaceInv, Calm
  PROVE  PlaceInv'
<1>1. Connected' = Connected /\ Arriving' = Arriving /\ SettingUp' = SettingUp
  BY DEF Calm, Connected, Arriving, SettingUp
<1>2. ASSUME NEW h \in Sockets PROVE Placed(h)'
  <2>1. open[h] # 0 /\ h \notin SettingUp => m_mapSocketSession[h] \in Sessions
    BY OpenInMap, EntryBlock DEF SettingUp
  <2>2. QED
    BY <1>1, <2>1 DEF Calm, PlaceInv, Placed
<1>3. ListenerPlaced' /\ KeysOfAccepted'
  BY DEF Calm, PlaceInv, ListenerPlaced, KeysOfAccepted
<1>4. QED
  BY <1>2, <1>3 DEF PlaceInv

LEMMA ListenGoes ==
  ASSUME OwnInv, NEW pc, Goto(pc)
  PROVE  /\ listener'.pc = pc /\ listener'.h = listener.h
         /\ listener'.s = listener.s /\ listener'.c = listener.c
BY DEF OwnInv, TypeInv, TypeOK, ListenerStates, Goto

LEMMA ListenHolds ==
  ASSUME OwnInv, listener.pc # "accept"
  PROVE  /\ listener.h \in Sockets
         /\ listener.pc \in {"associate", "insert", "init", "recv"} => listener.s \in Sessions
BY DEF OwnInv, TypeInv, ListenerHolds

(* The listen thread gives its connection up, or goes on with it.          *)
LEMMA RefusePlace ==
  ASSUME OwnInv, PlaceInv, listener.pc # "accept", CloseSocket, listener' = Accepting,
         UNCHANGED <<m_mapSocketSession, heap, hSocket, pAttachInfo, nConns, key>>,
         listener.pc \notin {"init", "recv"}
  PROVE  PlaceInv'
<1>1. listener.h \in Sockets
  BY ListenHolds
<1>2. open'[listener.h] = 0 /\ \A h \in Sockets : h # listener.h => open'[h] = open[h]
  BY <1>1, PlaceTypes DEF CloseSocket
<1>3. Connected' = Connected /\ Arriving' = {} /\ SettingUp' = {}
  BY DEF Connected, Arriving, SettingUp, Accepting
<1>4. SettingUp \subseteq {listener.h} /\ Arriving \subseteq {listener.h}
  BY DEF SettingUp, Arriving
<1>5. ASSUME NEW h \in Sockets PROVE Placed(h)'
  BY <1>2, <1>3, <1>4 DEF PlaceInv, Placed
<1>6. ListenerPlaced' /\ KeysOfAccepted'
  BY DEF ListenerPlaced, KeysOfAccepted, PlaceInv, Accepting
<1>7. QED
  BY <1>5, <1>6 DEF PlaceInv

LEMMA GoesOnPlace ==
  ASSUME OwnInv, PlaceInv, NEW pc \in {"size", "take", "alloc"}, Goto(pc),
         listener.pc \in {"accepted", "size", "take"},
         UNCHANGED <<m_mapSocketSession, heap, hSocket, pAttachInfo, open, nConns, key>>
  PROVE  PlaceInv'
<1>1. listener'.pc = pc /\ listener'.h = listener.h /\ listener'.s = listener.s /\ listener'.c = listener.c
  BY ListenGoes
<1>2. Connected' = Connected /\ Arriving' = Arriving /\ SettingUp' = SettingUp
  BY <1>1 DEF Connected, Arriving, SettingUp
<1>3. ASSUME NEW h \in Sockets PROVE Placed(h)'
  BY <1>2 DEF PlaceInv, Placed
<1>4. ListenerPlaced' /\ KeysOfAccepted'
  BY <1>1 DEF ListenerPlaced, KeysOfAccepted, PlaceInv
<1>5. QED
  BY <1>3, <1>4 DEF PlaceInv

LEMMA WSAAcceptPlace ==
  ASSUME OwnInv, ReportInv, PlaceInv, WSAAccept
  PROVE  PlaceInv'
<1>0. PICK n : n = nConns + 1
  OBVIOUS
<1>1. PICK h \in Sockets :
        /\ open[h] = 0 /\ open' = [open EXCEPT ![h] = n]
        /\ listener' = [pc |-> "accepted", h |-> h, s |-> NoSession, c |-> n]
  BY <1>0 DEF WSAAccept
<1>2. /\ n \in Conns /\ nConns' = n /\ n > nConns /\ n # 0 /\ nConns \in Nat
      /\ listener.pc = "accept"
  BY <1>0, PlaceTypes DEF WSAAccept, At, Conns
<1>3. UNCHANGED <<m_mapSocketSession, heap, hSocket, pAttachInfo, key>>
  BY DEF WSAAccept, serverVars, blockVars
<1>4. open'[h] = n /\ \A g \in Sockets : g # h => open'[g] = open[g]
  BY <1>1, PlaceTypes
<1>5. /\ Connected' = Connected /\ Arriving' = {h} /\ SettingUp' = {h}
      /\ Arriving = {} /\ SettingUp = {}
  BY <1>1, <1>2, <1>3 DEF Connected, Arriving, SettingUp
<1>6. ASSUME NEW g \in Sockets PROVE Placed(g)'
  BY <1>3, <1>4, <1>5 DEF PlaceInv, Placed
<1>7. key[n] = NoSession
  BY <1>2 DEF PlaceInv, KeysOfAccepted
<1>8. ListenerPlaced'
  <2>1. listener'.pc = "accepted" /\ listener'.h = h /\ listener'.c = n /\ n <= n
    BY <1>1, <1>2 DEF Conns
  <2>2. QED
    BY <1>2, <1>3, <1>4, <1>7, <2>1 DEF ListenerPlaced
<1>9. KeysOfAccepted'
  <2>1. \A c \in Conns : c > n => c > nConns
    BY <1>2 DEF Conns
  <2>2. QED
    BY <1>2, <1>3, <2>1 DEF PlaceInv, KeysOfAccepted
<1>10. QED
  BY <1>6, <1>8, <1>9 DEF PlaceInv

(* A block that is in no entry of the map is set to the handle of the      *)
(* connection the listen thread holds.                                     *)
LEMMA TakeBlockPlace ==
  ASSUME OwnInv, PlaceInv, listener.pc \in {"take", "alloc"},
         NEW s \in Sessions, s \notin InMap,
         hSocket' = [hSocket EXCEPT ![s] = listener.h],
         pAttachInfo' \in {pAttachInfo, [pAttachInfo EXCEPT ![s] = 0]},
         listener' = [listener EXCEPT !.pc = "associate", !.s = s],
         UNCHANGED <<m_mapSocketSession, open, nConns, key>>
  PROVE  PlaceInv'
<1>1. /\ listener'.pc = "associate" /\ listener'.h = listener.h /\ listener'.s = s
      /\ listener'.c = listener.c
  BY DEF OwnInv, TypeInv, TypeOK, ListenerStates
<1>2. hSocket'[s] = listener.h /\ \A r \in Sessions : r # s => hSocket'[r] = hSocket[r]
  BY PlaceTypes
<1>3. \A r \in Sessions : r # s => pAttachInfo'[r] = pAttachInfo[r]
  BY PlaceTypes
<1>4. Connected' = Connected /\ Arriving' = Arriving /\ SettingUp' = SettingUp
  BY <1>1 DEF Connected, Arriving, SettingUp
<1>5. ASSUME NEW h \in Sockets PROVE Placed(h)'
  <2>1. h \in Connected => m_mapSocketSession[h] \in Sessions /\ m_mapSocketSession[h] # s
    BY EntryBlock
  <2>2. open[h] # 0 /\ h \notin Arriving => h \in Connected
    BY OpenInMap
  <2>3. SettingUp = Arriving
    BY DEF SettingUp
  <2>4. QED
    BY <1>2, <1>3, <1>4, <2>1, <2>2, <2>3 DEF PlaceInv, Placed
<1>6. ListenerPlaced' /\ KeysOfAccepted'
  BY <1>1, <1>2 DEF ListenerPlaced, KeysOfAccepted, PlaceInv
<1>7. QED
  BY <1>5, <1>6 DEF PlaceInv

(* The block the listen thread takes or allocates.                         *)
LEMMA PoolHead ==
  ASSUME OwnInv, m_lstFreePool # <<>>
  PROVE  Head(m_lstFreePool) \in Sessions /\ Head(m_lstFreePool) \notin InMap
<1>1. m_lstFreePool \in Seq(Sessions) /\ IsInjective(m_lstFreePool)
  BY DEF OwnInv, TypeInv, TypeOK, SessionsOwnedOnce
<1>2. Head(m_lstFreePool) \in Sessions /\ Head(m_lstFreePool) \in ToSet(m_lstFreePool)
  BY <1>1, TakeHead
<1>3. QED
  BY <1>2 DEF OwnInv, SessionsOwnedOnce

LEMMA TakeFromPoolPlace ==
  ASSUME OwnInv, PlaceInv, TakeFromPool
  PROVE  PlaceInv'
<1>1. listener.pc = "take" /\ UNCHANGED <<m_mapSocketSession, heap, pAttachInfo, open, nConns, key>>
  BY DEF TakeFromPool, At, netVars
<1>2. CASE m_lstFreePool # <<>>
  <2>1. PICK s \in Sessions : s = Head(m_lstFreePool) /\ s \notin InMap
    BY <1>2, PoolHead
  <2>2. /\ hSocket' = [hSocket EXCEPT ![s] = listener.h]
        /\ listener' = [listener EXCEPT !.pc = "associate", !.s = s]
    BY <1>2, <2>1 DEF TakeFromPool
  <2>3. QED
    BY <1>1, <2>1, <2>2, TakeBlockPlace
<1>3. CASE m_lstFreePool = <<>>
  BY <1>1, <1>3, GoesOnPlace DEF TakeFromPool
<1>4. QED
  BY <1>2, <1>3

LEMMA AllocSessionPlace ==
  ASSUME OwnInv, PlaceInv, AllocSession
  PROVE  PlaceInv'
<1>1. listener.pc = "alloc" /\ UNCHANGED <<m_mapSocketSession, nConns, key>>
  BY DEF AllocSession, At, serverVars
<1>2. ASSUME NEW s \in Sessions \ heap, hSocket' = [hSocket EXCEPT ![s] = listener.h],
             pAttachInfo' = [pAttachInfo EXCEPT ![s] = 0],
             listener' = [listener EXCEPT !.pc = "associate", !.s = s], UNCHANGED open
      PROVE  PlaceInv'
  <2>1. s \notin InMap
    BY DEF OwnInv, SessionsOwnedOnce
  <2>2. QED
    BY <1>1, <1>2, <2>1, TakeBlockPlace
<1>3. CASE CloseSocket /\ listener' = Accepting /\ UNCHANGED blockVars
  BY <1>1, <1>3, RefusePlace DEF blockVars
<1>4. QED
  BY <1>2, <1>3 DEF AllocSession

LEMMA AssociateSocketPlace ==
  ASSUME OwnInv, ReportInv, PlaceInv, AssociateSocket
  PROVE  PlaceInv'
<1>1. /\ listener.pc = "associate" /\ Goto("insert")
      /\ UNCHANGED <<m_mapSocketSession, heap, hSocket, pAttachInfo, open, nConns>>
  BY DEF AssociateSocket, At, serverVars, blockVars
<1>2. listener.h \in Sockets /\ listener.c \in Conns /\ open[listener.h] = listener.c
      /\ listener.c <= nConns /\ listener.c # 0
  BY <1>1, ListenHolds DEF PlaceInv, ListenerPlaced, Conns
<1>3. /\ key'[listener.c] \in {key[listener.c], listener.s}
      /\ \A c \in Conns : c # listener.c => key'[c] = key[c]
  BY <1>2, PlaceTypes DEF AssociateSocket
<1>4. /\ listener'.pc = "insert" /\ listener'.h = listener.h /\ listener'.s = listener.s
      /\ listener'.c = listener.c
  BY <1>1, ListenGoes
<1>5. /\ Connected' = Connected /\ Arriving' = {listener.h} /\ SettingUp' = {listener.h}
      /\ Arriving = {listener.h} /\ SettingUp = {listener.h}
  BY <1>1, <1>4 DEF Connected, Arriving, SettingUp
<1>6. ASSUME NEW h \in Sockets PROVE Placed(h)'
  <2>1. open[h] # 0 /\ h # listener.h => open[h] \in Conns /\ open[h] # listener.c
    BY <1>2, PlaceTypes DEF ReportInv, OnOneHandle
  <2>2. QED
    BY <1>1, <1>3, <1>5, <2>1 DEF PlaceInv, Placed
<1>7. ListenerPlaced'
  BY <1>1, <1>2, <1>3, <1>4 DEF PlaceInv, ListenerPlaced
<1>8. KeysOfAccepted'
  <2>1. \A c \in Conns : c > nConns => c # listener.c
    BY <1>2, PlaceTypes DEF Conns
  <2>2. QED
    BY <1>1, <1>3, <2>1 DEF PlaceInv, KeysOfAccepted
<1>9. QED
  BY <1>6, <1>7, <1>8 DEF PlaceInv

(* The handle has no entry in the map: an entry under it would be that of  *)
(* a socket Disconnect has closed, and m_lock is free.                     *)
LEMMA InsertsNew ==
  ASSUME OwnInv, InsertSession
  PROVE  /\ listener.h \notin Connected /\ listener.h \in Sockets
         /\ m_mapSocketSession' = [m_mapSocketSession EXCEPT ![listener.h] = listener.s]
<1>1. Closing = {} /\ listener.pc = "insert"
  BY NothingClosing DEF InsertSession, OwnInv, At
<1>2. listener.h \in Arriving /\ listener.h \in Sockets
  BY <1>1, ListenHolds DEF Arriving
<1>3. listener.h \notin Connected
  BY <1>1, <1>2 DEF OwnInv, HandlesAccounted
<1>4. QED
  BY <1>2, <1>3 DEF InsertSession

LEMMA InsertSessionPlace ==
  ASSUME OwnInv, PlaceInv, InsertSession
  PROVE  PlaceInv'
<1>1. /\ listener.pc = "insert" /\ Goto("init")
      /\ UNCHANGED <<heap, hSocket, pAttachInfo, open, nConns, key>>
  BY DEF InsertSession, At, netVars, blockVars
<1>2. /\ listener.h \notin Connected /\ listener.h \in Sockets
      /\ m_mapSocketSession' = [m_mapSocketSession EXCEPT ![listener.h] = listener.s]
  BY InsertsNew
<1>3. /\ m_mapSocketSession'[listener.h] = listener.s
      /\ \A h \in Sockets : h # listener.h => m_mapSocketSession'[h] = m_mapSocketSession[h]
  BY <1>2, PlaceTypes
<1>4. /\ listener'.pc = "init" /\ listener'.h = listener.h /\ listener'.s = listener.s
      /\ listener'.c = listener.c
  BY <1>1, ListenGoes
<1>5. listener.s \in InHand /\ listener.s \in heap /\ hSocket[listener.s] = listener.h
  BY <1>1 DEF InHand, OwnInv, SessionsOwnedOnce, PlaceInv, ListenerPlaced
<1>6. Arriving = {listener.h} /\ SettingUp = {listener.h} /\ Arriving' = {} /\ SettingUp' = {listener.h}
  BY <1>1, <1>4 DEF Arriving, SettingUp
<1>7. ASSUME NEW h \in Sockets PROVE Placed(h)'
  <2>1. CASE h = listener.h
    BY <1>1, <1>3, <1>5, <1>6, <2>1 DEF Placed, PlaceInv, ListenerPlaced
  <2>2. CASE h # listener.h
    BY <1>1, <1>3, <1>6, <2>2 DEF Placed, PlaceInv, Connected
  <2>3. QED
    BY <2>1, <2>2
<1>8. ListenerPlaced' /\ KeysOfAccepted'
  BY <1>1, <1>3, <1>4, <1>5 DEF PlaceInv, ListenerPlaced, KeysOfAccepted
<1>9. QED
  BY <1>7, <1>8 DEF PlaceInv

(* The object is stored in a block that, if it is in the map at all, is    *)
(* that of the connection.                                                 *)
LEMMA OnInitSocketPlace ==
  ASSUME OwnInv, PlaceInv, OnInitSocket
  PROVE  PlaceInv'
<1>1. /\ listener.pc = "init" /\ Goto("recv")
      /\ UNCHANGED <<m_mapSocketSession, heap, hSocket, open, nConns, key>>
  BY DEF OnInitSocket, At, netVars, serverVars
<1>2. listener.h \in Sockets /\ listener.s \in Sessions
  BY <1>1, ListenHolds
<1>3. /\ \A s \in Sessions : s # listener.s => pAttachInfo'[s] = pAttachInfo[s]
      /\ listener.s \in heap => pAttachInfo'[listener.s] = listener.c
  BY <1>2, PlaceTypes DEF OnInitSocket
<1>4. /\ listener'.pc = "recv" /\ listener'.h = listener.h /\ listener'.s = listener.s
      /\ listener'.c = listener.c
  BY <1>1, ListenGoes
<1>5. /\ Connected' = Connected /\ Arriving' = {} /\ SettingUp' = {}
      /\ Arriving = {} /\ SettingUp = {listener.h}
  BY <1>1, <1>4 DEF Connected, Arriving, SettingUp
<1>6. ASSUME NEW h \in Sockets PROVE Placed(h)'
  <2>1. open[h] # 0 => h \in Connected
    BY <1>5, OpenInMap
  <2>2. h \in Connected => /\ m_mapSocketSession[h] \in heap /\ m_mapSocketSession[h] \in Sessions
                           /\ hSocket[m_mapSocketSession[h]] = h
    BY EntryBlock DEF PlaceInv, Placed
  <2>3. CASE h = listener.h
    <3>1. open[h] # 0 => m_mapSocketSession[h] = listener.s /\ open[h] = listener.c
      BY <1>1, <2>3 DEF PlaceInv, ListenerPlaced
    <3>2. QED
      BY <1>1, <1>3, <1>5, <2>1, <2>2, <2>3, <3>1 DEF PlaceInv, Placed
  <2>4. CASE h # listener.h
    <3>1. h \in Connected => m_mapSocketSession[h] # listener.s
      BY <1>1, <2>2, <2>4 DEF PlaceInv, ListenerPlaced
    <3>2. QED
      BY <1>1, <1>3, <1>5, <2>1, <2>2, <2>4, <3>1 DEF PlaceInv, Placed
  <2>5. QED
    BY <2>3, <2>4
<1>7. ListenerPlaced' /\ KeysOfAccepted'
  BY <1>1, <1>4 DEF PlaceInv, ListenerPlaced, KeysOfAccepted
<1>8. QED
  BY <1>6, <1>7 DEF PlaceInv

LEMMA FirstRecvPlace ==
  ASSUME OwnInv, PlaceInv, FirstRecv
  PROVE  PlaceInv'
<1>1. /\ listener.pc = "recv" /\ listener' = Accepting
      /\ UNCHANGED <<m_mapSocketSession, heap, hSocket, pAttachInfo, open, nConns, key>>
  BY DEF FirstRecv, At, netVars, serverVars, blockVars
<1>2. Connected' = Connected /\ Arriving' = Arriving /\ SettingUp' = SettingUp
  BY <1>1 DEF Connected, Arriving, SettingUp, Accepting
<1>3. \A h \in Sockets : Placed(h)'
  BY <1>1, <1>2 DEF PlaceInv, Placed
<1>4. ListenerPlaced' /\ KeysOfAccepted'
  BY <1>1 DEF PlaceInv, ListenerPlaced, KeysOfAccepted, Accepting
<1>5. QED
  BY <1>3, <1>4 DEF PlaceInv

LEMMA ListenProcPlace ==
  ASSUME OwnInv, ReportInv, PlaceInv, ListenProc
  PROVE  PlaceInv'
<1>1. CASE OnAccept
  <2>1. listener.pc = "accepted"
        /\ UNCHANGED <<m_mapSocketSession, heap, hSocket, pAttachInfo, nConns, key>>
    BY <1>1 DEF OnAccept, At, serverVars, blockVars
  <2>2. CASE Goto("size") /\ UNCHANGED open
    BY <2>1, <2>2, GoesOnPlace
  <2>3. CASE CloseSocket /\ listener' = Accepting
    BY <2>1, <2>3, RefusePlace
  <2>4. QED
    BY <1>1, <2>2, <2>3 DEF OnAccept
<1>2. CASE CheckSize
  <2>1. listener.pc = "size"
        /\ UNCHANGED <<m_mapSocketSession, heap, hSocket, pAttachInfo, nConns, key>>
    BY <1>2 DEF CheckSize, At, serverVars, blockVars
  <2>2. CASE Goto("take") /\ UNCHANGED open
    BY <2>1, <2>2, GoesOnPlace
  <2>3. CASE CloseSocket /\ listener' = Accepting
    BY <2>1, <2>3, RefusePlace
  <2>4. QED
    BY <1>2, <2>2, <2>3 DEF CheckSize
<1>3. QED
  BY <1>1, <1>2, WSAAcceptPlace, TakeFromPoolPlace, AllocSessionPlace, AssociateSocketPlace,
     InsertSessionPlace, OnInitSocketPlace, FirstRecvPlace DEF ListenProc

(* Disconnect closes a socket that has arrived.                            *)
LEMMA FindsArrived ==
  ASSUME OwnInv, NEW t \in Threads, Found(t)
  PROVE  /\ thread[t].h \in Connected /\ thread[t].h \in Sockets /\ thread[t].h \notin Arriving
         /\ open[thread[t].h] # 0
<1>1. Closing = {} /\ thread[t].h \in Connected
  BY NothingClosing DEF Found, OwnInv
<1>2. QED
  BY <1>1 DEF OwnInv, HandlesAccounted, Connected

LEMMA FoundPlace ==
  ASSUME OwnInv, PlaceInv, NEW t \in Threads, DisconnectFind(t), Found(t)
  PROVE  PlaceInv'
<1>0. PICK h : h = thread[t].h
  OBVIOUS
<1>1. UNCHANGED <<m_mapSocketSession, heap, hSocket, pAttachInfo, nConns, key, listener>>
  BY DEF DisconnectFind, blockVars
<1>2. h \in Sockets /\ h \notin Arriving
  BY <1>0, FindsArrived
<1>3. open'[h] = 0 /\ \A g \in Sockets : g # h => open'[g] = open[g]
  BY <1>0, <1>2, PlaceTypes DEF Found
<1>4. Connected' = Connected /\ Arriving' = Arriving /\ SettingUp' = SettingUp
  BY <1>1 DEF Connected, Arriving, SettingUp
<1>5. ASSUME NEW g \in Sockets PROVE Placed(g)'
  BY <1>1, <1>3, <1>4 DEF PlaceInv, Placed
<1>6. ListenerPlaced'
  <2>1. CASE listener.pc = "accept"
    BY <1>1, <2>1 DEF ListenerPlaced
  <2>2. CASE listener.pc \in {"init", "recv"}
    BY <1>1, <1>3, <2>2, ListenHolds DEF PlaceInv, ListenerPlaced
  <2>3. CASE listener.pc \notin {"accept", "init", "recv"}
    <3>1. listener.h \in Arriving
      BY <2>3 DEF Arriving, OwnInv, TypeInv, TypeOK, ListenerStates
    <3>2. listener.h # h /\ listener.h \in Sockets
      BY <1>2, <2>3, <3>1, ListenHolds
    <3>3. QED
      BY <1>1, <1>3, <2>3, <3>2 DEF PlaceInv, ListenerPlaced
  <2>4. QED
    BY <2>1, <2>2, <2>3
<1>7. KeysOfAccepted'
  BY <1>1 DEF PlaceInv, KeysOfAccepted
<1>8. QED
  BY <1>5, <1>6, <1>7 DEF PlaceInv

(* The socket whose entry is erased is closed; if its handle was given out *)
(* again, then to the connection that is arriving.                         *)
LEMMA ErasesClosed ==
  ASSUME OwnInv, NEW t \in Threads, DisconnectErase(t)
  PROVE  /\ thread[t].h \in Connected /\ thread[t].s = m_mapSocketSession[thread[t].h]
         /\ open[thread[t].h] # 0 => thread[t].h \in Arriving
         /\ m_mapSocketSession' = [m_mapSocketSession EXCEPT ![thread[t].h] = NoSession]
         /\ \/ UNCHANGED <<heap, hSocket, pAttachInfo>>
            \/ /\ heap' = heap \ {thread[t].s}
               /\ hSocket' = [hSocket EXCEPT ![thread[t].s] = NoSocket]
               /\ pAttachInfo' = [pAttachInfo EXCEPT ![thread[t].s] = 0]
               /\ CrossedIf(thread[t].s \in NamedBlocks)
<1>1. thread[t].pc = "erase"
  BY DEF DisconnectErase
<1>2. thread[t].h \in Connected /\ thread[t].s = m_mapSocketSession[thread[t].h]
  BY <1>1 DEF OwnInv, LockInv, ErasedIsThere
<1>3. thread[t].h \in Closing
  BY <1>1 DEF Closing
<1>4. open[thread[t].h] # 0 => thread[t].h \in Arriving
  BY <1>2, <1>3, OpenInMap DEF Connected
<1>5. QED
  BY <1>2, <1>4 DEF DisconnectErase, blockVars

LEMMA ErasePlace ==
  ASSUME OwnInv, PlaceInv, NEW t \in Threads, DisconnectErase(t)
  PROVE  PlaceInv'
<1>0. PICK h, s : h = thread[t].h /\ s = thread[t].s
  OBVIOUS
<1>1. UNCHANGED <<open, nConns, key, listener>>
  BY DEF DisconnectErase, netVars
<1>2. /\ h \in Connected /\ h \in Sockets /\ s = m_mapSocketSession[h]
      /\ open[h] # 0 => h \in Arriving
      /\ m_mapSocketSession' = [m_mapSocketSession EXCEPT ![h] = NoSession]
  BY <1>0, ErasesClosed DEF Connected
<1>3. s \in Sessions /\ s \notin InHand
  BY <1>2, EntryBlock
<1>4. \A r \in Sessions : r # s => hSocket'[r] = hSocket[r] /\ pAttachInfo'[r] = pAttachInfo[r]
  BY <1>0, PlaceTypes, ErasesClosed
<1>5. heap' \subseteq heap /\ (s \in heap' => hSocket'[s] = hSocket[s])
  BY <1>0, ErasesClosed
<1>6. /\ m_mapSocketSession'[h] = NoSession
      /\ \A g \in Sockets : g # h => m_mapSocketSession'[g] = m_mapSocketSession[g]
  BY <1>2, PlaceTypes
<1>7. Connected' = Connected \ {h} /\ Arriving' = Arriving /\ SettingUp' = SettingUp
  BY <1>1, <1>2, <1>6 DEF Connected, Arriving, SettingUp
<1>8. ASSUME NEW g \in Sockets PROVE Placed(g)'
  <2>1. CASE g = h
    BY <1>1, <1>2, <1>7, <2>1 DEF Placed, SettingUp
  <2>2. CASE g # h
    <3>1. g \in Connected => m_mapSocketSession[g] \in Sessions /\ m_mapSocketSession[g] # s
      BY <1>2, <2>2, EntryBlock DEF OwnInv, SessionsOwnedOnce
    <3>2. open[g] # 0 /\ g \notin Arriving => g \in Connected
      BY OpenInMap
    <3>3. QED
      BY <1>1, <1>4, <1>6, <1>7, <2>2, <3>1, <3>2 DEF PlaceInv, Placed, SettingUp
  <2>3. QED
    BY <2>1, <2>2
<1>9. ListenerPlaced'
  <2>1. CASE listener.pc = "accept"
    BY <1>1, <2>1 DEF ListenerPlaced
  <2>2. CASE listener.pc # "accept"
    <3>1. listener.pc \in {"associate", "insert", "init", "recv"} /\ listener.s \in heap' =>
            hSocket'[listener.s] = listener.h
      BY <1>4, <1>5, <2>2, ListenHolds DEF PlaceInv, ListenerPlaced
    <3>2. listener.pc \in {"init", "recv"} /\ open[listener.h] # 0 => listener.h # h
      BY <1>2 DEF Arriving
    <3>3. QED
      BY <1>1, <1>6, <2>2, <3>1, <3>2, ListenHolds DEF PlaceInv, ListenerPlaced
  <2>3. QED
    BY <2>1, <2>2
<1>10. KeysOfAccepted'
  BY <1>1 DEF PlaceInv, KeysOfAccepted
<1>11. QED
  BY <1>8, <1>9, <1>10 DEF PlaceInv

(* Every other step is calm.                                               *)
LEMMA RunCalm ==
  ASSUME NEW w \in Workers, Run(w)
  PROVE  Calm /\ UNCHANGED <<pAttachInfo, client, crossed>>
BY DEF Calm, Run, DequeueEndedRecv, DequeueEndedSend, PostSend, OnRecv, PostRecv, StopRecv,
       serverVars, blockVars, netVars, appVars

LEMMA AppCalm ==
  ASSUME OwnInv, NEW t \in Apps, App(t)
  PROVE  Calm /\ UNCHANGED <<client, crossed>>
<1>1. PICK h \in known : Send(t, h) \/ AppDisconnect(t, h) \/ SetAttachInfo(t, h)
  BY DEF App
<1>2. CASE Send(t, h) \/ AppDisconnect(t, h)
  BY <1>2 DEF Calm, Send, AppDisconnect, serverVars, blockVars, netVars, appVars
<1>3. CASE SetAttachInfo(t, h)
  BY <1>3, PlaceTypes DEF Calm, SetAttachInfo, serverVars, netVars, appVars
<1>4. QED
  BY <1>1, <1>2, <1>3

LEMMA ClientCalm ==
  ASSUME OwnInv, NEW c \in Conns, ClientSends(c) \/ ClientLeaves(c)
  PROVE  Calm /\ UNCHANGED crossed /\ \A d \in Conns : client[d] # "up" => client'[d] # "up"
<1>1. Calm /\ UNCHANGED crossed
  BY DEF Calm, ClientSends, ClientLeaves, serverVars, blockVars, netVars, appVars
<1>2. client \in [Conns -> {"up", "closed", "reset"}]
  BY DEF OwnInv, TypeInv, TypeOK
<1>3. CASE ClientSends(c)
  BY <1>1, <1>3 DEF ClientSends, netVars
<1>4. CASE ClientLeaves(c)
  BY <1>1, <1>2, <1>4 DEF ClientLeaves
<1>5. QED
  BY <1>1, <1>3, <1>4

LEMMA OtherCalm ==
  ASSUME OwnInv, NEW t \in Threads,
         OnDisconnect(t) \/ (DisconnectFind(t) /\ thread[t].h \notin Connected)
  PROVE  Calm /\ UNCHANGED <<pAttachInfo, client, crossed, recv, sends>> /\ Becomes(t, Idle)
BY DEF Calm, OnDisconnect, DisconnectFind, serverVars, blockVars, netVars, ioVars

LEMMA FoundOrNot ==
  ASSUME OwnInv, NEW t \in Threads, DisconnectFind(t), thread[t].h \in Connected
  PROVE  Found(t)
<1>1. Quiet \/ Found(t)
  BY FindCases DEF OwnInv
<1>2. m_lock = NoThread /\ m_lock' = t
  BY DEF DisconnectFind
<1>3. QED
  BY <1>1, <1>2, NamesAssumption DEF Quiet, Untouched, serverVars

LEMMA PlaceStep == OwnInv /\ ReportInv /\ PlaceInv /\ [Next]_vars => PlaceInv'
<1> SUFFICES ASSUME OwnInv, ReportInv, PlaceInv, [Next]_vars PROVE PlaceInv'
  OBVIOUS
<1>1. CASE UNCHANGED vars
  <2>1. Calm
    BY <1>1 DEF Calm, vars, serverVars, blockVars, netVars
  <2>2. QED
    BY <2>1, CalmPlace
<1>2. ASSUME NEW t \in Threads, DisconnectFind(t) PROVE PlaceInv'
  BY <1>2, FoundOrNot, FoundPlace, OtherCalm, CalmPlace
<1>3. CASE Next
  BY <1>2, <1>3, ListenProcPlace, ErasePlace, OtherCalm, RunCalm, AppCalm, ClientCalm, CalmPlace
     DEF Next, Disconnect
<1>4. QED
  BY <1>1, <1>3

----------------------------------------------------------------------------
(* Tokens.  A connection's token is an outstanding operation, its packet   *)
(* in the hands of a worker, or the handle the worker has read.  Until     *)
(* connections are crossed, the block a token names leads to the           *)
(* connection's handle or, when that is closed, to a handle that is not    *)
(* given out; and the block of a receive is in no other use.               *)

LeadsTo(c, s) ==
  /\ c <= nConns /\ s \in heap /\ hSocket[s] \in Sockets
  /\ open[hSocket[s]] \in {c, 0}
  /\ IsOpen(c) => open[hSocket[s]] = c

OwnBlock(c, s) ==
  /\ LeadsTo(c, s) /\ hSocket[s] \notin SettingUp
  /\ open[hSocket[s]] = c => m_mapSocketSession[hSocket[s]] = s
  /\ key[c] \in {s, NoSession} /\ pAttachInfo[s] \in {c, 0}

Losing(t) == thread[t].pc = "disconnect" /\ thread[t].why \in {"ended", "recv"}

RecvOK(c) ==
  /\ recv[c].got => recv[c].on # 0
  /\ recv[c].on # 0 => recv[c].on = c /\ OwnBlock(c, recv[c].io)
SendOK(c) == sends[c] > 0 /\ key[c] # NoSession => LeadsTo(c, key[c])
TurnOK(t) ==
  /\ thread[t].pc = "onrecv" =>
       /\ thread[t].c \in Conns /\ thread[t].io = thread[t].s
       /\ OwnBlock(thread[t].c, thread[t].s)
  /\ Losing(t) => /\ thread[t].h \in Sockets
                  /\ open[thread[t].h] = 0 \/ client[open[thread[t].h]] # "up"
FoundOK(t) ==
  /\ thread[t].pc \in {"erase", "notify"} => thread[t].c \in Conns /\ thread[t].a \in {thread[t].c, 0}
  /\ thread[t].pc = "erase" /\ thread[t].why \in {"ended", "recv"} => client[thread[t].c] # "up"

TokensOK ==
  /\ \A c \in Conns : RecvOK(c) /\ SendOK(c)
  /\ \A t \in Threads : TurnOK(t) /\ FoundOK(t)
TokenInv == ~crossed => TokensOK

LEMMA TokenInit == Init => TokenInv
<1> SUFFICES ASSUME Init PROVE TokensOK
  BY DEF TokenInv
<1>1. \A t \in Threads : thread[t].pc = "idle"
  BY DEF Init, Idle
<1>2. \A c \in Conns : recv[c].on = 0 /\ recv[c].got = FALSE /\ ~(sends[c] > 0)
  BY DEF Init, NoRecv
<1>3. QED
  BY <1>1, <1>2 DEF TokensOK, RecvOK, SendOK, TurnOK, FoundOK, Losing

(* What a token names.                                                     *)
LEMMA TokensName ==
  ASSUME OwnInv
  PROVE  /\ \A c \in Conns : recv[c].on # 0 /\ recv[c].io \in heap => recv[c].io \in NamedBlocks
         /\ \A c \in Conns : sends[c] > 0 /\ key[c] \in heap => key[c] \in NamedBlocks
         /\ \A t \in Threads : thread[t].pc = "onrecv" /\ thread[t].s \in heap =>
              thread[t].s \in NamedBlocks
         /\ \A t \in Threads : Losing(t) => thread[t].h \in NamedHandles
         /\ \A s \in NamedBlocks : s \in heap => hSocket[s] \in NamedHandles
<1>1. heap \subseteq Sessions
  BY PlaceTypes
<1>2. \A c \in Conns : recv[c].on # 0 /\ recv[c].io \in heap => recv[c].io \in NamedBlocks
  BY <1>1 DEF NamedBlocks
<1>3. \A c \in Conns : sends[c] > 0 /\ key[c] \in heap => key[c] \in NamedBlocks
  BY <1>1 DEF NamedBlocks
<1>4. \A t \in Threads : thread[t].pc = "onrecv" /\ thread[t].s \in heap =>
        thread[t].s \in NamedBlocks
  BY <1>1 DEF NamedBlocks
<1>5. \A t \in Threads : Losing(t) => thread[t].h \in NamedHandles
  BY DEF NamedHandles, Losing
<1>6. \A s \in NamedBlocks : s \in heap => hSocket[s] \in NamedHandles
  BY DEF NamedHandles
<1>7. QED
  BY <1>2, <1>3, <1>4, <1>5, <1>6

(* A step that leaves alone what the tokens lead to.                       *)
Keeps ==
  /\ \A c \in Conns : \A s \in NamedBlocks :
       (LeadsTo(c, s) => LeadsTo(c, s)') /\ (OwnBlock(c, s) => OwnBlock(c, s)')
  /\ \A h \in NamedHandles : h \in Sockets => open'[h] \in {open[h], 0}
  /\ \A c \in Conns : client[c] # "up" => client'[c] # "up"

(* It does when it opens no socket, and the blocks, entries and keys it    *)
(* changes are those of no token.                                          *)
LEMMA KeepsIf ==
  ASSUME OwnInv, ReportInv, UNCHANGED nConns,
         \A h \in Sockets : open'[h] \in {open[h], 0},
         \A s \in NamedBlocks : s \in heap =>
           /\ s \in heap' /\ hSocket'[s] = hSocket[s]
           /\ hSocket[s] \notin SettingUp => pAttachInfo'[s] \in {pAttachInfo[s], 0},
         SettingUp' \subseteq SettingUp,
         \A h \in Sockets : open[h] # 0 /\ h \notin SettingUp =>
           m_mapSocketSession'[h] = m_mapSocketSession[h],
         \A c \in Conns : key'[c] = key[c] \/ \E h \in Sockets \cap SettingUp : open[h] = c,
         \A c \in Conns : client[c] # "up" => client'[c] # "up"
  PROVE  Keeps
<1>1. ASSUME NEW c \in Conns, NEW s \in NamedBlocks, LeadsTo(c, s) PROVE LeadsTo(c, s)'
  <2> DEFINE h == hSocket[s]
  <2>1. s \in heap /\ h \in Sockets /\ open[h] \in {c, 0} /\ c # 0
    BY <1>1 DEF LeadsTo, Conns
  <2>2. s \in heap' /\ hSocket'[s] = h /\ open'[h] \in {c, 0}
    BY <2>1
  <2>3. ASSUME NEW g \in Sockets, open'[g] = c PROVE open'[h] = c
    <3>1. open[g] = c
      BY <2>1, <2>3
    <3>2. open[h] = c
      BY <1>1, <3>1 DEF LeadsTo, IsOpen
    <3>3. g = h
      BY <2>1, <3>1, <3>2 DEF ReportInv, OnOneHandle
    <3>4. QED
      BY <2>3, <3>3
  <2>4. IsOpen(c)' => open'[h] = c
    BY <2>3 DEF IsOpen
  <2> HIDE DEF h
  <2>5. QED
    BY <1>1, <2>1, <2>2, <2>4 DEF LeadsTo
<1>2. ASSUME NEW c \in Conns, NEW s \in NamedBlocks, OwnBlock(c, s) PROVE OwnBlock(c, s)'
  <2>0. PICK h : h = hSocket[s]
    OBVIOUS
  <2>1. LeadsTo(c, s) /\ LeadsTo(c, s)' /\ s \in heap /\ h \in Sockets /\ h \notin SettingUp /\ c # 0
    BY <1>1, <1>2, <2>0 DEF OwnBlock, LeadsTo, Conns
  <2>2. hSocket'[s] = h /\ pAttachInfo'[s] \in {c, 0}
    BY <1>2, <2>0, <2>1 DEF OwnBlock
  <2>3. open'[h] = c => m_mapSocketSession'[h] = s
    BY <1>2, <2>0, <2>1 DEF OwnBlock
  <2>4. key'[c] = key[c]
    <3>1. ASSUME NEW g \in Sockets \cap SettingUp, open[g] = c PROVE FALSE
      <4>1. open[h] = c
        BY <2>0, <2>1, <3>1 DEF LeadsTo, IsOpen
      <4>2. QED
        BY <2>1, <3>1, <4>1 DEF ReportInv, OnOneHandle
    <3>2. QED
      BY <3>1
  <2>5. h \notin SettingUp'
    BY <2>1
  <2>6. QED
    BY <1>2, <2>1, <2>2, <2>3, <2>4, <2>5 DEF OwnBlock
<1>3. QED
  BY <1>1, <1>2 DEF Keeps

LEMMA CalmKeeps ==
  ASSUME OwnInv, ReportInv, Calm, \A c \in Conns : client[c] # "up" => client'[c] # "up"
  PROVE  Keeps
<1>1. SettingUp' = SettingUp
  BY DEF Calm, SettingUp, Arriving
<1>2. heap \subseteq Sessions
  BY PlaceTypes
<1>3. QED
  BY <1>1, <1>2, KeepsIf DEF Calm

(* A token the step leaves alone.                                          *)
LEMMA RecvKept ==
  ASSUME OwnInv, Keeps, NEW c \in Conns, recv'[c] = recv[c], RecvOK(c)
  PROVE  RecvOK(c)'
BY TokensName DEF Keeps, RecvOK, OwnBlock, LeadsTo

LEMMA SendKept ==
  ASSUME OwnInv, Keeps, NEW c \in Conns, sends'[c] > 0 => sends[c] > 0, key'[c] = key[c], SendOK(c)
  PROVE  SendOK(c)'
BY TokensName DEF Keeps, SendOK, LeadsTo

LEMMA TurnKept ==
  ASSUME OwnInv, Keeps, NEW t \in Threads, thread'[t] = thread[t], TurnOK(t)
  PROVE  TurnOK(t)'
<1>1. thread[t].pc = "onrecv" => OwnBlock(thread[t].c, thread[t].s)' /\ thread[t].c \in Conns
  BY TokensName DEF Keeps, TurnOK, OwnBlock, LeadsTo
<1>2. Losing(t)' = Losing(t)
  BY DEF Losing
<1>3. ASSUME Losing(t)
      PROVE  /\ thread[t].h \in Sockets
             /\ open'[thread[t].h] = 0 \/ client'[open'[thread[t].h]] # "up"
  <2>1. PICK h : h = thread[t].h
    OBVIOUS
  <2>2. h \in Sockets /\ (open[h] = 0 \/ client[open[h]] # "up") /\ open'[h] \in {open[h], 0}
    BY <1>3, <2>1, TokensName DEF TurnOK, Keeps
  <2>3. open[h] # 0 => open[h] \in Conns
    BY <2>2, PlaceTypes
  <2>4. QED
    BY <2>1, <2>2, <2>3 DEF Keeps
<1>4. QED
  BY <1>1, <1>2, <1>3 DEF TurnOK

LEMMA FoundKept ==
  ASSUME Keeps, NEW t \in Threads, FoundOK(t),
         thread'[t].pc = thread[t].pc \/ thread'[t].pc = "notify",
         thread'[t].pc = "notify" => thread[t].pc \in {"erase", "notify"},
         thread'[t].c = thread[t].c, thread'[t].a = thread[t].a, thread'[t].why = thread[t].why
  PROVE  FoundOK(t)'
BY DEF Keeps, FoundOK

LEMMA TokensStay ==
  ASSUME OwnInv, TokensOK, Keeps, UNCHANGED <<recv, sends, thread>>,
         \A c \in Conns : key'[c] = key[c] \/ SendOK(c)'
  PROVE  TokensOK'
<1>1. ASSUME NEW c \in Conns PROVE RecvOK(c)' /\ SendOK(c)'
  BY RecvKept, SendKept DEF TokensOK
<1>2. ASSUME NEW t \in Threads PROVE TurnOK(t)' /\ FoundOK(t)'
  BY TurnKept, FoundKept DEF TokensOK
<1>3. QED
  BY <1>1, <1>2 DEF TokensOK

(* A step of one thread, which changes one connection's operations.        *)
LEMMA OneThread ==
  ASSUME OwnInv, TokensOK, Keeps, UNCHANGED key, NEW t \in Threads, NEW c \in Conns,
         \A u \in Threads : u # t => thread'[u] = thread[u],
         \A d \in Conns : d # c => recv'[d] = recv[d] /\ sends'[d] = sends[d],
         RecvOK(c)', SendOK(c)', TurnOK(t)', FoundOK(t)'
  PROVE  TokensOK'
<1>1. ASSUME NEW d \in Conns, d # c PROVE RecvOK(d)' /\ SendOK(d)'
  BY <1>1, RecvKept, SendKept DEF TokensOK
<1>2. ASSUME NEW u \in Threads, u # t PROVE TurnOK(u)' /\ FoundOK(u)'
  BY <1>2, TurnKept, FoundKept DEF TokensOK
<1>3. QED
  BY <1>1, <1>2 DEF TokensOK

(* A step of one thread that changes no operation.                         *)
LEMMA ThreadAlone ==
  ASSUME OwnInv, TokensOK, Keeps, UNCHANGED <<key, recv, sends>>, NEW t \in Threads,
         \A u \in Threads : u # t => thread'[u] = thread[u], TurnOK(t)', FoundOK(t)'
  PROVE  TokensOK'
<1>1. ASSUME NEW d \in Conns PROVE RecvOK(d)' /\ SendOK(d)'
  BY RecvKept, SendKept DEF TokensOK
<1>2. ASSUME NEW u \in Threads, u # t PROVE TurnOK(u)' /\ FoundOK(u)'
  BY <1>2, TurnKept, FoundKept DEF TokensOK
<1>3. QED
  BY <1>1, <1>2 DEF TokensOK

----------------------------------------------------------------------------
(* The listen thread.                                                      *)

LEMMA WSAAcceptTokens ==
  ASSUME OwnInv, ReportInv, PlaceInv, TokenInv, WSAAccept
  PROVE  TokenInv'
<1> SUFFICES ASSUME ~crossed' PROVE TokensOK'
  BY DEF TokenInv
<1>0. PICK n : n = nConns + 1
  OBVIOUS
<1>1. PICK h \in Sockets :
        /\ open[h] = 0 /\ open' = [open EXCEPT ![h] = n] /\ CrossedIf(h \in NamedHandles)
        /\ listener' = [pc |-> "accepted", h |-> h, s |-> NoSession, c |-> n]
  BY <1>0 DEF WSAAccept
<1>2. h \notin NamedHandles /\ TokensOK
  BY <1>1 DEF CrossedIf, TokenInv
<1>3. /\ UNCHANGED <<m_mapSocketSession, heap, hSocket, pAttachInfo, key, client, recv, sends, thread>>
      /\ nConns' = n /\ n # 0 /\ \A c \in Conns : c <= nConns => c # n /\ c <= n
      /\ listener.pc = "accept"
  BY <1>0, PlaceTypes DEF WSAAccept, serverVars, blockVars, ioVars, At, Conns
<1>4. open'[h] = n /\ \A g \in Sockets : g # h => open'[g] = open[g]
  BY <1>1, PlaceTypes
<1>5. SettingUp' = {h}
  BY <1>1 DEF SettingUp, Arriving
<1>6. ASSUME NEW c \in Conns, NEW s \in NamedBlocks, LeadsTo(c, s)
      PROVE  LeadsTo(c, s)' /\ hSocket[s] # h /\ c <= nConns
  <2>1. s \in heap /\ hSocket[s] \in Sockets /\ hSocket[s] # h /\ c # n /\ c <= nConns /\ c <= n
    BY <1>2, <1>3, <1>6, TokensName DEF LeadsTo
  <2>2. IsOpen(c)' => IsOpen(c)
    BY <1>4, <2>1 DEF IsOpen
  <2>3. QED
    BY <1>3, <1>4, <1>6, <2>1, <2>2 DEF LeadsTo
<1>7. ASSUME NEW c \in Conns, NEW s \in NamedBlocks, OwnBlock(c, s) PROVE OwnBlock(c, s)'
  <2>1. LeadsTo(c, s)' /\ hSocket[s] # h /\ hSocket[s] \in Sockets
    BY <1>6, <1>7 DEF OwnBlock, LeadsTo
  <2>2. QED
    BY <1>3, <1>4, <1>5, <1>7, <2>1 DEF OwnBlock
<1>8. Keeps
  BY <1>2, <1>3, <1>4, <1>6, <1>7 DEF Keeps
<1>9. QED
  BY <1>2, <1>3, <1>8, TokensStay

(* It gives its connection up, or goes on with it.                         *)
LEMMA RefuseTokens ==
  ASSUME OwnInv, ReportInv, TokensOK, listener.pc # "accept", CloseSocket, listener' = Accepting,
         UNCHANGED <<m_mapSocketSession, heap, hSocket, pAttachInfo, nConns, client, key,
                     recv, sends, thread>>
  PROVE  TokensOK'
<1>1. \A h \in Sockets : open'[h] \in {open[h], 0}
  BY PlaceTypes DEF CloseSocket
<1>2. SettingUp' = {}
  BY DEF SettingUp, Arriving, Accepting
<1>3. Keeps
  BY <1>1, <1>2, KeepsIf
<1>4. QED
  BY <1>3, TokensStay

LEMMA GoesOnTokens ==
  ASSUME OwnInv, ReportInv, TokensOK, NEW pc \in {"size", "take", "alloc"}, Goto(pc),
         listener.pc \in {"accepted", "size", "take"},
         UNCHANGED <<m_mapSocketSession, heap, hSocket, pAttachInfo, open, nConns, client, key,
                     recv, sends, thread>>
  PROVE  TokensOK'
<1>1. listener'.pc = pc /\ listener'.h = listener.h
  BY ListenGoes
<1>2. SettingUp' = SettingUp
  BY <1>1 DEF SettingUp, Arriving
<1>3. Keeps
  BY <1>2, KeepsIf
<1>4. QED
  BY <1>3, TokensStay

LEMMA TakeBlockTokens ==
  ASSUME OwnInv, ReportInv, TokensOK, listener.pc \in {"take", "alloc"},
         NEW s \in Sessions, s \in heap => s \notin NamedBlocks,
         heap' = heap \cup {s},
         hSocket' = [hSocket EXCEPT ![s] = listener.h],
         pAttachInfo' \in {pAttachInfo, [pAttachInfo EXCEPT ![s] = 0]},
         listener' = [listener EXCEPT !.pc = "associate", !.s = s],
         UNCHANGED <<m_mapSocketSession, open, nConns, client, key, recv, sends, thread>>
  PROVE  TokensOK'
<1>1. listener'.pc = "associate" /\ listener'.h = listener.h
  BY DEF OwnInv, TypeInv, TypeOK, ListenerStates
<1>2. SettingUp' = SettingUp
  BY <1>1 DEF SettingUp, Arriving
<1>3. ASSUME NEW r \in NamedBlocks, r \in heap
      PROVE  r \in heap' /\ hSocket'[r] = hSocket[r] /\ pAttachInfo'[r] = pAttachInfo[r]
  <2>1. r # s /\ r \in Sessions
    BY <1>3, PlaceTypes
  <2>2. QED
    BY <1>3, <2>1, PlaceTypes
<1>4. Keeps
  BY <1>2, <1>3, KeepsIf
<1>5. QED
  BY <1>4, TokensStay

LEMMA TakeFromPoolTokens ==
  ASSUME OwnInv, ReportInv, TokenInv, TakeFromPool
  PROVE  TokenInv'
<1> SUFFICES ASSUME ~crossed' PROVE TokensOK'
  BY DEF TokenInv
<1>1. /\ listener.pc = "take"
      /\ UNCHANGED <<m_mapSocketSession, heap, pAttachInfo, open, nConns, client, key, recv, sends,
                     thread>>
  BY DEF TakeFromPool, At, netVars, ioVars
<1>2. CASE m_lstFreePool # <<>>
  <2>1. PICK s \in Sessions : s = Head(m_lstFreePool)
    BY <1>2, PoolHead
  <2>2. /\ hSocket' = [hSocket EXCEPT ![s] = listener.h]
        /\ listener' = [listener EXCEPT !.pc = "associate", !.s = s]
        /\ CrossedIf(s \in NamedBlocks)
    BY <1>2, <2>1 DEF TakeFromPool
  <2>3. s \notin NamedBlocks /\ TokensOK
    BY <2>2 DEF CrossedIf, TokenInv
  <2>4. s \in heap
    <3>1. m_lstFreePool \in Seq(Sessions) /\ IsInjective(m_lstFreePool)
      BY DEF OwnInv, TypeInv, TypeOK, SessionsOwnedOnce
    <3>2. s \in ToSet(m_lstFreePool)
      BY <1>2, <2>1, <3>1, TakeHead
    <3>3. QED
      BY <3>2 DEF OwnInv, SessionsOwnedOnce
  <2>5. heap' = heap \cup {s}
    BY <1>1, <2>4
  <2>6. QED
    BY <1>1, <2>2, <2>3, <2>5, TakeBlockTokens
<1>3. CASE m_lstFreePool = <<>>
  <2>1. Goto("alloc") /\ UNCHANGED <<hSocket, crossed>>
    BY <1>3 DEF TakeFromPool
  <2>2. QED
    BY <1>1, <2>1, GoesOnTokens DEF TokenInv
<1>4. QED
  BY <1>2, <1>3

LEMMA AllocSessionTokens ==
  ASSUME OwnInv, ReportInv, TokenInv, AllocSession
  PROVE  TokenInv'
<1>1. /\ listener.pc = "alloc"
      /\ UNCHANGED <<m_mapSocketSession, nConns, client, key, recv, sends, thread, crossed>>
  BY DEF AllocSession, At, serverVars, ioVars, appVars
<1> SUFFICES ASSUME TokensOK PROVE TokensOK'
  BY <1>1 DEF TokenInv
<1>2. ASSUME NEW s \in Sessions \ heap, heap' = heap \cup {s},
             hSocket' = [hSocket EXCEPT ![s] = listener.h],
             pAttachInfo' = [pAttachInfo EXCEPT ![s] = 0],
             listener' = [listener EXCEPT !.pc = "associate", !.s = s], UNCHANGED open
      PROVE  TokensOK'
  BY <1>1, <1>2, TakeBlockTokens
<1>3. CASE CloseSocket /\ listener' = Accepting /\ UNCHANGED blockVars
  BY <1>1, <1>3, RefuseTokens DEF blockVars
<1>4. QED
  BY <1>2, <1>3 DEF AllocSession

(* From here on a packet of a send leads to the block.                     *)
LEMMA AssociateSocketTokens ==
  ASSUME OwnInv, ReportInv, PlaceInv, TokenInv, AssociateSocket
  PROVE  TokenInv'
<1>1. /\ listener.pc = "associate" /\ Goto("insert")
      /\ UNCHANGED <<m_mapSocketSession, heap, hSocket, pAttachInfo, open, nConns, client,
                     recv, sends, thread, crossed>>
  BY DEF AssociateSocket, At, serverVars, blockVars, ioVars, appVars
<1> SUFFICES ASSUME TokensOK PROVE TokensOK'
  BY <1>1 DEF TokenInv
<1>2. PICK c \in Conns, h \in Sockets, s \in Sessions :
        /\ c = listener.c /\ h = listener.h /\ s = listener.s
        /\ open[h] = c /\ c <= nConns /\ s \in heap /\ hSocket[s] = h /\ key[c] = NoSession
  <2>1. listener.s \in InHand /\ listener.s \in heap
    BY <1>1 DEF InHand, OwnInv, SessionsOwnedOnce
  <2>2. listener.s \in Sessions
    BY <1>1 DEF OwnInv, TypeInv, ListenerHolds
  <2>3. QED
    BY <1>1, <2>1, <2>2, ListenHolds DEF PlaceInv, ListenerPlaced
<1>3. key'[c] \in {NoSession, s} /\ \A d \in Conns : d # c => key'[d] = key[d]
  BY <1>2, PlaceTypes DEF AssociateSocket
<1>4. listener'.pc = "insert" /\ listener'.h = listener.h
  BY <1>1, ListenGoes
<1>5. SettingUp' = SettingUp /\ h \in SettingUp
  BY <1>1, <1>2, <1>4 DEF SettingUp, Arriving
<1>6. Keeps
  BY <1>1, <1>2, <1>3, <1>5, KeepsIf
<1>7. SendOK(c)'
  BY <1>1, <1>2, <1>3 DEF SendOK, LeadsTo
<1>8. QED
  BY <1>1, <1>3, <1>6, <1>7, TokensStay

LEMMA InsertSessionTokens ==
  ASSUME OwnInv, ReportInv, TokenInv, InsertSession
  PROVE  TokenInv'
<1>1. /\ listener.pc = "insert" /\ Goto("init")
      /\ UNCHANGED <<heap, hSocket, pAttachInfo, open, nConns, client, key, recv, sends, thread, crossed>>
  BY DEF InsertSession, At, netVars, blockVars, ioVars, appVars
<1> SUFFICES ASSUME TokensOK PROVE TokensOK'
  BY <1>1 DEF TokenInv
<1>2. \A h \in Sockets : h # listener.h => m_mapSocketSession'[h] = m_mapSocketSession[h]
  BY InsertsNew, PlaceTypes
<1>3. listener'.pc = "init" /\ listener'.h = listener.h
  BY <1>1, ListenGoes
<1>4. SettingUp' = SettingUp /\ listener.h \in SettingUp
  BY <1>1, <1>3 DEF SettingUp, Arriving
<1>5. Keeps
  BY <1>1, <1>2, <1>4, KeepsIf
<1>6. QED
  BY <1>1, <1>5, TokensStay

LEMMA OnInitSocketTokens ==
  ASSUME OwnInv, ReportInv, PlaceInv, TokenInv, OnInitSocket
  PROVE  TokenInv'
<1>1. /\ listener.pc = "init" /\ Goto("recv")
      /\ UNCHANGED <<m_mapSocketSession, heap, hSocket, open, nConns, client, key, recv, sends,
                     thread, crossed>>
  BY DEF OnInitSocket, At, netVars, serverVars, ioVars, appVars
<1> SUFFICES ASSUME TokensOK PROVE TokensOK'
  BY <1>1 DEF TokenInv
<1>2. listener'.pc = "recv"
  BY <1>1, ListenGoes
<1>3. SettingUp' = {} /\ listener.h \in SettingUp
  BY <1>1, <1>2 DEF SettingUp, Arriving
<1>4. listener.s \in heap => hSocket[listener.s] \in SettingUp
  BY <1>1, <1>3 DEF PlaceInv, ListenerPlaced
<1>5. \A s \in heap : hSocket[s] \notin SettingUp => pAttachInfo'[s] = pAttachInfo[s]
  BY <1>4, PlaceTypes DEF OnInitSocket
<1>6. Keeps
  BY <1>1, <1>3, <1>5, KeepsIf
<1>7. QED
  BY <1>1, <1>6, TokensStay

(* The first receive is the first token, unless the connection was closed. *)
LEMMA FirstRecvTokens ==
  ASSUME OwnInv, ReportInv, PlaceInv, TokenInv, FirstRecv
  PROVE  TokenInv'
<1>1. /\ listener.pc = "recv" /\ listener' = Accepting
      /\ UNCHANGED <<m_mapSocketSession, heap, hSocket, pAttachInfo, open, nConns, client, key, sends,
                     thread, crossed>>
  BY DEF FirstRecv, At, netVars, serverVars, blockVars, appVars
<1> SUFFICES ASSUME TokensOK PROVE TokensOK'
  BY <1>1 DEF TokenInv
<1>2. SettingUp = {} /\ SettingUp' = {} /\ Arriving = {}
  BY <1>1 DEF SettingUp, Arriving, Accepting
<1>3. Keeps
  BY <1>1, <1>2, KeepsIf
<1>4. CASE UNCHANGED recv
  BY <1>1, <1>3, <1>4, TokensStay
<1>5. CASE IsSocket(listener.h) /\ recv' # recv
  <2>1. PICK c \in Conns, h \in Sockets, s \in Sessions :
          /\ c = listener.c /\ h = listener.h /\ s = listener.s
          /\ open[h] = c /\ c # 0 /\ c <= nConns /\ m_mapSocketSession[h] = s /\ key[c] \in {s, NoSession}
    <3>1. listener.s \in Sessions
      BY <1>1 DEF OwnInv, TypeInv, ListenerHolds
    <3>2. QED
      BY <1>1, <1>5, <3>1 DEF PlaceInv, ListenerPlaced, IsSocket
  <2>2. h \in Connected /\ s \in heap /\ hSocket[s] = h /\ pAttachInfo[s] \in {c, 0}
    <3>1. h \in Connected
      BY <1>2, <2>1, OpenInMap
    <3>2. QED
      BY <1>2, <2>1, <3>1, EntryBlock DEF PlaceInv, Placed
  <2>3. recv' = [recv EXCEPT ![c] = [on |-> c, io |-> s, got |-> FALSE]]
    BY <1>5, <2>1 DEF FirstRecv
  <2>4. /\ recv'[c].on = c /\ recv'[c].io = s /\ recv'[c].got = FALSE
        /\ \A d \in Conns : d # c => recv'[d] = recv[d]
    BY <2>3, PlaceTypes
  <2>5. OwnBlock(c, s)'
    BY <1>1, <1>2, <2>1, <2>2 DEF OwnBlock, LeadsTo
  <2>6. RecvOK(c)'
    BY <2>1, <2>4, <2>5 DEF RecvOK
  <2>7. \A d \in Conns : RecvOK(d)' /\ SendOK(d)'
    BY <1>1, <1>3, <2>4, <2>6, RecvKept, SendKept DEF TokensOK
  <2>8. \A t \in Threads : TurnOK(t)' /\ FoundOK(t)'
    BY <1>1, <1>3, TurnKept, FoundKept DEF TokensOK
  <2>9. QED
    BY <2>7, <2>8 DEF TokensOK
<1>6. QED
  BY <1>4, <1>5 DEF FirstRecv

LEMMA ListenProcTokens ==
  ASSUME OwnInv, ReportInv, PlaceInv, TokenInv, ListenProc
  PROVE  TokenInv'
<1>1. CASE OnAccept
  <2>1. /\ listener.pc = "accepted"
        /\ UNCHANGED <<m_mapSocketSession, heap, hSocket, pAttachInfo, nConns, client, key,
                       recv, sends, thread, crossed>>
    BY <1>1 DEF OnAccept, At, serverVars, blockVars, ioVars
  <2>2. CASE Goto("size") /\ UNCHANGED open
    BY <2>1, <2>2, GoesOnTokens DEF TokenInv
  <2>3. CASE CloseSocket /\ listener' = Accepting
    BY <2>1, <2>3, RefuseTokens DEF TokenInv
  <2>4. QED
    BY <1>1, <2>2, <2>3 DEF OnAccept
<1>2. CASE CheckSize
  <2>1. /\ listener.pc = "size"
        /\ UNCHANGED <<m_mapSocketSession, heap, hSocket, pAttachInfo, nConns, client, key,
                       recv, sends, thread, crossed>>
    BY <1>2 DEF CheckSize, At, serverVars, blockVars, ioVars, appVars
  <2>2. CASE Goto("take") /\ UNCHANGED open
    BY <2>1, <2>2, GoesOnTokens DEF TokenInv
  <2>3. CASE CloseSocket /\ listener' = Accepting
    BY <2>1, <2>3, RefuseTokens DEF TokenInv
  <2>4. QED
    BY <1>2, <2>2, <2>3 DEF CheckSize
<1>3. QED
  BY <1>1, <1>2, WSAAcceptTokens, TakeFromPoolTokens, AllocSessionTokens, AssociateSocketTokens,
     InsertSessionTokens, OnInitSocketTokens, FirstRecvTokens DEF ListenProc

----------------------------------------------------------------------------
(* The workers.                                                            *)

LEMMA ThreadBecomes ==
  ASSUME OwnInv, NEW t \in Threads, NEW r, Becomes(t, r)
  PROVE  thread'[t] = r /\ \A u \in Threads : u # t => thread'[u] = thread[u]
BY DEF OwnInv, TypeInv, TypeOK, Becomes

LEMMA GoesIdle ==
  ASSUME OwnInv, NEW t \in Threads, Becomes(t, Idle)
  PROVE  TurnOK(t)' /\ FoundOK(t)' /\ \A u \in Threads : u # t => thread'[u] = thread[u]
<1>1. thread'[t].pc = "idle" /\ \A u \in Threads : u # t => thread'[u] = thread[u]
  BY ThreadBecomes DEF Idle
<1>2. QED
  BY <1>1 DEF TurnOK, FoundOK, Losing

LEMMA GoesDisconnecting ==
  ASSUME OwnInv, NEW t \in Threads, NEW h, NEW why, NEW f, Becomes(t, Disconnecting(h, why, f)),
         why \in {"ended", "recv"} => h \in Sockets /\ (open'[h] = 0 \/ client'[open'[h]] # "up")
  PROVE  TurnOK(t)' /\ FoundOK(t)' /\ \A u \in Threads : u # t => thread'[u] = thread[u]
<1>1. PICK r : r = Disconnecting(h, why, f)
  OBVIOUS
<1>2. r.pc = "disconnect" /\ r.h = h /\ r.why = why
  BY <1>1 DEF Disconnecting, Idle
<1>3. thread'[t] = r /\ \A u \in Threads : u # t => thread'[u] = thread[u]
  BY <1>1, ThreadBecomes
<1>4. QED
  BY <1>2, <1>3 DEF TurnOK, FoundOK, Losing

(* The handle a worker reads from the block of a token.                    *)
LEMMA ReadsHandle ==
  ASSUME OwnInv, NEW c \in Conns, NEW s, LeadsTo(c, s), NEW h \in HandleIn(s)
  PROVE  /\ h = hSocket[s] /\ h \in Sockets /\ open[h] \in {c, 0} /\ (IsOpen(c) => open[h] = c)
         /\ Ended(c) => open[h] = 0 \/ client[open[h]] # "up"
<1>1. h = hSocket[s] /\ h \in Sockets /\ open[h] \in {c, 0} /\ (IsOpen(c) => open[h] = c)
  BY DEF HandleIn, LeadsTo
<1>2. open[h] = c => IsOpen(c)
  BY <1>1 DEF IsOpen
<1>3. QED
  BY <1>1, <1>2 DEF Ended

LEMMA DequeueEndedRecvTokens ==
  ASSUME OwnInv, TokensOK, Keeps, UNCHANGED <<open, client, key>>,
         NEW w \in Threads, NEW c \in Conns, DequeueEndedRecv(w, c)
  PROVE  TokensOK'
<1>1. PICK s : s = key[recv[c].on]
  OBVIOUS
<1>2. PICK h \in HandleIn(s) : Becomes(w, Disconnecting(h, "ended", FALSE))
  BY <1>1 DEF DequeueEndedRecv
<1>3. recv[c].on = c /\ recv[c].io = s /\ LeadsTo(c, s) /\ Ended(c)
  BY <1>1 DEF DequeueEndedRecv, TokensOK, RecvOK, OwnBlock
<1>4. h \in Sockets /\ (open[h] = 0 \/ client[open[h]] # "up")
  BY <1>3, ReadsHandle
<1>5. recv' = [recv EXCEPT ![c] = NoRecv] /\ sends' = sends
  BY DEF DequeueEndedRecv
<1>6. recv'[c].on = 0 /\ recv'[c].got = FALSE /\ \A d \in Conns : d # c => recv'[d] = recv[d]
  BY <1>5, PlaceTypes DEF NoRecv
<1>7. RecvOK(c)' /\ SendOK(c)'
  BY <1>5, <1>6, SendKept DEF RecvOK, TokensOK
<1>8. TurnOK(w)' /\ FoundOK(w)' /\ \A u \in Threads : u # w => thread'[u] = thread[u]
  BY <1>2, <1>4, GoesDisconnecting
<1>9. QED
  BY <1>5, <1>6, <1>7, <1>8, OneThread

LEMMA SendsOneLess ==
  ASSUME OwnInv, NEW c \in Conns, sends' = [sends EXCEPT ![c] = @ - 1]
  PROVE  (sends'[c] > 0 => sends[c] > 0) /\ \A d \in Conns : d # c => sends'[d] = sends[d]
BY PlaceTypes

LEMMA DequeueEndedSendTokens ==
  ASSUME OwnInv, TokensOK, Keeps, UNCHANGED <<open, client, key>>,
         NEW w \in Threads, NEW c \in Conns, DequeueEndedSend(w, c)
  PROVE  TokensOK'
<1>1. PICK h \in HandleIn(key[c]) : Becomes(w, Disconnecting(h, "ended", FALSE))
  BY DEF DequeueEndedSend
<1>2. LeadsTo(c, key[c]) /\ Ended(c)
  BY DEF DequeueEndedSend, TokensOK, SendOK
<1>3. h \in Sockets /\ (open[h] = 0 \/ client[open[h]] # "up")
  BY <1>2, ReadsHandle
<1>4. sends' = [sends EXCEPT ![c] = @ - 1] /\ recv' = recv
  BY DEF DequeueEndedSend
<1>5. RecvOK(c)' /\ SendOK(c)' /\ \A d \in Conns : d # c => sends'[d] = sends[d]
  BY <1>4, SendsOneLess, SendKept, RecvKept DEF TokensOK
<1>6. TurnOK(w)' /\ FoundOK(w)' /\ \A u \in Threads : u # w => thread'[u] = thread[u]
  BY <1>1, <1>3, GoesDisconnecting
<1>7. QED
  BY <1>4, <1>5, <1>6, OneThread

LEMMA PostSendTokens ==
  ASSUME OwnInv, TokensOK, Keeps, UNCHANGED key, NEW w \in Threads, NEW c \in Conns, PostSend(w, c)
  PROVE  TokensOK'
<1>1. sends' = [sends EXCEPT ![c] = @ - 1] /\ UNCHANGED <<recv, thread>>
  BY DEF PostSend
<1>2. RecvOK(c)' /\ SendOK(c)' /\ \A d \in Conns : d # c => sends'[d] = sends[d]
  BY <1>1, SendsOneLess, SendKept, RecvKept DEF TokensOK
<1>3. TurnOK(w)' /\ FoundOK(w)'
  BY <1>1, TurnKept, FoundKept DEF TokensOK
<1>4. QED
  BY <1>1, <1>2, <1>3, OneThread

(* The token passes from the packet to the worker and back.                *)
LEMMA OnRecvTokens ==
  ASSUME OwnInv, TokensOK, Keeps, UNCHANGED key, NEW w \in Threads, NEW c \in Conns, OnRecv(w, c)
  PROVE  TokensOK'
<1>1. PICK s : s = recv[c].io
  OBVIOUS
<1>2. recv[c].on = c /\ OwnBlock(c, s) /\ key[recv[c].on] = s /\ s \in heap
  BY <1>1 DEF OnRecv, TokensOK, RecvOK, OwnBlock, LeadsTo
<1>3. OwnBlock(c, s)'
  BY <1>1, <1>2, TokensName DEF Keeps, OnRecv
<1>4. recv' = [recv EXCEPT ![c] = NoRecv] /\ sends' = sends
  BY DEF OnRecv
<1>5. recv'[c].on = 0 /\ recv'[c].got = FALSE /\ \A d \in Conns : d # c => recv'[d] = recv[d]
  BY <1>4, PlaceTypes DEF NoRecv
<1>6. RecvOK(c)' /\ SendOK(c)'
  BY <1>4, <1>5, SendKept DEF RecvOK, TokensOK
<1>7. PICK r : r = [Idle EXCEPT !.pc = "onrecv", !.s = s, !.io = s, !.c = c]
  OBVIOUS
<1>8. r.pc = "onrecv" /\ r.s = s /\ r.io = s /\ r.c = c
  BY <1>7 DEF Idle
<1>9. thread'[w] = r /\ \A u \in Threads : u # w => thread'[u] = thread[u]
  BY <1>1, <1>2, <1>7, ThreadBecomes DEF OnRecv
<1>10. TurnOK(w)' /\ FoundOK(w)'
  BY <1>3, <1>8, <1>9 DEF TurnOK, FoundOK, Losing
<1>11. QED
  BY <1>4, <1>5, <1>6, <1>9, <1>10, OneThread

LEMMA PostRecvTokens ==
  ASSUME OwnInv, TokensOK, Keeps, UNCHANGED <<open, client, key>>, NEW w \in Threads, PostRecv(w)
  PROVE  TokensOK'
<1>1. PICK c, s : c = thread[w].c /\ s = thread[w].s
  OBVIOUS
<1>2. c \in Conns /\ thread[w].io = s /\ OwnBlock(c, s) /\ LeadsTo(c, s) /\ s \in heap /\ c # 0
  BY <1>1 DEF PostRecv, TokensOK, TurnOK, OwnBlock, LeadsTo, Conns
<1>3. OwnBlock(c, s)'
  BY <1>1, <1>2, TokensName DEF Keeps, PostRecv
<1>4. sends' = sends
  BY DEF PostRecv
<1>5. SendOK(c)'
  BY <1>2, <1>4, SendKept DEF TokensOK
<1>6. ASSUME NEW h \in HandleIn(s), IsSocket(h), Becomes(w, Idle),
             recv' = [recv EXCEPT ![c] = [on |-> open[h], io |-> s, got |-> FALSE]]
      PROVE  TokensOK'
  <2>1. open[h] = c
    BY <1>2, <1>6, ReadsHandle DEF IsSocket
  <2>2. /\ recv'[c].on = c /\ recv'[c].io = s /\ recv'[c].got = FALSE
        /\ \A d \in Conns : d # c => recv'[d] = recv[d]
    BY <1>2, <1>6, <2>1, PlaceTypes
  <2>3. RecvOK(c)'
    BY <1>3, <2>2 DEF RecvOK
  <2>4. QED
    BY <1>2, <1>4, <1>5, <1>6, <2>2, <2>3, GoesIdle, OneThread
<1>7. ASSUME NEW h \in HandleIn(s), CallFails(h), Becomes(w, Disconnecting(h, "recv", FALSE)),
             UNCHANGED recv
      PROVE  TokensOK'
  <2>1. h \in Sockets
    BY <1>2, <1>7, ReadsHandle
  <2>2. open[h] = 0 \/ client[open[h]] # "up"
    BY <1>7, <2>1 DEF CallFails, IsSocket
  <2>3. TurnOK(w)' /\ FoundOK(w)' /\ \A u \in Threads : u # w => thread'[u] = thread[u]
    BY <1>7, <2>1, <2>2, GoesDisconnecting
  <2>4. QED
    BY <1>4, <1>7, <2>3, ThreadAlone
<1>8. QED
  BY <1>1, <1>2, <1>6, <1>7 DEF PostRecv

LEMMA RunTokens ==
  ASSUME OwnInv, ReportInv, TokenInv, NEW w \in Workers, Run(w)
  PROVE  TokenInv'
<1>1. Calm /\ UNCHANGED <<client, crossed>> /\ w \in Threads
  BY RunCalm DEF Threads
<1> SUFFICES ASSUME TokensOK PROVE TokensOK'
  BY <1>1 DEF TokenInv
<1>2. Keeps /\ UNCHANGED <<open, client, key>>
  BY <1>1, CalmKeeps DEF Calm
<1>3. CASE StopRecv(w)
  <2>1. Becomes(w, Idle) /\ UNCHANGED <<recv, sends>>
    BY <1>3 DEF StopRecv, ioVars
  <2>2. QED
    BY <1>1, <1>2, <2>1, GoesIdle, ThreadAlone
<1>4. QED
  BY <1>1, <1>2, <1>3, PostRecvTokens, DequeueEndedRecvTokens, DequeueEndedSendTokens,
     PostSendTokens, OnRecvTokens DEF Run

----------------------------------------------------------------------------
(* The application and the clients.                                        *)

(* A send is begun on an open socket: the key, if it has one, leads to the *)
(* block of its connection.                                                *)
LEMMA SendLeads ==
  ASSUME OwnInv, ReportInv, PlaceInv, NEW h \in Sockets, open[h] # 0, NEW c, c = open[h],
         key[c] # NoSession
  PROVE  LeadsTo(c, key[c])
<1>1. c <= nConns
  BY DEF ReportInv, FutureUnreported
<1>2. CASE h \in Arriving
  <2>1. h = listener.h /\ listener.pc \in {"accepted", "size", "take", "alloc", "associate", "insert"}
    BY <1>2 DEF Arriving
  <2>2. c = listener.c /\ key[c] = listener.s /\ listener.pc = "insert"
    BY <2>1 DEF PlaceInv, ListenerPlaced
  <2>3. listener.s \in heap
    BY <2>2 DEF InHand, OwnInv, SessionsOwnedOnce
  <2>4. hSocket[listener.s] = h
    BY <2>1, <2>2, <2>3 DEF PlaceInv, ListenerPlaced
  <2>5. QED
    BY <1>1, <2>2, <2>3, <2>4 DEF LeadsTo
<1>3. CASE h \notin Arriving
  <2>1. h \in Connected /\ m_mapSocketSession[h] \in heap
    BY <1>3, OpenInMap, EntryBlock
  <2>2. key[c] = m_mapSocketSession[h] /\ hSocket[m_mapSocketSession[h]] = h
    BY <1>3, <2>1 DEF PlaceInv, Placed
  <2>3. QED
    BY <1>1, <2>1, <2>2 DEF LeadsTo
<1>4. QED
  BY <1>2, <1>3

LEMMA SendTokens ==
  ASSUME OwnInv, ReportInv, PlaceInv, TokensOK, Keeps, Calm, NEW t \in Threads, NEW h \in Sockets,
         Send(t, h)
  PROVE  TokensOK'
<1>1. recv' = recv /\ key' = key
  BY DEF Send, Calm
<1>2. ASSUME IsSocket(h), sends' = [sends EXCEPT ![open[h]] = @ + 1], UNCHANGED thread
      PROVE  TokensOK'
  <2>1. PICK c \in Conns : c = open[h]
    BY <1>2, PlaceTypes DEF IsSocket
  <2>2. \A d \in Conns : d # c => sends'[d] = sends[d]
    BY <1>2, <2>1, PlaceTypes
  <2>3. key[c] # NoSession => LeadsTo(c, key[c])
    BY <1>2, <2>1, SendLeads DEF IsSocket
  <2>4. SendOK(c)'
    BY <1>1, <2>3 DEF SendOK, LeadsTo, IsOpen, Calm
  <2>5. RecvOK(c)' /\ TurnOK(t)' /\ FoundOK(t)'
    BY <1>1, <1>2, RecvKept, TurnKept, FoundKept DEF TokensOK
  <2>6. QED
    BY <1>1, <1>2, <2>1, <2>2, <2>4, <2>5, OneThread
<1>3. ASSUME Becomes(t, Disconnecting(h, "send", FALSE)), UNCHANGED sends PROVE TokensOK'
  BY <1>1, <1>3, GoesDisconnecting, ThreadAlone
<1>4. QED
  BY <1>2, <1>3 DEF Send

LEMMA AppTokens ==
  ASSUME OwnInv, ReportInv, PlaceInv, TokenInv, NEW t \in Apps, App(t)
  PROVE  TokenInv'
<1>1. Calm /\ UNCHANGED <<client, crossed>> /\ t \in Threads
  BY AppCalm DEF Threads
<1> SUFFICES ASSUME TokensOK PROVE TokensOK'
  BY <1>1 DEF TokenInv
<1>2. Keeps /\ UNCHANGED key
  BY <1>1, CalmKeeps DEF Calm
<1>3. PICK h \in Sockets : Send(t, h) \/ AppDisconnect(t, h) \/ SetAttachInfo(t, h)
  BY DEF App, OwnInv, TypeInv, TypeOK
<1>4. CASE AppDisconnect(t, h)
  <2>1. PICK f : Becomes(t, Disconnecting(h, "app", f))
    BY <1>4 DEF AppDisconnect
  <2>2. UNCHANGED <<recv, sends>>
    BY <1>4 DEF AppDisconnect, ioVars
  <2>3. QED
    BY <1>1, <1>2, <2>1, <2>2, GoesDisconnecting, ThreadAlone
<1>5. CASE SetAttachInfo(t, h)
  BY <1>2, <1>5, TokensStay DEF SetAttachInfo, ioVars
<1>6. QED
  BY <1>1, <1>2, <1>3, <1>4, <1>5, SendTokens

LEMMA ClientTokens ==
  ASSUME OwnInv, ReportInv, TokenInv, NEW c \in Conns, ClientSends(c) \/ ClientLeaves(c)
  PROVE  TokenInv'
<1>1. Calm /\ UNCHANGED crossed /\ \A d \in Conns : client[d] # "up" => client'[d] # "up"
  BY ClientCalm
<1> SUFFICES ASSUME TokensOK PROVE TokensOK'
  BY <1>1 DEF TokenInv
<1>2. Keeps /\ UNCHANGED key
  BY <1>1, CalmKeeps DEF Calm
<1>3. CASE ClientLeaves(c)
  BY <1>2, <1>3, TokensStay DEF ClientLeaves, ioVars
<1>4. CASE ClientSends(c)
  <2>1. PICK r \in Conns : recv[r].on = c /\ recv' = [recv EXCEPT ![r].got = TRUE]
    BY <1>4 DEF ClientSends
  <2>2. c # 0 /\ UNCHANGED <<sends, thread>>
    BY <1>4 DEF ClientSends, Conns
  <2>3. /\ recv'[r].on = recv[r].on /\ recv'[r].io = recv[r].io
        /\ \A d \in Conns : d # r => recv'[d] = recv[d]
    BY <2>1, PlaceTypes DEF Receives
  <2>4. RecvOK(r) /\ OwnBlock(r, recv[r].io) /\ recv[r].io \in heap
    BY <2>1, <2>2 DEF TokensOK, RecvOK, OwnBlock, LeadsTo
  <2>5. OwnBlock(r, recv[r].io)'
    BY <1>2, <2>1, <2>2, <2>3, <2>4, TokensName DEF Keeps
  <2>6. RecvOK(r)'
    BY <2>1, <2>2, <2>3, <2>4, <2>5 DEF RecvOK
  <2>7. \A d \in Conns : RecvOK(d)' /\ SendOK(d)'
    BY <1>2, <2>2, <2>3, <2>6, RecvKept, SendKept DEF TokensOK
  <2>8. \A t \in Threads : TurnOK(t)' /\ FoundOK(t)'
    BY <1>2, <2>2, TurnKept, FoundKept DEF TokensOK
  <2>9. QED
    BY <2>7, <2>8 DEF TokensOK
<1>5. QED
  BY <1>3, <1>4

----------------------------------------------------------------------------
(* Disconnect.                                                             *)

(* What it finds is the connection, its object and, when a worker asks for *)
(* it, a client that has left.                                             *)
LEMMA FoundTokens ==
  ASSUME OwnInv, ReportInv, PlaceInv, TokenInv, NEW t \in Threads, DisconnectFind(t), Found(t)
  PROVE  TokenInv'
<1>0. PICK h, c : h = thread[t].h /\ c = open[h]
  OBVIOUS
<1>1. /\ h \in Connected /\ h \in Sockets /\ h \notin Arriving /\ c \in Conns
      /\ m_mapSocketSession[h] \in Sessions
  BY <1>0, FindsArrived, EntryBlock, PlaceTypes
<1> SUFFICES ASSUME ~crossed' PROVE TokensOK'
  BY DEF TokenInv
<1>2. TokensOK /\ h \notin SettingUp
  BY <1>0, <1>1 DEF DisconnectFind, CrossedIf, TokenInv, SettingUp
<1>3. UNCHANGED <<m_mapSocketSession, heap, hSocket, pAttachInfo, nConns, client, key, recv, sends, listener>>
  BY DEF DisconnectFind, blockVars, ioVars
<1>4. \A g \in Sockets : open'[g] \in {open[g], 0}
  BY <1>0, <1>1, PlaceTypes DEF Found
<1>5. SettingUp' = SettingUp
  BY <1>3 DEF SettingUp, Arriving
<1>6. Keeps
  BY <1>3, <1>4, <1>5, KeepsIf
<1>7. PICK a : a = pAttachInfo[m_mapSocketSession[h]] /\ a \in {c, 0}
  BY <1>0, <1>1, <1>2 DEF PlaceInv, Placed, Conns
<1>8. thread[t] \in ThreadStates
  BY DEF OwnInv, TypeInv, TypeOK
<1>9. PICK r : r = [thread[t] EXCEPT !.pc = "erase", !.s = m_mapSocketSession[h], !.a = a, !.c = c]
  OBVIOUS
<1>10. r.pc = "erase" /\ r.a = a /\ r.c = c /\ r.why = thread[t].why
  BY <1>8, <1>9 DEF ThreadStates
<1>11. thread'[t] = r /\ \A u \in Threads : u # t => thread'[u] = thread[u]
  BY <1>0, <1>1, <1>7, <1>9, ThreadBecomes DEF DisconnectFind
<1>12. thread[t].why \in {"ended", "recv"} => client[c] # "up"
  BY <1>0, <1>1, <1>2, FindsArrived DEF DisconnectFind, TokensOK, TurnOK, Losing
<1>13. TurnOK(t)' /\ FoundOK(t)'
  BY <1>1, <1>3, <1>7, <1>10, <1>11, <1>12 DEF TurnOK, FoundOK, Losing
<1>14. QED
  BY <1>2, <1>3, <1>6, <1>11, <1>13, ThreadAlone

(* It frees no block a token names.                                        *)
LEMMA EraseTokens ==
  ASSUME OwnInv, ReportInv, TokenInv, NEW t \in Threads, DisconnectErase(t)
  PROVE  TokenInv'
<1>0. PICK h, s : h = thread[t].h /\ s = thread[t].s
  OBVIOUS
<1>1. UNCHANGED <<open, nConns, client, key, recv, sends, listener>> /\ thread[t].pc = "erase"
  BY DEF DisconnectErase, netVars, ioVars
<1>2. crossed => crossed'
  BY ErasesClosed DEF DisconnectErase, CrossedIf
<1> SUFFICES ASSUME ~crossed' PROVE TokensOK'
  BY DEF TokenInv
<1>3. TokensOK
  BY <1>2 DEF TokenInv
<1>4. ASSUME NEW r \in NamedBlocks, r \in heap
      PROVE  r \in heap' /\ hSocket'[r] = hSocket[r] /\ pAttachInfo'[r] = pAttachInfo[r]
  <2>1. CASE UNCHANGED <<heap, hSocket, pAttachInfo>>
    BY <1>4, <2>1
  <2>2. CASE /\ heap' = heap \ {s}
             /\ hSocket' = [hSocket EXCEPT ![s] = NoSocket]
             /\ pAttachInfo' = [pAttachInfo EXCEPT ![s] = 0]
             /\ CrossedIf(s \in NamedBlocks)
    <3>1. r # s
      BY <1>4, <2>2 DEF CrossedIf
    <3>2. QED
      BY <1>4, <2>2, <3>1, PlaceTypes
  <2>3. QED
    BY <1>0, <2>1, <2>2, ErasesClosed
<1>5. SettingUp' = SettingUp
  BY <1>1 DEF SettingUp, Arriving
<1>6. \A g \in Sockets : open[g] # 0 /\ g \notin SettingUp =>
        m_mapSocketSession'[g] = m_mapSocketSession[g]
  <2>1. open[h] # 0 => h \in SettingUp
    BY <1>0, ErasesClosed DEF SettingUp
  <2>2. m_mapSocketSession' = [m_mapSocketSession EXCEPT ![h] = NoSession]
    BY <1>0, ErasesClosed
  <2>3. QED
    BY <2>1, <2>2, PlaceTypes
<1>7. Keeps
  BY <1>1, <1>4, <1>5, <1>6, KeepsIf
<1>8. CASE Becomes(t, Idle)
  BY <1>1, <1>3, <1>7, <1>8, GoesIdle, ThreadAlone
<1>9. CASE Becomes(t, [thread[t] EXCEPT !.pc = "notify"])
  <2>1. PICK r : r = [thread[t] EXCEPT !.pc = "notify"]
    OBVIOUS
  <2>2. r.pc = "notify" /\ r.c = thread[t].c /\ r.a = thread[t].a /\ r.why = thread[t].why
    BY <2>1 DEF OwnInv, TypeInv, TypeOK, ThreadStates
  <2>3. thread'[t] = r /\ \A u \in Threads : u # t => thread'[u] = thread[u]
    BY <1>9, <2>1, ThreadBecomes
  <2>4. FoundOK(t)'
    BY <1>1, <1>3, <1>7, <2>2, <2>3, FoundKept DEF TokensOK
  <2>5. TurnOK(t)'
    BY <2>2, <2>3 DEF TurnOK, Losing
  <2>6. QED
    BY <1>1, <1>3, <1>7, <2>3, <2>4, <2>5, ThreadAlone
<1>10. QED
  BY <1>8, <1>9 DEF DisconnectErase

LEMMA OtherTokens ==
  ASSUME OwnInv, ReportInv, TokenInv, NEW t \in Threads,
         OnDisconnect(t) \/ (DisconnectFind(t) /\ thread[t].h \notin Connected)
  PROVE  TokenInv'
<1>1. Calm /\ UNCHANGED <<pAttachInfo, client, crossed, recv, sends>> /\ Becomes(t, Idle)
  BY OtherCalm
<1> SUFFICES ASSUME TokensOK PROVE TokensOK'
  BY <1>1 DEF TokenInv
<1>2. Keeps /\ UNCHANGED key
  BY <1>1, CalmKeeps DEF Calm
<1>3. QED
  BY <1>1, <1>2, GoesIdle, ThreadAlone

LEMMA TokenStep == OwnInv /\ ReportInv /\ PlaceInv /\ TokenInv /\ [Next]_vars => TokenInv'
<1> SUFFICES ASSUME OwnInv, ReportInv, PlaceInv, TokenInv, [Next]_vars PROVE TokenInv'
  OBVIOUS
<1>1. CASE UNCHANGED vars
  <2>1. Calm /\ UNCHANGED <<client, key, recv, sends, thread, crossed>>
    BY <1>1 DEF Calm, vars, serverVars, blockVars, netVars, ioVars, appVars
  <2>2. Keeps
    BY <2>1, CalmKeeps
  <2>3. TokensOK => TokensOK'
    BY <2>1, <2>2, TokensStay
  <2>4. QED
    BY <2>1, <2>3 DEF TokenInv
<1>2. ASSUME NEW t \in Threads, DisconnectFind(t) PROVE TokenInv'
  BY <1>2, FoundOrNot, FoundTokens, OtherTokens
<1>3. CASE Next
  BY <1>2, <1>3, ListenProcTokens, EraseTokens, OtherTokens, RunTokens, AppTokens, ClientTokens
     DEF Next, Disconnect
<1>4. QED
  BY <1>1, <1>3

LEMMA TokensCorrect == Spec => [](OwnInv /\ PlaceInv /\ TokenInv)
<1>1. Init => OwnInv /\ ReportInv /\ PlaceInv /\ TokenInv
  BY OwnInit, ReportInit, PlaceInit, TokenInit
<1>2. OwnInv /\ ReportInv /\ PlaceInv /\ TokenInv /\ [Next]_vars
        => (OwnInv /\ ReportInv /\ PlaceInv /\ TokenInv)'
  BY OwnStep, ReportStep, PlaceStep, TokenStep
<1>3. QED
  BY <1>1, <1>2, PTL DEF Spec

(* Whatever the application sends, disconnects or takes away, and whenever *)
(* it does: until connections are crossed, the OVERLAPPED and the buffer   *)
(* of an outstanding receive are in a block that is allocated, the block   *)
(* of the receive's connection while that is open and in no use after.     *)
THEOREM ReceiveOwnsItsBlockCorrect == Spec => []ReceiveOwnsItsBlock
<1>1. ASSUME OwnInv, PlaceInv, TokenInv PROVE ReceiveOwnsItsBlock
  <2> SUFFICES ASSUME ~crossed, NEW c \in Conns, recv[c].on # 0
               PROVE  /\ recv[c].on = c /\ recv[c].io \in heap
                      /\ key[c] \in {recv[c].io, NoSession}
                      /\ IF IsOpen(c) THEN ConnectedAs(c, recv[c].io)
                         ELSE /\ recv[c].io \notin InHand
                              /\ \A h \in Connected :
                                   m_mapSocketSession[h] = recv[c].io => h \in Closing
    BY DEF ReceiveOwnsItsBlock
  <2>1. PICK s, h : s = recv[c].io /\ h = hSocket[s]
    OBVIOUS
  <2>2. /\ recv[c].on = c /\ OwnBlock(c, s) /\ LeadsTo(c, s)
    BY <1>1, <2>1 DEF TokenInv, TokensOK, RecvOK, OwnBlock
  <2>3. /\ s \in heap /\ key[c] \in {s, NoSession} /\ h \in Sockets /\ h \notin SettingUp
        /\ open[h] \in {c, 0} /\ (IsOpen(c) => open[h] = c)
        /\ open[h] = c => m_mapSocketSession[h] = s
    BY <2>1, <2>2 DEF OwnBlock, LeadsTo
  <2>4. CASE IsOpen(c)
    BY <2>1, <2>2, <2>3, <2>4 DEF ConnectedAs
  <2>5. CASE ~IsOpen(c)
    <3>1. s \notin InHand
      <4>1. s \in InHand => s = listener.s /\ listener.pc \in {"associate", "insert"}
        BY DEF InHand
      <4>2. s \in InHand => h = listener.h /\ listener.h \in SettingUp
        BY <1>1, <2>1, <2>3, <4>1 DEF PlaceInv, ListenerPlaced, SettingUp, Arriving
      <4>3. QED
        BY <2>3, <4>2
    <3>2. ASSUME NEW g \in Connected, m_mapSocketSession[g] = s PROVE g \in Closing
      <4>1. g = h /\ g \in Sockets
        BY <1>1, <2>1, <3>2 DEF PlaceInv, Placed, Connected
      <4>2. open[h] = 0
        BY <2>3, <2>5 DEF IsOpen
      <4>3. QED
        BY <1>1, <3>2, <4>1, <4>2 DEF OwnInv, HandlesAccounted
    <3>3. QED
      BY <2>1, <2>2, <2>3, <2>5, <3>1, <3>2
  <2>6. QED
    BY <2>4, <2>5
<1>2. QED
  BY <1>1, TokensCorrect, PTL

(* Until connections are crossed, a worker closes a socket only when its   *)
(* client had left: the handle it read from a block of a connection that   *)
(* the application has broken off is that of no socket.                    *)
THEOREM OnlyLostClientsAreDroppedCorrect == Spec => []OnlyLostClientsAreDropped
<1>1. TokenInv => OnlyLostClientsAreDropped
  BY DEF TokenInv, TokensOK, FoundOK, OnlyLostClientsAreDropped
<1>2. QED
  BY <1>1, TokensCorrect, PTL

(* Until connections are crossed, OnRecv and OnDisconnect are handed the   *)
(* object of the connection they are called for, or none.                  *)
THEOREM AttachFollowsConnectionCorrect == Spec => []AttachFollowsConnection
<1>1. ASSUME OwnInv, TokenInv PROVE AttachFollowsConnection
  <2> SUFFICES ASSUME TokensOK PROVE AttachFollowsConnection
    BY <1>1 DEF TokenInv, AttachFollowsConnection
  <2>1. ASSUME NEW t \in Threads, thread[t].pc = "notify" PROVE thread[t].a \in {thread[t].c, 0}
    BY <2>1 DEF TokensOK, FoundOK
  <2>2. ASSUME NEW c \in Conns, recv[c].got PROVE key[c] = NoSession \/ pAttachInfo[key[c]] \in {c, 0}
    BY <2>2 DEF TokensOK, RecvOK, OwnBlock
  <2>3. QED
    BY <2>1, <2>2 DEF AttachFollowsConnection
<1>2. QED
  BY <1>1, TokensCorrect, PTL
=============================================================================
