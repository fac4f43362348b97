----------------------------- MODULE TcpClient -----------------------------
(***************************************************************************)
(* CTcpClient: one connection, made by Connect under m_lock and closed by  *)
(* Close without it, a thread that connects again (AutoConnect), and the   *)
(* workers of the runner that handle what is received.  One application    *)
(* thread makes the calls.                                                 *)
(*                                                                         *)
(* Sockets are numbered in the order of their creation (Socks), to tell    *)
(* them from one another on one handle; the code knows handles only.       *)
(*                                                                         *)
(* Left out are the send pool's objects, which the client takes and gives  *)
(* back, what is sent and received, and which of the servers it connects   *)
(* to.                                                                     *)
(***************************************************************************)
EXTENDS Integers, FiniteSets

CONSTANTS
  Handles,      \* the handles the system may give out
  App,          \* the application's thread
  AutoThread,   \* the thread that connects again
  Workers,      \* the threads of the runner
  Invalid,      \* INVALID_SOCKET
  NoThread,
  Killed,       \* stands for a thread that was killed, as the owner of a lock
  MaxSockets,   \* bound: sockets created in one behaviour
  Calls,        \* which calls the application makes
  Answers       \* which unlikely answers callbacks and calls may give

CallKinds   == {"open", "local", "close", "send", "auto", "noauto"}
AnswerKinds == {"refused", "oom", "stop", "urgent", "reset"}

Threads == {App, AutoThread} \cup Workers
Socks   == 1 .. MaxSockets

ASSUME BoundsAssumption ==
  /\ MaxSockets \in Nat
  /\ Calls \subseteq CallKinds /\ Answers \subseteq AnswerKinds
ASSUME NamesAssumption ==
  /\ App # AutoThread /\ App \notin Workers /\ AutoThread \notin Workers
  /\ NoThread \notin Threads /\ Killed \notin Threads /\ Killed # NoThread
  /\ Invalid \notin Handles
ASSUME WorkersAssumption == IsFiniteSet(Workers)

VARIABLES
  m_hSocket, m_bIsConnected,
  m_bAutoConnect,
  m_nCheckIntervalTime,  \* "garbage" until it is first assigned
  m_eventAutoConnect,    \* whether the event is signalled
  m_ThreadCmd,           \* the command of m_threadAutoConnect
  m_lock,                \* the thread inside Connect, Killed, or NoThread
  m_nLocalPort,          \* whether it is a port to bind to
  szBuffer,              \* whether PerIoRecv.szBuffer is not NULL
  hPerHandle,            \* PerHandle.hSocket
  pc, ret,               \* where each thread is, and where its subroutine returns to
  hSocket,               \* the local variable of Connect and Send
  on,                    \* the socket whose packet a worker handles
  open,                  \* Winsock: the socket on each handle, 0 where it is closed
  sock,                  \*   what became of each socket
  recv,                  \*   how many receives are outstanding on each socket
  deaf                   \* history: sockets whose receives were ended by OnRecv,
                         \*   or that had no buffer to begin with

stateVars  == <<m_hSocket, m_bIsConnected>>
autoVars   == <<m_bAutoConnect, m_nCheckIntervalTime, m_eventAutoConnect, m_ThreadCmd>>
blockVars  == <<szBuffer, hPerHandle>>
threadVars == <<pc, ret, hSocket, on>>
netVars    == <<open, sock, recv, deaf>>
vars == <<stateVars, autoVars, m_lock, m_nLocalPort, blockVars, threadVars, netVars>>

Goes(t, label) == pc' = [pc EXCEPT ![t] = label]
(* Calls a subroutine, which will go on at `then'.                         *)
Invokes(t, label, then) == Goes(t, label) /\ ret' = [ret EXCEPT ![t] = then]
Returns(t) == Goes(t, ret[t]) /\ ret' = [ret EXCEPT ![t] = "idle"]

IsSocket(h) == h \in Handles /\ open[h] # 0
IsUp(h)     == h \in Handles /\ open[h] # 0 /\ sock[open[h]] # "reset"
nSockets    == Cardinality({n \in Socks : sock[n] # "none"})

----------------------------------------------------------------------------
(* Close and Disconnect, run by any thread and without a lock.             *)

CloseTest(t) ==
  /\ pc[t] = "close"
  /\ IF m_hSocket # Invalid
       THEN /\ Goes(t, "closesocket")
            /\ hSocket' = [hSocket EXCEPT ![t] = m_hSocket]
            /\ UNCHANGED ret
       ELSE Returns(t) /\ UNCHANGED hSocket
  /\ UNCHANGED <<stateVars, autoVars, m_lock, m_nLocalPort, blockVars, on, netVars>>

(* The argument of closesocket is what the test has loaded or, where the   *)
(* compiler loads m_hSocket again, another socket by now.                  *)
CloseSocket(t) ==
  /\ pc[t] = "closesocket"
  /\ \E h \in {hSocket[t], m_hSocket} :
       IF IsSocket(h)
         THEN /\ open' = [open EXCEPT ![h] = 0]
              /\ sock' = [sock EXCEPT ![open[h]] = "gone"]
              /\ deaf' = deaf \ {open[h]}
         ELSE UNCHANGED <<open, sock, deaf>>
  /\ hSocket' = [hSocket EXCEPT ![t] = Invalid]
  /\ Goes(t, "invalid")
  /\ UNCHANGED <<stateVars, autoVars, m_lock, m_nLocalPort, blockVars, ret, on, recv>>

CloseInvalid(t) ==
  /\ pc[t] = "invalid"
  /\ m_hSocket' = Invalid
  /\ Goes(t, "unconnected")
  /\ UNCHANGED <<m_bIsConnected, autoVars, m_lock, m_nLocalPort, blockVars, ret, hSocket, on, netVars>>

CloseUnconnected(t) ==
  /\ pc[t] = "unconnected"
  /\ m_bIsConnected' = FALSE
  /\ Returns(t)
  /\ UNCHANGED <<m_hSocket, autoVars, m_lock, m_nLocalPort, blockVars, hSocket, on, netVars>>

Close(t) == CloseTest(t) \/ CloseSocket(t) \/ CloseInvalid(t) \/ CloseUnconnected(t)

(* CEvent: an event that the end of a wait resets.                         *)
CreateEvent == m_eventAutoConnect' = FALSE
Signal      == m_eventAutoConnect' = TRUE
WaitReturns == m_eventAutoConnect' = FALSE

(* The end of Disconnect, after its Close.                                 *)
DisconnectSignal(t) ==
  /\ pc[t] = "signal"
  /\ IF m_bAutoConnect THEN Signal ELSE UNCHANGED m_eventAutoConnect
  /\ Goes(t, "idle")
  /\ UNCHANGED <<stateVars, m_bAutoConnect, m_nCheckIntervalTime, m_ThreadCmd,
                 m_lock, m_nLocalPort, blockVars, ret, hSocket, on, netVars>>

Disconnect(t) == Invokes(t, "close", "signal")

----------------------------------------------------------------------------
(* Connect, run by the application (Open) and by AutoConnect.  A caller at *)
(* "connected" got TRUE, one at "failed" got FALSE.                        *)

ConnectLock(t) ==
  /\ pc[t] = "lock"
  /\ m_lock = NoThread
  /\ m_lock' = t
  /\ Invokes(t, "close", "socket")
  /\ UNCHANGED <<stateVars, autoVars, m_nLocalPort, blockVars, hSocket, on, netVars>>

(* `on' is the number of the new socket; another thread's Close may have   *)
(* closed its handle.                                                      *)
IsMine(t) == open[hSocket[t]] = on[t]

ConnectFails(t) ==
  /\ Goes(t, "failed")
  /\ m_lock' = NoThread
  /\ hSocket' = [hSocket EXCEPT ![t] = Invalid]
  /\ on' = [on EXCEPT ![t] = 0]

WSASocket(t) ==
  /\ pc[t] = "socket"
  /\ \/ /\ nSockets < MaxSockets
        /\ \E h \in Handles :
             /\ open[h] = 0
             /\ open' = [open EXCEPT ![h] = nSockets + 1]
             /\ hSocket' = [hSocket EXCEPT ![t] = h]
        /\ on' = [on EXCEPT ![t] = nSockets + 1]
        /\ sock' = [sock EXCEPT ![nSockets + 1] = "new"]
        /\ Goes(t, "connect")
        /\ UNCHANGED m_lock
     \/ /\ nSockets = MaxSockets \/ \A h \in Handles : open[h] # 0
        /\ ConnectFails(t)
        /\ UNCHANGED <<open, sock>>
  /\ UNCHANGED <<stateVars, autoVars, m_nLocalPort, blockVars, ret, recv, deaf>>

(* bind, where there is a port for it, is given m_hSocket in place of the  *)
(* new socket.  Then come the address, resolved or not, and connect: they  *)
(* may take long.  Where one fails the new socket is left open.            *)
BindFails == m_nLocalPort /\ ~IsSocket(m_hSocket)

ConnectAddr(t) ==
  /\ pc[t] = "connect"
  /\ \/ /\ IsMine(t) /\ ~BindFails
        /\ sock' = [sock EXCEPT ![on[t]] = "up"]
        /\ Goes(t, "attach")
        /\ UNCHANGED <<m_lock, hSocket, on>>
     \/ /\ "refused" \in Answers \/ ~IsMine(t) \/ BindFails
        /\ ConnectFails(t)
        /\ UNCHANGED sock
  /\ UNCHANGED <<stateVars, autoVars, m_nLocalPort, blockVars, ret, open, recv, deaf>>

(* The buffer, of which there is one, PerHandle and the completion port.   *)
ConnectAttach(t) ==
  /\ pc[t] = "attach"
  /\ \/ szBuffer' = TRUE
     \/ "oom" \in Answers /\ szBuffer' = FALSE
  /\ hPerHandle' = hSocket[t]
  /\ Goes(t, "recv")
  /\ UNCHANGED <<stateVars, autoVars, m_lock, m_nLocalPort, ret, hSocket, on, netVars>>

(* Variant: the first receive of a later connection is left to the worker. *)
ConnectRecvOnce(t) ==
  /\ pc[t] = "recv"
  /\ recv' = IF on[t] = 1 THEN [recv EXCEPT ![1] = @ + 1] ELSE recv
  /\ Goes(t, "store")
  /\ UNCHANGED <<stateVars, autoVars, m_lock, m_nLocalPort, blockVars, ret, hSocket, on, open, sock, deaf>>

(* The result of WSARecv is not looked at.                                 *)
ConnectRecv(t) ==
  /\ pc[t] = "recv"
  /\ recv' = IF szBuffer /\ IsMine(t) /\ sock[on[t]] # "reset"
               THEN [recv EXCEPT ![on[t]] = @ + 1] ELSE recv
  /\ deaf' = IF szBuffer \/ ~IsMine(t) THEN deaf ELSE deaf \cup {on[t]}
  /\ Goes(t, "store")
  /\ UNCHANGED <<stateVars, autoVars, m_lock, m_nLocalPort, blockVars, ret, hSocket, on, open, sock>>

ConnectStore(t) ==
  /\ pc[t] = "store"
  /\ m_hSocket' = hSocket[t]
  /\ Goes(t, "flag")
  /\ UNCHANGED <<m_bIsConnected, autoVars, m_lock, m_nLocalPort, blockVars, ret, hSocket, on, netVars>>

ConnectFlag(t) ==
  /\ pc[t] = "flag"
  /\ m_bIsConnected' = TRUE
  /\ m_lock' = NoThread
  /\ hSocket' = [hSocket EXCEPT ![t] = Invalid]
  /\ on' = [on EXCEPT ![t] = 0]
  /\ Goes(t, "connected")
  /\ UNCHANGED <<m_hSocket, autoVars, m_nLocalPort, blockVars, ret, netVars>>

Connect(t) ==
  \/ ConnectLock(t) \/ WSASocket(t) \/ ConnectAddr(t) \/ ConnectAttach(t)
  \/ ConnectRecv(t) \/ ConnectStore(t) \/ ConnectFlag(t)

----------------------------------------------------------------------------
(* The workers of the runner.  A packet without bytes makes the runner     *)
(* call Disconnect(SOCKET, bool), which CTcpClient does not override: its  *)
(* own Disconnect takes a BOOL, and the one of CSocketSource does nothing. *)

DequeueEnded(w, n) ==
  /\ pc[w] = "idle"
  /\ recv[n] > 0 /\ sock[n] # "up"
  /\ recv' = [recv EXCEPT ![n] = @ - 1]
  /\ UNCHANGED <<stateVars, autoVars, m_lock, m_nLocalPort, blockVars, threadVars, open, sock, deaf>>

DequeueData(w, n) ==
  /\ pc[w] = "idle"
  /\ recv[n] > 0
  /\ recv' = [recv EXCEPT ![n] = @ - 1]
  /\ on' = [on EXCEPT ![w] = n]
  /\ Goes(w, "onrecv")
  /\ UNCHANGED <<stateVars, autoVars, m_lock, m_nLocalPort, blockVars, ret, hSocket, open, sock, deaf>>

(* Variant: a receive that is pending is taken for a failure and repeated. *)
PostRecvTwice(w) ==
  /\ IF IsUp(hPerHandle)
       THEN recv' = [recv EXCEPT ![open[hPerHandle]] = @ + 2]
       ELSE UNCHANGED recv
  /\ Goes(w, "idle")
  /\ UNCHANGED <<ret, deaf>>

(* OnRecv, which may not want more, and PostRecv.  PerHandle.hSocket is    *)
(* read after the callback, whichever socket the packet was for.           *)
PostRecv(w) ==
  /\ \/ /\ IsUp(hPerHandle)
        /\ recv' = [recv EXCEPT ![open[hPerHandle]] = @ + 1]
        /\ Goes(w, "idle")
        /\ UNCHANGED ret
     \/ /\ ~IsUp(hPerHandle)
        /\ Disconnect(w)
        /\ UNCHANGED recv
  /\ UNCHANGED deaf

StopRecv(w) ==
  /\ "stop" \in Answers
  /\ deaf' = IF sock[on[w]] = "gone" THEN deaf ELSE deaf \cup {on[w]}
  /\ Goes(w, "idle")
  /\ UNCHANGED <<ret, recv>>

OnRecv(w) ==
  /\ pc[w] = "onrecv"
  /\ PostRecv(w) \/ StopRecv(w)
  /\ on' = [on EXCEPT ![w] = 0]
  /\ UNCHANGED <<stateVars, autoVars, m_lock, m_nLocalPort, blockVars, hSocket, open, sock>>

----------------------------------------------------------------------------
(* The application's calls.                                                *)

Calling(call) == pc[App] = "idle" /\ call \in Calls

Open ==
  /\ Calling("open")
  /\ \E local \in IF "local" \in Calls THEN BOOLEAN ELSE {FALSE} : m_nLocalPort' = local
  /\ Goes(App, "lock")
  /\ UNCHANGED <<stateVars, autoVars, m_lock, blockVars,
                 ret, hSocket, on, netVars>>

OpenEnds ==
  /\ pc[App] \in {"connected", "failed"}
  /\ IF pc[App] = "failed" /\ m_bAutoConnect THEN Signal ELSE UNCHANGED m_eventAutoConnect
  /\ Goes(App, "idle")
  /\ UNCHANGED <<stateVars, m_bAutoConnect, m_nCheckIntervalTime, m_ThreadCmd,
                 m_lock, m_nLocalPort, blockVars, ret, hSocket, on, netVars>>

AppClose ==
  /\ Calling("close")
  /\ Invokes(App, "close", "idle")
  /\ UNCHANGED <<stateVars, autoVars, m_lock, m_nLocalPort, blockVars, hSocket, on, netVars>>

(* Send tests the state and then reads the handle.                         *)
Send ==
  /\ Calling("send")
  /\ m_hSocket # Invalid /\ m_bIsConnected
  /\ Goes(App, "send")
  /\ UNCHANGED <<stateVars, autoVars, m_lock, m_nLocalPort, blockVars, ret, hSocket, on, netVars>>

SendHandle ==
  /\ pc[App] = "send"
  /\ hSocket' = [hSocket EXCEPT ![App] = m_hSocket]
  /\ Goes(App, "wsasend")
  /\ UNCHANGED <<stateVars, autoVars, m_lock, m_nLocalPort, blockVars, ret, on, netVars>>

(* One round of the loop over the segments; there may be no other, or the  *)
(* send pool may have no object for it.                                    *)
WSASend ==
  /\ pc[App] = "wsasend"
  /\ IF IsUp(hSocket[App]) THEN Goes(App, "wsasend") \/ Goes(App, "idle")
     ELSE Goes(App, "sendfailed")
  /\ UNCHANGED <<stateVars, autoVars, m_lock, m_nLocalPort, blockVars, ret, hSocket, on, netVars>>

SendFails ==
  /\ pc[App] = "sendfailed"
  /\ IF hSocket[App] = m_hSocket THEN Disconnect(App) ELSE Goes(App, "idle") /\ UNCHANGED ret
  /\ UNCHANGED <<stateVars, autoVars, m_lock, m_nLocalPort, blockVars, hSocket, on, netVars>>

----------------------------------------------------------------------------
(* SetAutoConnect.                                                         *)

(* Variant: the command of the thread's last life is not reset.            *)
StartAutoConnectKeepsCmd ==
  /\ Calling("auto")
  /\ IF m_bAutoConnect
       THEN Goes(App, "autoflags") /\ UNCHANGED <<m_eventAutoConnect, m_ThreadCmd>>
       ELSE /\ CreateEvent
            /\ pc' = [pc EXCEPT ![App] = "autoflags", ![AutoThread] = "enter"]
            /\ UNCHANGED m_ThreadCmd
  /\ UNCHANGED <<stateVars, m_bAutoConnect, m_nCheckIntervalTime, m_lock,
                 m_nLocalPort, blockVars, ret, hSocket, on, netVars>>

(* The event and the thread are made; the flag and the times are set after *)
(* that, when the thread may already have read them.                       *)
StartAutoConnect ==
  /\ Calling("auto")
  /\ IF m_bAutoConnect
       THEN Goes(App, "autoflags") /\ UNCHANGED <<m_eventAutoConnect, m_ThreadCmd>>
       ELSE /\ CreateEvent
            /\ m_ThreadCmd' = "nothing"
            /\ pc' = [pc EXCEPT ![App] = "autoflags", ![AutoThread] = "enter"]
  /\ UNCHANGED <<stateVars, m_bAutoConnect, m_nCheckIntervalTime, m_lock,
                 m_nLocalPort, blockVars, ret, hSocket, on, netVars>>

StopAutoConnect ==
  /\ Calling("noauto")
  /\ IF m_bAutoConnect
       THEN Signal /\ Goes(App, "autostop")
       ELSE UNCHANGED m_eventAutoConnect /\ Goes(App, "noflags")
  /\ UNCHANGED <<stateVars, m_bAutoConnect, m_nCheckIntervalTime, m_ThreadCmd,
                 m_lock, m_nLocalPort, blockVars, ret, hSocket, on, netVars>>

StopCommand ==
  /\ pc[App] = "autostop"
  /\ m_ThreadCmd' = "stop"
  /\ Goes(App, "autowait")
  /\ UNCHANGED <<stateVars, m_bAutoConnect, m_nCheckIntervalTime, m_eventAutoConnect,
                 m_lock, m_nLocalPort, blockVars, ret, hSocket, on, netVars>>

(* Stop waits for 258 ms.  They run out only on a thread that sleeps, or   *)
(* is in connect or select, or waits for the lock.  Kill leaves a lock     *)
(* that the thread holds as it is.                                         *)
SlowPlaces == {"sleep", "connect", "select", "lock"}

StopWaitKill ==
  /\ pc[App] = "autowait"
  /\ pc[AutoThread] \in SlowPlaces \cup {"none"}
  /\ pc' = [pc EXCEPT ![App] = "noflags", ![AutoThread] = "none"]
  /\ m_lock' = IF m_lock = AutoThread THEN Killed ELSE m_lock
  /\ hSocket' = [hSocket EXCEPT ![AutoThread] = Invalid]
  /\ on' = [on EXCEPT ![AutoThread] = 0]
  /\ UNCHANGED <<stateVars, autoVars, m_nLocalPort, blockVars, ret, netVars>>

SetFlags ==
  /\ pc[App] \in {"autoflags", "noflags"}
  /\ m_bAutoConnect' = (pc[App] = "autoflags")
  /\ m_nCheckIntervalTime' = "set"
  /\ Goes(App, "idle")
  /\ UNCHANGED <<stateVars, m_eventAutoConnect, m_ThreadCmd, m_lock, m_nLocalPort,
                 blockVars, ret, hSocket, on, netVars>>

----------------------------------------------------------------------------
(* The thread AutoConnect, with IsRealConnected.                           *)

(* It reads the time to wait for: garbage may stand for any time, one      *)
(* without end included ("hang").                                          *)
WaitEnters ==
  /\ pc[AutoThread] = "enter"
  /\ \/ Goes(AutoThread, "wait")
     \/ m_nCheckIntervalTime = "garbage" /\ Goes(AutoThread, "hang")
  /\ UNCHANGED <<stateVars, autoVars, m_lock, m_nLocalPort, blockVars, ret, hSocket, on, netVars>>

WaitEnds ==
  /\ pc[AutoThread] = "wait" \/ (pc[AutoThread] = "hang" /\ m_eventAutoConnect)
  /\ WaitReturns
  /\ Goes(AutoThread, IF m_ThreadCmd = "stop" THEN "none" ELSE "real")
  /\ UNCHANGED <<stateVars, m_bAutoConnect, m_nCheckIntervalTime, m_ThreadCmd,
                 m_lock, m_nLocalPort, blockVars, ret, hSocket, on, netVars>>

IsRealConnected ==
  /\ pc[AutoThread] = "real"
  /\ IF m_hSocket = Invalid
       THEN m_bIsConnected' = FALSE /\ Goes(AutoThread, "retry")
       ELSE UNCHANGED m_bIsConnected /\ Goes(AutoThread, "select")
  /\ UNCHANGED <<m_hSocket, autoVars, m_lock, m_nLocalPort, blockVars, ret, hSocket, on, netVars>>

(* select fails on what is not a socket.  One that the peer has closed or  *)
(* reset is readable, and no error to select; urgent data count as one.    *)
Select ==
  /\ pc[AutoThread] = "select"
  /\ \/ /\ IsSocket(m_hSocket)
        /\ Goes(AutoThread, "alive") /\ UNCHANGED ret
     \/ /\ ~IsSocket(m_hSocket) \/ ("urgent" \in Answers /\ IsUp(m_hSocket))
        /\ Invokes(AutoThread, "close", "retry")
  /\ UNCHANGED <<stateVars, autoVars, m_lock, m_nLocalPort, blockVars, hSocket, on, netVars>>

RealConnected ==
  /\ pc[AutoThread] = "alive"
  /\ m_bIsConnected' = TRUE
  /\ Goes(AutoThread, "enter")
  /\ UNCHANGED <<m_hSocket, autoVars, m_lock, m_nLocalPort, blockVars, ret, hSocket, on, netVars>>

Retry ==
  /\ pc[AutoThread] = "retry"
  /\ Goes(AutoThread, IF m_ThreadCmd = "stop" THEN "none" ELSE "sleep")
  /\ UNCHANGED <<stateVars, autoVars, m_lock, m_nLocalPort, blockVars, ret, hSocket, on, netVars>>

(* After a failure the next server of the list is tried.                   *)
RetrySleep ==
  /\ pc[AutoThread] = "sleep"
  /\ Goes(AutoThread, "lock")
  /\ UNCHANGED <<stateVars, autoVars, m_lock, m_nLocalPort, blockVars, ret, hSocket, on, netVars>>

Retried ==
  /\ pc[AutoThread] \in {"connected", "failed"}
  /\ Goes(AutoThread, IF pc[AutoThread] = "connected" THEN "enter" ELSE "retry")
  /\ UNCHANGED <<stateVars, autoVars, m_lock, m_nLocalPort, blockVars, ret, hSocket, on, netVars>>

AutoConnect ==
  WaitEnters \/ WaitEnds \/ IsRealConnected \/ Select \/ RealConnected \/ Retry \/ RetrySleep \/ Retried

----------------------------------------------------------------------------

(* The peer closes or breaks the connection.                               *)
PeerLeaves(n) ==
  /\ sock[n] = "up"
  /\ \E how \in {"closed"} \cup (Answers \cap {"reset"}) : sock' = [sock EXCEPT ![n] = how]
  /\ UNCHANGED <<stateVars, autoVars, m_lock, m_nLocalPort, blockVars, threadVars, open, recv, deaf>>

Init ==
  /\ m_hSocket = Invalid /\ m_bIsConnected = FALSE
  /\ m_bAutoConnect = FALSE /\ m_nCheckIntervalTime = "garbage"
  /\ m_eventAutoConnect = FALSE /\ m_ThreadCmd = "nothing"
  /\ m_lock = NoThread
  /\ m_nLocalPort = FALSE
  /\ szBuffer = FALSE /\ hPerHandle = Invalid
  /\ pc = [t \in Threads |-> IF t = AutoThread THEN "none" ELSE "idle"]
  /\ ret = [t \in Threads |-> "idle"]
  /\ hSocket = [t \in Threads |-> Invalid]
  /\ on = [t \in Threads |-> 0]
  /\ open = [h \in Handles |-> 0]
  /\ sock = [n \in Socks |-> "none"]
  /\ recv = [n \in Socks |-> 0]
  /\ deaf = {}

(* What each thread does within its calls and callbacks.                   *)
Called(t)   == Close(t) \/ DisconnectSignal(t) \/ Connect(t)
AppRuns     == \/ Called(App) \/ OpenEnds \/ SendHandle \/ WSASend \/ SendFails
               \/ StopCommand \/ StopWaitKill \/ SetFlags
AutoRuns    == Called(AutoThread) \/ AutoConnect
WorkerRuns(w) == Called(w) \/ OnRecv(w)

AppCalls == Open \/ AppClose \/ Send \/ StartAutoConnect \/ StopAutoConnect

Next ==
  \/ AppCalls \/ AppRuns \/ AutoRuns
  \/ \E w \in Workers : WorkerRuns(w) \/ \E n \in Socks : DequeueEnded(w, n) \/ DequeueData(w, n)
  \/ \E n \in Socks : PeerLeaves(n)

Spec == Init /\ [][Next]_vars

(* The scheduler runs every thread, a lock that is free is got, callbacks  *)
(* return, and time passes: waits, sleeps and connect come to an end.      *)
Fairness == SF_vars(AppRuns) /\ SF_vars(AutoRuns) /\ \A w \in Workers : WF_vars(WorkerRuns(w))

FairSpec == Spec /\ Fairness

----------------------------------------------------------------------------

Places == {"none", "idle", "close", "closesocket", "invalid", "unconnected", "signal",
           "lock", "socket", "connect", "attach", "recv", "store", "flag", "connected", "failed",
           "onrecv", "send", "wsasend", "sendfailed",
           "autoflags", "autostop", "autowait", "noflags",
           "enter", "wait", "hang", "real", "select", "alive", "retry", "sleep"}

TypeOK ==
  /\ m_hSocket \in Handles \cup {Invalid} /\ m_bIsConnected \in BOOLEAN
  /\ m_bAutoConnect \in BOOLEAN /\ m_nCheckIntervalTime \in {"garbage", "set"}
  /\ m_eventAutoConnect \in BOOLEAN /\ m_ThreadCmd \in {"nothing", "stop"}
  /\ m_lock \in Threads \cup {Killed, NoThread}
  /\ m_nLocalPort \in BOOLEAN
  /\ szBuffer \in BOOLEAN /\ hPerHandle \in Handles \cup {Invalid}
  /\ pc \in [Threads -> Places]
  /\ ret \in [Threads -> {"idle", "signal", "socket", "retry"}]
  /\ hSocket \in [Threads -> Handles \cup {Invalid}]
  /\ on \in [Threads -> 0 .. MaxSockets]
  /\ open \in [Handles -> 0 .. MaxSockets]
  /\ sock \in [Socks -> {"none", "new", "up", "closed", "reset", "gone"}]
  /\ recv \in [Socks -> 0 .. MaxSockets]
  /\ deaf \subseteq Socks

(* The client listens: on the connection that m_hSocket names there is a   *)
(* receive, or a worker is about to post one, as long as the peer is there *)
(* and OnRecv wants more.                                                  *)
ClientListens ==
  \A h \in Handles :
    (m_hSocket = h /\ open[h] # 0 /\ sock[open[h]] = "up" /\ open[h] \notin deaf)
      => \/ recv[open[h]] > 0
         \/ \E w \in Workers : on[w] = open[h] /\ pc[w] = "onrecv"

(* With reconnecting on, a client without a socket tries to connect again, *)
(* unless the reconnecting thread waits for ever (m_nCheckIntervalTime was *)
(* read before it was set) or its predecessor was killed with the lock.    *)
LossIsRetried ==
  (m_bAutoConnect /\ ~IsSocket(m_hSocket))
    ~> \/ ~m_bAutoConnect \/ IsSocket(m_hSocket)
       \/ \E t \in {App, AutoThread} : pc[t] = "socket"
       \/ m_lock = Killed \/ pc[AutoThread] = "hang"
=============================================================================
