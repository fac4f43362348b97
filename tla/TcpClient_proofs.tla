-------------------------- MODULE TcpClient_proofs --------------------------
(***************************************************************************)
(* Proofs, for every number of sockets, handles and workers, of the        *)
(* invariants of TcpClient.                                                *)
(***************************************************************************)
EXTENDS TcpClient, FiniteSetTheorems, TLAPS

ClosePlaces == {"close", "closesocket", "invalid", "unconnected"}
NewPlaces   == {"connect", "attach", "recv"}
InConnect(t) == ret[t] = "socket" \/ pc[t] \in NewPlaces \cup {"socket", "store", "flag"}

(* The numbers of the sockets are given out in order.                      *)
Numbered ==
  /\ \A n \in Socks : sock[n] # "none" <=> n <= nSockets
  /\ \A h \in Handles : open[h] <= nSockets

(* The lock is that of the thread inside Connect, so there is one at most; *)
(* its socket is on its handle, or nothing is.                             *)
LockOK ==
  /\ \A t \in Threads : InConnect(t) => m_lock = t
  /\ \A t \in Threads : ret[t] = "socket" => pc[t] \in ClosePlaces
ConnectOK ==
  /\ \A t \in Threads : pc[t] \in NewPlaces =>
       on[t] \in Socks /\ hSocket[t] \in Handles /\ open[hSocket[t]] \in {0, on[t]}
  /\ \A t \in Threads : pc[t] = "onrecv" => on[t] \in Socks

(* What m_hSocket names, PerHandle names too: it is stored there first, by *)
(* a thread inside Connect, which had m_hSocket invalidated when it began. *)
StateOK ==
  /\ m_hSocket # Invalid => m_hSocket = hPerHandle
  /\ \A t \in Threads : pc[t] \in NewPlaces \cup {"socket", "store"} => m_hSocket = Invalid
  /\ \A t \in Threads : pc[t] = "unconnected" /\ ret[t] = "socket" => m_hSocket = Invalid
  /\ \A t \in Threads : pc[t] \in {"recv", "store"} => hPerHandle = hSocket[t]

(* The thread that connects again lives from SetAutoConnect to the next.   *)
AutoOK ==
  /\ pc[AutoThread] # "none" => m_bAutoConnect \/ pc[App] = "autoflags"
  /\ pc[App] \in {"autostop", "autowait"} => m_bAutoConnect
  /\ pc[App] = "noflags" => pc[AutoThread] = "none"

(* A connection brings one receive into the world: it is outstanding, or   *)
(* handled by a worker, or about to be posted for the first time.          *)
Slots      == {s \in Socks \X (1 .. MaxSockets) : s[2] <= recv[s[1]]}
Handling   == {t \in Threads : pc[t] = "onrecv"}
Connecting == {t \in Threads : pc[t] \in NewPlaces}
CountOK == Cardinality(Slots) + Cardinality(Handling) + Cardinality(Connecting) <= nSockets

(* The socket that PerHandle names listens, or will.                       *)
Listens(n) ==
  \/ recv[n] > 0
  \/ \E w \in Workers : on[w] = n /\ pc[w] = "onrecv"
  \/ \E t \in Threads : on[t] = n /\ pc[t] \in {"attach", "recv"}
ListensOK ==
  hPerHandle \in Handles /\ open[hPerHandle] # 0 =>
    sock[open[hPerHandle]] # "up" \/ open[hPerHandle] \in deaf \/ Listens(open[hPerHandle])

ClientInv ==
  TypeOK /\ Numbered /\ LockOK /\ ConnectOK /\ StateOK /\ AutoOK /\ CountOK /\ ListensOK

----------------------------------------------------------------------------
(* Counting.                                                               *)

LEMMA Names ==
  /\ MaxSockets \in Nat /\ App # AutoThread /\ App \in Threads /\ AutoThread \in Threads
  /\ Workers \subseteq Threads
  /\ NoThread \notin Threads /\ Killed \notin Threads /\ Killed # NoThread /\ Invalid \notin Handles
  /\ AutoThread \notin Workers /\ App \notin Workers
<1>1. MaxSockets \in Nat
  BY BoundsAssumption
<1>2. App \in Threads
  BY DEF Threads
<1>3. AutoThread \in Threads
  BY DEF Threads
<1>4. Workers \subseteq Threads
  BY DEF Threads
<1>. QED BY <1>1, <1>2, <1>3, <1>4, NamesAssumption

LEMMA Finite ==
  /\ IsFiniteSet(Threads) /\ IsFiniteSet(Socks) /\ IsFiniteSet(Slots) /\ Cardinality(Slots) \in Nat
  /\ \A S \in SUBSET Threads : IsFiniteSet(S) /\ Cardinality(S) \in Nat
<1>1. IsFiniteSet({App, AutoThread})
  <2>1. IsFiniteSet({App}) /\ IsFiniteSet({AutoThread}) /\ {App, AutoThread} = {App} \cup {AutoThread}
    BY FS_Singleton
  <2>. QED BY <2>1, FS_Union
<1>2. IsFiniteSet(Threads)
  <2>1. IsFiniteSet({App, AutoThread} \cup Workers)
    BY <1>1, WorkersAssumption, FS_Union
  <2>2. {App, AutoThread} \cup Workers = Threads
    BY DEF Threads
  <2>. QED BY <2>1, <2>2
<1>3. IsFiniteSet(Socks) /\ IsFiniteSet(1 .. MaxSockets)
  BY Names, FS_Interval DEF Socks
<1>4. IsFiniteSet(Socks \X (1 .. MaxSockets))
  BY <1>3, FS_Product
<1>5. IsFiniteSet(Slots)
  BY <1>4, FS_Subset DEF Slots
<1>. QED BY <1>2, <1>3, <1>5, FS_Subset, FS_CardinalityType

(* The threads that are at one of the places P, after one has gone to x.   *)
LEMMA Moves ==
  ASSUME NEW P, pc \in [Threads -> Places], NEW t \in Threads, NEW x, pc' = [pc EXCEPT ![t] = x]
  PROVE  LET A == {u \in Threads : pc[u] \in P}
             B == {u \in Threads : pc'[u] \in P}
         IN  /\ pc[t] \notin P /\ x \notin P => Cardinality(B) = Cardinality(A)
             /\ pc[t] \in P /\ x \in P => Cardinality(B) = Cardinality(A)
             /\ pc[t] \in P /\ x \notin P => Cardinality(B) = Cardinality(A) - 1
             /\ pc[t] \notin P /\ x \in P => Cardinality(B) = Cardinality(A) + 1
<1> DEFINE A == {u \in Threads : pc[u] \in P}
           B == {u \in Threads : pc'[u] \in P}
<1>1. B = IF x \in P THEN A \cup {t} ELSE A \ {t}
  OBVIOUS
<1>2. IsFiniteSet(A) /\ (t \in A <=> pc[t] \in P)
  BY Finite
<1>3. Cardinality(A \cup {t}) = IF t \in A THEN Cardinality(A) ELSE Cardinality(A) + 1
  BY <1>2, FS_AddElement
<1>4. Cardinality(A \ {t}) = IF t \in A THEN Cardinality(A) - 1 ELSE Cardinality(A)
  BY <1>2, FS_RemoveElement
<1>. HIDE DEF A, B
<1>5. /\ pc[t] \notin P /\ x \notin P => Cardinality(B) = Cardinality(A)
      /\ pc[t] \in P /\ x \in P => Cardinality(B) = Cardinality(A)
      /\ pc[t] \in P /\ x \notin P => Cardinality(B) = Cardinality(A) - 1
      /\ pc[t] \notin P /\ x \in P => Cardinality(B) = Cardinality(A) + 1
  BY <1>1, <1>2, <1>3, <1>4
<1>. QED BY <1>5 DEF A, B

(* No socket has more receives than there are altogether.                  *)
LEMMA RecvFits ==
  ASSUME TypeOK, NEW n \in Socks
  PROVE  recv[n] <= Cardinality(Slots)
<1>1. recv[n] \in 0 .. MaxSockets /\ recv[n] \in Nat
  BY Names DEF TypeOK
<1>2. {n} \X (1 .. recv[n]) \subseteq Slots
  <2>1. ASSUME NEW s \in {n} \X (1 .. recv[n]) PROVE s \in Slots
    <3>1. s = <<n, s[2]>> /\ s[1] = n /\ s[2] \in 1 .. recv[n]
      OBVIOUS
    <3>2. s[2] \in 1 .. MaxSockets /\ s[2] <= recv[s[1]]
      BY <1>1, <3>1, Names
    <3>. QED BY <3>1, <3>2 DEF Slots
  <2>. QED BY <2>1
<1>3. Cardinality({n} \X (1 .. recv[n])) = recv[n]
  <2>1. IsFiniteSet({n}) /\ Cardinality({n}) = 1
    BY FS_Singleton
  <2>2. IsFiniteSet(1 .. recv[n]) /\ Cardinality(1 .. recv[n]) = recv[n]
    BY <1>1, FS_Interval
  <2>3. \A A, B : IsFiniteSet(A) /\ IsFiniteSet(B) => Cardinality(A \X B) = Cardinality(A) * Cardinality(B)
    BY FS_Product
  <2>4. Cardinality({n} \X (1 .. recv[n])) = 1 * recv[n]
    <3>1. Cardinality({n} \X (1 .. recv[n])) = Cardinality({n}) * Cardinality(1 .. recv[n])
      BY <2>1, <2>2, <2>3, Zenon
    <3>2. Cardinality({n}) = 1 /\ Cardinality(1 .. recv[n]) = recv[n]
      BY <2>1, <2>2, Zenon
    <3>. QED BY <3>1, <3>2, Zenon
  <2>. QED BY <1>1, <2>4
<1>. QED BY <1>2, <1>3, Finite, FS_Subset

(* A receive is posted, or its packet dequeued.                            *)
LEMMA SlotAdded ==
  ASSUME TypeOK, NEW n \in Socks, recv[n] + 1 <= MaxSockets, recv' = [recv EXCEPT ![n] = @ + 1]
  PROVE  Cardinality(Slots') = Cardinality(Slots) + 1
<1>1. recv[n] \in Nat /\ recv[n] + 1 \in 1 .. MaxSockets
  BY Names DEF TypeOK
<1>2. PICK e : e = <<n, recv[n] + 1>>
  OBVIOUS
<1>3. e \in Socks \X (1 .. MaxSockets) /\ e[1] = n /\ e[2] = recv[n] + 1 /\ e \notin Slots
  BY <1>1, <1>2 DEF Slots
<1>4. ASSUME NEW s \in Socks \X (1 .. MaxSockets)
      PROVE  s[2] <= recv'[s[1]] <=> s[2] <= recv[s[1]] \/ s = e
  <2>1. s = <<s[1], s[2]>> /\ s[1] \in Socks /\ s[2] \in Nat
    OBVIOUS
  <2>2. recv[s[1]] \in Nat
    BY <2>1 DEF TypeOK
  <2>3. CASE s[1] = n
    <3>1. recv'[s[1]] = recv[n] + 1
      BY <2>3 DEF TypeOK
    <3>2. s = e <=> s[2] = recv[n] + 1
      BY <1>2, <2>1, <2>3
    <3>. QED BY <1>1, <2>1, <2>3, <3>1, <3>2
  <2>4. CASE s[1] # n
    <3>1. recv'[s[1]] = recv[s[1]] /\ s # e
      BY <1>3, <2>1, <2>4 DEF TypeOK
    <3>. QED BY <3>1
  <2>. QED BY <2>3, <2>4
<1>5. Slots' = Slots \cup {e}
  BY <1>3, <1>4 DEF Slots
<1>. QED BY <1>3, <1>5, Finite, FS_AddElement

LEMMA SlotTaken ==
  ASSUME TypeOK, NEW n \in Socks, recv[n] > 0, recv' = [recv EXCEPT ![n] = @ - 1]
  PROVE  Cardinality(Slots') = Cardinality(Slots) - 1
<1>1. recv[n] \in Nat /\ recv[n] \in 1 .. MaxSockets
  BY Names DEF TypeOK
<1>2. PICK e : e = <<n, recv[n]>>
  OBVIOUS
<1>3. e \in Socks \X (1 .. MaxSockets) /\ e[1] = n /\ e[2] = recv[n] /\ e \in Slots
  BY <1>1, <1>2 DEF Slots
<1>4. ASSUME NEW s \in Socks \X (1 .. MaxSockets)
      PROVE  s[2] <= recv'[s[1]] <=> s[2] <= recv[s[1]] /\ s # e
  <2>1. s = <<s[1], s[2]>> /\ s[1] \in Socks /\ s[2] \in Nat
    OBVIOUS
  <2>2. recv[s[1]] \in Nat
    BY <2>1 DEF TypeOK
  <2>3. CASE s[1] = n
    <3>1. recv'[s[1]] = recv[n] - 1
      BY <2>3 DEF TypeOK
    <3>2. s = e <=> s[2] = recv[n]
      BY <1>2, <2>1, <2>3
    <3>. QED BY <1>1, <2>1, <2>3, <3>1, <3>2
  <2>4. CASE s[1] # n
    <3>1. recv'[s[1]] = recv[s[1]] /\ s # e
      BY <1>3, <2>1, <2>4 DEF TypeOK
    <3>. QED BY <3>1
  <2>. QED BY <2>3, <2>4
<1>5. Slots' = Slots \ {e}
  BY <1>3, <1>4 DEF Slots
<1>. QED BY <1>3, <1>5, Finite, FS_RemoveElement

LEMMA TypeParts ==
  ASSUME TypeOK, NEW t \in Threads
  PROVE  /\ pc[t] \in Places /\ ret[t] \in Places /\ ret[t] \in {"idle", "signal", "socket", "retry"}
         /\ hSocket[t] \in Handles \cup {Invalid} /\ on[t] \in 0 .. MaxSockets
BY DEF TypeOK, Places

LEMMA ClientInit == Init => ClientInv
<1>. SUFFICES ASSUME Init PROVE ClientInv
  OBVIOUS
<1>. USE Names
<1>1. TypeOK
  <2>1. pc \in [Threads -> Places]
    BY DEF Init, Places
  <2>2. /\ recv \in [Socks -> 0 .. MaxSockets] /\ on \in [Threads -> 0 .. MaxSockets]
        /\ open \in [Handles -> 0 .. MaxSockets]
    BY DEF Init
  <2>. QED BY <2>1, <2>2 DEF Init, TypeOK
<1>2. nSockets = 0 /\ Slots = {} /\ Handling = {} /\ Connecting = {}
  <2>1. {n \in Socks : sock[n] # "none"} = {}
    BY DEF Init
  <2>2. \A s \in Socks \X (1 .. MaxSockets) : ~(s[2] <= recv[s[1]])
    BY DEF Init
  <2>3. Slots = {} /\ Handling = {} /\ Connecting = {}
    BY <2>2 DEF Init, Slots, Handling, Connecting, NewPlaces
  <2>. QED BY <2>1, <2>3, FS_EmptySet DEF nSockets
<1>3. Numbered
  BY <1>2 DEF Init, Numbered, Socks
<1>4. LockOK /\ ConnectOK /\ StateOK /\ AutoOK
  <2>1. \A t \in Threads : pc[t] \in {"none", "idle"} /\ ret[t] = "idle"
    BY DEF Init
  <2>2. pc[AutoThread] = "none" /\ pc[App] = "idle" /\ m_hSocket = Invalid
    BY DEF Init
  <2>. QED BY <2>1, <2>2 DEF LockOK, ConnectOK, StateOK, AutoOK, InConnect, NewPlaces
<1>5. CountOK
  BY <1>2, FS_EmptySet DEF CountOK
<1>6. ListensOK
  BY DEF Init, ListensOK
<1>. QED BY <1>1, <1>3, <1>4, <1>5, <1>6 DEF ClientInv

----------------------------------------------------------------------------
(* What does not change.                                                   *)

LEMMA NumbersStay ==
  ASSUME Numbered, UNCHANGED <<sock, open>>
  PROVE  Numbered' /\ nSockets' = nSockets
BY DEF Numbered, nSockets

(* A socket is in another state.                                           *)
LEMMA NumbersKept ==
  ASSUME TypeOK, Numbered, NEW n \in Socks, NEW x, x # "none", sock[n] # "none",
         sock' = [sock EXCEPT ![n] = x], \A h \in Handles : open'[h] \in {0, open[h]}
  PROVE  Numbered' /\ nSockets' = nSockets
<1>1. \A k \in Socks : sock'[k] # "none" <=> sock[k] # "none"
  BY DEF TypeOK
<1>2. nSockets' = nSockets
  BY <1>1 DEF nSockets
<1>3. nSockets \in Nat
  <2>1. {k \in Socks : sock[k] # "none"} \subseteq Socks
    OBVIOUS
  <2>. QED BY <2>1, Finite, FS_Subset, FS_CardinalityType DEF nSockets
<1>. QED BY <1>1, <1>2, <1>3 DEF Numbered

LEMMA Created ==
  ASSUME TypeOK, Numbered
  PROVE  /\ nSockets \in 0 .. MaxSockets
         /\ \A h \in Handles : open[h] # 0 => open[h] \in Socks /\ sock[open[h]] # "none"
<1>1. nSockets \in Nat /\ nSockets <= MaxSockets
  <2>1. {k \in Socks : sock[k] # "none"} \subseteq Socks
    OBVIOUS
  <2>2. Cardinality(Socks) = MaxSockets
    BY Names, FS_Interval DEF Socks
  <2>. QED BY <2>1, <2>2, Finite, FS_Subset, FS_CardinalityType DEF nSockets
<1>2. ASSUME NEW h \in Handles, open[h] # 0 PROVE open[h] \in Socks /\ sock[open[h]] # "none"
  <2>1. open[h] \in Socks
    BY <1>2, Names DEF TypeOK, Socks
  <2>. QED BY <2>1 DEF Numbered
<1>. QED BY <1>1, <1>2, Names

(* A new socket has the next number.                                       *)
LEMMA NumbersGrow ==
  ASSUME TypeOK, Numbered, nSockets < MaxSockets, sock' = [sock EXCEPT ![nSockets + 1] = "new"],
         \A h \in Handles : open'[h] \in {open[h], nSockets + 1}
  PROVE  Numbered' /\ nSockets' = nSockets + 1
<1>. DEFINE S == {k \in Socks : sock[k] # "none"}
<1>1. nSockets \in Nat /\ nSockets + 1 \in Socks
  BY Created, Names DEF Socks
<1>2. \A k \in Socks : sock'[k] # "none" <=> sock[k] # "none" \/ k = nSockets + 1
  BY <1>1 DEF TypeOK
<1>3. {k \in Socks : sock'[k] # "none"} = S \cup {nSockets + 1} /\ nSockets + 1 \notin S
  BY <1>1, <1>2 DEF Numbered
<1>4. IsFiniteSet(S)
  BY Finite, FS_Subset
<1>5. Cardinality(S \cup {nSockets + 1}) = Cardinality(S) + 1
  BY <1>3, <1>4, FS_AddElement
<1>6. nSockets' = nSockets + 1
  BY <1>3, <1>5 DEF nSockets
<1>7. \A k \in Socks : k \in Nat
  BY DEF Socks
<1>8. \A h \in Handles : open'[h] <= nSockets'
  <2>1. \A h \in Handles : open[h] \in Nat /\ open[h] <= nSockets
    BY Names DEF TypeOK, Numbered
  <2>. QED BY <1>1, <1>6, <2>1
<1>. QED BY <1>1, <1>2, <1>6, <1>7, <1>8 DEF Numbered

(* Who is counted after a step of one thread.                              *)
LEMMA Counted ==
  ASSUME TypeOK, pc' \in [Threads -> Places], NEW t \in Threads,
         \A u \in Threads : u # t => pc'[u] = pc[u]
  PROVE  /\ Cardinality(Handling) \in Nat /\ Cardinality(Connecting) \in Nat
         /\ pc[t] # "onrecv" /\ pc'[t] # "onrecv" => Cardinality(Handling') = Cardinality(Handling)
         /\ pc[t] = "onrecv" /\ pc'[t] # "onrecv" => Cardinality(Handling') = Cardinality(Handling) - 1
         /\ pc[t] # "onrecv" /\ pc'[t] = "onrecv" => Cardinality(Handling') = Cardinality(Handling) + 1
         /\ pc[t] \notin NewPlaces /\ pc'[t] \notin NewPlaces => Cardinality(Connecting') = Cardinality(Connecting)
         /\ pc[t] \in NewPlaces /\ pc'[t] \in NewPlaces => Cardinality(Connecting') = Cardinality(Connecting)
         /\ pc[t] \in NewPlaces /\ pc'[t] \notin NewPlaces => Cardinality(Connecting') = Cardinality(Connecting) - 1
         /\ pc[t] \notin NewPlaces /\ pc'[t] \in NewPlaces => Cardinality(Connecting') = Cardinality(Connecting) + 1
<1>1. pc \in [Threads -> Places] /\ pc' = [pc EXCEPT ![t] = pc'[t]]
  BY DEF TypeOK
<1>2. Cardinality(Handling) \in Nat /\ Cardinality(Connecting) \in Nat
  BY Finite DEF Handling, Connecting
<1>3. /\ Handling = {u \in Threads : pc[u] \in {"onrecv"}}
      /\ Handling' = {u \in Threads : pc'[u] \in {"onrecv"}}
  BY DEF Handling
<1>4. /\ pc[t] # "onrecv" /\ pc'[t] # "onrecv" => Cardinality(Handling') = Cardinality(Handling)
      /\ pc[t] = "onrecv" /\ pc'[t] # "onrecv" => Cardinality(Handling') = Cardinality(Handling) - 1
      /\ pc[t] # "onrecv" /\ pc'[t] = "onrecv" => Cardinality(Handling') = Cardinality(Handling) + 1
  <2>1. /\ pc[t] \notin {"onrecv"} /\ pc'[t] \notin {"onrecv"} => Cardinality(Handling') = Cardinality(Handling)
        /\ pc[t] \in {"onrecv"} /\ pc'[t] \notin {"onrecv"} => Cardinality(Handling') = Cardinality(Handling) - 1
        /\ pc[t] \notin {"onrecv"} /\ pc'[t] \in {"onrecv"} => Cardinality(Handling') = Cardinality(Handling) + 1
    BY <1>1, <1>3, Moves
  <2>. QED BY <2>1
<1>5. /\ Connecting = {u \in Threads : pc[u] \in NewPlaces}
      /\ Connecting' = {u \in Threads : pc'[u] \in NewPlaces}
  BY DEF Connecting, NewPlaces
<1>6. /\ pc[t] \notin NewPlaces /\ pc'[t] \notin NewPlaces => Cardinality(Connecting') = Cardinality(Connecting)
      /\ pc[t] \in NewPlaces /\ pc'[t] \in NewPlaces => Cardinality(Connecting') = Cardinality(Connecting)
      /\ pc[t] \in NewPlaces /\ pc'[t] \notin NewPlaces => Cardinality(Connecting') = Cardinality(Connecting) - 1
      /\ pc[t] \notin NewPlaces /\ pc'[t] \in NewPlaces => Cardinality(Connecting') = Cardinality(Connecting) + 1
  BY <1>1, <1>5, Moves
<1>. QED BY <1>2, <1>4, <1>6

LEMMA AutoWalks ==
  ASSUME TypeOK, AutoOK, NEW t \in Threads, NEW x,
         x \notin {"autoflags", "autostop", "autowait", "noflags"}, pc' = [pc EXCEPT ![t] = x],
         pc[t] \notin {"none", "autoflags", "autostop", "autowait", "noflags"},
         UNCHANGED m_bAutoConnect
  PROVE  AutoOK'
BY Names DEF TypeOK, AutoOK

(* A step of one thread between places that say nothing about a connection *)
(* leaves everything as it is, but for the thread that connects again.     *)
Quiet == Places \ (NewPlaces \cup {"socket", "store", "flag", "onrecv"})

LEMMA Walks ==
  ASSUME ClientInv, TypeOK', NEW t \in Threads, NEW x \in Quiet, NEW r \in {"idle", "signal", "retry"}, NEW h,
         pc' = [pc EXCEPT ![t] = x], pc[t] \in Quiet \ ClosePlaces,
         ret' = ret \/ (ret' = [ret EXCEPT ![t] = r]),
         hSocket' = [hSocket EXCEPT ![t] = h],
         UNCHANGED <<m_hSocket, m_lock, hPerHandle, on, open, sock, recv, deaf>>, AutoOK'
  PROVE  ClientInv'
<1>1. /\ TypeOK /\ Numbered /\ LockOK /\ ConnectOK /\ StateOK /\ CountOK /\ ListensOK
      /\ pc \in [Threads -> Places] /\ ret \in [Threads -> {"idle", "signal", "socket", "retry"}]
      /\ hSocket \in [Threads -> Handles \cup {Invalid}]
  BY DEF ClientInv, TypeOK
<1>2. Numbered' /\ nSockets' = nSockets
  BY <1>1, NumbersStay
<1>3. /\ \A u \in Threads : u # t => pc'[u] = pc[u] /\ ret'[u] = ret[u] /\ hSocket'[u] = hSocket[u]
      /\ pc'[t] = x /\ x \notin NewPlaces \cup {"socket", "store", "flag", "onrecv"}
      /\ ret[t] # "socket" /\ ret'[t] # "socket"
  BY <1>1 DEF Quiet, LockOK
<1>4. LockOK'
  BY <1>1, <1>3 DEF LockOK, InConnect
<1>5. ConnectOK'
  BY <1>1, <1>3 DEF ConnectOK
<1>6. StateOK'
  BY <1>1, <1>3 DEF StateOK, NewPlaces
<1>7. Handling' = Handling /\ Connecting' = Connecting /\ Slots' = Slots
  BY <1>1, <1>3 DEF Handling, Connecting, Slots, Quiet
<1>8. CountOK'
  BY <1>1, <1>2, <1>7 DEF CountOK
<1>9. ListensOK'
  <2>1. \A n : Listens(n) => Listens(n)'
    <3>1. ASSUME NEW n, NEW w \in Workers, on[w] = n, pc[w] = "onrecv" PROVE on'[w] = n /\ pc'[w] = "onrecv"
      BY <1>1, <3>1, Names DEF Quiet
    <3>2. ASSUME NEW n, NEW u \in Threads, on[u] = n, pc[u] \in {"attach", "recv"}
          PROVE  on'[u] = n /\ pc'[u] \in {"attach", "recv"}
      BY <1>1, <3>2 DEF Quiet, NewPlaces
    <3>. QED BY <3>1, <3>2 DEF Listens
  <2>. QED BY <1>1, <2>1 DEF ListensOK
<1>. QED BY <1>2, <1>4, <1>5, <1>6, <1>8, <1>9 DEF ClientInv

----------------------------------------------------------------------------
(* Steps of Close.                                                         *)

LEMMA OneInConnect ==
  ASSUME LockOK, NEW t \in Threads, NEW u \in Threads, InConnect(t), InConnect(u)
  PROVE  t = u
BY DEF LockOK

(* A step of t that posts no receive and handles none leaves every socket  *)
(* that listens so.                                                        *)
LEMMA ListensStays ==
  ASSUME TypeOK, NEW t \in Threads, NEW x, pc' = [pc EXCEPT ![t] = x],
         pc[t] \notin {"onrecv", "attach", "recv"},
         \A u \in Threads : u # t => on'[u] = on[u],
         NEW n, recv[n] > 0 => recv'[n] > 0, Listens(n)
  PROVE  Listens(n)'
<1>1. \A u \in Threads : u # t => pc'[u] = pc[u]
  BY DEF TypeOK
<1>2. CASE recv[n] > 0
  BY <1>2 DEF Listens
<1>3. ASSUME NEW w \in Workers, on[w] = n, pc[w] = "onrecv" PROVE Listens(n)'
  <2>1. w \in Threads /\ w # t
    BY <1>3, Names
  <2>2. on'[w] = n /\ pc'[w] = "onrecv"
    BY <1>1, <1>3, <2>1
  <2>. QED BY <2>2 DEF Listens
<1>4. ASSUME NEW u \in Threads, on[u] = n, pc[u] \in {"attach", "recv"} PROVE Listens(n)'
  <2>1. u # t
    BY <1>4
  <2>2. on'[u] = n /\ pc'[u] \in {"attach", "recv"}
    BY <1>1, <1>4, <2>1
  <2>. QED BY <2>2 DEF Listens
<1>. QED BY <1>2, <1>3, <1>4 DEF Listens

(* A step of Close, or the return from it.                                 *)
LEMMA CloseWalks ==
  ASSUME ClientInv, TypeOK', NEW t \in Threads, pc[t] \in ClosePlaces,
         NEW x, pc' = [pc EXCEPT ![t] = x],
         (x \in ClosePlaces /\ ret' = ret) \/ (x = ret[t] /\ ret' = [ret EXCEPT ![t] = "idle"]),
         x \in {"unconnected", "socket"} /\ ret[t] = "socket" => m_hSocket' = Invalid,
         m_hSocket' \in {m_hSocket, Invalid},
         \A u \in Threads : u # t => hSocket'[u] = hSocket[u],
         \A h \in Handles : open'[h] \in {0, open[h]},
         Numbered', nSockets' = nSockets, ListensOK',
         UNCHANGED <<m_bAutoConnect, m_lock, hPerHandle, on, recv>>
  PROVE  ClientInv'
<1>1. /\ TypeOK /\ Numbered /\ LockOK /\ ConnectOK /\ StateOK /\ AutoOK /\ CountOK
      /\ pc \in [Threads -> Places] /\ ret \in [Threads -> {"idle", "signal", "socket", "retry"}]
  BY DEF ClientInv, TypeOK
<1>2. /\ \A u \in Threads : u # t => pc'[u] = pc[u] /\ ret'[u] = ret[u]
      /\ pc'[t] = x /\ ret'[t] \in {ret[t], "idle"} /\ (ret'[t] = "idle" \/ x \in ClosePlaces)
      /\ x \in ClosePlaces \cup {"idle", "signal", "socket", "retry"}
  BY <1>1
<1>3. LockOK'
  <2>1. ASSUME NEW u \in Threads, InConnect(u)' PROVE m_lock' = u
    <3>1. InConnect(u)
      BY <1>1, <1>2, <2>1 DEF InConnect, NewPlaces, ClosePlaces
    <3>. QED BY <1>1, <3>1 DEF LockOK
  <2>2. ASSUME NEW u \in Threads, ret'[u] = "socket" PROVE pc'[u] \in ClosePlaces
    BY <1>1, <1>2, <2>2 DEF LockOK
  <2>. QED BY <2>1, <2>2 DEF LockOK
<1>4. ConnectOK'
  <2>1. \A u \in Threads : pc'[u] \in NewPlaces \cup {"onrecv"} => u # t /\ pc'[u] = pc[u]
    BY <1>2 DEF NewPlaces, ClosePlaces
  <2>. QED BY <1>1, <1>2, <2>1 DEF ConnectOK
<1>5. StateOK'
  <2>1. m_hSocket' # Invalid => m_hSocket' = hPerHandle'
    BY <1>1 DEF StateOK
  <2>2. ASSUME NEW u \in Threads, pc'[u] \in NewPlaces \cup {"socket", "store"} PROVE m_hSocket' = Invalid
    <3>1. CASE u = t
      BY <1>2, <2>2, <3>1 DEF NewPlaces, ClosePlaces
    <3>2. CASE u # t
      BY <1>1, <1>2, <2>2, <3>2 DEF StateOK
    <3>. QED BY <3>1, <3>2
  <2>3. ASSUME NEW u \in Threads, pc'[u] = "unconnected", ret'[u] = "socket" PROVE m_hSocket' = Invalid
    <3>1. CASE u = t
      BY <1>2, <2>3, <3>1
    <3>2. CASE u # t
      BY <1>1, <1>2, <2>3, <3>2 DEF StateOK
    <3>. QED BY <3>1, <3>2
  <2>4. ASSUME NEW u \in Threads, pc'[u] \in {"recv", "store"} PROVE hPerHandle' = hSocket'[u]
    <3>1. u # t
      BY <1>2, <2>4 DEF ClosePlaces
    <3>. QED BY <1>1, <1>2, <2>4, <3>1 DEF StateOK
  <2>. QED BY <2>1, <2>2, <2>3, <2>4 DEF StateOK
<1>6. AutoOK'
  <2>1. x \notin {"autoflags", "autostop", "autowait", "noflags"}
    BY <1>2 DEF ClosePlaces
  <2>2. pc[t] \notin {"none", "autoflags", "autostop", "autowait", "noflags"}
    BY DEF ClosePlaces
  <2>. QED BY <1>1, <2>1, <2>2, AutoWalks
<1>7. CountOK'
  <2>1. pc[t] \notin NewPlaces \cup {"onrecv"} /\ x \notin NewPlaces \cup {"onrecv"}
    BY <1>2 DEF NewPlaces, ClosePlaces
  <2>2. Cardinality(Handling') = Cardinality(Handling) /\ Cardinality(Connecting') = Cardinality(Connecting)
    BY <1>1, <1>2, <2>1, Counted DEF TypeOK
  <2>3. Slots' = Slots
    BY DEF Slots
  <2>. QED BY <1>1, <2>2, <2>3 DEF CountOK
<1>. QED BY <1>3, <1>4, <1>5, <1>6, <1>7 DEF ClientInv

LEMMA CloseKeeps ==
  ASSUME ClientInv, NEW t \in Threads, Close(t)
  PROVE  ClientInv'
<1>1. /\ TypeOK /\ Numbered /\ LockOK /\ StateOK /\ ListensOK
      /\ pc \in [Threads -> Places] /\ ret \in [Threads -> {"idle", "signal", "socket", "retry"}]
      /\ hSocket \in [Threads -> Handles \cup {Invalid}]
      /\ ret[t] \in {"idle", "signal", "socket", "retry"}
  BY DEF ClientInv, TypeOK
<1>2. ASSUME UNCHANGED <<open, sock, recv, deaf, on, hPerHandle>>, NEW x, pc' = [pc EXCEPT ![t] = x],
             pc[t] \in ClosePlaces
      PROVE  Numbered' /\ nSockets' = nSockets /\ ListensOK'
  <2>1. Numbered' /\ nSockets' = nSockets
    BY <1>1, <1>2, NumbersStay
  <2>2. \A n : Listens(n) => Listens(n)'
    BY <1>1, <1>2, ListensStays DEF ClosePlaces
  <2>. QED BY <1>1, <1>2, <2>1, <2>2 DEF ListensOK
<1>3. CASE CloseTest(t)
  <2>1. PICK x : /\ pc' = [pc EXCEPT ![t] = x]
                 /\ \/ x = "closesocket" /\ ret' = ret
                    \/ x = ret[t] /\ ret' = [ret EXCEPT ![t] = "idle"] /\ m_hSocket = Invalid
    BY <1>3 DEF CloseTest, Returns, Goes
  <2>2. /\ pc[t] = "close" /\ pc[t] \in ClosePlaces
        /\ UNCHANGED <<m_hSocket, m_bAutoConnect, m_lock, hPerHandle, on, recv, open, sock, deaf>>
        /\ hSocket' \in {hSocket, [hSocket EXCEPT ![t] = m_hSocket]}
    BY <1>3 DEF CloseTest, stateVars, autoVars, blockVars, netVars, ClosePlaces
  <2>3. TypeOK'
    <3>1. pc' \in [Threads -> Places]
      BY <1>1, <2>1 DEF Places
    <3>3. ret' \in [Threads -> {"idle", "signal", "socket", "retry"}]
      BY <1>1, <2>1
    <3>2. hSocket' \in [Threads -> Handles \cup {Invalid}]
      BY <1>1, <2>2 DEF TypeOK
    <3>. QED
      BY <1>1, <1>3, <3>1, <3>2, <3>3 DEF TypeOK, CloseTest, stateVars, autoVars, blockVars,
         netVars
  <2>4. Numbered' /\ nSockets' = nSockets /\ ListensOK'
    BY <1>2, <2>1, <2>2
  <2>5. \A u \in Threads : u # t => hSocket'[u] = hSocket[u]
    BY <1>1, <2>2
  <2>6. /\ (x \in ClosePlaces /\ ret' = ret) \/ (x = ret[t] /\ ret' = [ret EXCEPT ![t] = "idle"])
        /\ x \in {"unconnected", "socket"} => m_hSocket' = Invalid
        /\ m_hSocket' \in {m_hSocket, Invalid}
    <3>1. m_hSocket' = m_hSocket /\ "closesocket" \in ClosePlaces
      BY <2>2 DEF ClosePlaces
    <3>2. CASE x = "closesocket" /\ ret' = ret
      BY <3>1, <3>2
    <3>3. CASE x = ret[t] /\ ret' = [ret EXCEPT ![t] = "idle"] /\ m_hSocket = Invalid
      BY <3>1, <3>3
    <3>. QED BY <2>1, <3>1, <3>2, <3>3
  <2>. QED BY <2>1, <2>2, <2>3, <2>4, <2>5, <2>6, CloseWalks
<1>4. CASE CloseSocket(t)
  <2>1. /\ pc[t] = "closesocket" /\ pc[t] \in ClosePlaces /\ pc' = [pc EXCEPT ![t] = "invalid"] /\ ret' = ret
        /\ UNCHANGED <<m_hSocket, m_bAutoConnect, m_lock, hPerHandle, on, recv>>
        /\ hSocket' = [hSocket EXCEPT ![t] = Invalid]
    BY <1>1, <1>4 DEF CloseSocket, Goes, stateVars, autoVars, blockVars, ClosePlaces
  <2>2. PICK h \in {hSocket[t], m_hSocket} :
          IF IsSocket(h)
            THEN /\ open' = [open EXCEPT ![h] = 0]
                 /\ sock' = [sock EXCEPT ![open[h]] = "gone"]
                 /\ deaf' = deaf \ {open[h]}
            ELSE UNCHANGED <<open, sock, deaf>>
    BY <1>4 DEF CloseSocket
  <2>3. TypeOK'
    <3>1. pc' \in [Threads -> Places]
      BY <1>1, <2>1 DEF Places
    <3>2. /\ open' \in [Handles -> 0 .. MaxSockets]
          /\ sock' \in [Socks -> {"none", "new", "up", "closed", "reset", "gone"}] /\ deaf' \subseteq Socks
      BY <1>1, <2>2, Names DEF TypeOK
    <3>3. hSocket' \in [Threads -> Handles \cup {Invalid}]
      BY <1>1, <2>1
    <3>. QED
      BY <1>1, <1>4, <3>1, <3>2, <3>3 DEF TypeOK, CloseSocket, stateVars, autoVars, blockVars
  <2>4. \A n : Listens(n) => Listens(n)'
    BY <1>1, <2>1, ListensStays
  <2>5. Numbered' /\ nSockets' = nSockets /\ ListensOK' /\ \A g \in Handles : open'[g] \in {0, open[g]}
    <3>1. CASE IsSocket(h)
      <4>1. h \in Handles /\ open[h] \in Socks /\ sock[open[h]] # "none"
        BY <1>1, <3>1, Created DEF IsSocket
      <4>2. \A g \in Handles : open'[g] \in {0, open[g]}
        BY <1>1, <2>2, <3>1 DEF TypeOK
      <4>3. Numbered' /\ nSockets' = nSockets
        BY <1>1, <2>2, <3>1, <4>1, <4>2, NumbersKept
      <4>4. ASSUME hPerHandle \in Handles, NEW n, n = open'[hPerHandle], n # 0
            PROVE  sock'[n] # "up" \/ n \in deaf' \/ Listens(n)'
        <5>1. n = open[hPerHandle] /\ n \in Socks
          BY <1>1, <4>2, <4>4, Created
        <5>2. sock[n] # "up" \/ n \in deaf \/ Listens(n)
          BY <1>1, <4>4, <5>1 DEF ListensOK
        <5>3. CASE n = open[h]
          <6>1. sock'[n] = "gone"
            BY <1>1, <2>2, <3>1, <5>1, <5>3 DEF TypeOK
          <6>. QED BY <6>1
        <5>4. CASE n # open[h]
          <6>1. sock'[n] = sock[n] /\ (n \in deaf => n \in deaf')
            BY <1>1, <2>2, <3>1, <5>1, <5>4 DEF TypeOK
          <6>. QED BY <2>4, <5>2, <6>1
        <5>. QED BY <5>3, <5>4
      <4>5. ListensOK'
        BY <2>1, <4>4 DEF ListensOK
      <4>. QED BY <4>2, <4>3, <4>5
    <3>2. CASE ~IsSocket(h)
      <4>1. UNCHANGED <<open, sock, deaf>>
        BY <2>2, <3>2
      <4>2. Numbered' /\ nSockets' = nSockets
        BY <1>1, <4>1, NumbersStay
      <4>3. ListensOK'
        BY <1>1, <2>1, <2>4, <4>1 DEF ListensOK
      <4>. QED BY <4>1, <4>2, <4>3
    <3>. QED BY <3>1, <3>2
  <2>6. \A u \in Threads : u # t => hSocket'[u] = hSocket[u]
    BY <1>1, <2>1
  <2>7. /\ "invalid" \in ClosePlaces /\ "invalid" \notin {"unconnected", "socket"}
        /\ m_hSocket' \in {m_hSocket, Invalid}
    BY <2>1 DEF ClosePlaces
  <2>. QED BY <1>1, <2>1, <2>3, <2>5, <2>6, <2>7, CloseWalks
<1>5. CASE CloseInvalid(t)
  <2>1. /\ pc[t] = "invalid" /\ pc[t] \in ClosePlaces /\ pc' = [pc EXCEPT ![t] = "unconnected"] /\ ret' = ret
        /\ m_hSocket' = Invalid
        /\ UNCHANGED <<m_bAutoConnect, m_lock, hPerHandle, on, recv, hSocket, open, sock, deaf>>
    BY <1>1, <1>5 DEF CloseInvalid, Goes, autoVars, blockVars, netVars, ClosePlaces
  <2>2. TypeOK'
    <3>1. pc' \in [Threads -> Places]
      BY <1>1, <2>1 DEF Places
    <3>. QED BY <1>1, <1>5, <3>1 DEF TypeOK, CloseInvalid, autoVars, blockVars, netVars
  <2>3. Numbered' /\ nSockets' = nSockets /\ ListensOK'
    BY <1>2, <2>1
  <2>4. /\ "unconnected" \in ClosePlaces /\ m_hSocket' \in {m_hSocket, Invalid}
        /\ \A h \in Handles : open'[h] \in {0, open[h]}
    BY <2>1 DEF ClosePlaces
  <2>. QED BY <1>1, <2>1, <2>2, <2>3, <2>4, CloseWalks
<1>6. CASE CloseUnconnected(t)
  <2>1. /\ pc[t] = "unconnected" /\ pc[t] \in ClosePlaces
        /\ pc' = [pc EXCEPT ![t] = ret[t]] /\ ret' = [ret EXCEPT ![t] = "idle"]
        /\ UNCHANGED <<m_hSocket, m_bAutoConnect, m_lock, hPerHandle, on, recv, hSocket, open, sock, deaf>>
    BY <1>6 DEF CloseUnconnected, Returns, Goes, autoVars, blockVars, netVars, ClosePlaces
  <2>2. TypeOK'
    <3>1. pc' \in [Threads -> Places] /\ ret' \in [Threads -> {"idle", "signal", "socket", "retry"}]
      BY <1>1, <2>1 DEF Places
    <3>. QED BY <1>1, <1>6, <3>1 DEF TypeOK, CloseUnconnected, autoVars, blockVars, netVars
  <2>3. Numbered' /\ nSockets' = nSockets /\ ListensOK'
    BY <1>2, <2>1
  <2>4. ret[t] = "socket" => m_hSocket' = Invalid
    BY <1>1, <2>1 DEF StateOK
  <2>. QED BY <2>1, <2>2, <2>3, <2>4, CloseWalks
<1>. QED BY <1>3, <1>4, <1>5, <1>6 DEF Close

----------------------------------------------------------------------------
(* Steps of Connect.                                                       *)

(* The state of the other threads when t is inside Connect.                *)
LEMMA Others ==
  ASSUME LockOK, NEW t \in Threads, InConnect(t), NEW u \in Threads, u # t
  PROVE  ret[u] # "socket" /\ pc[u] \notin NewPlaces \cup {"socket", "store", "flag"}
<1>1. ~InConnect(u)
  BY OneInConnect
<1>. QED BY <1>1 DEF InConnect

LEMMA ConnectLockKeeps ==
  ASSUME ClientInv, NEW t \in Threads, ConnectLock(t)
  PROVE  ClientInv'
<1>1. /\ TypeOK /\ Numbered /\ LockOK /\ ConnectOK /\ StateOK /\ AutoOK /\ CountOK /\ ListensOK
      /\ pc \in [Threads -> Places] /\ ret \in [Threads -> {"idle", "signal", "socket", "retry"}]
  BY DEF ClientInv, TypeOK
<1>2. /\ pc[t] = "lock" /\ m_lock = NoThread /\ m_lock' = t
      /\ pc' = [pc EXCEPT ![t] = "close"] /\ ret' = [ret EXCEPT ![t] = "socket"]
      /\ UNCHANGED <<m_hSocket, m_bAutoConnect, hPerHandle, hSocket, on, open, sock, recv, deaf>>
  BY DEF ConnectLock, Invokes, Goes, stateVars, autoVars, blockVars, netVars
<1>3. TypeOK'
  <2>1. pc' \in [Threads -> Places]
    BY <1>1, <1>2 DEF Places
  <2>2. ret' \in [Threads -> {"idle", "signal", "socket", "retry"}]
    BY <1>1, <1>2
  <2>. QED
    BY <1>1, <1>2, <2>1, <2>2 DEF ConnectLock, stateVars, autoVars, blockVars, netVars, TypeOK
<1>4. Numbered' /\ nSockets' = nSockets
  BY <1>1, <1>2, NumbersStay
<1>5. \A u \in Threads : ~InConnect(u)
  BY <1>1, <1>2, Names DEF LockOK
<1>6. \A u \in Threads : u # t => pc'[u] = pc[u] /\ ret'[u] = ret[u]
  BY <1>1, <1>2
<1>7. pc'[t] = "close" /\ ret'[t] = "socket"
  BY <1>1, <1>2
<1>8. LockOK'
  BY <1>2, <1>5, <1>6, <1>7 DEF LockOK, InConnect, ClosePlaces
<1>9. ConnectOK'
  BY <1>1, <1>2, <1>6, <1>7 DEF ConnectOK, NewPlaces
<1>10. StateOK'
  BY <1>1, <1>2, <1>6, <1>7 DEF StateOK, NewPlaces
<1>11. AutoOK'
  BY <1>1, <1>2, AutoWalks
<1>12. CountOK'
  <2>1. Cardinality(Handling') = Cardinality(Handling) /\ Cardinality(Connecting') = Cardinality(Connecting)
    BY <1>1, <1>2, <1>3, <1>6, <1>7, Counted DEF NewPlaces, TypeOK
  <2>2. Slots' = Slots
    BY <1>2 DEF Slots
  <2>. QED BY <1>1, <1>4, <2>1, <2>2 DEF CountOK
<1>13. ListensOK'
  <2>1. \A n : Listens(n) => Listens(n)'
    BY <1>1, <1>2, ListensStays
  <2>. QED BY <1>1, <1>2, <2>1 DEF ListensOK
<1>. QED BY <1>3, <1>4, <1>8, <1>9, <1>10, <1>11, <1>12, <1>13 DEF ClientInv

(* Connect gives up: the thread forgets its socket and releases the lock.  *)
LEMMA ConnectFailsKeeps ==
  ASSUME ClientInv, NEW t \in Threads, pc[t] \in {"socket", "connect"}, ConnectFails(t),
         UNCHANGED <<stateVars, autoVars, m_nLocalPort, blockVars, ret, netVars>>
  PROVE  ClientInv'
<1>1. /\ TypeOK /\ Numbered /\ LockOK /\ ConnectOK /\ StateOK /\ AutoOK /\ CountOK /\ ListensOK
      /\ pc \in [Threads -> Places] /\ ret \in [Threads -> {"idle", "signal", "socket", "retry"}]
      /\ hSocket \in [Threads -> Handles \cup {Invalid}] /\ on \in [Threads -> 0 .. MaxSockets]
  BY DEF ClientInv, TypeOK
<1>2. /\ pc' = [pc EXCEPT ![t] = "failed"] /\ m_lock' = NoThread
      /\ hSocket' = [hSocket EXCEPT ![t] = Invalid] /\ on' = [on EXCEPT ![t] = 0]
      /\ UNCHANGED <<m_hSocket, m_bAutoConnect, hPerHandle, ret, open, sock, recv, deaf>>
  BY DEF ConnectFails, Goes, stateVars, autoVars, blockVars, netVars
<1>3. TypeOK'
  <2>1. pc' \in [Threads -> Places]
    BY <1>1, <1>2 DEF Places
  <2>2. hSocket' \in [Threads -> Handles \cup {Invalid}] /\ on' \in [Threads -> 0 .. MaxSockets]
    BY <1>1, <1>2, Names
  <2>. QED BY <1>1, <1>2, <2>1, <2>2 DEF stateVars, autoVars, blockVars, netVars, TypeOK
<1>4. Numbered' /\ nSockets' = nSockets
  BY <1>1, <1>2, NumbersStay
<1>5. InConnect(t) /\ ret[t] # "socket"
  BY <1>1 DEF InConnect, NewPlaces, LockOK, ClosePlaces
<1>6. /\ \A u \in Threads : u # t => pc'[u] = pc[u] /\ ret'[u] = ret[u] /\ hSocket'[u] = hSocket[u] /\ on'[u] = on[u]
      /\ pc'[t] = "failed" /\ ret'[t] = ret[t]
  BY <1>1, <1>2
<1>7. \A u \in Threads : ret'[u] # "socket" /\ pc'[u] \notin NewPlaces \cup {"socket", "store", "flag"}
  <2>1. \A u \in Threads : u # t => ret[u] # "socket" /\ pc[u] \notin NewPlaces \cup {"socket", "store", "flag"}
    BY <1>1, <1>5, Others
  <2>. QED BY <1>5, <1>6, <2>1 DEF NewPlaces
<1>8. LockOK'
  BY <1>7 DEF LockOK, InConnect
<1>9. ConnectOK'
  BY <1>1, <1>2, <1>6, <1>7 DEF ConnectOK
<1>10. StateOK'
  BY <1>1, <1>2, <1>7 DEF StateOK, NewPlaces
<1>11. AutoOK'
  BY <1>1, <1>2, AutoWalks
<1>12. CountOK'
  <2>1. /\ Cardinality(Handling') = Cardinality(Handling) /\ Cardinality(Connecting') \in Nat
        /\ Cardinality(Connecting') <= Cardinality(Connecting) /\ Cardinality(Connecting) \in Nat
        /\ Cardinality(Handling) \in Nat
    <3>1. Connecting' = {} /\ Cardinality(Connecting') = 0
      BY <1>7, FS_EmptySet DEF Connecting
    <3>2. Cardinality(Handling') = Cardinality(Handling) /\ Cardinality(Connecting) \in Nat /\ Cardinality(Handling) \in Nat
      BY <1>1, <1>2, <1>3, <1>6, Counted DEF TypeOK
    <3>. QED BY <3>1, <3>2
  <2>2. Slots' = Slots /\ Cardinality(Slots) \in Nat
    BY <1>2, Finite DEF Slots
  <2>3. nSockets \in Nat
    BY <1>1, Created
  <2>. QED BY <1>1, <1>4, <2>1, <2>2, <2>3 DEF CountOK
<1>13. ListensOK'
  <2>1. \A n : Listens(n) => Listens(n)'
    BY <1>1, <1>2, <1>6, ListensStays
  <2>. QED BY <1>1, <1>2, <2>1 DEF ListensOK
<1>. QED BY <1>3, <1>4, <1>8, <1>9, <1>10, <1>11, <1>12, <1>13 DEF ClientInv

LEMMA WSASocketKeeps ==
  ASSUME ClientInv, NEW t \in Threads, WSASocket(t)
  PROVE  ClientInv'
<1>1. /\ TypeOK /\ Numbered /\ LockOK /\ ConnectOK /\ StateOK /\ AutoOK /\ CountOK /\ ListensOK
      /\ pc \in [Threads -> Places] /\ ret \in [Threads -> {"idle", "signal", "socket", "retry"}]
      /\ hSocket \in [Threads -> Handles \cup {Invalid}] /\ on \in [Threads -> 0 .. MaxSockets]
  BY DEF ClientInv, TypeOK
<1>2. pc[t] = "socket" /\ UNCHANGED <<stateVars, autoVars, m_nLocalPort, blockVars, ret, recv, deaf>>
  BY DEF WSASocket
<1>3. CASE ConnectFails(t) /\ UNCHANGED <<open, sock>>
  BY <1>2, <1>3, ConnectFailsKeeps DEF netVars
<1>4. ASSUME nSockets < MaxSockets, NEW h \in Handles, open[h] = 0,
             open' = [open EXCEPT ![h] = nSockets + 1], hSocket' = [hSocket EXCEPT ![t] = h],
             on' = [on EXCEPT ![t] = nSockets + 1], sock' = [sock EXCEPT ![nSockets + 1] = "new"],
             pc' = [pc EXCEPT ![t] = "connect"], m_lock' = m_lock
      PROVE  ClientInv'
  <2>1. nSockets \in Nat /\ nSockets + 1 \in Socks /\ nSockets + 1 \in 1 .. MaxSockets
    BY <1>1, <1>4, Created, Names DEF Socks
  <2>2. UNCHANGED <<m_hSocket, m_bAutoConnect, hPerHandle, ret, recv, deaf>>
    BY <1>2 DEF stateVars, autoVars, blockVars
  <2>3. TypeOK'
    <3>1. pc' \in [Threads -> Places]
      BY <1>1, <1>4 DEF Places
    <3>2. hSocket' \in [Threads -> Handles \cup {Invalid}] /\ on' \in [Threads -> 0 .. MaxSockets]
      BY <1>1, <1>4, <2>1
    <3>3. /\ open' \in [Handles -> 0 .. MaxSockets]
          /\ sock' \in [Socks -> {"none", "new", "up", "closed", "reset", "gone"}]
      BY <1>1, <1>4, <2>1 DEF TypeOK
    <3>. QED BY <1>1, <1>2, <1>4, <3>1, <3>2, <3>3 DEF stateVars, autoVars, blockVars, TypeOK
  <2>4. \A g \in Handles : open'[g] = IF g = h THEN nSockets + 1 ELSE open[g]
    BY <1>1, <1>4 DEF TypeOK
  <2>5. Numbered' /\ nSockets' = nSockets + 1
    <3>1. \A g \in Handles : open'[g] \in {open[g], nSockets + 1}
      BY <2>4
    <3>. QED BY <1>1, <1>4, <3>1, NumbersGrow
  <2>6. /\ \A u \in Threads : u # t => pc'[u] = pc[u] /\ ret'[u] = ret[u] /\ hSocket'[u] = hSocket[u] /\ on'[u] = on[u]
        /\ pc'[t] = "connect" /\ ret'[t] = ret[t] /\ hSocket'[t] = h /\ on'[t] = nSockets + 1
    BY <1>1, <1>4, <2>2
  <2>7. InConnect(t) /\ ret[t] # "socket" /\ m_lock = t
    BY <1>1, <1>2 DEF InConnect, LockOK, ClosePlaces
  <2>8. \A u \in Threads : u # t => ret[u] # "socket" /\ pc[u] \notin NewPlaces \cup {"socket", "store", "flag"}
    BY <1>1, <2>7, Others
  <2>9. LockOK'
    BY <1>4, <2>6, <2>7, <2>8 DEF LockOK, InConnect
  <2>10. ConnectOK'
    BY <1>1, <2>1, <2>4, <2>6, <2>8 DEF ConnectOK
  <2>11. StateOK'
    BY <1>1, <1>2, <2>2, <2>6, <2>8 DEF StateOK, NewPlaces
  <2>12. AutoOK'
    BY <1>1, <1>2, <1>4, <2>2, AutoWalks
  <2>13. CountOK'
    <3>1. /\ Cardinality(Handling') = Cardinality(Handling) /\ Cardinality(Connecting') = Cardinality(Connecting) + 1
          /\ Cardinality(Handling) \in Nat /\ Cardinality(Connecting) \in Nat
      BY <1>1, <1>2, <2>3, <2>6, Counted DEF NewPlaces, TypeOK
    <3>2. Slots' = Slots /\ Cardinality(Slots) \in Nat
      BY <2>2, Finite DEF Slots
    <3>. QED BY <1>1, <2>1, <2>5, <3>1, <3>2 DEF CountOK
  <2>14. ListensOK'
    <3>1. \A n : Listens(n) => Listens(n)'
      BY <1>1, <1>2, <1>4, <2>2, <2>6, ListensStays
    <3>2. ASSUME hPerHandle \in Handles, NEW n, n = open'[hPerHandle], n # 0
          PROVE  sock'[n] # "up" \/ n \in deaf' \/ Listens(n)'
      <4>1. CASE hPerHandle = h
        <5>1. sock'[n] = "new"
          BY <1>1, <1>4, <2>1, <2>4, <3>2, <4>1 DEF TypeOK
        <5>. QED BY <5>1
      <4>2. CASE hPerHandle # h
        <5>1. n = open[hPerHandle] /\ n \in Socks /\ sock[n] # "none"
          BY <1>1, <2>4, <3>2, <4>2, Created
        <5>2. sock[n] # "up" \/ n \in deaf \/ Listens(n)
          BY <1>1, <3>2, <5>1 DEF ListensOK
        <5>3. sock'[n] \in {sock[n], "new"} /\ deaf' = deaf
          BY <1>1, <1>4, <2>2, <5>1 DEF TypeOK
        <5>. QED BY <3>1, <5>2, <5>3
      <4>. QED BY <4>1, <4>2
    <3>. QED BY <2>2, <3>2 DEF ListensOK
  <2>. QED BY <2>3, <2>5, <2>9, <2>10, <2>11, <2>12, <2>13, <2>14 DEF ClientInv
<1>. QED
  <2>1. CASE ConnectFails(t) /\ UNCHANGED <<open, sock>>
    BY <1>3, <2>1
  <2>2. CASE ~(ConnectFails(t) /\ UNCHANGED <<open, sock>>)
    <3>1. PICK h \in Handles : /\ open[h] = 0 /\ open' = [open EXCEPT ![h] = nSockets + 1]
                               /\ hSocket' = [hSocket EXCEPT ![t] = h]
      BY <2>2 DEF WSASocket
    <3>2. /\ nSockets < MaxSockets
          /\ on' = [on EXCEPT ![t] = nSockets + 1] /\ sock' = [sock EXCEPT ![nSockets + 1] = "new"]
          /\ pc' = [pc EXCEPT ![t] = "connect"] /\ m_lock' = m_lock
      BY <2>2 DEF WSASocket, Goes
    <3>. QED BY <1>4, <3>1, <3>2
  <2>. QED BY <2>1, <2>2

(* A step of a thread from one place inside Connect to the next, which     *)
(* keeps its lock, its socket and its handle.                              *)
LEMMA ConnectWalks ==
  ASSUME ClientInv, TypeOK', NEW t \in Threads, pc[t] \in {"connect", "attach", "recv", "store"},
         NEW x, pc' = [pc EXCEPT ![t] = x],
         \/ pc[t] = "connect" /\ x = "attach"
         \/ pc[t] = "attach" /\ x = "recv"
         \/ pc[t] = "recv" /\ x = "store"
         \/ pc[t] = "store" /\ x = "flag",
         m_hSocket' = m_hSocket \/ x = "flag",
         m_hSocket' # Invalid => m_hSocket' = hPerHandle',
         hPerHandle' = hPerHandle \/ x = "recv", x \in {"recv", "store"} => hPerHandle' = hSocket[t],
         UNCHANGED <<m_bAutoConnect, m_lock, ret, hSocket, on, open>>,
         Numbered', nSockets' = nSockets, ListensOK',
         recv' = recv \/ (x = "store" /\ Cardinality(Slots') = Cardinality(Slots) + 1)
  PROVE  ClientInv'
<1>1. /\ TypeOK /\ Numbered /\ LockOK /\ ConnectOK /\ StateOK /\ AutoOK /\ CountOK
      /\ pc \in [Threads -> Places] /\ pc' \in [Threads -> Places]
  BY DEF ClientInv, TypeOK
<1>2. /\ \A u \in Threads : u # t => pc'[u] = pc[u]
      /\ pc'[t] = x /\ x \in {"attach", "recv", "store", "flag"}
  BY <1>1
<1>3. InConnect(t) /\ ret[t] # "socket"
  BY <1>1 DEF InConnect, NewPlaces, LockOK, ClosePlaces
<1>4. \A u \in Threads : u # t => ret[u] # "socket" /\ pc[u] \notin NewPlaces \cup {"socket", "store", "flag"}
  BY <1>1, <1>3, Others
<1>5. LockOK'
  <2>1. ASSUME NEW u \in Threads, InConnect(u)' PROVE m_lock' = u
    <3>1. InConnect(u)
      BY <1>2, <1>3, <2>1 DEF InConnect
    <3>. QED BY <1>1, <3>1 DEF LockOK
  <2>2. \A u \in Threads : ret'[u] # "socket"
    BY <1>3, <1>4
  <2>. QED BY <2>1, <2>2 DEF LockOK
<1>6. ConnectOK'
  <2>1. ASSUME NEW u \in Threads, pc'[u] \in NewPlaces
        PROVE  on'[u] \in Socks /\ hSocket'[u] \in Handles /\ open'[hSocket'[u]] \in {0, on'[u]}
    <3>1. u = t /\ pc[t] \in NewPlaces
      BY <1>2, <1>4, <2>1 DEF NewPlaces
    <3>. QED BY <1>1, <3>1 DEF ConnectOK
  <2>2. ASSUME NEW u \in Threads, pc'[u] = "onrecv" PROVE on'[u] \in Socks
    BY <1>1, <1>2, <2>2 DEF ConnectOK
  <2>. QED BY <2>1, <2>2 DEF ConnectOK
<1>7. StateOK'
  <2>1. m_hSocket = Invalid
    BY <1>1 DEF StateOK, NewPlaces
  <2>2. ASSUME NEW u \in Threads, pc'[u] \in NewPlaces \cup {"socket", "store"} PROVE m_hSocket' = Invalid
    <3>1. u = t /\ x # "flag"
      BY <1>2, <1>4, <2>2 DEF NewPlaces
    <3>. QED BY <2>1, <3>1
  <2>3. \A u \in Threads : ret'[u] # "socket"
    BY <1>3, <1>4
  <2>4. ASSUME NEW u \in Threads, pc'[u] \in {"recv", "store"} PROVE hPerHandle' = hSocket'[u]
    <3>1. u = t
      BY <1>2, <1>4, <2>4 DEF NewPlaces
    <3>. QED BY <1>2, <2>4, <3>1
  <2>. QED BY <2>2, <2>3, <2>4 DEF StateOK
<1>8. AutoOK'
  BY <1>1, <1>2, AutoWalks
<1>9. CountOK'
  <2>1. /\ Cardinality(Handling') = Cardinality(Handling) /\ Cardinality(Handling) \in Nat
        /\ Cardinality(Connecting) \in Nat
        /\ x \notin {"store", "flag"} => Cardinality(Connecting') = Cardinality(Connecting)
        /\ x = "store" => Cardinality(Connecting') = Cardinality(Connecting) - 1
        /\ x = "flag" => Cardinality(Connecting') = Cardinality(Connecting)
    BY <1>1, <1>2, Counted DEF NewPlaces
  <2>2. Cardinality(Slots) \in Nat /\ (recv' = recv => Slots' = Slots)
    BY Finite DEF Slots
  <2>3. nSockets \in Nat
    BY <1>1, Created
  <2>4. CASE recv' = recv
    BY <1>1, <1>2, <2>1, <2>2, <2>3, <2>4 DEF CountOK
  <2>5. CASE x = "store" /\ Cardinality(Slots') = Cardinality(Slots) + 1
    BY <1>1, <1>2, <2>1, <2>2, <2>3, <2>5 DEF CountOK
  <2>. QED BY <2>4, <2>5
<1>. QED BY <1>5, <1>6, <1>7, <1>8, <1>9 DEF ClientInv

LEMMA ConnectAddrKeeps ==
  ASSUME ClientInv, NEW t \in Threads, ConnectAddr(t)
  PROVE  ClientInv'
<1>1. /\ TypeOK /\ Numbered /\ LockOK /\ ConnectOK /\ StateOK /\ ListensOK /\ pc \in [Threads -> Places]
  BY DEF ClientInv, TypeOK
<1>2. /\ pc[t] = "connect"
      /\ UNCHANGED <<stateVars, autoVars, m_nLocalPort, blockVars, ret, open, recv, deaf>>
  BY DEF ConnectAddr
<1>3. CASE ConnectFails(t) /\ UNCHANGED sock
  BY <1>2, <1>3, ConnectFailsKeeps DEF netVars
<1>4. ASSUME IsMine(t), sock' = [sock EXCEPT ![on[t]] = "up"], pc' = [pc EXCEPT ![t] = "attach"],
             UNCHANGED <<m_lock, hSocket, on>>
      PROVE  ClientInv'
  <2>1. on[t] \in Socks /\ hSocket[t] \in Handles /\ open[hSocket[t]] = on[t] /\ on[t] # 0
    BY <1>1, <1>2, <1>4 DEF ConnectOK, NewPlaces, IsMine, Socks
  <2>2. UNCHANGED <<m_hSocket, m_bAutoConnect, hPerHandle, recv, deaf>>
    BY <1>2 DEF stateVars, autoVars, blockVars
  <2>3. TypeOK'
    <3>1. pc' \in [Threads -> Places]
      BY <1>1, <1>4 DEF Places
    <3>2. sock' \in [Socks -> {"none", "new", "up", "closed", "reset", "gone"}]
      BY <1>1, <1>4, <2>1 DEF TypeOK
    <3>. QED BY <1>1, <1>2, <1>4, <3>1, <3>2 DEF stateVars, autoVars, blockVars, TypeOK
  <2>4. Numbered' /\ nSockets' = nSockets
    <3>1. sock[on[t]] # "none"
      BY <1>1, <2>1, Created
    <3>2. \A h \in Handles : open'[h] \in {0, open[h]}
      BY <1>2
    <3>. QED BY <1>1, <1>4, <2>1, <3>1, <3>2, NumbersKept
  <2>5. ListensOK'
    <3>1. ASSUME hPerHandle \in Handles, NEW n, n = open'[hPerHandle], n # 0
          PROVE  sock'[n] # "up" \/ n \in deaf' \/ Listens(n)'
      <4>1. n \in Socks /\ n = open[hPerHandle]
        BY <1>1, <1>2, <3>1, Created
      <4>2. CASE n = on[t]
        <5>1. on'[t] = n /\ pc'[t] = "attach"
          BY <1>1, <1>4, <4>2
        <5>. QED BY <5>1 DEF Listens
      <4>3. CASE n # on[t]
        <5>1. sock'[n] = sock[n]
          BY <1>1, <1>4, <2>1, <4>1, <4>3 DEF TypeOK
        <5>2. Listens(n) => Listens(n)'
          BY <1>1, <1>2, <1>4, ListensStays
        <5>. QED BY <1>1, <2>2, <3>1, <4>1, <5>1, <5>2 DEF ListensOK
      <4>. QED BY <4>2, <4>3
    <3>. QED BY <2>2, <3>1 DEF ListensOK
  <2>6. m_hSocket' = Invalid
    BY <1>1, <1>2, <2>2 DEF StateOK, NewPlaces
  <2>. QED BY <1>2, <1>4, <2>2, <2>3, <2>4, <2>5, <2>6, ConnectWalks
<1>. QED
  <2>1. CASE ConnectFails(t) /\ UNCHANGED sock
    BY <1>3, <2>1
  <2>2. CASE ~(ConnectFails(t) /\ UNCHANGED sock)
    BY <1>4, <2>2 DEF ConnectAddr, Goes
  <2>. QED BY <2>1, <2>2

LEMMA ConnectAttachKeeps ==
  ASSUME ClientInv, NEW t \in Threads, ConnectAttach(t)
  PROVE  ClientInv'
<1>1. /\ TypeOK /\ Numbered /\ LockOK /\ ConnectOK /\ StateOK /\ ListensOK /\ pc \in [Threads -> Places]
  BY DEF ClientInv, TypeOK
<1>2. /\ pc[t] = "attach" /\ pc' = [pc EXCEPT ![t] = "recv"] /\ szBuffer' \in BOOLEAN /\ hPerHandle' = hSocket[t]
      /\ UNCHANGED <<stateVars, autoVars, m_lock, m_nLocalPort, ret, hSocket, on, netVars>>
  BY DEF ConnectAttach, Goes
<1>3. UNCHANGED <<m_hSocket, m_bAutoConnect, recv, open, sock, deaf>>
  BY <1>2 DEF stateVars, autoVars, netVars
<1>4. on[t] \in Socks /\ hSocket[t] \in Handles /\ open[hSocket[t]] \in {0, on[t]}
  BY <1>1, <1>2 DEF ConnectOK, NewPlaces
<1>5. TypeOK'
  <2>1. pc' \in [Threads -> Places]
    BY <1>1, <1>2 DEF Places
  <2>. QED BY <1>1, <1>2, <1>4, <2>1 DEF stateVars, autoVars, netVars, TypeOK
<1>6. Numbered' /\ nSockets' = nSockets
  BY <1>1, <1>3, NumbersStay
<1>7. ListensOK'
  <2>1. on'[t] = on[t] /\ pc'[t] = "recv"
    BY <1>1, <1>2
  <2>2. Listens(on[t])'
    BY <2>1 DEF Listens
  <2>. QED BY <1>2, <1>3, <1>4, <2>2 DEF ListensOK
<1>8. m_hSocket' = Invalid
  BY <1>1, <1>2, <1>3 DEF StateOK, NewPlaces
<1>. QED BY <1>2, <1>3, <1>5, <1>6, <1>7, <1>8, ConnectWalks

LEMMA ConnectRecvKeeps ==
  ASSUME ClientInv, NEW t \in Threads, ConnectRecv(t)
  PROVE  ClientInv'
<1>1. /\ TypeOK /\ Numbered /\ LockOK /\ ConnectOK /\ StateOK /\ CountOK /\ ListensOK /\ pc \in [Threads -> Places]
  BY DEF ClientInv, TypeOK
<1> DEFINE posts == szBuffer /\ IsMine(t) /\ sock[on[t]] # "reset"
<1>2. /\ pc[t] = "recv" /\ pc' = [pc EXCEPT ![t] = "store"]
      /\ recv' = IF posts THEN [recv EXCEPT ![on[t]] = @ + 1] ELSE recv
      /\ deaf' = IF szBuffer \/ ~IsMine(t) THEN deaf ELSE deaf \cup {on[t]}
      /\ UNCHANGED <<stateVars, autoVars, m_lock, m_nLocalPort, blockVars, ret, hSocket, on, open, sock>>
  BY DEF ConnectRecv, Goes
<1>3. UNCHANGED <<m_hSocket, m_bAutoConnect, hPerHandle>>
  BY <1>2 DEF stateVars, autoVars, blockVars
<1>4. on[t] \in Socks /\ hSocket[t] \in Handles /\ open[hSocket[t]] \in {0, on[t]} /\ hPerHandle = hSocket[t]
  BY <1>1, <1>2 DEF ConnectOK, NewPlaces, StateOK
<1>5. recv[on[t]] \in Nat /\ recv[on[t]] + 1 <= MaxSockets
  <2>1. Cardinality(Connecting) >= 1 /\ Cardinality(Connecting) \in Nat
    <3>1. t \in Connecting /\ IsFiniteSet(Connecting) /\ Cardinality(Connecting) \in Nat
      BY <1>2, Finite DEF Connecting, NewPlaces
    <3>2. Cardinality({t}) = 1 /\ {t} \subseteq Connecting
      BY <3>1, FS_Singleton
    <3>. QED BY <3>1, <3>2, FS_Subset
  <2>2. Cardinality(Handling) \in Nat
    BY Finite DEF Handling
  <2>3. recv[on[t]] <= Cardinality(Slots) /\ Cardinality(Slots) \in Nat
    BY <1>1, <1>4, RecvFits, Finite
  <2>4. nSockets \in Nat /\ nSockets <= MaxSockets
    BY <1>1, Created, Names
  <2>5. recv[on[t]] \in Nat
    BY <1>1, <1>4, Names DEF TypeOK
  <2>. QED BY <1>1, <2>1, <2>2, <2>3, <2>4, <2>5, Names DEF CountOK
<1>. HIDE DEF posts
<1>6. TypeOK'
  <2>1. pc' \in [Threads -> Places]
    BY <1>1, <1>2 DEF Places
  <2>2. recv' \in [Socks -> 0 .. MaxSockets]
    BY <1>1, <1>2, <1>4, <1>5, Names DEF TypeOK
  <2>3. deaf' \subseteq Socks
    BY <1>1, <1>2, <1>4 DEF TypeOK
  <2>. QED BY <1>1, <1>2, <2>1, <2>2, <2>3 DEF stateVars, autoVars, blockVars, TypeOK
<1>7. Numbered' /\ nSockets' = nSockets
  BY <1>1, <1>2, NumbersStay
<1>8. ListensOK'
  <2>1. CASE open[hSocket[t]] = 0
    BY <1>2, <1>3, <1>4, <2>1 DEF ListensOK
  <2>2. CASE open[hSocket[t]] = on[t]
    <3>1. CASE ~szBuffer
      BY <1>2, <1>3, <1>4, <2>2, <3>1 DEF ListensOK, IsMine
    <3>2. CASE szBuffer /\ sock[on[t]] = "reset"
      <4>1. sock'[on[t]] # "up"
        BY <1>2, <3>2
      <4>. QED BY <1>2, <1>3, <1>4, <2>2, <4>1 DEF ListensOK
    <3>3. CASE szBuffer /\ sock[on[t]] # "reset"
      <4>1. posts
        BY <2>2, <3>3 DEF posts, IsMine
      <4>2. recv'[on[t]] > 0
        BY <1>1, <1>2, <1>4, <1>5, <4>1 DEF TypeOK
      <4>3. Listens(on[t])'
        BY <1>2, <4>2 DEF Listens
      <4>. QED BY <1>2, <1>3, <1>4, <2>2, <4>3 DEF ListensOK
    <3>. QED BY <3>1, <3>2, <3>3
  <2>. QED BY <1>4, <2>1, <2>2
<1>9. m_hSocket' = Invalid
  BY <1>1, <1>2, <1>3 DEF StateOK, NewPlaces
<1>10. recv' = recv \/ Cardinality(Slots') = Cardinality(Slots) + 1
  BY <1>1, <1>2, <1>4, <1>5, SlotAdded
<1>. QED BY <1>2, <1>3, <1>4, <1>6, <1>7, <1>8, <1>9, <1>10, ConnectWalks

LEMMA ConnectStoreKeeps ==
  ASSUME ClientInv, NEW t \in Threads, ConnectStore(t)
  PROVE  ClientInv'
<1>1. /\ TypeOK /\ Numbered /\ LockOK /\ StateOK /\ ListensOK /\ pc \in [Threads -> Places]
      /\ hSocket[t] \in Handles \cup {Invalid}
  BY DEF ClientInv, TypeOK
<1>2. /\ pc[t] = "store" /\ pc' = [pc EXCEPT ![t] = "flag"] /\ m_hSocket' = hSocket[t]
      /\ UNCHANGED <<m_bIsConnected, autoVars, m_lock, m_nLocalPort, blockVars, ret, hSocket, on, netVars>>
  BY DEF ConnectStore, Goes
<1>3. UNCHANGED <<m_bAutoConnect, hPerHandle, recv, open, sock, deaf>>
  BY <1>2 DEF autoVars, blockVars, netVars
<1>4. TypeOK'
  <2>1. pc' \in [Threads -> Places]
    BY <1>1, <1>2 DEF Places
  <2>. QED BY <1>1, <1>2, <2>1 DEF autoVars, blockVars, netVars, TypeOK
<1>5. Numbered' /\ nSockets' = nSockets
  BY <1>1, <1>3, NumbersStay
<1>6. ListensOK'
  <2>1. \A n : Listens(n) => Listens(n)'
    BY <1>1, <1>2, <1>3, ListensStays
  <2>. QED BY <1>1, <1>3, <2>1 DEF ListensOK
<1>7. m_hSocket' = hPerHandle'
  BY <1>1, <1>2, <1>3 DEF StateOK
<1>. QED BY <1>2, <1>3, <1>4, <1>5, <1>6, <1>7, ConnectWalks

LEMMA ConnectFlagKeeps ==
  ASSUME ClientInv, NEW t \in Threads, ConnectFlag(t)
  PROVE  ClientInv'
<1>1. /\ TypeOK /\ Numbered /\ LockOK /\ ConnectOK /\ StateOK /\ AutoOK /\ CountOK /\ ListensOK
      /\ pc \in [Threads -> Places]
      /\ hSocket \in [Threads -> Handles \cup {Invalid}] /\ on \in [Threads -> 0 .. MaxSockets]
  BY DEF ClientInv, TypeOK
<1>2. /\ pc[t] = "flag" /\ pc' = [pc EXCEPT ![t] = "connected"] /\ m_bIsConnected' = TRUE /\ m_lock' = NoThread
      /\ hSocket' = [hSocket EXCEPT ![t] = Invalid] /\ on' = [on EXCEPT ![t] = 0]
      /\ UNCHANGED <<m_hSocket, autoVars, m_nLocalPort, blockVars, ret, netVars>>
  BY DEF ConnectFlag, Goes
<1>3. UNCHANGED <<m_bAutoConnect, hPerHandle, recv, open, sock, deaf>>
  BY <1>2 DEF autoVars, blockVars, netVars
<1>4. TypeOK'
  <2>1. pc' \in [Threads -> Places]
    BY <1>1, <1>2 DEF Places
  <2>2. hSocket' \in [Threads -> Handles \cup {Invalid}] /\ on' \in [Threads -> 0 .. MaxSockets]
    BY <1>1, <1>2, Names
  <2>. QED BY <1>1, <1>2, <2>1, <2>2 DEF autoVars, blockVars, netVars, TypeOK
<1>5. Numbered' /\ nSockets' = nSockets
  BY <1>1, <1>3, NumbersStay
<1>6. InConnect(t) /\ ret[t] # "socket"
  BY <1>1, <1>2 DEF InConnect, LockOK, ClosePlaces
<1>7. /\ \A u \in Threads : u # t => pc'[u] = pc[u] /\ hSocket'[u] = hSocket[u] /\ on'[u] = on[u]
      /\ pc'[t] = "connected"
  BY <1>1, <1>2
<1>8. \A u \in Threads : ret'[u] # "socket" /\ pc'[u] \notin NewPlaces \cup {"socket", "store", "flag"}
  <2>1. \A u \in Threads : u # t => ret[u] # "socket" /\ pc[u] \notin NewPlaces \cup {"socket", "store", "flag"}
    BY <1>1, <1>6, Others
  <2>. QED BY <1>2, <1>6, <1>7, <2>1 DEF NewPlaces
<1>9. LockOK'
  BY <1>8 DEF LockOK, InConnect
<1>10. ConnectOK'
  BY <1>1, <1>7, <1>8 DEF ConnectOK
<1>11. StateOK'
  BY <1>1, <1>2, <1>3, <1>8 DEF StateOK, NewPlaces
<1>12. AutoOK'
  BY <1>1, <1>2, <1>3, AutoWalks
<1>13. CountOK'
  <2>1. Cardinality(Handling') = Cardinality(Handling) /\ Cardinality(Connecting') = Cardinality(Connecting)
    BY <1>1, <1>2, <1>4, <1>7, Counted DEF NewPlaces, TypeOK
  <2>2. Slots' = Slots
    BY <1>3 DEF Slots
  <2>. QED BY <1>1, <1>5, <2>1, <2>2 DEF CountOK
<1>14. ListensOK'
  <2>1. \A n : Listens(n) => Listens(n)'
    BY <1>1, <1>2, <1>3, <1>7, ListensStays
  <2>. QED BY <1>1, <1>3, <2>1 DEF ListensOK
<1>. QED BY <1>4, <1>5, <1>9, <1>10, <1>11, <1>12, <1>13, <1>14 DEF ClientInv

LEMMA ConnectKeeps ==
  ASSUME ClientInv, NEW t \in Threads, Connect(t)
  PROVE  ClientInv'
BY ConnectLockKeeps, WSASocketKeeps, ConnectAddrKeeps, ConnectAttachKeeps, ConnectRecvKeeps,
   ConnectStoreKeeps, ConnectFlagKeeps DEF Connect

----------------------------------------------------------------------------
(* Steps of the workers and of the peer.                                   *)

(* The net changes under threads that stay where they are, in all but what *)
(* is outstanding.                                                         *)
LEMMA NetWalks ==
  ASSUME ClientInv, TypeOK', Numbered', nSockets' = nSockets, ListensOK',
         Cardinality(Slots') \in {Cardinality(Slots), Cardinality(Slots) - 1},
         UNCHANGED <<m_hSocket, m_bAutoConnect, m_lock, hPerHandle, threadVars, open>>
  PROVE  ClientInv'
<1>1. LockOK /\ ConnectOK /\ StateOK /\ AutoOK /\ CountOK /\ TypeOK /\ Numbered
  BY DEF ClientInv
<1>2. UNCHANGED <<pc, ret, hSocket, on>>
  BY DEF threadVars
<1>3. LockOK' /\ ConnectOK' /\ StateOK' /\ AutoOK'
  BY <1>1, <1>2 DEF LockOK, InConnect, ConnectOK, StateOK, AutoOK
<1>4. CountOK'
  <2>1. /\ Handling' = Handling /\ Connecting' = Connecting
        /\ Cardinality(Handling) \in Nat /\ Cardinality(Connecting) \in Nat /\ Cardinality(Slots) \in Nat
    BY <1>2, Finite DEF Handling, Connecting
  <2>2. nSockets \in Nat
    BY <1>1, Created
  <2>. QED BY <1>1, <2>1, <2>2 DEF CountOK
<1>. QED BY <1>3, <1>4 DEF ClientInv

LEMMA PeerLeavesKeeps ==
  ASSUME ClientInv, NEW n \in Socks, PeerLeaves(n)
  PROVE  ClientInv'
<1>1. TypeOK /\ Numbered /\ ListensOK
  BY DEF ClientInv
<1>2. /\ sock[n] = "up"
      /\ UNCHANGED <<stateVars, autoVars, m_lock, m_nLocalPort, blockVars, threadVars, open, recv, deaf>>
  BY DEF PeerLeaves
<1>3. PICK how \in {"closed", "reset"} : sock' = [sock EXCEPT ![n] = how]
  BY DEF PeerLeaves
<1>4. UNCHANGED <<m_hSocket, m_bAutoConnect, hPerHandle, pc, on>>
  BY <1>2 DEF stateVars, autoVars, blockVars, threadVars
<1>5. TypeOK'
  <2>1. sock' \in [Socks -> {"none", "new", "up", "closed", "reset", "gone"}]
    BY <1>1, <1>3 DEF TypeOK
  <2>. QED BY <1>1, <1>2, <2>1 DEF stateVars, autoVars, blockVars, threadVars, TypeOK
<1>6. Numbered' /\ nSockets' = nSockets
  BY <1>1, <1>2, <1>3, NumbersKept
<1>7. ListensOK'
  <2>1. ASSUME hPerHandle \in Handles, NEW k, k = open[hPerHandle], k # 0
        PROVE  sock'[k] # "up" \/ k \in deaf \/ Listens(k)
    <3>1. k \in Socks
      BY <1>1, <2>1, Created
    <3>2. sock'[k] = "up" => sock[k] = "up"
      BY <1>1, <1>3, <3>1 DEF TypeOK
    <3>. QED BY <1>1, <2>1, <3>2 DEF ListensOK
  <2>2. \A k : Listens(k) => Listens(k)'
    BY <1>2, <1>4 DEF Listens
  <2>. QED BY <1>2, <1>4, <2>1, <2>2 DEF ListensOK
<1>8. Slots' = Slots
  BY <1>2 DEF Slots
<1>. QED BY <1>2, <1>4, <1>5, <1>6, <1>7, <1>8, NetWalks

(* The packet of a receive of n is taken from the port.                    *)
LEMMA DequeueEndedKeeps ==
  ASSUME ClientInv, NEW w \in Workers, NEW n \in Socks, DequeueEnded(w, n)
  PROVE  ClientInv'
<1>1. TypeOK /\ Numbered /\ ListensOK
  BY DEF ClientInv
<1>2. /\ recv[n] > 0 /\ sock[n] # "up" /\ recv' = [recv EXCEPT ![n] = @ - 1]
      /\ UNCHANGED <<stateVars, autoVars, m_lock, m_nLocalPort, blockVars, threadVars, open, sock, deaf>>
  BY DEF DequeueEnded
<1>3. UNCHANGED <<m_hSocket, m_bAutoConnect, hPerHandle, pc, on>>
  BY <1>2 DEF stateVars, autoVars, blockVars, threadVars
<1>4. TypeOK'
  <2>1. recv' \in [Socks -> 0 .. MaxSockets]
    BY <1>1, <1>2, Names DEF TypeOK
  <2>. QED BY <1>1, <1>2, <2>1 DEF stateVars, autoVars, blockVars, threadVars, TypeOK
<1>5. Numbered' /\ nSockets' = nSockets
  BY <1>1, <1>2, NumbersStay
<1>6. ListensOK'
  <2>1. ASSUME hPerHandle \in Handles, NEW k, k = open[hPerHandle], k # 0
        PROVE  sock[k] # "up" \/ k \in deaf \/ Listens(k)'
    <3>1. k \in Socks
      BY <1>1, <2>1, Created
    <3>2. k # n => recv'[k] = recv[k]
      BY <1>1, <1>2, <3>1 DEF TypeOK
    <3>3. k # n /\ Listens(k) => Listens(k)'
      BY <1>3, <3>2 DEF Listens
    <3>. QED BY <1>1, <1>2, <2>1, <3>3 DEF ListensOK
  <2>. QED BY <1>2, <1>3, <2>1 DEF ListensOK
<1>7. Cardinality(Slots') = Cardinality(Slots) - 1
  BY <1>1, <1>2, SlotTaken
<1>. QED BY <1>2, <1>3, <1>4, <1>5, <1>6, <1>7, NetWalks

LEMMA DequeueDataKeeps ==
  ASSUME ClientInv, NEW w \in Workers, NEW n \in Socks, DequeueData(w, n)
  PROVE  ClientInv'
<1>1. /\ TypeOK /\ Numbered /\ LockOK /\ ConnectOK /\ StateOK /\ AutoOK /\ CountOK /\ ListensOK
      /\ pc \in [Threads -> Places] /\ on \in [Threads -> 0 .. MaxSockets]
      /\ w \in Threads /\ w # App /\ w # AutoThread
  BY Names DEF ClientInv, TypeOK
<1>2. /\ pc[w] = "idle" /\ recv[n] > 0 /\ recv' = [recv EXCEPT ![n] = @ - 1]
      /\ on' = [on EXCEPT ![w] = n] /\ pc' = [pc EXCEPT ![w] = "onrecv"]
      /\ UNCHANGED <<stateVars, autoVars, m_lock, m_nLocalPort, blockVars, ret, hSocket, open, sock, deaf>>
  BY DEF DequeueData, Goes
<1>3. UNCHANGED <<m_hSocket, m_bAutoConnect, hPerHandle>>
  BY <1>2 DEF stateVars, autoVars, blockVars
<1>4. TypeOK'
  <2>1. pc' \in [Threads -> Places]
    BY <1>1, <1>2 DEF Places
  <2>2. recv' \in [Socks -> 0 .. MaxSockets]
    BY <1>1, <1>2, Names DEF TypeOK
  <2>3. on' \in [Threads -> 0 .. MaxSockets]
    BY <1>1, <1>2, Names DEF Socks
  <2>. QED BY <1>1, <1>2, <2>1, <2>2, <2>3 DEF stateVars, autoVars, blockVars, TypeOK
<1>5. Numbered' /\ nSockets' = nSockets
  BY <1>1, <1>2, NumbersStay
<1>6. /\ \A u \in Threads : u # w => pc'[u] = pc[u] /\ on'[u] = on[u]
      /\ pc'[w] = "onrecv" /\ on'[w] = n
  BY <1>1, <1>2
<1>7. LockOK'
  BY <1>1, <1>2, <1>6 DEF LockOK, InConnect, ClosePlaces, NewPlaces
<1>8. ConnectOK'
  <2>1. \A u \in Threads : pc'[u] \in NewPlaces => u # w
    BY <1>6 DEF NewPlaces
  <2>. QED BY <1>1, <1>2, <1>6, <2>1 DEF ConnectOK
<1>9. StateOK'
  BY <1>1, <1>2, <1>3, <1>6 DEF StateOK, NewPlaces
<1>10. AutoOK'
  BY <1>1, <1>2, <1>3, AutoWalks
<1>11. CountOK'
  <2>1. /\ Cardinality(Handling') = Cardinality(Handling) + 1 /\ Cardinality(Connecting') = Cardinality(Connecting)
        /\ Cardinality(Handling) \in Nat /\ Cardinality(Connecting) \in Nat
    BY <1>1, <1>2, <1>4, <1>6, Counted DEF NewPlaces, TypeOK
  <2>2. Cardinality(Slots') = Cardinality(Slots) - 1 /\ Cardinality(Slots) \in Nat
    BY <1>1, <1>2, SlotTaken, Finite
  <2>3. nSockets \in Nat
    BY <1>1, Created
  <2>. QED BY <1>1, <1>5, <2>1, <2>2, <2>3 DEF CountOK
<1>12. ListensOK'
  <2>1. ASSUME hPerHandle \in Handles, NEW k, k = open[hPerHandle], k # 0
        PROVE  sock[k] # "up" \/ k \in deaf \/ Listens(k)'
    <3>1. k \in Socks
      BY <1>1, <2>1, Created
    <3>2. CASE k = n
      BY <1>6, <3>2 DEF Listens
    <3>3. CASE k # n
      <4>1. recv'[k] = recv[k]
        BY <1>1, <1>2, <3>1, <3>3 DEF TypeOK
      <4>2. Listens(k) => Listens(k)'
        BY <1>1, <1>2, <1>6, <4>1, ListensStays
      <4>. QED BY <1>1, <2>1, <4>2 DEF ListensOK
    <3>. QED BY <3>2, <3>3
  <2>. QED BY <1>2, <1>3, <2>1 DEF ListensOK
<1>. QED BY <1>4, <1>5, <1>7, <1>8, <1>9, <1>10, <1>11, <1>12 DEF ClientInv

LEMMA OnRecvKeeps ==
  ASSUME ClientInv, NEW w \in Workers, OnRecv(w)
  PROVE  ClientInv'
<1>1. /\ TypeOK /\ Numbered /\ LockOK /\ ConnectOK /\ StateOK /\ AutoOK /\ CountOK /\ ListensOK
      /\ pc \in [Threads -> Places] /\ on \in [Threads -> 0 .. MaxSockets]
      /\ ret \in [Threads -> {"idle", "signal", "socket", "retry"}]
      /\ w \in Threads /\ w # App /\ w # AutoThread
  BY Names DEF ClientInv, TypeOK
<1>2. /\ pc[w] = "onrecv" /\ on' = [on EXCEPT ![w] = 0]
      /\ UNCHANGED <<stateVars, autoVars, m_lock, m_nLocalPort, blockVars, hSocket, open, sock>>
  BY DEF OnRecv
<1>3. UNCHANGED <<m_hSocket, m_bAutoConnect, hPerHandle>>
  BY <1>2 DEF stateVars, autoVars, blockVars
<1>4. ret[w] # "socket" /\ on[w] \in Socks
  BY <1>1, <1>2 DEF LockOK, ClosePlaces, ConnectOK
<1> DEFINE k == open[hPerHandle]
<1>5. PICK x \in {"idle", "close"} : pc' = [pc EXCEPT ![w] = x]
  BY DEF OnRecv, PostRecv, StopRecv, Disconnect, Invokes, Goes
<1>6. ret' \in {ret, [ret EXCEPT ![w] = "signal"]}
  BY DEF OnRecv, PostRecv, StopRecv, Disconnect, Invokes
<1>7. \/ /\ IsUp(hPerHandle) /\ recv' = [recv EXCEPT ![k] = @ + 1] /\ deaf' = deaf
      \/ ~IsUp(hPerHandle) /\ UNCHANGED <<recv, deaf>>
      \/ /\ recv' = recv
         /\ deaf' = IF sock[on[w]] = "gone" THEN deaf ELSE deaf \cup {on[w]}
  BY DEF OnRecv, PostRecv, StopRecv
<1>8. IsUp(hPerHandle) => hPerHandle \in Handles /\ k \in Socks /\ k # 0
  BY <1>1, Created DEF IsUp
<1>. HIDE DEF k
<1>9. \A n \in Socks : recv[n] \in Nat /\ recv[n] + 1 <= MaxSockets
  <2>1. Cardinality(Handling) >= 1 /\ Cardinality(Handling) \in Nat
    <3>1. w \in Handling /\ IsFiniteSet(Handling) /\ Cardinality(Handling) \in Nat
      BY <1>1, <1>2, Finite DEF Handling
    <3>2. Cardinality({w}) = 1 /\ {w} \subseteq Handling
      BY <3>1, FS_Singleton
    <3>. QED BY <3>1, <3>2, FS_Subset
  <2>2. Cardinality(Connecting) \in Nat
    BY Finite DEF Connecting
  <2>3. ASSUME NEW n \in Socks PROVE recv[n] <= Cardinality(Slots) /\ Cardinality(Slots) \in Nat /\ recv[n] \in Nat
    BY <1>1, RecvFits, Finite, Names DEF TypeOK
  <2>4. nSockets \in Nat /\ nSockets <= MaxSockets
    BY <1>1, Created, Names
  <2>. QED BY <1>1, <2>1, <2>2, <2>3, <2>4, Names DEF CountOK
<1>10. TypeOK'
  <2>1. pc' \in [Threads -> Places]
    BY <1>1, <1>5 DEF Places
  <2>2. ret' \in [Threads -> {"idle", "signal", "socket", "retry"}] /\ on' \in [Threads -> 0 .. MaxSockets]
    BY <1>1, <1>2, <1>6, Names
  <2>3. recv' \in [Socks -> 0 .. MaxSockets]
    <3>1. recv' = recv \/ (k \in Socks /\ recv' = [recv EXCEPT ![k] = @ + 1])
      BY <1>7, <1>8
    <3>. QED BY <1>1, <1>9, <3>1, Names DEF TypeOK
  <2>4. deaf' \subseteq Socks
    BY <1>1, <1>4, <1>7 DEF TypeOK
  <2>. QED BY <1>1, <1>2, <2>1, <2>2, <2>3, <2>4 DEF stateVars, autoVars, blockVars, TypeOK
<1>11. Numbered' /\ nSockets' = nSockets
  BY <1>1, <1>2, NumbersStay
<1>12. /\ \A u \in Threads : u # w => pc'[u] = pc[u] /\ ret'[u] = ret[u] /\ on'[u] = on[u]
       /\ pc'[w] = x /\ ret'[w] # "socket"
  BY <1>1, <1>2, <1>4, <1>5, <1>6
<1>13. LockOK'
  BY <1>1, <1>2, <1>12 DEF LockOK, InConnect, NewPlaces
<1>14. ConnectOK'
  BY <1>1, <1>2, <1>12 DEF ConnectOK, NewPlaces
<1>15. StateOK'
  BY <1>1, <1>2, <1>3, <1>12 DEF StateOK, NewPlaces
<1>16. AutoOK'
  BY <1>1, <1>2, <1>3, <1>5, AutoWalks
<1>17. CountOK'
  <2>1. /\ Cardinality(Handling') = Cardinality(Handling) - 1 /\ Cardinality(Connecting') = Cardinality(Connecting)
        /\ Cardinality(Handling) \in Nat /\ Cardinality(Connecting) \in Nat
    BY <1>1, <1>2, <1>10, <1>12, Counted DEF NewPlaces, TypeOK
  <2>2. Cardinality(Slots') \in {Cardinality(Slots), Cardinality(Slots) + 1} /\ Cardinality(Slots) \in Nat
    <3>1. CASE recv' = recv
      BY <3>1, Finite DEF Slots
    <3>2. CASE k \in Socks /\ recv' = [recv EXCEPT ![k] = @ + 1]
      BY <1>1, <1>9, <3>2, SlotAdded, Finite
    <3>. QED BY <1>7, <1>8, <3>1, <3>2
  <2>3. nSockets \in Nat
    BY <1>1, Created
  <2>. QED BY <1>1, <1>11, <2>1, <2>2, <2>3 DEF CountOK
<1>18. ListensOK'
  <2>1. ASSUME hPerHandle \in Handles, k # 0
        PROVE  sock[k] # "up" \/ k \in deaf' \/ Listens(k)'
    <3>1. k \in Socks
      BY <1>1, <2>1, Created DEF k
    <3>2. CASE IsUp(hPerHandle) /\ recv' = [recv EXCEPT ![k] = @ + 1]
      <4>1. recv'[k] > 0
        BY <1>1, <1>9, <3>1, <3>2 DEF TypeOK
      <4>2. k' = k
        BY <1>2, <1>3 DEF k
      <4>. QED BY <4>1, <4>2 DEF Listens
    <3>3. CASE ~IsUp(hPerHandle)
      BY <2>1, <3>3 DEF IsUp, k
    <3>4. CASE recv' = recv /\ deaf' = IF sock[on[w]] = "gone" THEN deaf ELSE deaf \cup {on[w]}
      <4>1. CASE k = on[w]
        BY <3>4, <4>1
      <4>2. CASE k # on[w]
        <5>1. ASSUME Listens(k) PROVE Listens(k)'
          <6>1. CASE recv[k] > 0
            BY <1>2, <1>3, <3>4, <6>1 DEF Listens, k
          <6>2. ASSUME NEW v \in Workers, on[v] = k, pc[v] = "onrecv" PROVE Listens(k)'
            <7>1. v # w /\ v \in Threads
              BY <4>2, <6>2, Names
            <7>2. on'[v] = k /\ pc'[v] = "onrecv"
              BY <1>12, <6>2, <7>1
            <7>. QED BY <1>2, <1>3, <7>2 DEF Listens, k
          <6>3. ASSUME NEW u \in Threads, on[u] = k, pc[u] \in {"attach", "recv"} PROVE Listens(k)'
            <7>1. u # w
              BY <1>2, <6>3
            <7>2. on'[u] = k /\ pc'[u] \in {"attach", "recv"}
              BY <1>12, <6>3, <7>1
            <7>. QED BY <1>2, <1>3, <7>2 DEF Listens, k
          <6>. QED BY <5>1, <6>1, <6>2, <6>3 DEF Listens
        <5>2. sock[k] # "up" \/ k \in deaf \/ Listens(k)
          BY <1>1, <2>1 DEF ListensOK, k
        <5>. QED BY <3>4, <5>1, <5>2
      <4>. QED BY <4>1, <4>2
    <3>. QED BY <1>7, <3>2, <3>3, <3>4
  <2>. QED BY <1>2, <1>3, <2>1 DEF ListensOK, k
<1>. QED BY <1>10, <1>11, <1>13, <1>14, <1>15, <1>16, <1>17, <1>18 DEF ClientInv

----------------------------------------------------------------------------
(* The application's calls and the thread that connects again.             *)

(* A step of t that leaves the net and its own socket alone.               *)
LEMMA PlainWalks ==
  ASSUME ClientInv, NEW t \in Threads, NEW x \in Quiet, NEW r \in {"idle", "signal", "retry"},
         pc' = [pc EXCEPT ![t] = x], pc[t] \in Quiet \ ClosePlaces,
         ret' = ret \/ (ret' = [ret EXCEPT ![t] = r]),
         UNCHANGED <<m_hSocket, m_lock, blockVars, hSocket, on, netVars>>,
         m_bIsConnected' \in BOOLEAN, m_bAutoConnect' \in BOOLEAN, m_nLocalPort' \in BOOLEAN,
         m_nCheckIntervalTime' \in {"garbage", "set"}, m_eventAutoConnect' \in BOOLEAN,
         m_ThreadCmd' \in {"nothing", "stop"}, AutoOK'
  PROVE  ClientInv'
<1>1. /\ TypeOK /\ pc \in [Threads -> Places] /\ ret \in [Threads -> {"idle", "signal", "socket", "retry"}]
      /\ hSocket \in [Threads -> Handles \cup {Invalid}]
  BY DEF ClientInv, TypeOK
<1>2. UNCHANGED <<m_hSocket, m_lock, szBuffer, hPerHandle, hSocket, on, open, sock, recv, deaf>>
  BY DEF blockVars, netVars
<1>3. pc' \in [Threads -> Places] /\ ret' \in [Threads -> {"idle", "signal", "socket", "retry"}]
  <2>1. x \in Places
    BY DEF Quiet
  <2>. QED BY <1>1, <2>1
<1>4. TypeOK'
  BY <1>1, <1>2, <1>3 DEF TypeOK
<1>5. hSocket' = [hSocket EXCEPT ![t] = hSocket[t]]
  BY <1>1, <1>2
<1>. QED BY <1>2, <1>4, <1>5, Walks

LEMMA QuietPlaces ==
  /\ {"none", "idle", "close", "signal", "lock", "connected", "failed", "send", "wsasend", "sendfailed",
      "autoflags", "autostop", "autowait", "noflags", "enter", "wait", "hang", "real", "select", "alive",
      "retry", "sleep"} \subseteq Quiet
  /\ {"none", "idle", "signal", "lock", "connected", "failed", "send", "wsasend", "sendfailed",
      "autoflags", "autostop", "autowait", "noflags", "enter", "wait", "hang", "real", "select", "alive",
      "retry", "sleep"} \subseteq Quiet \ ClosePlaces
BY DEF Quiet, Places, NewPlaces, ClosePlaces

LEMMA DisconnectSignalKeeps ==
  ASSUME ClientInv, NEW t \in Threads, DisconnectSignal(t)
  PROVE  ClientInv'
<1>1. /\ TypeOK /\ AutoOK
      /\ UNCHANGED <<stateVars, m_bAutoConnect, m_nCheckIntervalTime, m_ThreadCmd,
                     m_lock, m_nLocalPort, blockVars, ret, hSocket, on, netVars>>
  BY DEF ClientInv, DisconnectSignal
<1>2. /\ pc[t] = "signal" /\ pc' = [pc EXCEPT ![t] = "idle"] /\ m_eventAutoConnect' \in {TRUE, m_eventAutoConnect}
  BY DEF DisconnectSignal, Goes, Signal
<1>3. AutoOK'
  BY <1>1, <1>2, AutoWalks
<1>4. "idle" \in Quiet /\ pc[t] \in Quiet \ ClosePlaces
  BY <1>2, QuietPlaces
<1>. QED BY <1>1, <1>2, <1>3, <1>4, PlainWalks DEF TypeOK, stateVars

LEMMA AppWalks ==
  ASSUME ClientInv, \/ Open \/ OpenEnds \/ AppClose \/ Send \/ WSASend \/ SendFails
  PROVE  ClientInv'
<1>1. TypeOK /\ AutoOK
  BY DEF ClientInv
<1>2. UNCHANGED <<stateVars, m_bAutoConnect, m_nCheckIntervalTime, m_ThreadCmd, m_lock, blockVars, hSocket, on, netVars>>
  BY DEF Open, OpenEnds, AppClose, Send, WSASend, SendFails, autoVars
<1>3. /\ pc[App] \in {"idle", "connected", "failed", "wsasend", "sendfailed"}
      /\ ret' = ret \/ (\E r \in {"idle", "signal"} : ret' = [ret EXCEPT ![App] = r])
      /\ \E x \in {"lock", "idle", "close", "send", "wsasend", "sendfailed"} : pc' = [pc EXCEPT ![App] = x]
  BY DEF Open, OpenEnds, AppClose, Send, WSASend, SendFails, Calling, Invokes, Goes, Disconnect
<1>4. m_eventAutoConnect' \in {TRUE, m_eventAutoConnect}
  BY DEF Open, OpenEnds, AppClose, Send, WSASend, SendFails, Signal, autoVars
<1>5. m_nLocalPort' \in BOOLEAN
  BY <1>1 DEF Open, OpenEnds, AppClose, Send, WSASend, SendFails, TypeOK
<1>6. PICK x \in {"lock", "idle", "close", "send", "wsasend", "sendfailed"} : pc' = [pc EXCEPT ![App] = x]
  BY <1>3
<1>7. PICK r \in {"idle", "signal"} : ret' = ret \/ (ret' = [ret EXCEPT ![App] = r])
  BY <1>3
<1>8. AutoOK'
  BY <1>1, <1>2, <1>3, <1>6, Names, AutoWalks
<1>9. x \in Quiet /\ pc[App] \in Quiet \ ClosePlaces
  BY <1>3, QuietPlaces
<1>10. /\ m_bIsConnected' \in BOOLEAN /\ m_bAutoConnect' \in BOOLEAN /\ m_eventAutoConnect' \in BOOLEAN
       /\ m_nCheckIntervalTime' \in {"garbage", "set"} /\ m_ThreadCmd' \in {"nothing", "stop"}
       /\ m_hSocket' = m_hSocket
  BY <1>1, <1>2, <1>4 DEF TypeOK, stateVars
<1>. QED BY <1>2, <1>5, <1>6, <1>7, <1>8, <1>9, <1>10, Names, PlainWalks

LEMMA SendHandleKeeps ==
  ASSUME ClientInv, SendHandle
  PROVE  ClientInv'
<1>1. /\ TypeOK /\ AutoOK /\ pc \in [Threads -> Places] /\ hSocket \in [Threads -> Handles \cup {Invalid}]
      /\ m_hSocket \in Handles \cup {Invalid}
  BY DEF ClientInv, TypeOK
<1>2. /\ pc[App] = "send" /\ pc' = [pc EXCEPT ![App] = "wsasend"]
      /\ hSocket' = [hSocket EXCEPT ![App] = m_hSocket]
      /\ UNCHANGED <<stateVars, autoVars, m_lock, m_nLocalPort, blockVars, ret, on, netVars>>
  BY DEF SendHandle, Goes
<1>3. "wsasend" \in Quiet /\ pc[App] \in Quiet \ ClosePlaces /\ "wsasend" \in Places
  BY <1>2, QuietPlaces DEF Quiet
<1>4. TypeOK'
  <2>1. pc' \in [Threads -> Places] /\ hSocket' \in [Threads -> Handles \cup {Invalid}]
    BY <1>1, <1>2, <1>3
  <2>. QED BY <1>1, <1>2, <2>1 DEF TypeOK, stateVars, autoVars, blockVars, netVars
<1>5. AutoOK'
  BY <1>1, <1>2, Names, AutoWalks DEF autoVars
<1>. QED BY <1>2, <1>3, <1>4, <1>5, Names, Walks DEF stateVars, blockVars, netVars

(* The steps of SetAutoConnect that only the application's thread takes.   *)
LEMMA SetAutoConnectKeeps ==
  ASSUME ClientInv, \/ StartAutoConnect /\ m_bAutoConnect
                    \/ StopAutoConnect \/ StopCommand \/ SetFlags
  PROVE  ClientInv'
<1>1. TypeOK /\ AutoOK /\ pc \in [Threads -> Places]
  BY DEF ClientInv, TypeOK
<1>2. UNCHANGED <<stateVars, m_lock, m_nLocalPort, blockVars, ret, hSocket, on, netVars>>
  BY DEF StartAutoConnect, StopAutoConnect, StopCommand, SetFlags
<1>3. m_hSocket' = m_hSocket /\ m_bIsConnected' \in BOOLEAN /\ m_nLocalPort' \in BOOLEAN
  BY <1>1, <1>2 DEF stateVars, TypeOK
<1>4. /\ m_eventAutoConnect' \in BOOLEAN /\ m_bAutoConnect' \in BOOLEAN
      /\ m_nCheckIntervalTime' \in {"garbage", "set"} /\ m_ThreadCmd' \in {"nothing", "stop"}
  BY <1>1 DEF StartAutoConnect, StopAutoConnect, StopCommand, SetFlags, Signal, TypeOK
<1>5. PICK x \in {"autoflags", "noflags", "autostop", "autowait", "idle"} :
        /\ pc' = [pc EXCEPT ![App] = x] /\ pc[App] \in {"idle", "autostop", "autoflags", "noflags"}
        /\ \/ pc[App] = "idle" /\ x = "autoflags" /\ m_bAutoConnect' = m_bAutoConnect
           \/ pc[App] = "idle" /\ x = "autostop" /\ m_bAutoConnect /\ m_bAutoConnect'
           \/ pc[App] = "idle" /\ x = "noflags" /\ ~m_bAutoConnect /\ m_bAutoConnect' = m_bAutoConnect
           \/ pc[App] = "autostop" /\ x = "autowait" /\ m_bAutoConnect' = m_bAutoConnect
           \/ pc[App] = "autoflags" /\ x = "idle" /\ m_bAutoConnect'
           \/ pc[App] = "noflags" /\ x = "idle"
  <2>1. CASE StartAutoConnect /\ m_bAutoConnect
    BY <2>1 DEF StartAutoConnect, Calling, Goes
  <2>2. CASE StopAutoConnect
    BY <2>2 DEF StopAutoConnect, Calling, Goes
  <2>3. CASE StopCommand
    BY <2>3 DEF StopCommand, Goes
  <2>4. CASE SetFlags
    BY <2>4 DEF SetFlags, Goes
  <2>. QED BY <2>1, <2>2, <2>3, <2>4
<1>6. pc'[App] = x /\ pc'[AutoThread] = pc[AutoThread]
  BY <1>1, <1>5, Names
<1>7. AutoOK'
  BY <1>1, <1>5, <1>6 DEF AutoOK
<1>8. x \in Quiet /\ pc[App] \in Quiet \ ClosePlaces
  BY <1>5, QuietPlaces
<1>. QED BY <1>2, <1>3, <1>4, <1>5, <1>7, <1>8, Names, PlainWalks

LEMMA AutoConnectKeeps ==
  ASSUME ClientInv, AutoConnect
  PROVE  ClientInv'
<1>1. TypeOK /\ AutoOK /\ pc \in [Threads -> Places]
  BY DEF ClientInv, TypeOK
<1>2. /\ UNCHANGED <<m_hSocket, m_bAutoConnect, m_nCheckIntervalTime, m_ThreadCmd,
                     m_lock, m_nLocalPort, blockVars, hSocket, on, netVars>>
      /\ m_bIsConnected' \in BOOLEAN /\ m_eventAutoConnect' \in BOOLEAN
  BY <1>1 DEF AutoConnect, WaitEnters, WaitEnds, IsRealConnected, Select, RealConnected,
     Retry, RetrySleep,
              Retried, WaitReturns, stateVars, autoVars, TypeOK
<1>3. /\ pc[AutoThread] \in {"enter", "wait", "hang", "real", "select", "alive", "retry", "sleep",
                             "connected", "failed"}
      /\ \E x \in {"wait", "hang", "none", "real", "retry", "select", "alive", "close", "enter", "sleep", "lock"} :
           pc' = [pc EXCEPT ![AutoThread] = x]
      /\ ret' = ret \/ (ret' = [ret EXCEPT ![AutoThread] = "retry"])
  <2>1. CASE WaitEnters \/ WaitEnds
    BY <2>1 DEF WaitEnters, WaitEnds, Goes
  <2>2. CASE IsRealConnected \/ Select
    BY <2>2 DEF IsRealConnected, Select, Goes, Invokes
  <2>3. CASE RealConnected \/ Retry \/ RetrySleep \/ Retried
    BY <2>3 DEF RealConnected, Retry, RetrySleep, Retried, Goes
  <2>. QED BY <2>1, <2>2, <2>3 DEF AutoConnect
<1>4. PICK x \in {"wait", "hang", "none", "real", "retry", "select", "alive", "close", "enter", "sleep", "lock"} :
        pc' = [pc EXCEPT ![AutoThread] = x]
  BY <1>3
<1>5. AutoOK'
  BY <1>1, <1>2, <1>3, <1>4, Names, AutoWalks
<1>6. x \in Quiet /\ pc[AutoThread] \in Quiet \ ClosePlaces
  BY <1>3, <1>4, QuietPlaces
<1>7. /\ m_bAutoConnect' \in BOOLEAN /\ m_nLocalPort' \in BOOLEAN
      /\ m_nCheckIntervalTime' \in {"garbage", "set"} /\ m_ThreadCmd' \in {"nothing", "stop"}
  BY <1>1, <1>2 DEF TypeOK
<1>. QED BY <1>2, <1>3, <1>4, <1>5, <1>6, <1>7, Names, PlainWalks

(* The application's thread starts or kills the one that connects again.   *)
LEMMA StartsOrKills ==
  ASSUME ClientInv, TypeOK', AutoOK',
         NEW x \in {"autoflags", "noflags"}, NEW y \in {"enter", "none"},
         pc' = [pc EXCEPT ![App] = x, ![AutoThread] = y],
         pc[App] \in {"idle", "autowait"}, pc[AutoThread] \in SlowPlaces \cup {"none"},
         \A u \in Threads : u # AutoThread /\ m_lock = u => m_lock' = u,
         \A u \in Threads : u # AutoThread => hSocket'[u] = hSocket[u] /\ on'[u] = on[u],
         UNCHANGED <<m_hSocket, hPerHandle, ret, open, sock, recv, deaf>>
  PROVE  ClientInv'
<1>1. /\ TypeOK /\ Numbered /\ LockOK /\ ConnectOK /\ StateOK /\ CountOK /\ ListensOK
      /\ pc \in [Threads -> Places]
  BY DEF ClientInv, TypeOK
<1>2. /\ \A u \in Threads : u \notin {App, AutoThread} => pc'[u] = pc[u]
      /\ pc'[App] = x /\ pc'[AutoThread] = y
  BY <1>1, Names
<1>3. ret[App] # "socket" /\ ret[AutoThread] # "socket"
  BY <1>1, Names DEF LockOK, ClosePlaces, SlowPlaces
<1>4. Numbered' /\ nSockets' = nSockets
  BY <1>1, NumbersStay
<1>5. LockOK'
  <2>1. ASSUME NEW u \in Threads, InConnect(u)' PROVE m_lock' = u
    <3>1. u \notin {App, AutoThread} /\ InConnect(u)
      BY <1>2, <1>3, <2>1 DEF InConnect, NewPlaces
    <3>. QED BY <1>1, <3>1 DEF LockOK
  <2>2. ASSUME NEW u \in Threads, ret'[u] = "socket" PROVE pc'[u] \in ClosePlaces
    <3>1. u \notin {App, AutoThread}
      BY <1>3, <2>2
    <3>. QED BY <1>1, <1>2, <2>2, <3>1 DEF LockOK
  <2>. QED BY <2>1, <2>2 DEF LockOK
<1>6. \A u \in Threads : pc'[u] \in NewPlaces \cup {"onrecv", "socket", "store", "unconnected"} =>
        u \notin {App, AutoThread} /\ pc'[u] = pc[u]
  BY <1>2 DEF NewPlaces
<1>7. ConnectOK'
  BY <1>1, <1>6 DEF ConnectOK
<1>8. StateOK'
  BY <1>1, <1>6 DEF StateOK, NewPlaces
<1>9. CountOK'
  <2>1. Handling' \subseteq Handling /\ Connecting' \subseteq Connecting /\ Slots' = Slots
    BY <1>6 DEF Handling, Connecting, Slots
  <2>2. /\ IsFiniteSet(Handling) /\ IsFiniteSet(Connecting)
        /\ Cardinality(Handling) \in Nat /\ Cardinality(Connecting) \in Nat /\ Cardinality(Slots) \in Nat
    BY Finite DEF Handling, Connecting
  <2>3. /\ Cardinality(Handling') <= Cardinality(Handling) /\ Cardinality(Handling') \in Nat
        /\ Cardinality(Connecting') <= Cardinality(Connecting) /\ Cardinality(Connecting') \in Nat
    BY <2>1, <2>2, FS_Subset, FS_CardinalityType
  <2>4. nSockets \in Nat
    BY <1>1, Created
  <2>. QED BY <1>1, <1>4, <2>1, <2>2, <2>3, <2>4 DEF CountOK
<1>10. ListensOK'
  <2>1. ASSUME NEW n, Listens(n) PROVE Listens(n)'
    <3>1. CASE recv[n] > 0
      BY <3>1 DEF Listens
    <3>2. ASSUME NEW w \in Workers, on[w] = n, pc[w] = "onrecv" PROVE Listens(n)'
      <4>1. w \in Threads /\ w \notin {App, AutoThread}
        BY Names
      <4>2. on'[w] = n /\ pc'[w] = "onrecv"
        BY <1>2, <3>2, <4>1
      <4>. QED BY <4>2 DEF Listens
    <3>3. ASSUME NEW u \in Threads, on[u] = n, pc[u] \in {"attach", "recv"} PROVE Listens(n)'
      <4>1. u \notin {App, AutoThread}
        BY <3>3 DEF SlowPlaces
      <4>2. on'[u] = n /\ pc'[u] \in {"attach", "recv"}
        BY <1>2, <3>3, <4>1
      <4>. QED BY <4>2 DEF Listens
    <3>. QED BY <2>1, <3>1, <3>2, <3>3 DEF Listens
  <2>. QED BY <1>1, <2>1 DEF ListensOK
<1>. QED BY <1>4, <1>5, <1>7, <1>8, <1>9, <1>10 DEF ClientInv

LEMMA StartAutoConnectKeeps ==
  ASSUME ClientInv, StartAutoConnect
  PROVE  ClientInv'
<1>1. CASE m_bAutoConnect
  BY <1>1, SetAutoConnectKeeps
<1>2. CASE ~m_bAutoConnect
  <2>1. TypeOK /\ AutoOK /\ pc \in [Threads -> Places]
    BY DEF ClientInv, TypeOK
  <2>2. /\ pc[App] = "idle" /\ m_eventAutoConnect' = FALSE /\ m_ThreadCmd' = "nothing"
        /\ pc' = [pc EXCEPT ![App] = "autoflags", ![AutoThread] = "enter"]
        /\ UNCHANGED <<stateVars, m_bAutoConnect, m_nCheckIntervalTime, m_lock,
                       m_nLocalPort, blockVars, ret, hSocket, on, netVars>>
    BY <1>2 DEF StartAutoConnect, Calling, CreateEvent
  <2>3. pc[AutoThread] = "none"
    BY <1>2, <2>1, <2>2 DEF AutoOK
  <2>4. TypeOK'
    <3>1. pc' \in [Threads -> Places]
      BY <2>1, <2>2 DEF Places
    <3>. QED BY <2>1, <2>2, <3>1 DEF stateVars, blockVars, netVars, TypeOK
  <2>5. AutoOK'
    <3>1. pc'[App] = "autoflags"
      BY <2>1, <2>2, Names
    <3>. QED BY <3>1 DEF AutoOK
  <2>. QED BY <2>2, <2>3, <2>4, <2>5, StartsOrKills DEF stateVars, blockVars, netVars
<1>. QED BY <1>1, <1>2

LEMMA StopWaitKillKeeps ==
  ASSUME ClientInv, StopWaitKill
  PROVE  ClientInv'
<1>1. /\ TypeOK /\ AutoOK /\ pc \in [Threads -> Places]
      /\ hSocket \in [Threads -> Handles \cup {Invalid}] /\ on \in [Threads -> 0 .. MaxSockets]
  BY DEF ClientInv, TypeOK
<1>2. /\ pc[App] = "autowait" /\ pc[AutoThread] \in SlowPlaces \cup {"none"}
      /\ pc' = [pc EXCEPT ![App] = "noflags", ![AutoThread] = "none"]
      /\ m_lock' = IF m_lock = AutoThread THEN Killed ELSE m_lock
      /\ hSocket' = [hSocket EXCEPT ![AutoThread] = Invalid] /\ on' = [on EXCEPT ![AutoThread] = 0]
      /\ UNCHANGED <<stateVars, autoVars, m_nLocalPort, blockVars, ret, netVars>>
  BY DEF StopWaitKill
<1>3. TypeOK'
  <2>1. pc' \in [Threads -> Places]
    BY <1>1, <1>2 DEF Places
  <2>2. hSocket' \in [Threads -> Handles \cup {Invalid}] /\ on' \in [Threads -> 0 .. MaxSockets]
    BY <1>1, <1>2, Names
  <2>3. m_lock' \in Threads \cup {Killed, NoThread}
    BY <1>1, <1>2 DEF TypeOK
  <2>. QED BY <1>1, <1>2, <2>1, <2>2, <2>3 DEF stateVars, autoVars, blockVars, netVars, TypeOK
<1>4. AutoOK'
  <2>1. pc'[App] = "noflags" /\ pc'[AutoThread] = "none"
    BY <1>1, <1>2, Names
  <2>. QED BY <2>1 DEF AutoOK
<1>5. \A u \in Threads : u # AutoThread => hSocket'[u] = hSocket[u] /\ on'[u] = on[u]
  BY <1>1, <1>2
<1>6. \A u \in Threads : u # AutoThread /\ m_lock = u => m_lock' = u
  BY <1>2
<1>. QED BY <1>2, <1>3, <1>4, <1>5, <1>6, StartsOrKills DEF stateVars, blockVars, netVars

----------------------------------------------------------------------------

LEMMA StutterKeeps ==
  ASSUME ClientInv, UNCHANGED vars
  PROVE  ClientInv'
<1>1. UNCHANGED <<m_hSocket, m_bIsConnected, m_bAutoConnect, m_nCheckIntervalTime, m_eventAutoConnect,
                  m_ThreadCmd, m_lock, m_nLocalPort, szBuffer, hPerHandle, pc, ret, hSocket, on,
                  open, sock, recv, deaf>>
  BY DEF vars, stateVars, autoVars, blockVars, threadVars, netVars
<1>2. TypeOK' /\ Numbered' /\ LockOK' /\ ConnectOK'
  BY <1>1 DEF ClientInv, TypeOK, Numbered, nSockets, LockOK, InConnect, ConnectOK
<1>3. StateOK' /\ AutoOK' /\ CountOK' /\ ListensOK'
  BY <1>1 DEF ClientInv, StateOK, AutoOK, CountOK, nSockets, Slots, Handling, Connecting,
     ListensOK, Listens
<1>. QED BY <1>2, <1>3 DEF ClientInv

LEMMA NextKeeps ==
  ASSUME ClientInv, [Next]_vars
  PROVE  ClientInv'
<1>1. ASSUME NEW t \in Threads, Called(t) PROVE ClientInv'
  BY <1>1, CloseKeeps, DisconnectSignalKeeps, ConnectKeeps DEF Called
<1>2. CASE AppCalls
  BY <1>2, AppWalks, StartAutoConnectKeeps, SetAutoConnectKeeps DEF AppCalls
<1>3. CASE AppRuns
  BY <1>1, <1>3, Names, AppWalks, SendHandleKeeps, SetAutoConnectKeeps,
     StopWaitKillKeeps DEF AppRuns
<1>4. CASE AutoRuns
  BY <1>1, <1>4, Names, AutoConnectKeeps DEF AutoRuns
<1>5. ASSUME NEW w \in Workers, WorkerRuns(w) PROVE ClientInv'
  BY <1>1, <1>5, Names, OnRecvKeeps DEF WorkerRuns
<1>6. ASSUME NEW w \in Workers, NEW n \in Socks, DequeueEnded(w, n) \/ DequeueData(w, n) PROVE ClientInv'
  BY <1>6, DequeueEndedKeeps, DequeueDataKeeps
<1>7. ASSUME NEW n \in Socks, PeerLeaves(n) PROVE ClientInv'
  BY <1>7, PeerLeavesKeeps
<1>8. CASE UNCHANGED vars
  BY <1>8, StutterKeeps
<1>. QED BY <1>2, <1>3, <1>4, <1>5, <1>6, <1>7, <1>8 DEF Next

THEOREM ClientInvariant == Spec => []ClientInv
BY ClientInit, NextKeeps, PTL DEF Spec

(* For any number of workers, handles and sockets the client is always in  *)
(* a state of its types, whichever thread runs Connect, Close or OnRecv    *)
(* and wherever a kill catches the reconnecting thread (TcpClient.cpp).    *)
(* That recv has a bound at all takes CountOK: a socket never has more     *)
(* receives outstanding than sockets were created.                         *)
THEOREM ClientTypeCorrect == Spec => []TypeOK
<1>1. ClientInv => TypeOK
  BY DEF ClientInv
<1>. QED BY <1>1, ClientInvariant, PTL

LEMMA ClientInvListens == ClientInv => ClientListens
<1>. SUFFICES ASSUME ClientInv, NEW h \in Handles, m_hSocket = h, open[h] # 0, sock[open[h]] = "up",
                     open[h] \notin deaf
              PROVE  recv[open[h]] > 0 \/ \E w \in Workers : on[w] = open[h] /\ pc[w] = "onrecv"
  BY DEF ClientListens
<1>1. StateOK /\ ListensOK /\ h # Invalid
  BY Names DEF ClientInv
<1>2. hPerHandle = h
  BY <1>1 DEF StateOK
<1>3. Listens(open[h])
  BY <1>1, <1>2 DEF ListensOK
<1>4. \A t \in Threads : pc[t] \notin {"attach", "recv"}
  BY <1>1 DEF StateOK, NewPlaces
<1>. QED BY <1>3, <1>4 DEF Listens

(* The connection that m_hSocket names has its receive, however Connect,   *)
(* the reconnecting thread, Close and the workers interleave, and whatever *)
(* is killed: PerHandle, from which the next receive takes its socket, is  *)
(* set before m_hSocket and names the same handle as long as that names    *)
(* one, although Close takes no lock (TcpClient.cpp:73-102, 301-448).      *)
THEOREM ClientListensCorrect == Spec => []ClientListens
BY ClientInvariant, ClientInvListens, PTL
=============================================================================
