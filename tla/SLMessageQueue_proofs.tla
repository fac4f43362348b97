----------------------- MODULE SLMessageQueue_proofs -----------------------
(***************************************************************************)
(* Proofs, for every number of readers, nodes, blocks and messages, of the *)
(* invariants of SLMessageQueue, and that it implements BoundedQueue.      *)
(***************************************************************************)
EXTENDS SLMessageQueue, FiniteSetTheorems, WellFoundedInduction, TLAPS

----------------------------------------------------------------------------
(* As long as the queue is not broken, its chain and the pool share out    *)
(* the nodes that are allocated.                                           *)

Pooled == ToSet(m_lstFreeObj)

Linked ==
  /\ IsInjective(Chain) /\ IsInjective(m_lstFreeObj)
  /\ ToSet(Chain) \cap Pooled = {} /\ nodes = ToSet(Chain) \cup Pooled
  /\ m_nSize = 0 => m_pHead = 0 /\ m_pTail = 0
  /\ m_nSize > 0 => m_pTail = Chain[m_nSize]

(* A node of the chain holds a message, a reader that holds none has no    *)
(* block, and a buffer with room has a block.                              *)
Filled ==
  /\ m_nSize <= nMsgs
  /\ \A p \in ToSet(Chain) : Owns(msg[p]) /\ msg[p].m_nSize # 0 /\ attachID[p] \in 1 .. nMsgs
  /\ \A p \in nodes : msg[p].m_bOwner /\ msg[p].m_nCapacity > 0 => msg[p].szData # Null
  /\ \A r \in Readers : /\ oNode[r].msg.m_bOwner
                        /\ oNode[r].attachID = 0 <=> oNode[r].msg.szData = Null
  /\ \A a \in Allocated : mem[a] <= nMsgs

(* The blocks that are allocated are those of the nodes and the readers,   *)
(* and no two of these have the same.                                      *)
OneOwner ==
  /\ \A p \in nodes : Owns(msg[p]) => msg[p].szData \in Allocated
  /\ \A r \in Readers : oNode[r].msg.szData # Null => oNode[r].msg.szData \in Allocated
  /\ \A p, q \in nodes : Owns(msg[p]) /\ Owns(msg[q]) /\ msg[p].szData = msg[q].szData => p = q
  /\ \A r, t \in Readers :
       oNode[r].msg.szData = oNode[t].msg.szData /\ oNode[r].msg.szData # Null => r = t
  /\ \A p \in nodes, r \in Readers : Owns(msg[p]) => msg[p].szData # oNode[r].msg.szData
  /\ \A a \in Allocated : \/ \E p \in nodes : Owns(msg[p]) /\ msg[p].szData = a
                          \/ \E r \in Readers : oNode[r].msg.szData = a

(* Until a message leaves the queue, the nodes of the pool are as new, and *)
(* so is the next pointer of the tail.                                     *)
Unused ==
  ~used => /\ \A p \in Pooled : next[p] = 0 /\ msg[p].szData = Null
           /\ m_nSize > 0 => next[m_pTail] = 0

QueueInv == TypeOK /\ (~broken => Linked /\ Filled /\ OneOwner /\ Unused)

----------------------------------------------------------------------------
(* Lists.                                                                  *)

(* The smallest number for which something fails.                          *)
LEMMA Least ==
  ASSUME NEW T, T \subseteq Nat, T # {}
  PROVE  \E x \in T : \A y \in T : x <= y
<1> DEFINE R == OpToRel(<, Nat)
<1>1. IsWellFoundedOn(R, Nat)
  BY NatLessThanWellFounded
<1>2. PICK x \in T : \A y \in T : ~ (<<y, x>> \in R)
  <2> HIDE DEF R
  <2> QED
    BY <1>1, WFMin
<1>3. \A y \in T : ~ (y < x)
  BY <1>2 DEF OpToRel
<1>4. QED
  BY <1>3

(* A finite set as a list.                                                 *)
LEMMA SeqOfSet ==
  ASSUME NEW S, IsFiniteSet(S)
  PROVE  SetToSeq(S) \in Seq(S) /\ IsInjective(SetToSeq(S)) /\ ToSet(SetToSeq(S)) = S
<1> DEFINE n == Cardinality(S)
           s == SetToSeq(S)
<1>1. n \in Nat /\ ExistsBijection(1 .. n, S)
  BY FS_CardinalityType
<1>2. PICK f \in Bijection(1 .. n, S) : TRUE
  BY <1>1 DEF ExistsBijection
<1>3. f \in [1 .. n -> S] /\ IsInjective(f) /\ \A x \in S : \E i \in 1 .. n : f[i] = x
  BY <1>2 DEF Bijection, Injection, Surjection, IsInjective
<1>4. s \in [1 .. n -> S] /\ IsInjective(s)
  BY <1>3 DEF SetToSeq
<1> HIDE DEF s
<1>5. s \in Seq(S)
  BY <1>1, <1>4
<1>6. ToSet(s) = S
  <2>1. s \in Injection(1 .. n, S)
    BY <1>4 DEF Injection, IsInjective
  <2>2. s \in Surjection(1 .. n, S)
    <3>1. Cardinality(1 .. n) = n
      BY <1>1, FS_Interval
    <3>2. QED
      BY <2>1, <3>1, FS_Injection
  <2>3. QED
    BY <2>2 DEF ToSet, Surjection
<1>7. QED
  BY <1>4, <1>5, <1>6 DEF s

(* A list loses its head, which is then in it no more.                     *)
LEMMA TakeHead ==
  ASSUME NEW S, NEW q \in Seq(S), q # <<>>, IsInjective(q)
  PROVE  /\ Head(q) \in S /\ Tail(q) \in Seq(S) /\ IsInjective(Tail(q))
         /\ ToSet(q) = {Head(q)} \cup ToSet(Tail(q)) /\ Head(q) \notin ToSet(Tail(q))
<1> DEFINE n == Len(q)
           r == Tail(q)
<1>1. n \in Nat \ {0} /\ DOMAIN q = 1 .. n /\ Head(q) = q[1] /\ Head(q) \in S
  OBVIOUS
<1>2. /\ r \in Seq(S) /\ DOMAIN r = 1 .. n - 1
      /\ \A i \in 1 .. n - 1 : r[i] = q[i + 1]
  OBVIOUS
<1> HIDE DEF n, r
<1>3. \A i \in 1 .. n - 1 : i + 1 \in 1 .. n /\ i + 1 # 1
  BY <1>1
<1>4. 1 \in 1 .. n /\ \A i \in 1 .. n : i # 1 => i - 1 \in 1 .. n - 1 /\ (i - 1) + 1 = i
  BY <1>1
<1>5. IsInjective(r)
  <2> SUFFICES ASSUME NEW i \in 1 .. n - 1, NEW j \in 1 .. n - 1, r[i] = r[j] PROVE i = j
    BY <1>2 DEF IsInjective
  <2>1. i + 1 \in DOMAIN q /\ j + 1 \in DOMAIN q /\ q[i + 1] = q[j + 1]
    BY <1>1, <1>2, <1>3
  <2>2. i + 1 = j + 1
    BY <2>1 DEF IsInjective
  <2>3. QED
    BY <1>1, <2>2
<1>6. {q[i] : i \in 1 .. n} = {q[1]} \cup {r[i] : i \in 1 .. n - 1}
  <2>1. \A i \in 1 .. n : i # 1 => q[i] = r[i - 1]
    BY <1>2, <1>4
  <2>2. \A i \in 1 .. n - 1 : r[i] \in {q[k] : k \in 1 .. n}
    BY <1>2, <1>3
  <2>3. QED
    BY <1>4, <2>1, <2>2
<1>7. q[1] \notin {r[i] : i \in 1 .. n - 1}
  BY <1>1, <1>2, <1>3, <1>4 DEF IsInjective
<1>8. QED
  BY <1>1, <1>2, <1>5, <1>6, <1>7 DEF r, ToSet

(* Two lists with nothing in common.                                       *)
LEMMA Joined ==
  ASSUME NEW S, NEW q \in Seq(S), NEW r \in Seq(S)
  PROVE  /\ q \o r \in Seq(S) /\ ToSet(q \o r) = ToSet(q) \cup ToSet(r)
         /\ IsInjective(q) /\ IsInjective(r) /\ ToSet(q) \cap ToSet(r) = {} => IsInjective(q \o r)
<1> DEFINE n == Len(q)
           m == Len(r)
           s == q \o r
<1>1. n \in Nat /\ m \in Nat /\ DOMAIN q = 1 .. n /\ DOMAIN r = 1 .. m
  OBVIOUS
<1>2. /\ s \in Seq(S) /\ DOMAIN s = 1 .. n + m
      /\ \A i \in 1 .. n + m : s[i] = IF i <= n THEN q[i] ELSE r[i - n]
  OBVIOUS
<1> HIDE DEF n, m, s
<1>3. \A i \in 1 .. n + m : IF i <= n THEN i \in 1 .. n ELSE i - n \in 1 .. m
  BY <1>1
<1>4. \A i \in 1 .. n : i \in 1 .. n + m /\ s[i] = q[i]
  BY <1>1, <1>2
<1>5. \A i \in 1 .. m : n + i \in 1 .. n + m /\ s[n + i] = r[i]
  BY <1>1, <1>2
<1>6. {s[i] : i \in 1 .. n + m} = {q[i] : i \in 1 .. n} \cup {r[i] : i \in 1 .. m}
  <2>1. \A i \in 1 .. n + m : s[i] \in {q[k] : k \in 1 .. n} \cup {r[k] : k \in 1 .. m}
    BY <1>2, <1>3
  <2>2. \A i \in 1 .. n : q[i] \in {s[k] : k \in 1 .. n + m}
    BY <1>4
  <2>3. \A i \in 1 .. m : r[i] \in {s[k] : k \in 1 .. n + m}
    BY <1>5
  <2>4. QED
    BY <2>1, <2>2, <2>3
<1>7. ASSUME IsInjective(q), IsInjective(r), ToSet(q) \cap ToSet(r) = {} PROVE IsInjective(s)
  <2> SUFFICES ASSUME NEW i \in 1 .. n + m, NEW j \in 1 .. n + m, s[i] = s[j] PROVE i = j
    BY <1>2 DEF IsInjective
  <2>1. \A k \in 1 .. n, l \in 1 .. m : q[k] # r[l]
    BY <1>1, <1>7 DEF ToSet
  <2>2. i <= n <=> j <= n
    BY <1>2, <1>3, <2>1
  <2>3. CASE i <= n
    BY <1>1, <1>2, <1>3, <1>7, <2>2, <2>3 DEF IsInjective
  <2>4. CASE ~ (i <= n)
    <3>1. i - n = j - n
      BY <1>1, <1>2, <1>3, <1>7, <2>2, <2>4 DEF IsInjective
    <3>2. QED
      BY <1>1, <3>1
  <2>5. QED
    BY <2>3, <2>4
<1>8. QED
  BY <1>1, <1>2, <1>6, <1>7 DEF s, ToSet

(* A list cut in two.                                                      *)
LEMMA Cut ==
  ASSUME NEW S, NEW q \in Seq(S), NEW k \in 0 .. Len(q)
  PROVE  /\ SubSeq(q, 1, k) \in Seq(S) /\ SubSeq(q, k + 1, Len(q)) \in Seq(S)
         /\ ToSet(q) = ToSet(SubSeq(q, 1, k)) \cup ToSet(SubSeq(q, k + 1, Len(q)))
         /\ IsInjective(q) =>
              /\ IsInjective(SubSeq(q, 1, k))
              /\ ToSet(SubSeq(q, 1, k)) \cap ToSet(SubSeq(q, k + 1, Len(q))) = {}
<1> DEFINE n == Len(q)
           a == SubSeq(q, 1, k)
           b == SubSeq(q, k + 1, Len(q))
<1>1. n \in Nat /\ DOMAIN q = 1 .. n /\ k \in 0 .. n
  OBVIOUS
<1>2. a \in Seq(S) /\ DOMAIN a = 1 .. k /\ \A i \in 1 .. k : a[i] = q[i]
  OBVIOUS
<1>3. b \in Seq(S) /\ DOMAIN b = 1 .. n - k /\ \A i \in 1 .. n - k : b[i] = q[k + i]
  OBVIOUS
<1> HIDE DEF n, a, b
<1>4. /\ \A i \in 1 .. k : i \in 1 .. n
      /\ \A i \in 1 .. n - k : k + i \in 1 .. n /\ ~ (k + i <= k)
      /\ \A i \in 1 .. n : IF i <= k THEN i \in 1 .. k ELSE i - k \in 1 .. n - k /\ k + (i - k) = i
  BY <1>1
<1>5. {q[i] : i \in 1 .. n} = {a[i] : i \in 1 .. k} \cup {b[i] : i \in 1 .. n - k}
  <2>1. \A i \in 1 .. n : q[i] = IF i <= k THEN a[i] ELSE b[i - k]
    BY <1>2, <1>3, <1>4
  <2>2. \A i \in 1 .. k : a[i] \in {q[j] : j \in 1 .. n}
    BY <1>2, <1>4
  <2>3. \A i \in 1 .. n - k : b[i] \in {q[j] : j \in 1 .. n}
    BY <1>3, <1>4
  <2>4. QED
    BY <1>4, <2>1, <2>2, <2>3
<1>6. ASSUME IsInjective(q) PROVE IsInjective(a) /\ \A i \in 1 .. k, j \in 1 .. n - k : a[i] # b[j]
  <2>1. IsInjective(a)
    BY <1>1, <1>2, <1>4, <1>6 DEF IsInjective
  <2>2. ASSUME NEW i \in 1 .. k, NEW j \in 1 .. n - k, a[i] = b[j] PROVE FALSE
    <3>1. q[i] = q[k + j] /\ i \in DOMAIN q /\ k + j \in DOMAIN q
      BY <1>1, <1>2, <1>3, <1>4, <2>2
    <3>2. i = k + j
      BY <1>6, <3>1 DEF IsInjective
    <3>3. QED
      BY <1>1, <3>2
  <2>3. QED
    BY <2>1, <2>2
<1>7. ToSet(q) = ToSet(a) \cup ToSet(b)
  BY <1>1, <1>2, <1>3, <1>5 DEF ToSet
<1>8. IsInjective(q) => IsInjective(a) /\ ToSet(a) \cap ToSet(b) = {}
  BY <1>2, <1>3, <1>6 DEF ToSet
<1>9. QED
  BY <1>2, <1>3, <1>7, <1>8 DEF a, b

(* A list that gains an element it did not have.                           *)
LEMMA AddLast ==
  ASSUME NEW S, NEW q \in Seq(S), NEW x \in S
  PROVE  /\ Append(q, x) \in Seq(S) /\ ToSet(Append(q, x)) = ToSet(q) \cup {x}
         /\ IsInjective(q) /\ x \notin ToSet(q) => IsInjective(Append(q, x))
<1>1. Append(q, x) = q \o <<x>> /\ <<x>> \in Seq(S)
  OBVIOUS
<1>2. ToSet(<<x>>) = {x} /\ IsInjective(<<x>>)
  BY DEF ToSet, IsInjective
<1>3. /\ q \o <<x>> \in Seq(S) /\ ToSet(q \o <<x>>) = ToSet(q) \cup {x}
      /\ IsInjective(q) /\ x \notin ToSet(q) => IsInjective(q \o <<x>>)
  <2> DEFINE r == <<x>>
  <2>1. r \in Seq(S) /\ ToSet(r) = {x} /\ IsInjective(r)
    BY <1>1, <1>2
  <2> HIDE DEF r
  <2>2. QED
    <3>1. /\ q \o r \in Seq(S) /\ ToSet(q \o r) = ToSet(q) \cup ToSet(r)
          /\ IsInjective(q) /\ IsInjective(r) /\ ToSet(q) \cap ToSet(r) = {} => IsInjective(q \o r)
      BY <2>1, Joined
    <3>2. x \notin ToSet(q) => ToSet(q) \cap ToSet(r) = {}
      BY <2>1
    <3>3. QED
      BY <2>1, <3>1, <3>2 DEF r
<1>4. QED
  BY <1>1, <1>3

(* The places of a list without its head.                                  *)
LEMMA TailAt ==
  ASSUME NEW S, NEW q \in Seq(S), q # <<>>
  PROVE  /\ Tail(q) \in Seq(S) /\ Len(Tail(q)) = Len(q) - 1
         /\ \A i \in 1 .. Len(q) - 1 : Tail(q)[i] = q[i + 1]
OBVIOUS

(* A function on 1 .. k is a list.                                         *)
LEMMA ListIs ==
  ASSUME NEW k \in Nat, NEW q, q = [i \in 1 .. k |-> q[i]]
  PROVE  \E S : q \in Seq(S) /\ Len(q) = k
<1> DEFINE S == {q[i] : i \in 1 .. k}
<1>1. q \in [1 .. k -> S]
  OBVIOUS
<1> HIDE DEF S
<1>2. QED
  BY <1>1

LEMMA AppendIs ==
  ASSUME NEW S, NEW q \in Seq(S), NEW T, NEW t \in Seq(T), NEW x,
         Len(t) = Len(q) + 1, t[Len(q) + 1] = x, \A i \in 1 .. Len(q) : t[i] = q[i]
  PROVE  t = Append(q, x)
<1>1. PICK k, a : k = Len(q) /\ a = Append(q, x)
  OBVIOUS
<1>2. q \in Seq(S \cup {x}) /\ x \in S \cup {x} /\ k \in Nat
  BY <1>1
<1>3. a = [i \in 1 .. k + 1 |-> a[i]] /\ a[k + 1] = x /\ \A i \in 1 .. k : a[i] = q[i]
  <2>1. a \in Seq(S \cup {x}) /\ Len(a) = k + 1
    BY <1>1, <1>2
  <2>2. a = [i \in 1 .. k + 1 |-> a[i]]
    BY <2>1
  <2>3. a[k + 1] = x /\ \A i \in 1 .. k : a[i] = q[i]
    BY <1>1, <1>2
  <2>4. QED
    BY <2>2, <2>3
<1>4. t = [i \in 1 .. k + 1 |-> t[i]]
  BY <1>1
<1>5. \A i \in 1 .. k + 1 : i # k + 1 => i \in 1 .. k
  BY <1>2
<1>6. QED
  BY <1>1, <1>3, <1>4, <1>5

LEMMA TailIs ==
  ASSUME NEW S, NEW q \in Seq(S), q # <<>>, NEW T, NEW t \in Seq(T),
         Len(t) = Len(q) - 1, \A i \in 1 .. Len(q) - 1 : t[i] = q[i + 1]
  PROVE  t = Tail(q)
OBVIOUS

----------------------------------------------------------------------------
(* The chain of nodes.                                                     *)

Follows(q, h, n, nx) ==
  q = [i \in 1 .. n |-> IF i = 1 THEN h ELSE IF q[i - 1] = 0 THEN 0 ELSE nx[q[i - 1]]]

LEMMA SomethingFollows ==
  ASSUME NEW h, NEW nx, NEW n \in Nat
  PROVE  \E q : Follows(q, h, n, nx)
<1> DEFINE Bad == {m \in Nat : ~ \E q : Follows(q, h, m, nx)}
<1>1. ASSUME Bad # {} PROVE FALSE
  <2>1. PICK m \in Bad : \A k \in Bad : m <= k
    BY <1>1, Least
  <2>2. m # 0
    <3>1. Follows(<<>>, h, 0, nx)
      BY DEF Follows
    <3>2. QED
      BY <3>1
  <2>3. m - 1 \in Nat /\ m - 1 \notin Bad
    BY <2>1, <2>2
  <2>4. PICK q : Follows(q, h, m - 1, nx)
    BY <2>3
  <2>5. PICK x : x = IF m = 1 THEN h ELSE IF q[m - 1] = 0 THEN 0 ELSE nx[q[m - 1]]
    OBVIOUS
  <2>6. PICK r : r = [i \in 1 .. m |-> IF i = m THEN x ELSE q[i]]
    OBVIOUS
  <2>7. \A i \in 1 .. m : i # 1 => i - 1 \in 1 .. m - 1 /\ i - 1 \in 1 .. m /\ i - 1 # m
    BY <2>3
  <2>8. \A i \in 1 .. m : r[i] = IF i = 1 THEN h ELSE IF r[i - 1] = 0 THEN 0 ELSE nx[r[i - 1]]
    <3>1. \A i \in 1 .. m : i # m =>
            q[i] = IF i = 1 THEN h ELSE IF q[i - 1] = 0 THEN 0 ELSE nx[q[i - 1]]
      BY <2>3, <2>4 DEF Follows
    <3>2. \A i \in 1 .. m : i # 1 => r[i - 1] = q[i - 1]
      BY <2>6, <2>7
    <3>3. QED
      BY <2>5, <2>6, <3>1, <3>2
  <2>9. Follows(r, h, m, nx)
    BY <2>6, <2>8 DEF Follows
  <2>10. QED
    BY <2>1, <2>9
<1>2. QED
  BY <1>1

LEMMA OneFollows ==
  ASSUME NEW h, NEW nx, NEW n \in Nat, NEW q, NEW r, Follows(q, h, n, nx), Follows(r, h, n, nx)
  PROVE  q = r
<1> DEFINE Bad == {i \in 1 .. n : q[i] # r[i]}
<1>1. ASSUME Bad # {} PROVE FALSE
  <2>1. PICK i \in Bad : \A j \in Bad : i <= j
    <3>1. Bad \subseteq Nat
      OBVIOUS
    <3>2. QED
      BY <1>1, <3>1, Least
  <2>2. i = 1 \/ (i - 1 \in 1 .. n /\ i - 1 \notin Bad)
    BY <2>1
  <2>3. QED
    BY <2>1, <2>2 DEF Follows
<1>2. \A i \in 1 .. n : q[i] = r[i]
  BY <1>1
<1>3. DOMAIN q = 1 .. n /\ DOMAIN r = 1 .. n /\ q = [i \in 1 .. n |-> q[i]] /\ r = [i \in 1 .. n |-> r[i]]
  BY DEF Follows
<1>4. QED
  BY <1>2, <1>3

LEMMA ChainFollows ==
  ASSUME NEW h, NEW nx, NEW n \in Nat
  PROVE  Follows(ChainFrom(h, n, nx), h, n, nx)
<1> DEFINE at[i \in 1 .. n] == IF i = 1 THEN h ELSE IF at[i - 1] = 0 THEN 0 ELSE nx[at[i - 1]]
<1>1. PICK q : Follows(q, h, n, nx)
  BY SomethingFollows
<1>2. Follows(at, h, n, nx)
  BY <1>1 DEF Follows
<1>3. at = [i \in 1 .. n |-> at[i]]
  <2> HIDE DEF at
  <2> QED
    BY <1>2 DEF Follows
<1>4. ChainFrom(h, n, nx) = at
  BY <1>3 DEF ChainFrom
<1>5. QED
  BY <1>2, <1>4

(* The elements of the chain, and what has its elements is the chain.      *)
LEMMA ChainAt ==
  ASSUME NEW h, NEW nx, NEW n \in Nat, NEW q, q = ChainFrom(h, n, nx)
  PROVE  /\ DOMAIN q = 1 .. n
         /\ \A i \in 1 .. n : q[i] = IF i = 1 THEN h ELSE IF q[i - 1] = 0 THEN 0 ELSE nx[q[i - 1]]
BY ChainFollows DEF Follows

LEMMA ChainIs ==
  ASSUME NEW h, NEW nx, NEW n \in Nat, NEW S, NEW q \in Seq(S), Len(q) = n,
         n > 0 => q[1] = h,
         \A i \in 1 .. n : i # n => q[i] # 0 /\ q[i + 1] = nx[q[i]]
  PROVE  ChainFrom(h, n, nx) = q
<1>1. \A i \in 1 .. n : i # 1 => i - 1 \in 1 .. n /\ i - 1 # n /\ (i - 1) + 1 = i
  OBVIOUS
<1>2. \A i \in 1 .. n : q[i] = IF i = 1 THEN h ELSE IF q[i - 1] = 0 THEN 0 ELSE nx[q[i - 1]]
  BY <1>1
<1>3. Follows(q, h, n, nx)
  BY <1>2 DEF Follows
<1>4. QED
  BY <1>3, ChainFollows, OneFollows

----------------------------------------------------------------------------
(* The chain and the pool.                                                 *)

LEMMA ChainType ==
  ASSUME TypeOK, Linked
  PROVE  /\ Chain \in Seq(Nodes) /\ Len(Chain) = m_nSize /\ m_nSize \in Nat
         /\ ToSet(Chain) = {Chain[i] : i \in 1 .. m_nSize}
         /\ m_nSize > 0 => m_pHead = Chain[1] /\ m_pHead \in ToSet(Chain) /\ m_pTail \in ToSet(Chain)
         /\ \A i \in 1 .. m_nSize : i # m_nSize =>
              Chain[i] \in Nodes /\ Chain[i] # 0 /\ Chain[i] # m_pTail /\ Chain[i + 1] = next[Chain[i]]
<1>1. m_nSize \in Nat /\ nodes \subseteq Nodes /\ 0 \notin Nodes
  BY DEF TypeOK, Nodes
<1>2. /\ DOMAIN Chain = 1 .. m_nSize
      /\ \A i \in 1 .. m_nSize :
           Chain[i] = IF i = 1 THEN m_pHead ELSE IF Chain[i - 1] = 0 THEN 0 ELSE next[Chain[i - 1]]
  BY <1>1, ChainAt DEF Chain
<1>3. ToSet(Chain) = {Chain[i] : i \in 1 .. m_nSize} /\ ToSet(Chain) \subseteq nodes
  BY <1>2 DEF ToSet, Linked
<1>4. \A i \in 1 .. m_nSize : Chain[i] \in Nodes /\ Chain[i] # 0
  BY <1>1, <1>3
<1>5. Chain \in Seq(Nodes) /\ Len(Chain) = m_nSize
  <2>1. Chain \in [1 .. m_nSize -> Nodes]
    <3>1. Chain = [i \in 1 .. m_nSize |-> Chain[i]]
      BY <1>1, <1>2, ChainFollows DEF Chain, Follows
    <3>2. QED
      BY <1>4, <3>1
  <2>2. QED
    BY <1>1, <2>1
<1>6. \A i \in 1 .. m_nSize : i # m_nSize => Chain[i] # m_pTail /\ Chain[i + 1] = next[Chain[i]]
  <2> SUFFICES ASSUME NEW i \in 1 .. m_nSize, i # m_nSize
               PROVE  Chain[i] # m_pTail /\ Chain[i + 1] = next[Chain[i]]
    OBVIOUS
  <2>1. i + 1 \in 1 .. m_nSize /\ i + 1 # 1 /\ (i + 1) - 1 = i /\ m_nSize \in 1 .. m_nSize
    BY <1>1
  <2>2. Chain[i + 1] = next[Chain[i]]
    BY <1>2, <1>4, <2>1
  <2>3. Chain[i] # Chain[m_nSize]
    BY <1>2, <2>1 DEF Linked, IsInjective
  <2>4. QED
    BY <1>1, <2>1, <2>2, <2>3 DEF Linked
<1>7. m_nSize > 0 => m_pHead = Chain[1] /\ m_pHead \in ToSet(Chain) /\ m_pTail \in ToSet(Chain)
  <2> SUFFICES ASSUME m_nSize > 0
               PROVE  m_pHead = Chain[1] /\ m_pHead \in ToSet(Chain) /\ m_pTail \in ToSet(Chain)
    OBVIOUS
  <2>1. 1 \in 1 .. m_nSize /\ m_nSize \in 1 .. m_nSize
    BY <1>1
  <2>2. QED
    BY <1>2, <1>3, <2>1 DEF Linked
<1>8. QED
  BY <1>1, <1>3, <1>4, <1>5, <1>6, <1>7

LEMMA SomeNewNodes ==
  ASSUME NEW k \in Nat, NEW free \in SUBSET Nodes
  PROVE  /\ NewNodes(k, free) \subseteq free /\ IsFiniteSet(NewNodes(k, free))
         /\ k > 0 /\ free # {} => NewNodes(k, free) # {}
<1>1. NewNodes(k, free) \subseteq free
  BY DEF NewNodes
<1>2. IsFiniteSet(NewNodes(k, free))
  <2>1. IsFiniteSet(Nodes)
    BY BoundsAssumption, FS_Interval DEF Nodes
  <2>2. QED
    BY <1>1, <2>1, FS_Subset
<1>3. ASSUME k > 0, free # {} PROVE NewNodes(k, free) # {}
  <2>1. free \subseteq Nat
    BY DEF Nodes
  <2>2. PICK p \in free : \A q \in free : p <= q
    BY <1>3, <2>1, Least
  <2>3. {q \in free : q < p} = {}
    <3>1. ASSUME NEW q \in free, q < p PROVE FALSE
      <4>1. q \in Nat /\ p \in Nat /\ p <= q
        BY <2>1, <2>2
      <4>2. QED
        BY <3>1, <4>1
    <3>2. QED
      BY <3>1
  <2>4. Cardinality({q \in free : q < p}) = 0
    BY <2>3, FS_EmptySet
  <2>5. QED
    BY <1>3, <2>4 DEF NewNodes
<1>4. QED
  BY <1>1, <1>2, <1>3

(* pop gives a node of the pool or a new one, and leaves the others.       *)
LEMMA Popped ==
  ASSUME TypeOK, Linked, CanPop, NEW p, NEW rest, NEW new, p = Pop.p, rest = Pop.rest, new = Pop.new
  PROVE  /\ p \in Nodes /\ new \subseteq Nodes \ nodes /\ rest \in Seq(Nodes) /\ IsInjective(rest)
         /\ p \in Pooled \cup new /\ ToSet(rest) = (Pooled \cup new) \ {p}
<1>1. CASE m_lstFreeObj # <<>>
  <2>1. p = Head(m_lstFreeObj) /\ rest = Tail(m_lstFreeObj) /\ new = {}
    BY <1>1 DEF Pop
  <2>2. m_lstFreeObj \in Seq(Nodes) /\ IsInjective(m_lstFreeObj)
    BY DEF TypeOK, Linked
  <2>3. /\ p \in Nodes /\ rest \in Seq(Nodes) /\ IsInjective(rest)
        /\ Pooled = {p} \cup ToSet(rest) /\ p \notin ToSet(rest)
    BY <1>1, <2>1, <2>2, TakeHead DEF Pooled
  <2>4. QED
    BY <2>1, <2>3
<1>2. CASE m_lstFreeObj = <<>>
  <2>1. PICK free : free = Nodes \ nodes
    OBVIOUS
  <2>2. m_nGrowCount \in Nat /\ free \in SUBSET Nodes
    BY <2>1 DEF TypeOK
  <2>3. free # {}
    <3>1. free = {} => Cardinality(free) = 0
      BY FS_EmptySet
    <3>2. Cardinality(free) >= 1 + m_nGrowCount
      BY <1>2, <2>1 DEF CanPop
    <3>3. QED
      BY <2>2, <3>1, <3>2
  <2>4. PICK S : S = NewNodes(1 + m_nGrowCount, free)
    OBVIOUS
  <2>5. S \subseteq free /\ IsFiniteSet(S) /\ S # {}
    BY <2>2, <2>3, <2>4, SomeNewNodes
  <2>6. PICK s : s = SetToSeq(S)
    OBVIOUS
  <2>7. s \in Seq(S) /\ IsInjective(s) /\ ToSet(s) = S
    BY <2>5, <2>6, SeqOfSet
  <2>8. s \in Seq(Nodes) /\ s # <<>>
    BY <2>2, <2>5, <2>7 DEF ToSet
  <2>9. /\ Head(s) \in Nodes /\ Tail(s) \in Seq(Nodes) /\ IsInjective(Tail(s))
        /\ S = {Head(s)} \cup ToSet(Tail(s)) /\ Head(s) \notin ToSet(Tail(s))
    BY <2>7, <2>8, TakeHead
  <2>10. p = Head(s) /\ rest = Tail(s) /\ new = S
    BY <1>2, <2>1, <2>4, <2>6 DEF Pop
  <2>11. Pooled = {}
    BY <1>2 DEF Pooled, ToSet
  <2>12. QED
    BY <2>1, <2>5, <2>9, <2>10, <2>11
<1>3. QED
  BY <1>1, <1>2

(* push of a list s of nodes.                                              *)
LEMMA Pushed ==
  ASSUME TypeOK, Linked, NEW s \in Seq(Nodes), IsInjective(s), ToSet(s) \cap Pooled = {}, Push(s)
  PROVE  /\ m_lstFreeObj' \in Seq(Nodes) /\ IsInjective(m_lstFreeObj')
         /\ Deleted(s) \subseteq ToSet(s) /\ nodes' = nodes \ Deleted(s)
         /\ ToSet(m_lstFreeObj') = Pooled \cup (ToSet(s) \ Deleted(s))
<1>1. PICK n : n = Kept(s)
  OBVIOUS
<1>2. n \in 0 .. Len(s)
  <2>1. PICK room : room = m_nMaxCount - Len(m_lstFreeObj)
    OBVIOUS
  <2>2. room \in Int
    BY <2>1, BoundsAssumption DEF TypeOK
  <2>3. n = IF room <= 0 THEN 0 ELSE IF room < Len(s) THEN room ELSE Len(s)
    BY <1>1, <2>1 DEF Kept
  <2>4. Len(s) \in Nat
    OBVIOUS
  <2>5. QED
    BY <2>2, <2>3, <2>4
<1>3. PICK a, b : a = SubSeq(s, 1, n) /\ b = SubSeq(s, n + 1, Len(s))
  OBVIOUS
<1>4. /\ a \in Seq(Nodes) /\ IsInjective(a) /\ ToSet(s) = ToSet(a) \cup ToSet(b)
      /\ ToSet(a) \cap ToSet(b) = {}
  BY <1>2, <1>3, Cut
<1>5. Deleted(s) = ToSet(b) /\ m_lstFreeObj' = m_lstFreeObj \o a /\ nodes' = nodes \ ToSet(b)
  BY <1>1, <1>3 DEF Push, Deleted
<1>6. m_lstFreeObj \in Seq(Nodes) /\ IsInjective(m_lstFreeObj) /\ ToSet(m_lstFreeObj) \cap ToSet(a) = {}
  BY <1>4 DEF TypeOK, Linked, Pooled
<1>7. /\ m_lstFreeObj' \in Seq(Nodes) /\ IsInjective(m_lstFreeObj')
      /\ ToSet(m_lstFreeObj') = Pooled \cup ToSet(a)
  BY <1>4, <1>5, <1>6, Joined DEF Pooled
<1>8. QED
  BY <1>4, <1>5, <1>7

----------------------------------------------------------------------------
(* What the operations do to the chain and the pool.                       *)

LEMMA InitLinks ==
  ASSUME TypeOK, Linked, NEW n \in Limits, Init_(n)
  PROVE  /\ Linked' /\ m_lstFreeObj' \in Seq(Nodes) /\ Chain' = Chain
         /\ \E new \in SUBSET Nodes :
              /\ new \cap ToSet(Chain) = {} /\ ToSet(m_lstFreeObj') = new
              /\ nodes' = (nodes \ Pooled) \cup new /\ Fresh(Pooled \cup new)
<1>1. PICK new : /\ new = NewNodes(n, (Nodes \ nodes) \cup Pooled)
                 /\ m_lstFreeObj' = SetToSeq(new) /\ nodes' = (nodes \ Pooled) \cup new
                 /\ Fresh(Pooled \cup new)
  BY DEF Init_, Pooled
<1>2. n \in Nat /\ (Nodes \ nodes) \cup Pooled \in SUBSET Nodes
  BY BoundsAssumption DEF TypeOK, Linked
<1>3. new \subseteq (Nodes \ nodes) \cup Pooled /\ IsFiniteSet(new)
  BY <1>1, <1>2, SomeNewNodes
<1>4. m_lstFreeObj' \in Seq(new) /\ IsInjective(m_lstFreeObj') /\ ToSet(m_lstFreeObj') = new
  BY <1>1, <1>3, SeqOfSet
<1>5. new \cap ToSet(Chain) = {} /\ new \subseteq Nodes
  BY <1>2, <1>3 DEF Linked
<1>6. m_lstFreeObj' \in Seq(Nodes)
  BY <1>4, <1>5
<1>7. Chain' = Chain
  <2>1. \A q \in ToSet(Chain) : next'[q] = next[q]
    <3>1. ToSet(Chain) \subseteq Nodes /\ ToSet(Chain) \cap (Pooled \cup new) = {}
      BY <1>5 DEF Linked, TypeOK
    <3>2. QED
      BY <1>1, <3>1 DEF Fresh
  <2>2. \A i \in 1 .. m_nSize : i # m_nSize => Chain[i] # 0 /\ Chain[i + 1] = next'[Chain[i]]
    BY <2>1, ChainType
  <2>3. ChainFrom(m_pHead, m_nSize, next') = Chain
    BY <2>2, ChainType, ChainIs
  <2>4. QED
    BY <2>3 DEF Chain, Init_
<1>8. Linked'
  <2>1. UNCHANGED <<m_pHead, m_pTail, m_nSize>>
    BY DEF Init_
  <2>2. nodes' = ToSet(Chain) \cup new
    BY <1>1 DEF Linked
  <2>3. QED
    BY <1>4, <1>5, <1>7, <2>1, <2>2 DEF Linked, Pooled
<1>9. QED
  BY <1>1, <1>4, <1>5, <1>6, <1>7, <1>8

(* The node that pop gives, and the nodes it allocates.                    *)
Gets(p, new) ==
  /\ p \in Nodes \ ToSet(Chain) /\ new \subseteq Nodes \ nodes /\ p \in Pooled \cup new
  /\ Chain' = Append(Chain, p) /\ nodes' = nodes \cup new
  /\ ToSet(m_lstFreeObj') = (Pooled \cup new) \ {p} /\ m_pTail' = p

LEMMA EnqueueLinks ==
  ASSUME TypeOK, Linked, NEW n, NEW src, Enqueue(n, src)
  PROVE  Linked' /\ m_lstFreeObj' \in Seq(Nodes) /\ Gets(Pop.p, Pop.new)
<1>1. PICK p, rest, new : p = Pop.p /\ rest = Pop.rest /\ new = Pop.new
  OBVIOUS
<1>2. /\ m_lstFreeObj' = rest /\ nodes' = nodes \cup new /\ m_pTail' = p
      /\ next' = Link(p, [q \in Nodes |-> IF q \in new THEN 0 ELSE next[q]])
      /\ m_pHead' = IF m_pTail # 0 THEN m_pHead ELSE p
      /\ m_nSize' = m_nSize + 1
  BY <1>1 DEF Enqueue
<1>3. /\ p \in Nodes /\ new \subseteq Nodes \ nodes /\ rest \in Seq(Nodes) /\ IsInjective(rest)
      /\ p \in Pooled \cup new /\ ToSet(rest) = (Pooled \cup new) \ {p}
  BY <1>1, Popped DEF Enqueue
<1>4. p \notin ToSet(Chain) /\ p # 0 /\ ToSet(Chain) \subseteq Nodes
  BY <1>3 DEF Linked, TypeOK, Nodes
<1>5. PICK q : q = Append(Chain, p)
  OBVIOUS
<1>6. /\ q \in Seq(Nodes) /\ ToSet(q) = ToSet(Chain) \cup {p} /\ IsInjective(q)
      /\ Len(q) = m_nSize + 1 /\ q[m_nSize + 1] = p /\ \A i \in 1 .. m_nSize : q[i] = Chain[i]
  <2>1. Chain \in Seq(Nodes) /\ Len(Chain) = m_nSize /\ m_nSize \in Nat /\ IsInjective(Chain)
    BY ChainType DEF Linked
  <2>2. q \in Seq(Nodes) /\ ToSet(q) = ToSet(Chain) \cup {p} /\ IsInjective(q)
    BY <1>3, <1>4, <1>5, <2>1, AddLast
  <2>3. Len(q) = m_nSize + 1 /\ q[m_nSize + 1] = p /\ \A i \in 1 .. m_nSize : q[i] = Chain[i]
    BY <1>3, <1>5, <2>1
  <2>4. QED
    BY <2>2, <2>3
<1>7. Chain' = q
  <2>1. m_nSize \in Nat
    BY DEF TypeOK
  <2>2. q[1] = m_pHead'
    <3>1. CASE m_nSize = 0
      BY <1>2, <1>6, <3>1 DEF Linked
    <3>2. CASE m_nSize > 0
      <4>1. 1 \in 1 .. m_nSize /\ m_nSize \in 1 .. m_nSize
        BY <2>1, <3>2
      <4>2. m_pTail # 0 /\ Chain[1] = m_pHead
        BY <1>4, <3>2, ChainType DEF Nodes
      <4>3. QED
        BY <1>2, <1>6, <4>1, <4>2
    <3>3. QED
      BY <2>1, <3>1, <3>2
  <2>3. ASSUME NEW i \in 1 .. m_nSize + 1, i # m_nSize + 1
        PROVE  q[i] # 0 /\ q[i + 1] = next'[q[i]]
    <3>1. i \in 1 .. m_nSize /\ m_nSize > 0 /\ q[i] = Chain[i]
      BY <1>6, <2>1, <2>3
    <3>2. Chain[i] \in Nodes /\ Chain[i] # 0 /\ Chain[i] \notin new
      BY <1>3, <1>4, <3>1, ChainType DEF Linked, Nodes
    <3>3. m_pTail \in Nodes /\ m_pTail # 0
      BY <1>4, <3>1, ChainType DEF Nodes
    <3>4. next'[Chain[i]] = IF Chain[i] = m_pTail THEN p ELSE next[Chain[i]]
      BY <1>2, <3>2, <3>3 DEF Link
    <3>5. CASE i = m_nSize
      <4>1. Chain[i] = m_pTail /\ q[i + 1] = p
        BY <1>6, <3>1, <3>5 DEF Linked
      <4>2. QED
        BY <3>1, <3>2, <3>4, <4>1
    <3>6. CASE i # m_nSize
      <4>1. Chain[i] # m_pTail /\ Chain[i + 1] = next[Chain[i]]
        BY <3>1, <3>6, ChainType
      <4>2. i + 1 \in 1 .. m_nSize
        BY <2>1, <3>1, <3>6
      <4>3. q[i + 1] = Chain[i + 1]
        BY <1>6, <4>2
      <4>4. QED
        BY <3>1, <3>2, <3>4, <4>1, <4>3
    <3>7. QED
      BY <3>5, <3>6
  <2>4. ChainFrom(m_pHead', m_nSize + 1, next') = q
    <3>1. m_nSize + 1 \in Nat
      BY <2>1
    <3>2. QED
      BY <1>6, <2>2, <2>3, <3>1, ChainIs
  <2>5. QED
    BY <1>2, <2>4 DEF Chain
<1>8. Gets(p, new)
  BY <1>2, <1>3, <1>4, <1>5, <1>7 DEF Gets
<1>9. Linked'
  <2>1. nodes' = ToSet(q) \cup ToSet(rest) /\ ToSet(q) \cap ToSet(rest) = {}
    <3>1. ToSet(Chain) \cap Pooled = {} /\ nodes = ToSet(Chain) \cup Pooled
      BY DEF Linked
    <3>2. QED
      BY <1>2, <1>3, <1>6, <3>1
  <2>2. m_nSize' # 0 /\ m_pTail' = q[m_nSize']
    <3>1. m_nSize \in Nat
      BY DEF TypeOK
    <3>2. QED
      BY <1>2, <1>6, <3>1
  <2>3. QED
    BY <1>2, <1>3, <1>6, <1>7, <2>1, <2>2 DEF Linked, Pooled
<1>10. QED
  BY <1>1, <1>2, <1>3, <1>8, <1>9

LEMMA DequeueLinks ==
  ASSUME TypeOK, Linked, NEW r \in Readers, Dequeue(r)
  PROVE  /\ Linked' /\ m_lstFreeObj' \in Seq(Nodes)
         /\ m_nSize > 0 /\ m_nSize' = m_nSize - 1 /\ Chain # <<>> /\ m_pHead = Head(Chain)
         /\ Chain' = Tail(Chain) /\ m_pHead \in ToSet(Chain)
         /\ ToSet(Chain') = ToSet(Chain) \ {m_pHead}
         /\ ToSet(m_lstFreeObj') \subseteq Pooled \cup {m_pHead}
         /\ nodes' \in {nodes, nodes \ {m_pHead}}
<1>1. m_nSize > 0
  BY DEF Linked, TypeOK, Dequeue
<1>2. /\ Chain \in Seq(Nodes) /\ Len(Chain) = m_nSize /\ m_nSize \in Nat /\ Chain # <<>>
      /\ Head(Chain) = m_pHead /\ m_pHead \in ToSet(Chain) /\ IsInjective(Chain)
  <2>1. /\ Chain \in Seq(Nodes) /\ Len(Chain) = m_nSize /\ m_nSize \in Nat
        /\ m_pHead = Chain[1] /\ m_pHead \in ToSet(Chain)
    BY <1>1, ChainType
  <2>2. Chain # <<>> /\ Head(Chain) = Chain[1]
    BY <1>1, <2>1
  <2>3. QED
    BY <2>1, <2>2 DEF Linked
<1>3. PICK q : q = Tail(Chain)
  OBVIOUS
<1>4. /\ q \in Seq(Nodes) /\ Len(q) = m_nSize - 1 /\ IsInjective(q)
      /\ \A i \in 1 .. m_nSize - 1 : q[i] = Chain[i + 1]
      /\ ToSet(Chain) = {m_pHead} \cup ToSet(q) /\ m_pHead \notin ToSet(q)
  BY <1>2, <1>3, TakeHead, TailAt
<1>5. /\ m_nSize' = m_nSize - 1 /\ next' = next /\ Push(<<m_pHead>>)
      /\ m_pHead' = IF m_nSize = 1 THEN 0 ELSE next[m_pHead]
      /\ m_pTail' = IF m_nSize = 1 THEN 0 ELSE m_pTail
  BY DEF Dequeue
<1>6. Chain' = q
  <2>1. m_nSize - 1 > 0 => q[1] = m_pHead'
    <3>1. m_nSize - 1 > 0 => 1 \in 1 .. m_nSize /\ 1 # m_nSize /\ 1 \in 1 .. m_nSize - 1
      BY <1>2
    <3>2. m_nSize - 1 > 0 => Chain[2] = next[Chain[1]] /\ Chain[1] = m_pHead
      BY <1>1, <3>1, ChainType
    <3>3. QED
      BY <1>2, <1>4, <1>5, <3>1, <3>2
  <2>2. ASSUME NEW i \in 1 .. m_nSize - 1, i # m_nSize - 1
        PROVE  q[i] # 0 /\ q[i + 1] = next[q[i]]
    <3>1. i + 1 \in 1 .. m_nSize /\ i + 1 # m_nSize /\ i + 1 \in 1 .. m_nSize - 1
      BY <1>2, <2>2
    <3>2. Chain[i + 1] # 0 /\ Chain[(i + 1) + 1] = next[Chain[i + 1]]
      BY <3>1, ChainType
    <3>3. QED
      BY <1>4, <3>1, <3>2
  <2>3. ChainFrom(m_pHead', m_nSize - 1, next) = q
    <3>1. m_nSize - 1 \in Nat
      BY <1>1, <1>2
    <3>2. QED
      BY <1>4, <2>1, <2>2, <3>1, ChainIs
  <2>4. QED
    BY <1>5, <2>3 DEF Chain
<1>7. /\ m_lstFreeObj' \in Seq(Nodes) /\ IsInjective(m_lstFreeObj')
      /\ nodes' = nodes \ Deleted(<<m_pHead>>) /\ Deleted(<<m_pHead>>) \subseteq {m_pHead}
      /\ ToSet(m_lstFreeObj') = Pooled \cup ({m_pHead} \ Deleted(<<m_pHead>>))
  <2>1. m_pHead \in Nodes /\ m_pHead \notin Pooled
    BY <1>2 DEF Linked, TypeOK
  <2>2. <<m_pHead>> \in Seq(Nodes) /\ IsInjective(<<m_pHead>>) /\ ToSet(<<m_pHead>>) = {m_pHead}
    BY <2>1 DEF IsInjective, ToSet
  <2>3. QED
    BY <1>5, <2>1, <2>2, Pushed
<1>8. Linked'
  <2>1. ToSet(Chain) \cap Pooled = {} /\ nodes = ToSet(Chain) \cup Pooled
    BY DEF Linked
  <2>2. nodes' = ToSet(q) \cup ToSet(m_lstFreeObj') /\ ToSet(q) \cap ToSet(m_lstFreeObj') = {}
    BY <1>4, <1>7, <2>1
  <2>3. /\ m_nSize' = 0 => m_pHead' = 0 /\ m_pTail' = 0
        /\ m_nSize' > 0 => m_pTail' = q[m_nSize']
    <3>1. m_nSize - 1 > 0 => m_nSize - 1 \in 1 .. m_nSize - 1 /\ (m_nSize - 1) + 1 = m_nSize
      BY <1>2
    <3>2. m_pTail = Chain[m_nSize]
      BY <1>1 DEF Linked
    <3>3. QED
      BY <1>1, <1>2, <1>4, <1>5, <3>1, <3>2
  <2>4. QED
    BY <1>4, <1>6, <1>7, <2>2, <2>3 DEF Linked, Pooled
<1>9. QED
  BY <1>1, <1>2, <1>3, <1>4, <1>5, <1>6, <1>7, <1>8

LEMMA ClearLinks ==
  ASSUME TypeOK, Linked, Clear, ~broken'
  PROVE  /\ Linked' /\ m_lstFreeObj' \in Seq(Nodes) /\ Chain' = <<>> /\ m_nSize' = 0
         /\ Deleted(Chain) \subseteq ToSet(Chain) /\ nodes' = nodes \ Deleted(Chain)
<1>1. Push(Chain) /\ m_pHead' = 0 /\ m_pTail' = 0 /\ m_nSize' = 0
  BY DEF Clear
<1>2. Chain \in Seq(Nodes) /\ IsInjective(Chain) /\ ToSet(Chain) \cap Pooled = {}
  BY ChainType DEF Linked
<1>3. /\ m_lstFreeObj' \in Seq(Nodes) /\ IsInjective(m_lstFreeObj')
      /\ Deleted(Chain) \subseteq ToSet(Chain) /\ nodes' = nodes \ Deleted(Chain)
      /\ ToSet(m_lstFreeObj') = Pooled \cup (ToSet(Chain) \ Deleted(Chain))
  BY <1>1, <1>2, Pushed
<1>4. Chain' = <<>>
  <2>1. ChainFrom(0, 0, next') = <<>>
    BY ChainAt, ChainFollows DEF Follows
  <2>2. QED
    BY <1>1, <2>1 DEF Chain
<1>5. Linked'
  <2>1. ToSet(<<>>) = {} /\ IsInjective(<<>>)
    BY DEF ToSet, IsInjective
  <2>2. nodes' = ToSet(m_lstFreeObj')
    BY <1>2, <1>3 DEF Linked
  <2>3. QED
    BY <1>1, <1>3, <1>4, <2>1, <2>2 DEF Linked, Pooled
<1>6. QED
  BY <1>1, <1>3, <1>4, <1>5

----------------------------------------------------------------------------
(* What the operations do to the buffers and the blocks.                   *)

LEMMA BufferFields ==
  ASSUME TypeOK
  PROVE  /\ \A p \in Nodes : /\ msg[p] \in Buffers /\ msg[p].szData \in Addrs \cup {Null}
                             /\ msg[p].m_nSize \in Nat /\ msg[p].m_nCapacity \in Nat
                             /\ msg[p].m_bOwner \in BOOLEAN
         /\ \A r \in Readers : /\ oNode[r].msg \in Buffers /\ oNode[r].attachID \in 0 .. MaxMsgs
                               /\ oNode[r].msg.szData \in Addrs \cup {Null}
         /\ Null \notin Addrs /\ Null \notin Allocated
<1>1. Sizes \cup {0} \subseteq Nat
  BY BoundsAssumption
<1>2. \A b \in Buffers : /\ b.szData \in Addrs \cup {Null} /\ b.m_nSize \in Nat
                         /\ b.m_nCapacity \in Nat /\ b.m_bOwner \in BOOLEAN
  BY <1>1 DEF Buffers
<1>3. \A p \in Nodes : msg[p] \in Buffers
  BY DEF TypeOK
<1>4. \A r \in Readers : oNode[r].msg \in Buffers /\ oNode[r].attachID \in 0 .. MaxMsgs
  BY DEF TypeOK
<1>5. QED
  BY <1>2, <1>3, <1>4, AddrsAssumption DEF TypeOK

(* The blocks of nodes that are deleted are nobody else's.                 *)
LEMMA Freed ==
  ASSUME OneOwner, NEW S \in SUBSET nodes
  PROVE  /\ \A p \in nodes \ S : Owns(msg[p]) => msg[p].szData \notin BlocksOf(S)
         /\ \A r \in Readers : oNode[r].msg.szData \notin BlocksOf(S)
         /\ \A a \in Allocated \ BlocksOf(S) :
              \/ \E p \in nodes \ S : Owns(msg[p]) /\ msg[p].szData = a
              \/ \E r \in Readers : oNode[r].msg.szData = a
BY DEF OneOwner, BlocksOf

LEMMA MemWithout ==
  ASSUME NEW S
  PROVE  DOMAIN Without(S) = Allocated \ S /\ \A a \in Allocated \ S : Without(S)[a] = mem[a]
BY DEF Without

(* The block that a message is copied to: a free one, or the one the node  *)
(* had.                                                                    *)
Holds(p, new) == p \in nodes /\ p \notin new /\ Owns(msg[p])

LEMMA CopiedTo ==
  ASSUME TypeOK, Linked, Filled, OneOwner, NEW p, NEW new, Gets(p, new),
         NEW old, old = IF p \in new THEN EmptyBuffer ELSE msg[p],
         NEW n \in Sizes, n # 0, NEW a \in CopyBlocks(old, n)
  PROVE  /\ a \in Addrs /\ Copied(old, n, a) \in Buffers
         /\ Owns(old) <=> Holds(p, new)
         /\ a \notin Allocated \/ (Holds(p, new) /\ a = msg[p].szData)
<1>1. p \in Nodes /\ new \cap nodes = {} /\ (p \notin new => p \in nodes)
  BY DEF Gets, Linked
<1>2. Owns(old) <=> Holds(p, new)
  BY <1>1 DEF Holds, Owns, EmptyBuffer
<1>3. n \in Nat /\ n > 0
  BY BoundsAssumption
<1>4. CopyFits(old, n) => Owns(old)
  <2>1. CASE p \in new
    BY <1>3, <2>1 DEF CopyFits, EmptyBuffer
  <2>2. CASE p \notin new
    <3>1. old = msg[p] /\ old.m_nCapacity \in Nat
      BY <1>1, <2>2, BufferFields
    <3>2. CopyFits(old, n) => old.m_bOwner /\ old.m_nCapacity > 0
      BY <1>3, <3>1 DEF CopyFits
    <3>3. QED
      BY <1>1, <2>2, <3>1, <3>2 DEF Filled, Owns
  <2>3. QED
    BY <2>1, <2>2
<1>5. (a \in Addrs /\ a \notin Allocated) \/ (Owns(old) /\ a = old.szData)
  BY <1>4 DEF CopyBlocks, FreeBlocks
<1>6. a \in Addrs /\ (a \notin Allocated \/ (Holds(p, new) /\ a = msg[p].szData))
  <2>1. Owns(old) => old = msg[p] /\ msg[p].szData \in Addrs
    BY <1>1, <1>2, BufferFields DEF Holds, Owns
  <2>2. QED
    BY <1>2, <1>5, <2>1
<1>7. Copied(old, n, a) \in Buffers
  <2>1. CopyFits(old, n) => old.m_nCapacity \in Sizes \cup {0}
    BY <1>1, <1>2, <1>4 DEF TypeOK, Buffers, Holds
  <2>2. QED
    BY <1>6, <2>1 DEF Copied, Buffers
<1>8. QED
  BY <1>2, <1>6, <1>7

(* A node takes a message into block a, which is then its own.             *)
Fills(p, new, n, a) ==
  /\ msg'[p] \in Buffers /\ msg'[p].szData = a /\ msg'[p].m_nSize = n /\ msg'[p].m_bOwner
  /\ \A q \in Nodes : q # p => msg'[q] = IF q \in new THEN EmptyBuffer ELSE msg[q]
  /\ \A q \in nodes : q # p /\ Owns(msg[q]) =>
       msg[q].szData \in Allocated' /\ msg[q].szData # a /\ mem'[msg[q].szData] = mem[msg[q].szData]
  /\ \A r \in Readers : oNode[r].msg.szData # Null =>
       /\ oNode[r].msg.szData \in Allocated' /\ oNode[r].msg.szData # a
       /\ mem'[oNode[r].msg.szData] = mem[oNode[r].msg.szData]
  /\ a \in Allocated'
  /\ \A x \in Allocated' : \/ x = a
                           \/ /\ x \in Allocated /\ mem'[x] = mem[x]
                              /\ \/ \E q \in nodes : q # p /\ Owns(msg[q]) /\ msg[q].szData = x
                                 \/ \E r \in Readers : oNode[r].msg.szData = x

LEMMA EnqueueBlocks ==
  ASSUME TypeOK, Linked, Filled, OneOwner, NEW n \in Sizes, NEW src, Enqueue(n, src), ~broken'
  PROVE  n # 0 /\ \E a \in Addrs : Fills(Pop.p, Pop.new, n, a) /\ mem'[a] = BytesAt(src)
<1>1. PICK p, new : p = Pop.p /\ new = Pop.new
  OBVIOUS
<1>2. PICK old : old = IF p \in new THEN EmptyBuffer ELSE msg[p]
  OBVIOUS
<1>3. Gets(p, new)
  BY <1>1, EnqueueLinks
<1>4. n # 0 /\ \E a \in CopyBlocks(old, n) :
                 /\ msg' = [q \in Nodes |-> IF q = p THEN Copied(old, n, a)
                                            ELSE IF q \in new THEN EmptyBuffer ELSE msg[q]]
                 /\ mem' = CopyMem(old, a, BytesAt(src))
  BY <1>1, <1>2 DEF Enqueue
<1>5. PICK a \in CopyBlocks(old, n) :
        /\ msg' = [q \in Nodes |-> IF q = p THEN Copied(old, n, a)
                                   ELSE IF q \in new THEN EmptyBuffer ELSE msg[q]]
        /\ mem' = CopyMem(old, a, BytesAt(src))
  BY <1>4
<1>6. /\ a \in Addrs /\ Copied(old, n, a) \in Buffers
      /\ Owns(old) <=> Holds(p, new)
      /\ a \notin Allocated \/ (Holds(p, new) /\ a = msg[p].szData)
  BY <1>2, <1>3, <1>4, CopiedTo
<1>7. PICK gone : gone = IF Owns(old) THEN {old.szData} ELSE {}
  OBVIOUS
<1>8. /\ Allocated' = (Allocated \ gone) \cup {a} /\ mem'[a] = BytesAt(src)
      /\ \A x \in Allocated \ gone : x # a => mem'[x] = mem[x]
  <2>1. PICK f, bytes : f = Without(gone) /\ bytes = BytesAt(src)
    OBVIOUS
  <2>2. mem' = With(f, a, bytes)
    BY <1>5, <1>7, <2>1 DEF CopyMem
  <2>3. DOMAIN f = Allocated \ gone /\ \A x \in Allocated \ gone : f[x] = mem[x]
    BY <2>1, MemWithout
  <2>4. /\ DOMAIN mem' = DOMAIN f \cup {a} /\ mem'[a] = bytes
        /\ \A x \in DOMAIN f : x # a => mem'[x] = f[x]
    BY <2>2 DEF With
  <2>5. QED
    BY <2>1, <2>3, <2>4 DEF Allocated
<1>9. gone = IF Holds(p, new) THEN {msg[p].szData} ELSE {}
  BY <1>2, <1>6, <1>7 DEF Holds
<1>10. p \in Nodes
  BY <1>3 DEF Gets
<1>11. /\ msg'[p] \in Buffers /\ msg'[p].szData = a /\ msg'[p].m_nSize = n /\ msg'[p].m_bOwner
       /\ \A q \in Nodes : q # p => msg'[q] = IF q \in new THEN EmptyBuffer ELSE msg[q]
  BY <1>5, <1>6, <1>10 DEF Copied
<1>12. ASSUME NEW q \in nodes, q # p, Owns(msg[q])
       PROVE  msg[q].szData \in Allocated \ gone /\ msg[q].szData # a
  BY <1>6, <1>9, <1>12 DEF OneOwner, Holds
<1>13. ASSUME NEW r \in Readers, oNode[r].msg.szData # Null
       PROVE  oNode[r].msg.szData \in Allocated \ gone /\ oNode[r].msg.szData # a
  BY <1>6, <1>9, <1>13 DEF OneOwner, Holds
<1>14. ASSUME NEW x \in Allocated \ gone
       PROVE  \/ \E q \in nodes : q # p /\ Owns(msg[q]) /\ msg[q].szData = x
              \/ \E r \in Readers : oNode[r].msg.szData = x
  <2>1. Owns(msg[p]) /\ p \in nodes => p \notin new
    BY <1>3 DEF Gets
  <2>2. QED
    BY <1>9, <2>1 DEF OneOwner, Holds
<1>15. Fills(p, new, n, a)
  BY <1>8, <1>11, <1>12, <1>13, <1>14 DEF Fills
<1>16. QED
  BY <1>1, <1>4, <1>6, <1>8, <1>15

(* A reader takes the message of the node m_pHead.                         *)
LEMMA DequeueBlocks ==
  ASSUME TypeOK, Linked, Filled, OneOwner, NEW r \in Readers, Dequeue(r)
  PROVE  /\ m_pHead \in nodes /\ Owns(msg[m_pHead])
         /\ msg' = [msg EXCEPT ![m_pHead].m_bOwner = FALSE]
         /\ oNode' = [oNode EXCEPT ![r] =
              [attachID |-> attachID[m_pHead],
               msg |-> [szData |-> msg[m_pHead].szData, m_nSize |-> msg[m_pHead].m_nSize,
                        m_nCapacity |-> msg[m_pHead].m_nSize, m_bOwner |-> TRUE]]]
         /\ Allocated' = Allocated \ {oNode[r].msg.szData}
         /\ \A a \in Allocated' : mem'[a] = mem[a]
         /\ msg[m_pHead].szData \in Allocated'
<1>1. m_pHead \in ToSet(Chain) /\ m_pHead \in nodes /\ m_pHead \in Nodes
  BY DequeueLinks DEF Linked, TypeOK
<1>2. Owns(msg[m_pHead]) /\ msg[m_pHead].m_nSize # 0
  BY <1>1 DEF Filled
<1>3. PICK b, from : b = oNode[r].msg /\ from = msg[m_pHead]
  OBVIOUS
<1>4. b.m_bOwner /\ from.szData # b.szData /\ from.szData # Null /\ from.szData \in Allocated
  BY <1>1, <1>2, <1>3 DEF Filled, OneOwner, Owns
<1>5. HandedOver(b, from) = [szData |-> from.szData, m_nSize |-> from.m_nSize,
                             m_nCapacity |-> from.m_nSize, m_bOwner |-> TRUE]
  BY <1>2, <1>3, <1>4 DEF HandedOver
<1>6. /\ oNode' = [oNode EXCEPT ![r] = [attachID |-> attachID[m_pHead], msg |-> HandedOver(b, from)]]
      /\ mem' = Without(IF Owns(b) /\ oNode'[r].msg.szData # b.szData THEN {b.szData} ELSE {})
      /\ msg' = [msg EXCEPT ![m_pHead].m_bOwner = FALSE]
  BY <1>3 DEF Dequeue
<1>7. oNode'[r].msg.szData = from.szData
  <2>1. r \in DOMAIN oNode
    BY DEF TypeOK
  <2>2. QED
    BY <1>5, <1>6, <2>1
<1>8. Null \notin Allocated
  BY BufferFields
<1>9. Allocated' = Allocated \ {b.szData} /\ \A a \in Allocated' : mem'[a] = mem[a]
  <2>1. PICK S : S = IF Owns(b) /\ oNode'[r].msg.szData # b.szData THEN {b.szData} ELSE {}
    OBVIOUS
  <2>2. Allocated' = Allocated \ S /\ \A a \in Allocated \ S : mem'[a] = mem[a]
    BY <1>6, <2>1, MemWithout DEF Allocated
  <2>3. S = IF b.szData = Null THEN {} ELSE {b.szData}
    BY <1>4, <1>7, <2>1 DEF Owns
  <2>4. QED
    BY <1>8, <2>2, <2>3
<1>10. QED
  BY <1>1, <1>2, <1>3, <1>4, <1>5, <1>6, <1>9

----------------------------------------------------------------------------
(* Every operation keeps the types.                                        *)

LEMMA InitType ==
  ASSUME TypeOK, Linked, NEW n \in Limits, Init_(n)
  PROVE  TypeOK'
<1>1. m_lstFreeObj' \in Seq(Nodes)
  BY InitLinks
<1>2. PICK new \in SUBSET Nodes : nodes' = (nodes \ Pooled) \cup new /\ Fresh(Pooled \cup new)
  BY InitLinks
<1>3. nodes' \subseteq Nodes
  BY <1>2 DEF TypeOK
<1>4. next' \in [Nodes -> Nodes \cup {0}] /\ attachID' \in [Nodes -> 0 .. MaxMsgs]
  BY <1>2, BoundsAssumption DEF TypeOK, Fresh
<1>5. msg' \in [Nodes -> Buffers]
  <2>1. EmptyBuffer \in Buffers
    BY DEF EmptyBuffer, Buffers
  <2>2. QED
    BY <1>2, <2>1 DEF TypeOK, Fresh
<1>6. Allocated' \subseteq Addrs /\ \A a \in Allocated' : mem'[a] \in 1 .. MaxMsgs
  <2>1. PICK S : mem' = Without(S)
    BY DEF Init_
  <2>2. Allocated' = Allocated \ S /\ \A a \in Allocated \ S : mem'[a] = mem[a]
    BY <2>1, MemWithout DEF Allocated
  <2>3. Allocated \subseteq Addrs /\ \A a \in Allocated : mem[a] \in 1 .. MaxMsgs
    BY DEF TypeOK
  <2>4. QED
    BY <2>2, <2>3
<1>7. nInits' \in 0 .. MaxInits
  BY BoundsAssumption DEF TypeOK, Init_
<1>8. QED
  BY <1>1, <1>3, <1>4, <1>5, <1>6, <1>7 DEF TypeOK, Init_

LEMMA EnqueueType ==
  ASSUME TypeOK, Linked, Filled, OneOwner, NEW n \in Sizes, NEW src, Enqueue(n, src)
  PROVE  TypeOK'
<1>1. PICK p, new : p = Pop.p /\ new = Pop.new
  OBVIOUS
<1>2. Gets(p, new) /\ m_lstFreeObj' \in Seq(Nodes)
  BY <1>1, EnqueueLinks
<1>3. p \in Nodes /\ nodes' \subseteq Nodes /\ m_pTail' \in Nodes /\ m_pHead' \in Nodes \cup {0}
  BY <1>1, <1>2 DEF Gets, TypeOK, Enqueue
<1>4. next' \in [Nodes -> Nodes \cup {0}]
  BY <1>1, <1>3 DEF TypeOK, Enqueue, Link
<1>5. nMsgs' = nMsgs + 1 /\ nMsgs' \in 0 .. MaxMsgs /\ nMsgs \in Nat /\ nMsgs' \in 1 .. MaxMsgs
  BY BoundsAssumption DEF TypeOK, Enqueue
<1>6. attachID' \in [Nodes -> 0 .. MaxMsgs]
  <2>1. attachID' = [attachID EXCEPT ![p] = nMsgs']
    BY <1>1, <1>5 DEF Enqueue
  <2>2. QED
    BY <1>5, <2>1 DEF TypeOK
<1>7. m_nSize' \in 0 .. MaxMsgs
  <2>1. m_nSize \in Nat /\ m_nSize <= nMsgs /\ m_nSize' = m_nSize + 1
    BY DEF TypeOK, Filled, Enqueue
  <2>2. QED
    BY <1>5, <2>1, BoundsAssumption
<1>8. /\ msg' \in [Nodes -> Buffers]
      /\ Allocated' \subseteq Addrs /\ \A a \in Allocated' : mem'[a] \in 1 .. MaxMsgs
  <2>1. EmptyBuffer \in Buffers
    BY DEF EmptyBuffer, Buffers
  <2>2. CASE broken'
    <3>1. mem' = mem /\ msg' = [q \in Nodes |-> IF q \in new THEN EmptyBuffer ELSE msg[q]]
      BY <1>1, <2>2 DEF Enqueue
    <3>2. msg' \in [Nodes -> Buffers]
      BY <2>1, <3>1 DEF TypeOK
    <3>3. QED
      BY <3>1, <3>2 DEF TypeOK, Allocated
  <2>3. CASE ~broken'
    <3>1. PICK a \in Addrs : Fills(p, new, n, a) /\ mem'[a] = BytesAt(src)
      BY <1>1, <2>3, EnqueueBlocks
    <3>2. DOMAIN msg' = Nodes /\ msg' = [q \in Nodes |-> msg'[q]]
      BY <2>3 DEF Enqueue
    <3>3. msg' \in [Nodes -> Buffers]
      <4>1. \A q \in Nodes : msg[q] \in Buffers
        BY DEF TypeOK
      <4>2. \A q \in Nodes : q # p => msg'[q] \in {EmptyBuffer, msg[q]}
        BY <3>1 DEF Fills
      <4>3. msg'[p] \in Buffers
        BY <3>1 DEF Fills
      <4>4. \A q \in Nodes : msg'[q] \in Buffers
        BY <2>1, <4>1, <4>2, <4>3
      <4>5. QED
        BY <3>2, <4>4
    <3>4. mem'[a] \in 1 .. MaxMsgs
      BY <1>5, <3>1 DEF BytesAt, TypeOK
    <3>5. QED
      BY <3>1, <3>3, <3>4 DEF Fills, TypeOK
  <2>4. QED
    BY <2>2, <2>3
<1>9. broken' \in BOOLEAN
  BY DEF TypeOK, Enqueue
<1>10. QED
  BY <1>2, <1>3, <1>4, <1>5, <1>6, <1>7, <1>8, <1>9 DEF TypeOK, Enqueue

LEMMA DequeueType ==
  ASSUME TypeOK, Linked, Filled, OneOwner, NEW r \in Readers, Dequeue(r)
  PROVE  TypeOK'
<1>1. m_lstFreeObj' \in Seq(Nodes) /\ nodes' \subseteq Nodes /\ m_nSize' = m_nSize - 1 /\ m_nSize > 0
  BY DequeueLinks DEF TypeOK
<1>2. m_pHead \in Nodes /\ m_nSize' \in 0 .. MaxMsgs
  <2>1. m_nSize \in 0 .. MaxMsgs /\ MaxMsgs \in Nat
    BY BoundsAssumption DEF TypeOK
  <2>2. m_nSize' \in 0 .. MaxMsgs
    BY <1>1, <2>1
  <2>3. QED
    BY <2>2 DEF TypeOK, Dequeue
<1>3. m_pHead' \in Nodes \cup {0} /\ m_pTail' \in Nodes \cup {0}
  BY <1>2 DEF TypeOK, Dequeue
<1>4. msg[m_pHead] \in Buffers
  BY <1>2 DEF TypeOK
<1>5. msg' \in [Nodes -> Buffers]
  <2>1. [msg[m_pHead] EXCEPT !.m_bOwner = FALSE] \in Buffers
    BY <1>4 DEF Buffers
  <2>2. msg' = [msg EXCEPT ![m_pHead] = [msg[m_pHead] EXCEPT !.m_bOwner = FALSE]]
    BY DequeueBlocks
  <2>3. QED
    BY <2>1, <2>2 DEF TypeOK
<1>6. oNode' \in [Readers -> [attachID : 0 .. MaxMsgs, msg : Buffers]]
  <2>1. [szData |-> msg[m_pHead].szData, m_nSize |-> msg[m_pHead].m_nSize,
         m_nCapacity |-> msg[m_pHead].m_nSize, m_bOwner |-> TRUE] \in Buffers
    BY <1>4 DEF Buffers
  <2>2. attachID[m_pHead] \in 0 .. MaxMsgs
    BY <1>2 DEF TypeOK
  <2>3. PICK b \in [attachID : 0 .. MaxMsgs, msg : Buffers] : oNode' = [oNode EXCEPT ![r] = b]
    BY <2>1, <2>2, DequeueBlocks
  <2>4. QED
    BY <2>3 DEF TypeOK
<1>7. Allocated' \subseteq Addrs /\ \A a \in Allocated' : mem'[a] \in 1 .. MaxMsgs
  BY DequeueBlocks DEF TypeOK
<1>8. QED
  <2>1. UNCHANGED <<m_nMaxSize, m_nMaxCount, m_nGrowCount, next, attachID, nMsgs, nInits, broken>> /\ used'
    BY DEF Dequeue, bounds
  <2>2. QED
    BY <1>1, <1>2, <1>3, <1>5, <1>6, <1>7, <2>1 DEF TypeOK

LEMMA ReaderEndsType ==
  ASSUME TypeOK, NEW r \in Readers, ReaderEnds(r)
  PROVE  TypeOK'
<1>1. [attachID |-> 0, msg |-> EmptyBuffer] \in [attachID : 0 .. MaxMsgs, msg : Buffers]
  BY BoundsAssumption DEF EmptyBuffer, Buffers
<1>2. oNode' \in [Readers -> [attachID : 0 .. MaxMsgs, msg : Buffers]]
  BY <1>1 DEF TypeOK, ReaderEnds
<1>3. Allocated' \subseteq Addrs /\ \A a \in Allocated' : mem'[a] \in 1 .. MaxMsgs
  <2>1. PICK S : mem' = Without(S)
    BY DEF ReaderEnds
  <2>2. QED
    BY <2>1, MemWithout DEF TypeOK, Allocated
<1>4. QED
  BY <1>2, <1>3 DEF TypeOK, ReaderEnds, queueVars, poolVars, nodeVars, bounds

LEMMA ClearType ==
  ASSUME TypeOK, Linked, Clear
  PROVE  TypeOK'
<1>1. CASE broken'
  <2>1. /\ UNCHANGED <<m_pHead, m_pTail, m_nSize, m_nMaxSize, m_lstFreeObj, m_nMaxCount, m_nGrowCount,
                       nodes, next, attachID, msg, mem, oNode, nMsgs, nInits>>
        /\ used' = TRUE
    BY <1>1 DEF Clear, queueVars, poolVars, nodeVars, bounds
  <2>2. QED
    BY <1>1, <2>1 DEF TypeOK, Allocated
<1>2. CASE ~broken'
  <2>1. m_lstFreeObj' \in Seq(Nodes) /\ nodes' \subseteq Nodes /\ m_nSize' = 0
    BY <1>2, ClearLinks DEF TypeOK
  <2>2. Allocated' \subseteq Addrs /\ \A a \in Allocated' : mem'[a] \in 1 .. MaxMsgs
    <3>1. PICK S : mem' = Without(S)
      BY <1>2 DEF Clear
    <3>2. QED
      BY <3>1, MemWithout DEF TypeOK, Allocated
  <2>3. QED
    BY <1>2, <2>1, <2>2, BoundsAssumption DEF TypeOK, Clear, bounds
<1>3. QED
  BY <1>1, <1>2

----------------------------------------------------------------------------
(* Every operation that does not break the queue keeps what is filled, who *)
(* owns the blocks and what is unused.                                     *)

LEMMA InitKeeps ==
  ASSUME TypeOK, Linked, Filled, OneOwner, Unused, NEW n \in Limits, Init_(n)
  PROVE  Filled' /\ OneOwner' /\ Unused'
<1>1. PICK new \in SUBSET Nodes :
        /\ new \cap ToSet(Chain) = {} /\ ToSet(m_lstFreeObj') = new
        /\ nodes' = (nodes \ Pooled) \cup new /\ Fresh(Pooled \cup new)
  BY InitLinks
<1>2. Chain' = Chain /\ UNCHANGED <<m_pTail, m_nSize, nMsgs, oNode, used>>
  BY InitLinks DEF Init_
<1>3. /\ \A p \in Pooled \cup new : /\ msg'[p] = EmptyBuffer /\ next'[p] = 0
      /\ \A p \in ToSet(Chain) : /\ msg'[p] = msg[p] /\ attachID'[p] = attachID[p] /\ next'[p] = next[p]
  <2>1. Pooled \cup new \subseteq Nodes /\ ToSet(Chain) \subseteq Nodes
        /\ ToSet(Chain) \cap (Pooled \cup new) = {}
    BY <1>1 DEF Linked, TypeOK
  <2>2. QED
    BY <1>1, <2>1 DEF Fresh
<1>4. nodes' = ToSet(Chain) \cup new /\ nodes \ Pooled = ToSet(Chain) /\ Pooled \in SUBSET nodes
  BY <1>1 DEF Linked
<1>5. /\ Allocated' = Allocated \ BlocksOf(Pooled) /\ \A a \in Allocated' : mem'[a] = mem[a]
  <2>1. mem' = Without(BlocksOf(Pooled))
    BY DEF Init_, Pooled
  <2>2. QED
    BY <2>1, MemWithout DEF Allocated
<1>6. \A p \in new : ~Owns(msg'[p]) /\ msg'[p].szData = Null /\ msg'[p].m_nCapacity = 0
  BY <1>3 DEF Owns, EmptyBuffer
<1>7. Filled'
  BY <1>2, <1>3, <1>4, <1>5, <1>6 DEF Filled
<1>8. OneOwner'
  <2>1. /\ \A p \in ToSet(Chain) : Owns(msg[p]) => msg[p].szData \notin BlocksOf(Pooled)
        /\ \A r \in Readers : oNode[r].msg.szData \notin BlocksOf(Pooled)
        /\ \A a \in Allocated \ BlocksOf(Pooled) :
             \/ \E p \in ToSet(Chain) : Owns(msg[p]) /\ msg[p].szData = a
             \/ \E r \in Readers : oNode[r].msg.szData = a
    BY <1>4, Freed
  <2>2. \A p \in nodes' : Owns(msg'[p]) => p \in ToSet(Chain) /\ p \in nodes /\ msg'[p] = msg[p]
    BY <1>3, <1>4, <1>6
  <2>3. QED
    BY <1>2, <1>3, <1>4, <1>5, <2>1, <2>2 DEF OneOwner
<1>9. Unused'
  <2>1. m_nSize > 0 => m_pTail \in ToSet(Chain)
    BY ChainType
  <2>2. QED
    BY <1>1, <1>2, <1>3, <1>6, <2>1 DEF Unused, Pooled
<1>10. QED
  BY <1>7, <1>8, <1>9

LEMMA EnqueueKeeps ==
  ASSUME TypeOK, Linked, Filled, OneOwner, Unused, NEW n \in Sizes, NEW src, Enqueue(n, src), ~broken'
  PROVE  Filled' /\ OneOwner' /\ Unused'
<1>1. PICK p, new : p = Pop.p /\ new = Pop.new
  OBVIOUS
<1>2. Gets(p, new)
  BY <1>1, EnqueueLinks
<1>3. n # 0 /\ \E a \in Addrs : Fills(p, new, n, a) /\ mem'[a] = BytesAt(src)
  BY <1>1, EnqueueBlocks
<1>4. PICK a \in Addrs : Fills(p, new, n, a) /\ mem'[a] = BytesAt(src)
  BY <1>3
<1>5. /\ m_nSize' = m_nSize + 1 /\ nMsgs' = nMsgs + 1 /\ UNCHANGED <<oNode, used>>
      /\ attachID' = [attachID EXCEPT ![p] = nMsgs + 1]
      /\ next' = Link(p, [q \in Nodes |-> IF q \in new THEN 0 ELSE next[q]])
  BY <1>1 DEF Enqueue
<1>6. /\ p \in Nodes /\ p \notin ToSet(Chain) /\ p \in nodes' /\ nodes' = nodes \cup new
      /\ nodes' \subseteq Nodes /\ ToSet(Chain) \subseteq nodes /\ new \cap nodes = {}
      /\ ToSet(Chain') = ToSet(Chain) \cup {p}
  <2>1. Chain \in Seq(Nodes) /\ p \in Nodes
    BY <1>2, ChainType DEF Gets
  <2>2. ToSet(Append(Chain, p)) = ToSet(Chain) \cup {p}
    BY <2>1, AddLast
  <2>3. QED
    BY <1>2, <2>2 DEF Gets, Linked, TypeOK
<1>7. \A q \in nodes' : q # p =>
        \/ q \in nodes /\ msg'[q] = msg[q]
        \/ q \notin nodes /\ msg'[q] = EmptyBuffer
  BY <1>4, <1>6 DEF Fills
<1>8. a # Null /\ ~Owns(EmptyBuffer) /\ EmptyBuffer.m_nCapacity = 0 /\ Owns(msg'[p])
  <2>1. a # Null
    BY AddrsAssumption
  <2>2. QED
    BY <1>4, <2>1 DEF Owns, EmptyBuffer, Fills
<1>9. Filled'
  <2>1. nMsgs \in Nat /\ m_nSize \in Nat
    BY DEF TypeOK
  <2>2. m_nSize' <= nMsgs'
    BY <1>5, <2>1 DEF Filled
  <2>3. ASSUME NEW q \in ToSet(Chain')
        PROVE  Owns(msg'[q]) /\ msg'[q].m_nSize # 0 /\ attachID'[q] \in 1 .. nMsgs'
    <3>1. CASE q = p
      <4>1. attachID'[p] = nMsgs + 1 /\ nMsgs + 1 \in 1 .. nMsgs + 1
        BY <1>5, <1>6, <2>1 DEF TypeOK
      <4>2. QED
        BY <1>3, <1>4, <1>5, <1>8, <3>1, <4>1 DEF Fills
    <3>2. CASE q # p
      <4>1. q \in ToSet(Chain) /\ msg'[q] = msg[q] /\ attachID'[q] = attachID[q]
        BY <1>5, <1>6, <1>7, <2>3, <3>2 DEF TypeOK
      <4>2. Owns(msg[q]) /\ msg[q].m_nSize # 0 /\ attachID[q] \in 1 .. nMsgs
        BY <4>1 DEF Filled
      <4>3. QED
        BY <1>5, <2>1, <4>1, <4>2
    <3>3. QED
      BY <3>1, <3>2
  <2>4. \A q \in nodes' : msg'[q].m_bOwner /\ msg'[q].m_nCapacity > 0 => msg'[q].szData # Null
    <3>1. msg'[p].szData # Null
      BY <1>4, <1>8 DEF Fills
    <3>2. QED
      BY <1>7, <1>8, <3>1 DEF Filled
  <2>5. \A x \in Allocated' : mem'[x] <= nMsgs'
    <3>1. BytesAt(src) \in Nat /\ BytesAt(src) <= nMsgs + 1
      BY <2>1 DEF BytesAt, Filled, TypeOK
    <3>2. \A x \in Allocated : mem[x] \in Nat /\ mem[x] <= nMsgs
      BY DEF Filled, TypeOK
    <3>3. \A x \in Allocated' : x = a \/ (x \in Allocated /\ mem'[x] = mem[x])
      BY <1>4 DEF Fills
    <3>4. QED
      BY <1>4, <1>5, <2>1, <3>1, <3>2, <3>3
  <2>6. QED
    BY <1>5, <2>2, <2>3, <2>4, <2>5 DEF Filled
<1>10. OneOwner'
  <2>1. \A q \in nodes' : Owns(msg'[q]) /\ q # p =>
          /\ q \in nodes /\ msg'[q] = msg[q] /\ Owns(msg[q])
          /\ msg[q].szData \in Allocated' /\ msg[q].szData # a
    BY <1>4, <1>7, <1>8 DEF Fills
  <2>2. msg'[p].szData = a /\ a \in Allocated'
    BY <1>4 DEF Fills
  <2>3. \A r \in Readers : /\ oNode'[r] = oNode[r] /\ oNode[r].msg.szData # a
                           /\ oNode[r].msg.szData # Null => oNode[r].msg.szData \in Allocated'
    BY <1>4, <1>5, <1>8 DEF Fills
  <2>4. ASSUME NEW x \in Allocated'
        PROVE  \/ \E q \in nodes' : Owns(msg'[q]) /\ msg'[q].szData = x
               \/ \E r \in Readers : oNode'[r].msg.szData = x
    <3>1. CASE x = a
      BY <1>6, <1>8, <2>2, <3>1
    <3>2. ASSUME NEW q \in nodes, q # p, Owns(msg[q]), msg[q].szData = x
          PROVE  \E v \in nodes' : Owns(msg'[v]) /\ msg'[v].szData = x
      BY <1>6, <1>7, <3>2
    <3>3. QED
      BY <1>4, <2>3, <3>1, <3>2 DEF Fills
  <2>5. QED
    BY <2>1, <2>2, <2>3, <2>4 DEF OneOwner
<1>11. Unused'
  <2> SUFFICES ASSUME ~used PROVE /\ \A q \in Pooled' : next'[q] = 0 /\ msg'[q].szData = Null
                                  /\ next'[p] = 0
    BY <1>2, <1>5 DEF Unused, Gets
  <2>1. \A q \in Pooled \cup new : next'[q] = 0
    <3>1. Pooled \cup new \subseteq Nodes /\ m_pTail \notin Pooled \cup new
      <4>1. m_pTail = 0 \/ m_pTail \in ToSet(Chain)
        BY ChainType DEF Linked
      <4>2. QED
        BY <1>6, <4>1 DEF Linked, Nodes
    <3>2. PICK nx : nx = [q \in Nodes |-> IF q \in new THEN 0 ELSE next[q]]
      OBVIOUS
    <3>3. \A q \in Pooled \cup new : nx[q] = 0
      BY <3>1, <3>2 DEF Unused
    <3>4. \A q \in Pooled \cup new : Link(p, nx)[q] = nx[q]
      BY <3>1, <3>2 DEF Link
    <3>5. QED
      BY <1>5, <3>2, <3>3, <3>4
  <2>2. Pooled' = (Pooled \cup new) \ {p} /\ p \in Pooled \cup new /\ Pooled \subseteq nodes
    BY <1>2 DEF Gets, Pooled, Linked
  <2>3. \A q \in Pooled' : msg'[q].szData = Null
    <3>1. \A q \in Pooled : msg[q].szData = Null
      BY DEF Unused
    <3>2. \A q \in Pooled' : q \in nodes' /\ q # p /\ (q \in nodes => q \in Pooled)
      BY <1>6, <2>2
    <3>3. QED
      BY <1>7, <3>1, <3>2 DEF EmptyBuffer
  <2>4. QED
    BY <2>1, <2>2, <2>3
<1>12. QED
  BY <1>9, <1>10, <1>11

LEMMA DequeueKeeps ==
  ASSUME TypeOK, Linked, Filled, OneOwner, NEW r \in Readers, Dequeue(r)
  PROVE  Filled' /\ OneOwner' /\ Unused'
<1>1. PICK h, B : h = m_pHead /\ B = msg[m_pHead].szData
  OBVIOUS
<1>2. /\ h \in nodes /\ Owns(msg[h]) /\ msg[h].szData = B /\ h \in ToSet(Chain)
      /\ msg' = [msg EXCEPT ![h].m_bOwner = FALSE]
      /\ Allocated' = Allocated \ {oNode[r].msg.szData} /\ B \in Allocated'
      /\ \A a \in Allocated' : mem'[a] = mem[a]
  BY <1>1, DequeueBlocks, DequeueLinks
<1>3. /\ oNode'[r].msg.szData = B /\ oNode'[r].msg.m_bOwner /\ oNode'[r].attachID = attachID[h]
      /\ \A t \in Readers : t # r => oNode'[t] = oNode[t]
  <2>1. PICK b : b = [szData |-> B, m_nSize |-> msg[h].m_nSize, m_nCapacity |-> msg[h].m_nSize,
                      m_bOwner |-> TRUE]
    OBVIOUS
  <2>2. oNode' = [oNode EXCEPT ![r] = [attachID |-> attachID[h], msg |-> b]]
    BY <1>1, <2>1, DequeueBlocks
  <2>3. oNode'[r] = [attachID |-> attachID[h], msg |-> b] /\ \A t \in Readers : t # r => oNode'[t] = oNode[t]
    BY <2>2 DEF TypeOK
  <2>4. QED
    BY <2>1, <2>3
<1>4. /\ ToSet(Chain') = ToSet(Chain) \ {h} /\ nodes' \subseteq nodes
      /\ nodes \ {h} \subseteq nodes' /\ nodes \subseteq Nodes /\ ToSet(Chain) \subseteq nodes
  BY <1>1, DequeueLinks DEF Linked, TypeOK
<1>5. /\ ~Owns(msg'[h]) /\ ~msg'[h].m_bOwner
      /\ \A p \in nodes : p # h => msg'[p] = msg[p]
  <2>1. h \in Nodes
    BY <1>2, <1>4
  <2>2. msg'[h].m_bOwner = FALSE
    BY <1>2, <2>1, BufferFields DEF TypeOK, Buffers
  <2>3. QED
    BY <1>2, <1>4, <2>2 DEF Owns, TypeOK
<1>6. attachID[h] # 0 /\ B # Null
  BY <1>2 DEF Filled, Owns
<1>7. m_nSize' = m_nSize - 1 /\ used' /\ UNCHANGED <<attachID, nMsgs>>
  BY DEF Dequeue, bounds
<1>8. Filled'
  <2>1. m_nSize' <= nMsgs'
    BY <1>7 DEF TypeOK, Filled
  <2>2. \A p \in ToSet(Chain') : msg'[p] = msg[p] /\ p \in ToSet(Chain)
    BY <1>4, <1>5
  <2>3. \A p \in nodes' : msg'[p].m_bOwner => msg'[p] = msg[p] /\ p \in nodes
    BY <1>4, <1>5
  <2>4. \A t \in Readers : /\ oNode'[t].msg.m_bOwner
                           /\ oNode'[t].attachID = 0 <=> oNode'[t].msg.szData = Null
    BY <1>3, <1>6 DEF Filled
  <2>5. \A a \in Allocated' : mem'[a] <= nMsgs'
    BY <1>2, <1>7 DEF Filled
  <2>6. QED
    BY <1>7, <2>1, <2>2, <2>3, <2>4, <2>5 DEF Filled
<1>9. OneOwner'
  <2>1. \A p \in nodes' : Owns(msg'[p]) => p \in nodes /\ p # h /\ msg'[p] = msg[p]
    BY <1>4, <1>5
  <2>2. \A p \in nodes' : Owns(msg'[p]) => msg'[p].szData # B /\ msg'[p].szData \in Allocated'
    BY <1>2, <2>1 DEF OneOwner
  <2>3. \A t \in Readers : t # r => oNode[t].msg.szData # B
    BY <1>2 DEF OneOwner
  <2>4. \A t \in Readers : t # r /\ oNode[t].msg.szData # Null => oNode[t].msg.szData \in Allocated'
    BY <1>2 DEF OneOwner
  <2>5. ASSUME NEW a \in Allocated'
        PROVE  \/ \E p \in nodes' : Owns(msg'[p]) /\ msg'[p].szData = a
               \/ \E t \in Readers : oNode'[t].msg.szData = a
    <3>1. a \in Allocated /\ a # oNode[r].msg.szData
      BY <1>2
    <3>2. CASE a = B
      BY <1>3, <3>2
    <3>3. ASSUME NEW p \in nodes, Owns(msg[p]), msg[p].szData = a, a # B
          PROVE  \E q \in nodes' : Owns(msg'[q]) /\ msg'[q].szData = a
      <4>1. p # h
        BY <1>2, <3>3
      <4>2. QED
        BY <1>4, <1>5, <3>3, <4>1
    <3>4. ASSUME NEW t \in Readers, oNode[t].msg.szData = a
          PROVE  \E u \in Readers : oNode'[u].msg.szData = a
      BY <1>3, <3>1, <3>4
    <3>5. QED
      BY <3>1, <3>2, <3>3, <3>4 DEF OneOwner
  <2>6. \A p, q \in nodes' : Owns(msg'[p]) /\ Owns(msg'[q]) /\ msg'[p].szData = msg'[q].szData => p = q
    BY <2>1 DEF OneOwner
  <2>7. \A t, u \in Readers :
          oNode'[t].msg.szData = oNode'[u].msg.szData /\ oNode'[t].msg.szData # Null => t = u
    BY <1>3, <2>3 DEF OneOwner
  <2>8. \A p \in nodes', t \in Readers : Owns(msg'[p]) => msg'[p].szData # oNode'[t].msg.szData
    BY <1>3, <2>1, <2>2 DEF OneOwner
  <2>9. \A t \in Readers : oNode'[t].msg.szData # Null => oNode'[t].msg.szData \in Allocated'
    BY <1>2, <1>3, <2>4
  <2>10. QED
    BY <2>2, <2>5, <2>6, <2>7, <2>8, <2>9 DEF OneOwner
<1>10. QED
  BY <1>7, <1>8, <1>9 DEF Unused

LEMMA ReaderEndsKeeps ==
  ASSUME TypeOK, Linked, Filled, OneOwner, Unused, NEW r \in Readers, ReaderEnds(r)
  PROVE  Linked' /\ Filled' /\ OneOwner' /\ Unused'
<1>1. UNCHANGED <<m_pHead, m_pTail, m_nSize, m_lstFreeObj, nodes, next, attachID, msg, nMsgs, used>>
  BY DEF ReaderEnds, queueVars, poolVars, nodeVars, bounds
<1>2. Chain' = Chain /\ Pooled' = Pooled
  BY <1>1 DEF Chain, Pooled
<1>3. PICK b : b = oNode[r].msg.szData
  OBVIOUS
<1>4. /\ oNode'[r].msg.szData = Null /\ oNode'[r].msg.m_bOwner /\ oNode'[r].attachID = 0
      /\ \A t \in Readers : t # r => oNode'[t] = oNode[t]
  BY DEF ReaderEnds, TypeOK, EmptyBuffer
<1>5. Allocated' = Allocated \ {b} /\ \A a \in Allocated' : mem'[a] = mem[a]
  <2>1. mem' = Without({b})
    BY <1>3 DEF ReaderEnds
  <2>2. QED
    BY <2>1, MemWithout DEF Allocated
<1>6. b # Null /\ Null \notin Allocated
  BY <1>3, BufferFields DEF ReaderEnds
<1>7. Linked' /\ Unused'
  BY <1>1, <1>2 DEF Linked, Unused
<1>8. Filled'
  BY <1>1, <1>2, <1>4, <1>5 DEF Filled
<1>9. OneOwner'
  <2>1. \A p \in nodes : Owns(msg[p]) => msg[p].szData # b
    BY <1>3 DEF OneOwner
  <2>2. \A t \in Readers : t # r => oNode[t].msg.szData # b
    BY <1>3, <1>6 DEF OneOwner
  <2>3. \A p \in nodes : Owns(msg[p]) => msg[p].szData # Null
    BY DEF Owns
  <2>4. QED
    BY <1>1, <1>3, <1>4, <1>5, <1>6, <2>1, <2>2, <2>3 DEF OneOwner
<1>10. QED
  BY <1>7, <1>8, <1>9

LEMMA ClearKeeps ==
  ASSUME TypeOK, Linked, Filled, OneOwner, Clear, ~broken'
  PROVE  Filled' /\ OneOwner' /\ Unused'
<1>1. PICK D : D = Deleted(Chain)
  OBVIOUS
<1>2. /\ Chain' = <<>> /\ m_nSize' = 0 /\ D \in SUBSET nodes /\ nodes' = nodes \ D
  BY <1>1, ClearLinks DEF Linked
<1>3. used' /\ UNCHANGED <<attachID, msg, oNode, nMsgs>>
  BY DEF Clear, bounds
<1>4. Allocated' = Allocated \ BlocksOf(D) /\ \A a \in Allocated' : mem'[a] = mem[a]
  <2>1. mem' = Without(BlocksOf(D))
    BY <1>1 DEF Clear
  <2>2. QED
    BY <2>1, MemWithout DEF Allocated
<1>5. Filled'
  <2>1. ToSet(Chain') = {}
    BY <1>2 DEF ToSet
  <2>2. 0 <= nMsgs
    BY DEF TypeOK
  <2>3. QED
    BY <1>2, <1>3, <1>4, <2>1, <2>2 DEF Filled
<1>6. OneOwner'
  <2>1. /\ \A p \in nodes \ D : Owns(msg[p]) => msg[p].szData \notin BlocksOf(D)
        /\ \A r \in Readers : oNode[r].msg.szData \notin BlocksOf(D)
        /\ \A a \in Allocated \ BlocksOf(D) :
             \/ \E p \in nodes \ D : Owns(msg[p]) /\ msg[p].szData = a
             \/ \E r \in Readers : oNode[r].msg.szData = a
    BY <1>2, Freed
  <2>2. QED
    BY <1>2, <1>3, <1>4, <2>1 DEF OneOwner
<1>7. QED
  BY <1>3, <1>5, <1>6 DEF Unused

----------------------------------------------------------------------------
(* The invariant.                                                          *)

LEMMA QueueInit == Init => QueueInv
<1> SUFFICES ASSUME Init PROVE QueueInv
  OBVIOUS
<1>1. EmptyBuffer \in Buffers /\ EmptyBuffer.szData = Null /\ EmptyBuffer.m_bOwner /\ ~Owns(EmptyBuffer)
  BY DEF EmptyBuffer, Buffers, Owns
<1>2. Allocated = {}
  BY DEF Init, Allocated
<1>3. TypeOK
  <2>1. oNode \in [Readers -> [attachID : 0 .. MaxMsgs, msg : Buffers]]
    BY <1>1, BoundsAssumption DEF Init
  <2>2. /\ 0 \in 0 .. MaxMsgs /\ 0 \in 0 .. MaxInits
        /\ next \in [Nodes -> Nodes \cup {0}] /\ attachID \in [Nodes -> 0 .. MaxMsgs]
        /\ msg \in [Nodes -> Buffers]
    BY <1>1, BoundsAssumption DEF Init
  <2>3. /\ m_pHead = 0 /\ m_pTail = 0 /\ m_nSize = 0 /\ m_nMaxSize = 0 /\ m_lstFreeObj = <<>>
        /\ m_nMaxCount = DefaultPool /\ m_nGrowCount = 1 /\ nodes = {} /\ nMsgs = 0 /\ nInits = 0
        /\ used = FALSE /\ broken = FALSE
    BY DEF Init
  <2>4. m_lstFreeObj \in Seq(Nodes)
    BY <2>3
  <2>5. QED
    BY <1>2, <2>1, <2>2, <2>3, <2>4 DEF TypeOK
<1>4. Chain = <<>> /\ ToSet(Chain) = {} /\ IsInjective(Chain) /\ Pooled = {}
  <2>1. ChainFrom(0, 0, next) = <<>>
    BY ChainAt, ChainFollows DEF Follows
  <2>2. Chain = <<>> /\ m_lstFreeObj = <<>>
    BY <2>1 DEF Chain, Init
  <2>3. QED
    BY <2>2 DEF ToSet, IsInjective, Pooled
<1>5. Linked /\ Unused
  BY <1>4 DEF Linked, Unused, Init, IsInjective
<1>6. Filled
  BY <1>1, <1>2, <1>4 DEF Filled, Init
<1>7. OneOwner
  BY <1>1, <1>2 DEF OneOwner, Init
<1>8. QED
  BY <1>3, <1>5, <1>6, <1>7 DEF QueueInv

LEMMA QueueStep == QueueInv /\ [Next]_vars => QueueInv'
<1> SUFFICES ASSUME QueueInv, [Next]_vars PROVE QueueInv'
  OBVIOUS
<1>1. TypeOK /\ (~broken => Linked /\ Filled /\ OneOwner /\ Unused)
  BY DEF QueueInv
<1>2. ASSUME NEW n \in Limits, Init_(n) PROVE QueueInv'
  <2>1. ~broken /\ ~broken'
    BY <1>2 DEF Init_
  <2>2. QED
    BY <1>1, <1>2, <2>1, InitType, InitLinks, InitKeeps DEF QueueInv
<1>3. ASSUME NEW n \in Sizes, NEW src \in Sources, Enqueue(n, src) PROVE QueueInv'
  <2>1. ~broken
    BY <1>3 DEF Enqueue
  <2>2. QED
    BY <1>1, <1>3, <2>1, EnqueueType, EnqueueLinks, EnqueueKeeps DEF QueueInv
<1>4. ASSUME NEW r \in Readers, Dequeue(r) PROVE QueueInv'
  <2>1. ~broken
    BY <1>4 DEF Dequeue
  <2>2. QED
    BY <1>1, <1>4, <2>1, DequeueType, DequeueLinks, DequeueKeeps DEF QueueInv
<1>5. ASSUME NEW r \in Readers, ReaderEnds(r) PROVE QueueInv'
  <2>1. ~broken
    BY <1>5 DEF ReaderEnds
  <2>2. QED
    BY <1>1, <1>5, <2>1, ReaderEndsType, ReaderEndsKeeps DEF QueueInv
<1>6. CASE Clear
  <2>1. ~broken
    BY <1>6 DEF Clear
  <2>2. QED
    BY <1>1, <1>6, <2>1, ClearType, ClearLinks, ClearKeeps DEF QueueInv
<1>7. CASE UNCHANGED vars
  <2>1. /\ Chain' = Chain /\ Pooled' = Pooled /\ Allocated' = Allocated
    BY <1>7 DEF Chain, Pooled, Allocated, vars, queueVars, poolVars, nodeVars
  <2>2. TypeOK'
    BY <1>1, <1>7, <2>1 DEF TypeOK, vars, queueVars, poolVars, nodeVars, bounds
  <2>3. ~broken => Linked' /\ Filled' /\ OneOwner' /\ Unused'
    BY <1>1, <1>7, <2>1 DEF Linked, Filled, OneOwner, Unused, vars, queueVars, poolVars,
       nodeVars, bounds
  <2>4. QED
    BY <1>7, <2>2, <2>3 DEF QueueInv, vars
<1>8. QED
  BY <1>2, <1>3, <1>4, <1>5, <1>6, <1>7 DEF Next

LEMMA QueueAlways == Spec => []QueueInv
BY QueueInit, QueueStep, PTL DEF Spec

(* What the nodes' next pointers, the pool's list and the buffers hold has *)
(* its type; so no pointer leads out of the nodes there are.               *)
THEOREM TypeCorrect == Spec => []TypeOK
<1>1. QueueInv => TypeOK
  BY DEF QueueInv
<1>2. QED
  BY <1>1, QueueAlways, PTL

(* Enqueue, Dequeue, Clear and Init move nodes between the chain that      *)
(* starts at m_pHead and the free list of the pool: as long as the queue   *)
(* is not broken, none is lost, none is in both and none in one of them    *)
(* twice, and m_pTail is the last of the chain (SLMessageQueue.h:53-153).  *)
THEOREM NodeInOnePlaceCorrect == Spec => []NodeInOnePlace
<1>1. QueueInv => NodeInOnePlace
  <2> SUFFICES ASSUME TypeOK, Linked
               PROVE  /\ IsInjective(Chain \o m_lstFreeObj)
                      /\ ToSet(Chain \o m_lstFreeObj) = nodes
                      /\ m_nSize > 0 => m_pTail = Chain[m_nSize]
    BY DEF QueueInv, NodeInOnePlace
  <2>1. Chain \in Seq(Nodes) /\ m_lstFreeObj \in Seq(Nodes)
    BY ChainType DEF TypeOK
  <2>2. /\ ToSet(Chain \o m_lstFreeObj) = ToSet(Chain) \cup ToSet(m_lstFreeObj)
        /\ IsInjective(Chain) /\ IsInjective(m_lstFreeObj)
             /\ ToSet(Chain) \cap ToSet(m_lstFreeObj) = {} => IsInjective(Chain \o m_lstFreeObj)
    BY <2>1, Joined
  <2>3. QED
    BY <2>2 DEF Linked, Pooled
<1>2. QED
  BY <1>1, QueueAlways, PTL

(* The block that Enqueue copies a message to belongs to its node until    *)
(* Dequeue hands it to the reader's: as long as the queue is not broken,   *)
(* every block that is allocated has exactly one owner that will free it,  *)
(* and nobody owns a block that is free (ByteBuffer.h:89-155).             *)
THEOREM BlockHasOneOwnerCorrect == Spec => []BlockHasOneOwner
<1>1. QueueInv => BlockHasOneOwner
  <2> SUFFICES ASSUME TypeOK, Filled, OneOwner, NEW a \in Addrs
               PROVE  Cardinality(Owners(a)) = IF a \in Allocated THEN 1 ELSE 0
    BY DEF QueueInv, BlockHasOneOwner
  <2>1. \A r \in Readers : Owns(oNode[r].msg) <=> oNode[r].msg.szData # Null
    BY DEF Filled, Owns
  <2>2. a # Null
    BY AddrsAssumption
  <2>3. CASE a \notin Allocated
    <3>1. Owners(a) = {}
      BY <2>1, <2>2, <2>3 DEF OneOwner, Owners
    <3>2. QED
      BY <2>3, <3>1, FS_EmptySet
  <2>4. ASSUME NEW p \in nodes, Owns(msg[p]), msg[p].szData = a
        PROVE  Owners(a) = {<<"node", p>>}
    BY <2>1, <2>4 DEF OneOwner, Owners
  <2>5. ASSUME NEW r \in Readers, oNode[r].msg.szData = a
        PROVE  Owners(a) = {<<"reader", r>>}
    BY <2>1, <2>2, <2>5 DEF OneOwner, Owners
  <2>6. CASE a \in Allocated
    <3>1. \E x : Owners(a) = {x}
      BY <2>4, <2>5, <2>6 DEF OneOwner
    <3>2. QED
      BY <2>6, <3>1, FS_Singleton
  <2>7. QED
    BY <2>3, <2>6
<1>2. QED
  BY <1>1, QueueAlways, PTL

----------------------------------------------------------------------------
(* What the users of the queue see of it: the messages of the chain, and   *)
(* the message of each reader.                                             *)

Queue == [i \in 1 .. m_nSize |-> MessageIn(Chain[i])]
Got   == [r \in Readers |-> Message(oNode[r].attachID, oNode[r].msg)]

MessagesOf(chain, ids, bufs, m) ==
  [i \in DOMAIN chain |-> [id |-> ids[chain[i]], n |-> bufs[chain[i]].m_nSize,
                           bytes |-> m[bufs[chain[i]].szData]]]
ReadersOf(nd, m) ==
  [r \in Readers |-> IF nd[r].attachID = 0 THEN <<>>
                     ELSE [id |-> nd[r].attachID, n |-> nd[r].msg.m_nSize, bytes |-> m[nd[r].msg.szData]]]

LEMMA QueueNow ==
  ASSUME QueueInv, ~broken
  PROVE  Queue = MessagesOf(Chain, attachID, msg, mem) /\ Got = ReadersOf(oNode, mem)
<1>1. TypeOK /\ Linked /\ Filled /\ OneOwner
  BY DEF QueueInv
<1>2. DOMAIN Chain = 1 .. m_nSize
  BY <1>1, ChainAt DEF Chain, TypeOK
<1>3. \A p \in ToSet(Chain) : p # 0 /\ attachID[p] # 0 /\ msg[p].szData \in DOMAIN mem
  <2>1. \A p \in ToSet(Chain) : p \in nodes /\ p \in Nodes /\ Owns(msg[p]) /\ attachID[p] \in 1 .. nMsgs
    BY <1>1 DEF Linked, Filled, TypeOK
  <2>2. QED
    BY <1>1, <2>1 DEF OneOwner, Nodes, Allocated
<1>4. \A i \in 1 .. m_nSize : Chain[i] \in ToSet(Chain)
  BY <1>2 DEF ToSet
<1>5. Queue = MessagesOf(Chain, attachID, msg, mem)
  BY <1>2, <1>3, <1>4 DEF Queue, MessageIn, Message, MessagesOf, Allocated
<1>6. \A r \in Readers : oNode[r].attachID # 0 => oNode[r].msg.szData \in DOMAIN mem
  BY <1>1 DEF Filled, OneOwner, Allocated
<1>7. Got = ReadersOf(oNode, mem)
  BY <1>6 DEF Got, Message, ReadersOf, Allocated
<1>8. QED
  BY <1>5, <1>7

LEMMA QueueNext ==
  ASSUME QueueInv', ~broken'
  PROVE  Queue' = MessagesOf(Chain', attachID', msg', mem') /\ Got' = ReadersOf(oNode', mem')
<1>1. TypeOK' /\ Linked' /\ Filled' /\ OneOwner'
  BY DEF QueueInv
<1>2. DOMAIN Chain' = 1 .. m_nSize'
  BY <1>1, ChainAt DEF Chain, TypeOK
<1>3. \A p \in ToSet(Chain') : p # 0 /\ attachID'[p] # 0 /\ msg'[p].szData \in DOMAIN mem'
  <2>1. \A p \in ToSet(Chain') : p \in nodes' /\ p \in Nodes /\ Owns(msg'[p]) /\ attachID'[p] \in 1 .. nMsgs'
    BY <1>1 DEF Linked, Filled, TypeOK
  <2>2. QED
    BY <1>1, <2>1 DEF OneOwner, Nodes, Allocated
<1>4. \A i \in 1 .. m_nSize' : Chain'[i] \in ToSet(Chain')
  BY <1>2 DEF ToSet
<1>5. Queue' = MessagesOf(Chain', attachID', msg', mem')
  BY <1>2, <1>3, <1>4 DEF Queue, MessageIn, Message, MessagesOf, Allocated
<1>6. \A r \in Readers : oNode'[r].attachID # 0 => oNode'[r].msg.szData \in DOMAIN mem'
  BY <1>1 DEF Filled, OneOwner, Allocated
<1>7. Got' = ReadersOf(oNode', mem')
  BY <1>6 DEF Got, Message, ReadersOf, Allocated
<1>8. QED
  BY <1>5, <1>7

(* The chain's messages and the readers', by what they depend on.          *)
LEMMA SameMessages ==
  ASSUME NEW c, NEW ids, NEW bufs, NEW m, NEW idt, NEW buft, NEW k,
         \A p \in ToSet(c) : /\ idt[p] = ids[p] /\ buft[p].m_nSize = bufs[p].m_nSize
                             /\ buft[p].szData = bufs[p].szData
                             /\ k[bufs[p].szData] = m[bufs[p].szData]
  PROVE  MessagesOf(c, idt, buft, k) = MessagesOf(c, ids, bufs, m)
BY DEF MessagesOf, ToSet

LEMMA SameReaders ==
  ASSUME NEW nd, NEW m, NEW k,
         \A r \in Readers : nd[r].attachID # 0 => k[nd[r].msg.szData] = m[nd[r].msg.szData]
  PROVE  ReadersOf(nd, k) = ReadersOf(nd, m)
BY DEF ReadersOf

LEMMA InitQueue ==
  ASSUME QueueInv, QueueInv', NEW n \in Limits, Init_(n)
  PROVE  Queue' = Queue /\ Got' = Got
<1>1. TypeOK /\ Linked /\ Filled /\ OneOwner /\ ~broken /\ ~broken'
  BY DEF QueueInv, Init_
<1>2. PICK new \in SUBSET Nodes :
        /\ new \cap ToSet(Chain) = {} /\ nodes' = (nodes \ Pooled) \cup new /\ Fresh(Pooled \cup new)
  BY <1>1, InitLinks
<1>3. Chain' = Chain /\ oNode' = oNode
  BY <1>1, InitLinks DEF Init_
<1>4. \A p \in ToSet(Chain) : p \in Nodes /\ p \in nodes \ Pooled /\ p \notin Pooled \cup new
  BY <1>1, <1>2 DEF Linked, TypeOK
<1>5. \A p \in ToSet(Chain) : msg'[p] = msg[p] /\ attachID'[p] = attachID[p]
  BY <1>2, <1>4 DEF Fresh
<1>6. \A a \in Allocated \ BlocksOf(Pooled) : mem'[a] = mem[a]
  <2>1. mem' = Without(BlocksOf(Pooled))
    BY DEF Init_, Pooled
  <2>2. QED
    BY <2>1, MemWithout
<1>7. /\ \A p \in ToSet(Chain) : msg[p].szData \in Allocated \ BlocksOf(Pooled)
      /\ \A r \in Readers : oNode[r].attachID # 0 => oNode[r].msg.szData \in Allocated \ BlocksOf(Pooled)
  <2>1. Pooled \in SUBSET nodes
    BY <1>1 DEF Linked
  <2>2. QED
    BY <1>1, <1>4, <2>1, Freed DEF Filled, OneOwner
<1>8. QED
  BY <1>1, <1>3, <1>5, <1>6, <1>7, SameMessages, SameReaders, QueueNow, QueueNext

LEMMA EnqueueQueue ==
  ASSUME QueueInv, QueueInv', NEW n \in Sizes, NEW src, Enqueue(n, src), ~broken'
  PROVE  /\ Queue' = Append(Queue, [id |-> nMsgs + 1, n |-> n, bytes |-> BytesAt(src)])
         /\ Got' = Got
<1>1. TypeOK /\ Linked /\ Filled /\ OneOwner /\ ~broken
  BY DEF QueueInv, Enqueue
<1>2. PICK p, new : p = Pop.p /\ new = Pop.new
  OBVIOUS
<1>3. Gets(p, new)
  BY <1>1, <1>2, EnqueueLinks
<1>4. PICK a \in Addrs : Fills(p, new, n, a) /\ mem'[a] = BytesAt(src)
  BY <1>1, <1>2, EnqueueBlocks
<1>5. attachID' = [attachID EXCEPT ![p] = nMsgs + 1] /\ oNode' = oNode
  BY <1>2 DEF Enqueue
<1>6. PICK m : m = [id |-> nMsgs + 1, n |-> n, bytes |-> BytesAt(src)]
  OBVIOUS
<1>7. p \in Nodes /\ p \notin ToSet(Chain) /\ ToSet(Chain) \subseteq nodes /\ nodes \subseteq Nodes
      /\ new \cap nodes = {} /\ Chain' = Append(Chain, p)
  BY <1>1, <1>3 DEF Gets, Linked, TypeOK
<1>8. \A q \in ToSet(Chain) : /\ attachID'[q] = attachID[q] /\ msg'[q] = msg[q]
                              /\ mem'[msg[q].szData] = mem[msg[q].szData]
  <2>1. \A q \in ToSet(Chain) : q # p /\ q \in nodes /\ q \in Nodes /\ q \notin new /\ Owns(msg[q])
    BY <1>1, <1>7 DEF Filled
  <2>2. QED
    BY <1>1, <1>4, <1>5, <2>1 DEF Fills, TypeOK
<1>9. [id |-> attachID'[p], n |-> msg'[p].m_nSize, bytes |-> mem'[msg'[p].szData]] = m
  <2>1. attachID'[p] = nMsgs + 1
    BY <1>1, <1>5, <1>7 DEF TypeOK
  <2>2. QED
    BY <1>4, <1>6, <2>1 DEF Fills
<1>10. Queue' = Append(Queue, m)
  <2>1. PICK k, c : k = m_nSize /\ c = Chain
    OBVIOUS
  <2>2. c \in Seq(Nodes) /\ Len(c) = k /\ k \in Nat /\ DOMAIN c = 1 .. k
    BY <1>1, <2>1, ChainType
  <2>3. PICK q : q = MessagesOf(c, attachID, msg, mem)
    OBVIOUS
  <2>4. q = [i \in 1 .. k |-> q[i]]
    BY <2>2, <2>3 DEF MessagesOf
  <2>5. MessagesOf(Append(c, p), attachID', msg', mem') = Append(q, m)
    <3>1. PICK t : t = MessagesOf(Append(c, p), attachID', msg', mem')
      OBVIOUS
    <3>2. DOMAIN Append(c, p) = 1 .. k + 1 /\ Append(c, p)[k + 1] = p /\ \A i \in 1 .. k : Append(c, p)[i] = c[i]
      BY <1>7, <2>2
    <3>3. t = [i \in 1 .. k + 1 |-> t[i]] /\ t[k + 1] = m
      BY <1>9, <2>2, <3>1, <3>2 DEF MessagesOf
    <3>4. \A i \in 1 .. k : t[i] = q[i]
      <4>1. \A i \in 1 .. k : i \in 1 .. k + 1 /\ c[i] \in ToSet(Chain)
        BY <2>1, <2>2 DEF ToSet
      <4>2. QED
        BY <1>8, <2>2, <2>3, <3>1, <3>2, <4>1 DEF MessagesOf
    <3>5. t = Append(q, m)
      <4>1. PICK S : q \in Seq(S) /\ Len(q) = k
        BY <2>2, <2>4, ListIs
      <4>2. PICK T : t \in Seq(T) /\ Len(t) = k + 1
        <5>1. k + 1 \in Nat
          BY <2>2
        <5>2. QED
          BY <3>3, <5>1, ListIs
      <4>3. Len(t) = Len(q) + 1 /\ t[Len(q) + 1] = m /\ \A i \in 1 .. Len(q) : t[i] = q[i]
        BY <3>3, <3>4, <4>1, <4>2
      <4>4. q \in Seq(S) /\ t \in Seq(T)
        BY <4>1, <4>2
      <4>5. QED
        BY <4>3, <4>4, AppendIs
    <3>6. QED
      BY <3>1, <3>5
  <2>6. QED
    BY <1>1, <1>7, <2>1, <2>3, <2>5, QueueNow, QueueNext
<1>11. Got' = Got
  <2>1. \A r \in Readers : oNode[r].attachID # 0 => mem'[oNode[r].msg.szData] = mem[oNode[r].msg.szData]
    BY <1>1, <1>4 DEF Filled, Fills
  <2>2. QED
    BY <1>1, <1>5, <2>1, SameReaders, QueueNow, QueueNext
<1>12. QED
  BY <1>6, <1>10, <1>11

LEMMA DequeueQueue ==
  ASSUME QueueInv, QueueInv', NEW r \in Readers, Dequeue(r)
  PROVE  Queue # <<>> /\ Queue' = Tail(Queue) /\ Got' = [Got EXCEPT ![r] = Head(Queue)]
<1>1. TypeOK /\ Linked /\ Filled /\ OneOwner /\ ~broken /\ ~broken'
  BY DEF QueueInv, Dequeue
<1>2. PICK h, B, c, k : h = m_pHead /\ B = msg[m_pHead].szData /\ c = Chain /\ k = m_nSize
  OBVIOUS
<1>3. /\ c \in Seq(Nodes) /\ Len(c) = k /\ k \in Nat /\ k > 0 /\ DOMAIN c = 1 .. k
      /\ c # <<>> /\ h = c[1] /\ Chain' = Tail(c) /\ ToSet(Chain') = ToSet(c) \ {h}
  <2>1. /\ c \in Seq(Nodes) /\ Len(c) = k /\ k \in Nat /\ k > 0
        /\ c # <<>> /\ h = Head(c) /\ Chain' = Tail(c) /\ ToSet(Chain') = ToSet(c) \ {h}
    BY <1>1, <1>2, ChainType, DequeueLinks
  <2>2. QED
    BY <2>1
<1>4. /\ h \in nodes /\ h \in Nodes
      /\ msg' = [msg EXCEPT ![h].m_bOwner = FALSE] /\ attachID' = attachID
      /\ Allocated' = Allocated \ {oNode[r].msg.szData} /\ B \in Allocated'
      /\ \A a \in Allocated' : mem'[a] = mem[a]
  BY <1>1, <1>2, DequeueBlocks DEF Dequeue, TypeOK
<1>5. /\ oNode'[r].msg.szData = B /\ oNode'[r].msg.m_nSize = msg[h].m_nSize
      /\ oNode'[r].attachID = attachID[h] /\ \A t \in Readers : t # r => oNode'[t] = oNode[t]
  <2>1. PICK b : b = [szData |-> B, m_nSize |-> msg[h].m_nSize, m_nCapacity |-> msg[h].m_nSize,
                      m_bOwner |-> TRUE]
    OBVIOUS
  <2>2. oNode' = [oNode EXCEPT ![r] = [attachID |-> attachID[h], msg |-> b]]
    BY <1>1, <1>2, <2>1, DequeueBlocks
  <2>3. oNode'[r] = [attachID |-> attachID[h], msg |-> b] /\ \A t \in Readers : t # r => oNode'[t] = oNode[t]
    BY <1>1, <2>2 DEF TypeOK
  <2>4. QED
    BY <2>1, <2>3
<1>6. PICK q : q = MessagesOf(c, attachID, msg, mem)
  OBVIOUS
<1>7. q = [i \in 1 .. k |-> q[i]]
  BY <1>3, <1>6 DEF MessagesOf
<1>8. q # <<>> /\ Head(q) = q[1]
  <2>1. PICK S : q \in Seq(S) /\ Len(q) = k
    BY <1>3, <1>7, ListIs
  <2>2. QED
    BY <1>3, <2>1
<1>9. q[1] = [id |-> attachID[h], n |-> msg[h].m_nSize, bytes |-> mem[B]] /\ attachID[h] # 0
  <2>1. 1 \in 1 .. k
    BY <1>3
  <2>2. h \in ToSet(Chain)
    BY <1>2, <1>3, <2>1 DEF ToSet
  <2>3. QED
    BY <1>1, <1>2, <1>3, <1>6, <2>1, <2>2 DEF MessagesOf, Filled
<1>10. \A p \in ToSet(Chain') : msg'[p] = msg[p] /\ mem'[msg[p].szData] = mem[msg[p].szData]
  <2>1. \A p \in ToSet(Chain') : p # h /\ p \in nodes /\ p \in Nodes /\ Owns(msg[p])
    BY <1>1, <1>2, <1>3 DEF Linked, Filled, TypeOK
  <2>2. \A p \in ToSet(Chain') : msg[p].szData \in Allocated'
    BY <1>1, <1>4, <2>1 DEF OneOwner
  <2>3. QED
    BY <1>1, <1>4, <2>1, <2>2 DEF TypeOK
<1>11. MessagesOf(Chain', attachID', msg', mem') = Tail(q)
  <2>1. PICK d : d = Chain'
    OBVIOUS
  <2>2. DOMAIN d = 1 .. k - 1 /\ \A i \in 1 .. k - 1 : d[i] = c[i + 1] /\ i + 1 \in 1 .. k
    BY <1>3, <2>1
  <2>3. PICK t : t = MessagesOf(d, attachID', msg', mem')
    OBVIOUS
  <2>4. t = [i \in 1 .. k - 1 |-> t[i]]
    BY <2>2, <2>3 DEF MessagesOf
  <2>5. ASSUME NEW i \in 1 .. k - 1 PROVE t[i] = q[i + 1]
    <3>1. d[i] \in ToSet(d) /\ d[i] = c[i + 1] /\ i + 1 \in 1 .. k
      BY <2>2 DEF ToSet
    <3>2. msg'[d[i]] = msg[d[i]] /\ mem'[msg[d[i]].szData] = mem[msg[d[i]].szData]
      BY <1>10, <2>1, <3>1
    <3>3. t[i] = [id |-> attachID[d[i]], n |-> msg[d[i]].m_nSize, bytes |-> mem[msg[d[i]].szData]]
      BY <1>4, <2>2, <2>3, <3>2 DEF MessagesOf
    <3>4. QED
      BY <1>3, <1>6, <3>1, <3>3 DEF MessagesOf
  <2>6. t = Tail(q)
    <3>1. PICK S : q \in Seq(S) /\ Len(q) = k
      BY <1>3, <1>7, ListIs
    <3>2. PICK T : t \in Seq(T) /\ Len(t) = k - 1
      <4>1. k - 1 \in Nat
        BY <1>3
      <4>2. QED
        BY <2>4, <4>1, ListIs
    <3>3. QED
      BY <1>8, <2>5, <3>1, <3>2, TailIs
  <2>7. QED
    BY <2>1, <2>3, <2>6
<1>12. ReadersOf(oNode', mem') = [ReadersOf(oNode, mem) EXCEPT ![r] = q[1]]
  <2>1. \A t \in Readers : t # r /\ oNode[t].attachID # 0 => oNode[t].msg.szData \in Allocated'
    BY <1>1, <1>4 DEF OneOwner, Filled
  <2>2. PICK f, g : f = ReadersOf(oNode', mem') /\ g = ReadersOf(oNode, mem)
    OBVIOUS
  <2>3. f = [t \in Readers |-> f[t]] /\ g = [t \in Readers |-> g[t]]
    BY <2>2 DEF ReadersOf
  <2>4. f[r] = q[1]
    <3>1. mem'[B] = mem[B]
      BY <1>4
    <3>2. QED
      BY <1>5, <1>9, <2>2, <3>1 DEF ReadersOf
  <2>5. \A t \in Readers : t # r => f[t] = g[t]
    BY <1>4, <1>5, <2>1, <2>2 DEF ReadersOf
  <2>6. QED
    BY <2>2, <2>3, <2>4, <2>5
<1>13. QED
  BY <1>1, <1>2, <1>3, <1>6, <1>8, <1>11, <1>12, QueueNow, QueueNext

LEMMA ReaderEndsQueue ==
  ASSUME QueueInv, QueueInv', NEW r \in Readers, ReaderEnds(r)
  PROVE  Queue' = Queue /\ Got' = [Got EXCEPT ![r] = <<>>]
<1>1. TypeOK /\ Linked /\ Filled /\ OneOwner /\ ~broken /\ ~broken'
  BY DEF QueueInv, ReaderEnds
<1>2. UNCHANGED <<m_pHead, m_nSize, next, attachID, msg>>
  BY DEF ReaderEnds, queueVars, nodeVars
<1>3. Chain' = Chain
  BY <1>2 DEF Chain
<1>4. PICK b : b = oNode[r].msg.szData /\ b # Null
  BY DEF ReaderEnds
<1>5. \A a \in Allocated : a # b => mem'[a] = mem[a]
  <2>1. mem' = Without({b})
    BY <1>4 DEF ReaderEnds
  <2>2. QED
    BY <2>1, MemWithout
<1>6. oNode'[r].attachID = 0 /\ \A t \in Readers : t # r => oNode'[t] = oNode[t]
  BY <1>1 DEF ReaderEnds, TypeOK
<1>7. \A p \in ToSet(Chain) : msg[p].szData \in Allocated /\ msg[p].szData # b
  BY <1>1, <1>4 DEF Linked, Filled, OneOwner
<1>8. \A t \in Readers : t # r /\ oNode[t].attachID # 0 =>
        oNode[t].msg.szData \in Allocated /\ oNode[t].msg.szData # b
  BY <1>1, <1>4 DEF Filled, OneOwner
<1>9. MessagesOf(Chain, attachID, msg, mem') = MessagesOf(Chain, attachID, msg, mem)
  BY <1>5, <1>7, SameMessages
<1>10. ReadersOf(oNode', mem') = [ReadersOf(oNode, mem) EXCEPT ![r] = <<>>]
  BY <1>5, <1>6, <1>8 DEF ReadersOf
<1>11. QED
  BY <1>1, <1>2, <1>3, <1>9, <1>10, QueueNow, QueueNext

LEMMA ClearQueue ==
  ASSUME QueueInv, QueueInv', Clear, ~broken'
  PROVE  Queue' = <<>> /\ Got' = Got
<1>1. TypeOK /\ Linked /\ Filled /\ OneOwner /\ ~broken
  BY DEF QueueInv, Clear
<1>2. PICK D : D = Deleted(Chain)
  OBVIOUS
<1>3. Chain' = <<>> /\ D \in SUBSET nodes /\ oNode' = oNode
  BY <1>1, <1>2, ClearLinks DEF Linked, Clear
<1>4. \A a \in Allocated \ BlocksOf(D) : mem'[a] = mem[a]
  <2>1. mem' = Without(BlocksOf(D))
    BY <1>2 DEF Clear
  <2>2. QED
    BY <2>1, MemWithout
<1>5. \A r \in Readers : oNode[r].attachID # 0 => oNode[r].msg.szData \in Allocated \ BlocksOf(D)
  BY <1>1, <1>3, Freed DEF Filled, OneOwner
<1>6. MessagesOf(<<>>, attachID', msg', mem') = <<>>
  BY DEF MessagesOf
<1>7. QED
  BY <1>1, <1>3, <1>4, <1>5, <1>6, SameReaders, QueueNow, QueueNext

----------------------------------------------------------------------------
(* The operations are operations of BoundedQueue.                          *)

LEMMA AbstractInit == Init => Abstract!Init
<1> SUFFICES ASSUME Init PROVE Abstract!Init
  OBVIOUS
<1>1. Queue = <<>>
  BY DEF Queue, Init
<1>2. Got \in [Readers -> {<<>>}]
  BY DEF Got, Message, Init
<1>3. QED
  BY <1>1, <1>2 DEF Abstract!Init, Queue, Got, Init

LEMMA AbstractEnqueue ==
  ASSUME QueueInv, QueueInv', NEW n \in Sizes, NEW src \in Sources, Enqueue(n, src)
  PROVE  Abstract!Next
<1>1. TypeOK /\ Linked /\ Filled /\ OneOwner /\ Unused /\ ~broken
  BY DEF QueueInv, Enqueue
<1>2. Abstract!HasRoom
  <2>1. Queue \in Seq(ToSet(Queue)) /\ Len(Queue) = m_nSize
    <3>1. m_nSize \in Nat /\ Queue = [i \in 1 .. m_nSize |-> Queue[i]]
      BY <1>1 DEF TypeOK, Queue
    <3>2. QED
      BY <3>1 DEF ToSet
  <2>2. m_nMaxSize = 0 \/ m_nSize < m_nMaxSize
    BY <1>1, BoundsAssumption DEF TypeOK, Enqueue, IsFull
  <2>3. QED
    BY <2>1, <2>2 DEF Abstract!HasRoom, Queue
<1>3. CASE ~broken'
  <2>1. PICK m : m = [id |-> nMsgs + 1, n |-> n, bytes |-> BytesAt(src)]
    OBVIOUS
  <2>2. Queue' = Append(Queue, m) /\ Got' = Got
    BY <1>3, <2>1, EnqueueQueue
  <2>3. m \in {x \in [id : 1 .. MaxMsgs, n : Sizes \ {0}, bytes : 1 .. MaxMsgs] : x.bytes <= x.id}
    <3>1. nMsgs \in Nat /\ nMsgs + 1 \in 1 .. MaxMsgs
      BY <1>1, BoundsAssumption DEF TypeOK, Enqueue
    <3>2. BytesAt(src) \in 1 .. MaxMsgs /\ BytesAt(src) <= nMsgs + 1
      BY <1>1, <3>1 DEF TypeOK, Filled, BytesAt
    <3>3. n # 0
      BY <1>1, <1>3, EnqueueBlocks
    <3>4. QED
      BY <2>1, <3>1, <3>2, <3>3
  <2>4. UNCHANGED <<m_nMaxSize, used, broken>>
    BY <1>1, <1>3 DEF Enqueue, TypeOK
  <2>5. QED
    BY <1>1, <1>2, <2>2, <2>3, <2>4 DEF Abstract!Next, Abstract!Enqueue, Queue, Got
<1>4. CASE broken'
  <2>1. n = 0 \/ used
    <3>1. PICK p, new : p = Pop.p /\ new = Pop.new
      OBVIOUS
    <3>2. n = 0 \/ (src # Null /\ src = (IF p \in new THEN EmptyBuffer ELSE msg[p]).szData)
      BY <1>1, <1>4, <3>1 DEF Enqueue, TypeOK
    <3>3. p \in Pooled \cup new
      BY <1>1, <3>1, EnqueueLinks DEF Gets
    <3>4. used \in BOOLEAN
      BY <1>1 DEF TypeOK
    <3>5. QED
      BY <1>1, <3>2, <3>3, <3>4 DEF Unused, EmptyBuffer
  <2>2. broken' = TRUE
    BY <1>4 DEF QueueInv, TypeOK
  <2>3. \E heap \in BOOLEAN : Abstract!Break(n, heap)
    BY <1>2, <2>1, <2>2 DEF Abstract!Break
  <2>4. QED
    BY <1>1, <2>3 DEF Abstract!Next
<1>5. QED
  BY <1>3, <1>4

LEMMA AbstractClear ==
  ASSUME QueueInv, QueueInv', Clear
  PROVE  Abstract!Next
<1>1. TypeOK /\ Linked /\ Unused /\ ~broken
  BY DEF QueueInv, Clear
<1>2. used' = TRUE
  BY DEF Clear
<1>3. CASE ~broken'
  <2>1. Queue' = <<>> /\ Got' = Got /\ UNCHANGED <<m_nMaxSize, broken>>
    BY <1>3, ClearQueue DEF Clear
  <2>2. QED
    BY <1>1, <1>2, <2>1 DEF Abstract!Next, Abstract!Clear, Queue, Got
<1>4. CASE broken'
  <2>1. next[m_pTail] # 0 /\ broken' = TRUE
    BY <1>1, <1>4 DEF Clear
  <2>2. m_nSize > 0
    BY <1>1 DEF Linked, TypeOK, Clear
  <2>3. used
    BY <1>1, <2>1, <2>2 DEF Unused
  <2>4. Queue # <<>>
    <3>1. 1 \in DOMAIN Queue
      BY <1>1, <2>2 DEF Queue, TypeOK
    <3>2. QED
      BY <3>1
  <2>5. QED
    BY <1>1, <2>1, <2>3, <2>4 DEF Abstract!Next, Abstract!BreakClear, Queue
<1>5. QED
  BY <1>3, <1>4

LEMMA AbstractStep == QueueInv /\ QueueInv' /\ [Next]_vars => [Abstract!Next]_(Abstract!vars)
<1> SUFFICES ASSUME QueueInv, QueueInv', [Next]_vars PROVE [Abstract!Next]_(Abstract!vars)
  OBVIOUS
<1>1. ASSUME NEW n \in Limits, Init_(n) PROVE Abstract!Next
  <2>1. Queue' = Queue /\ Got' = Got /\ m_nMaxSize' = n /\ UNCHANGED <<used, broken>> /\ ~broken
    BY <1>1, InitQueue DEF Init_
  <2>2. QED
    BY <2>1 DEF Abstract!Next, Abstract!SetLimit, Queue, Got
<1>2. ASSUME NEW r \in Readers, Dequeue(r) PROVE Abstract!Next
  <2>1. /\ Queue # <<>> /\ Queue' = Tail(Queue) /\ Got' = [Got EXCEPT ![r] = Head(Queue)]
        /\ used' = TRUE /\ UNCHANGED <<m_nMaxSize, broken>> /\ ~broken
    BY <1>2, DequeueQueue DEF Dequeue
  <2>2. QED
    BY <2>1 DEF Abstract!Next, Abstract!Dequeue, Queue, Got
<1>3. ASSUME NEW r \in Readers, ReaderEnds(r) PROVE Abstract!Next
  <2>1. /\ Queue' = Queue /\ Got' = [Got EXCEPT ![r] = <<>>]
        /\ UNCHANGED <<m_nMaxSize, used, broken>> /\ ~broken
    BY <1>3, ReaderEndsQueue DEF ReaderEnds, queueVars
  <2>2. QED
    BY <2>1 DEF Abstract!Next, Abstract!Forget, Queue, Got
<1>4. CASE UNCHANGED vars
  <2>1. Queue' = Queue /\ Got' = Got
    BY <1>4 DEF Queue, Got, MessageIn, Message, Chain, Allocated, vars, queueVars, nodeVars
  <2>2. QED
    BY <1>4, <2>1 DEF Abstract!vars, Queue, Got, vars, queueVars
<1>5. QED
  BY <1>1, <1>2, <1>3, <1>4, AbstractEnqueue, AbstractClear DEF Next

(* CSLMessageQueue is a bounded queue, until one of the three uses that    *)
(* BoundedQueue names ends that: Dequeue gives the messages that Enqueue   *)
(* accepted in their order, whole and to one reader each, whatever nodes   *)
(* and blocks they passed through, and Init and Clear do what they say     *)
(* (SLMessageQueue.h:53-153).                                              *)
THEOREM ImplementsQueueCorrect == Spec => ImplementsQueue
<1>1. Init => Abstract!Init
  BY AbstractInit
<1>2. QueueInv /\ QueueInv' /\ [Next]_vars => [Abstract!Next]_(Abstract!vars)
  BY AbstractStep
<1>3. QED
  BY <1>1, <1>2, QueueAlways, PTL DEF Spec, ImplementsQueue, Abstract!Spec
=============================================================================
