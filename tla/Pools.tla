-------------------------------- MODULE Pools --------------------------------
(***************************************************************************)
(* The pools of the library: CSmallObjectPool, CSmallObjectPoolEx and      *)
(* CFixedObjectPool, which hand out objects of one type, and               *)
(* CSLBlockAlloc, CSLNormalMemoryPool and CSLScopeMemoryPool, which hand   *)
(* out memory.  Every behaviour is one of a pool of one kind.  Each        *)
(* operation runs under the pool's mutex, or under that of a               *)
(* CSLAllocator_Adapter, and is one step; init runs under it twice.        *)
(*                                                                         *)
(* Memory is counted in cells: an allocation ("chunk") of the heap is a    *)
(* number of cells, and an object is a range of cells of a chunk.          *)
(***************************************************************************)
EXTENDS Integers, FiniteSets, SequencesExt

CONSTANTS
  Kinds,       \* the kinds of pool
  Users,       \* who holds an object at a time
  None,
  MaxChunks,   \* bound: allocations the heap has room for
  Limits,      \* the values of nMaxCount, of nMaxSize and of nFreeLimit
  InitCounts,  \* the values of nInitCount
  GrowCounts,  \* the values of nGrowCount
  Sizes,       \* the sizes that are asked of the memory pools
  BlockSize    \* m_nBlockSize, BLOCK_NODE_COUNT and BlockSize, in cells

Chunks     == 1 .. MaxChunks
ObjectKind == {"small", "smallex", "fixed"}
MemoryKind == {"block", "normal", "scope"}
AnyObject  == [chunk : Chunks, first : Nat \ {0}, size : Nat \ {0}]

ASSUME PoolBounds ==
  /\ Kinds \subseteq ObjectKind \cup MemoryKind /\ MaxChunks \in Nat
  /\ BlockSize \in Nat \ {0}
  /\ Limits \subseteq Nat /\ InitCounts \subseteq Nat
  /\ GrowCounts \subseteq Nat \ {0} /\ Sizes \subseteq Nat \ {0}
  /\ None \notin [obj : AnyObject, asked : {1} \cup Sizes]

VARIABLES
  kind,
  heap,       \* of each chunk that is allocated: its cells
  free,       \* the free objects, the next one to be handed out first
  userList,   \* CFixedObjectPool: the objects in use, the last one first
  scope,      \* CSLScopeMemoryPool: the chunk in use, and its cells that are left
  param,      \* nMaxCount and nGrowCount, or nFreeLimit
  initing,    \* init has cleared the pool and not yet filled it
  holds,      \* of each user: the object it holds, and the size it asked for
  undefined   \* history: why nothing is known of the pool any more

poolVars == <<kind, heap, free, userList, scope, param, initing, holds, undefined>>

Object(c, i, n) == [chunk |-> c, first |-> i, size |-> n]
CellsOf(o)      == {<<o.chunk, i>> : i \in o.first .. o.first + o.size - 1}
NoScope         == [chunk |-> 0, left |-> 0]
Holders         == {u \in Users : holds[u] # None}
Defined         == undefined = {}

(* The chunks the next k allocations get.                                  *)
NewChunk(k) == CHOOSE c \in Chunks \ DOMAIN heap :
                 Cardinality({d \in Chunks \ DOMAIN heap : d < c}) = k - 1
RoomFor(k)  == Cardinality(DOMAIN heap) + k <= MaxChunks
NewChunks(k) == {NewChunk(i) : i \in 1 .. k}

Allocates(chunks, n) ==
  heap' = [c \in DOMAIN heap \cup chunks |-> IF c \in chunks THEN n ELSE heap[c]]
Frees(c)      == heap' = Restrict(heap, DOMAIN heap \ {c})
Gets(u, o, n) == holds' = [holds EXCEPT ![u] = [obj |-> o, asked |-> n]]
Loses(u)      == holds' = [holds EXCEPT ![u] = None]

----------------------------------------------------------------------------
(* Alloc(nCount): so many objects of their own, or an array of them.       *)

AllocSmall(k) == [i \in 1 .. k |-> Object(NewChunk(i), 1, 1)]
AllocArray(k) == [i \in 1 .. k |-> Object(NewChunk(1), i, 1)]

PopSmall(u) ==
  /\ kind = "small"
  /\ \/ /\ free # <<>>
        /\ Gets(u, Head(free), 1)
        /\ free' = Tail(free) /\ UNCHANGED heap
     \/ /\ free = <<>> /\ RoomFor(1 + param.grow)
        /\ LET new == AllocSmall(1 + param.grow)
           IN /\ Gets(u, new[1], 1)
              /\ free' = Tail(new)
        /\ Allocates(NewChunks(1 + param.grow), 1)
  /\ UNCHANGED <<userList, scope, undefined>>

(* Variant: an object too many is dropped, and not deleted.                *)
PushSmallForgets(u) ==
  /\ kind = "small"
  /\ free' = IF Len(free) < param.max THEN Append(free, holds[u].obj) ELSE free
  /\ UNCHANGED <<heap, userList, scope, undefined>>

PushSmall(u) ==
  /\ kind = "small"
  /\ LET o == holds[u].obj
     IN IF Len(free) < param.max
          THEN free' = Append(free, o) /\ UNCHANGED heap
          ELSE Frees(o.chunk) /\ UNCHANGED free
  /\ UNCHANGED <<userList, scope, undefined>>

PopSmallEx(u) ==
  /\ kind = "smallex"
  /\ \/ /\ free # <<>>
        /\ Gets(u, Head(free), 1)
        /\ free' = Tail(free) /\ UNCHANGED heap
     \/ /\ free = <<>> /\ RoomFor(1)
        /\ LET new == AllocArray(param.grow)
           IN Gets(u, new[1], 1) /\ free' = Tail(new)
        /\ Allocates({NewChunk(1)}, param.grow)
  /\ UNCHANGED <<userList, scope, undefined>>

PushSmallEx(u) ==
  /\ kind = "smallex"
  /\ free' = Append(free, holds[u].obj)
  /\ UNCHANGED <<heap, userList, scope, undefined>>

PopFixed(u) ==
  /\ kind = "fixed" /\ free # <<>>
  /\ Gets(u, Head(free), 1)
  /\ free' = Tail(free)
  /\ userList' = <<Head(free)>> \o userList
  /\ UNCHANGED <<heap, scope, undefined>>

(* The last node of the list has no next one: the code writes to the       *)
(* next's pPrev all the same, unless the node is the only one.             *)
PushFixed(u) ==
  /\ kind = "fixed"
  /\ LET o == holds[u].obj
     IN IF o = Last(userList) /\ Len(userList) > 1
          THEN undefined' = {"the oldest object released first"} /\ UNCHANGED <<free, userList>>
          ELSE /\ \E i \in DOMAIN userList : userList[i] = o /\ userList' = RemoveAt(userList, i)
               /\ free' = <<o>> \o free
               /\ UNCHANGED undefined
  /\ UNCHANGED <<heap, scope>>

----------------------------------------------------------------------------
(* The memory pools.                                                       *)

(* Only what fits a block may come from the free list, where larger ones   *)
(* may be, too.                                                            *)
AllocateBlock(u, n) ==
  /\ kind = "block"
  /\ IF n <= BlockSize /\ free # <<>>
       THEN Gets(u, Head(free), n) /\ free' = Tail(free) /\ UNCHANGED heap
       ELSE LET size == IF n > BlockSize THEN n ELSE BlockSize
            IN /\ RoomFor(1)
               /\ Gets(u, Object(NewChunk(1), 1, size), n)
               /\ Allocates({NewChunk(1)}, size)
               /\ UNCHANGED free
  /\ UNCHANGED <<userList, scope, undefined>>

(* Variant: the limit is taken one too high.                               *)
DeallocateBlockOneMore(u) ==
  /\ kind = "block"
  /\ LET o == holds[u].obj
     IN IF Len(free) > param.max
          THEN Frees(o.chunk) /\ UNCHANGED free
          ELSE free' = <<o>> \o free /\ UNCHANGED heap
  /\ UNCHANGED <<userList, scope, undefined>>

DeallocateBlock(u) ==
  /\ kind = "block"
  /\ LET o == holds[u].obj
     IN IF Len(free) >= param.max
          THEN Frees(o.chunk) /\ UNCHANGED free
          ELSE free' = <<o>> \o free /\ UNCHANGED heap
  /\ UNCHANGED <<userList, scope, undefined>>

(* A node is one cell.  The free nodes may lie in a chunk that was freed.  *)
AllocateNormal(u, n) ==
  /\ kind = "normal" /\ n <= 1
  /\ IF free # <<>>
       THEN /\ Gets(u, Head(free), n)
            /\ free' = Tail(free)
            /\ undefined' = IF Head(free).chunk \in DOMAIN heap THEN {}
                            ELSE {"a node of before the clear"}
            /\ UNCHANGED heap
       ELSE /\ RoomFor(1)
            /\ Gets(u, Object(NewChunk(1), 1, 1), n)
            /\ free' = Tail(AllocArray(BlockSize))
            /\ Allocates({NewChunk(1)}, BlockSize)
            /\ UNCHANGED undefined
  /\ UNCHANGED <<userList, scope>>

DeallocateNormal(u) ==
  /\ kind = "normal"
  /\ free' = <<holds[u].obj>> \o free
  /\ UNCHANGED <<heap, userList, scope, undefined>>

(* What is left of the chunk in use is enough.                             *)
AllocateScopeLeft(u, n) ==
  /\ kind = "scope" /\ scope.left >= n
  /\ scope' = [scope EXCEPT !.left = @ - n]
  /\ Gets(u, Object(scope.chunk, scope.left - n + 1, n), n)
  /\ UNCHANGED <<heap, free, userList, undefined>>

(* Variant: a chunk of its own becomes the chunk in use as if it were new. *)
AllocateScopeLargeInUse(u, n) ==
  /\ kind = "scope" /\ scope.left < n /\ n >= BlockSize /\ RoomFor(1)
  /\ Allocates({NewChunk(1)}, n)
  /\ scope' = [chunk |-> NewChunk(1), left |-> BlockSize]
  /\ Gets(u, Object(NewChunk(1), 1, n), n)
  /\ UNCHANGED <<free, userList, undefined>>

(* A large object has a chunk of its own, behind the chunk in use, or is   *)
(* the chunk in use, with nothing left.                                    *)
AllocateScopeLarge(u, n) ==
  /\ kind = "scope" /\ scope.left < n /\ n >= BlockSize /\ RoomFor(1)
  /\ Allocates({NewChunk(1)}, n)
  /\ scope' = IF scope = NoScope THEN [chunk |-> NewChunk(1), left |-> 0] ELSE scope
  /\ Gets(u, Object(NewChunk(1), 1, n), n)
  /\ UNCHANGED <<free, userList, undefined>>

AllocateScopeNext(u, n) ==
  /\ kind = "scope" /\ scope.left < n /\ n < BlockSize /\ RoomFor(1)
  /\ Allocates({NewChunk(1)}, BlockSize)
  /\ scope' = [chunk |-> NewChunk(1), left |-> BlockSize - n]
  /\ Gets(u, Object(NewChunk(1), BlockSize - n + 1, n), n)
  /\ UNCHANGED <<free, userList, undefined>>

DeallocateScope(u) == kind = "scope" /\ UNCHANGED <<heap, free, userList, scope, undefined>>

----------------------------------------------------------------------------
(* clear.  CSmallObjectPool and CSLBlockAlloc free what is in their list;  *)
(* the others free every chunk, those of objects in use included.          *)

FreesFree == heap' = Restrict(heap, {holds[u].obj.chunk : u \in Holders}) /\ undefined' = {}
FreesAll  == heap' = <<>> /\ undefined' = IF Holders = {} THEN {} ELSE {"cleared while in use"}

ClearSmall == /\ kind = "small" /\ FreesFree
              /\ free' = <<>> /\ UNCHANGED <<userList, scope>>

ClearSmallEx == /\ kind = "smallex" /\ FreesAll
                /\ free' = <<>> /\ UNCHANGED <<userList, scope>>

ClearFixed == /\ kind = "fixed" /\ FreesAll
              /\ free' = <<>> /\ userList' = <<>> /\ UNCHANGED scope

ClearBlock == /\ kind = "block" /\ FreesFree
              /\ free' = <<>> /\ UNCHANGED <<userList, scope>>

(* The list of free nodes stays.                                           *)
ClearNormal == /\ kind = "normal" /\ FreesAll
               /\ UNCHANGED <<free, userList, scope>>

ClearScope == /\ kind = "scope" /\ FreesAll
              /\ scope' = NoScope /\ UNCHANGED <<free, userList>>

clear == ClearSmall \/ ClearSmallEx \/ ClearFixed \/ ClearBlock \/ ClearNormal \/ ClearScope

Clear == Defined /\ clear /\ UNCHANGED <<kind, param, initing, holds>>

(* init of the object pools clears the pool, and fills it in a second      *)
(* critical section.                                                       *)
InitClear ==
  /\ Defined /\ kind \in ObjectKind /\ ~initing
  /\ clear
  /\ initing' = TRUE
  /\ UNCHANGED <<kind, param, holds>>

(* What other threads have put into a small pool meanwhile stays; a fixed  *)
(* pool forgets it.                                                        *)
InitSmall(k) ==
  /\ kind = "small" /\ RoomFor(k)
  /\ free' = free \o AllocSmall(k)
  /\ Allocates(NewChunks(k), 1)

InitSmallEx(k) ==
  /\ kind = "smallex" /\ RoomFor(1)
  /\ free' = free \o AllocArray(k)
  /\ Allocates({NewChunk(1)}, k)

InitFixed(max) ==
  /\ kind = "fixed" /\ RoomFor(1)
  /\ LET size == IF max < 3 THEN 3 ELSE max
     IN free' = AllocArray(size) /\ Allocates({NewChunk(1)}, size)

InitAlloc ==
  /\ Defined /\ initing
  /\ initing' = FALSE
  /\ \E max \in Limits, k \in InitCounts, grow \in GrowCounts :
       /\ param' = [max |-> max, grow |-> grow]
       /\ InitSmall(k) \/ InitSmallEx(k) \/ InitFixed(max)
  /\ UNCHANGED <<kind, userList, scope, holds, undefined>>

----------------------------------------------------------------------------

(* The constructors leave every list empty; nothing is allocated before the *)
(* first object is asked for, or init is called.                           *)
NoFreeList == heap = <<>> /\ free = <<>>
NoUserList == userList = <<>>

PoolInit ==
  /\ kind \in Kinds
  /\ NoFreeList /\ NoUserList /\ scope = NoScope
  /\ param \in [max : Limits, grow : {1}]
  /\ initing = FALSE /\ undefined = {}
  /\ holds = [u \in Users |-> None]

HandOut(u) ==
  /\ Defined /\ holds[u] = None
  /\ \/ PopSmall(u) \/ PopSmallEx(u) \/ PopFixed(u)
     \/ \E n \in Sizes : \/ AllocateBlock(u, n) \/ AllocateNormal(u, n)
                         \/ AllocateScopeLeft(u, n) \/ AllocateScopeLarge(u, n)
                         \/ AllocateScopeNext(u, n)
  /\ UNCHANGED <<kind, param, initing>>

TakeBack(u) ==
  /\ Defined /\ holds[u] # None
  /\ \/ PushSmall(u) \/ PushSmallEx(u) \/ PushFixed(u)
     \/ DeallocateBlock(u) \/ DeallocateNormal(u) \/ DeallocateScope(u)
  /\ Loses(u)
  /\ UNCHANGED <<kind, param, initing>>

PoolNext ==
  \/ Clear \/ InitClear \/ InitAlloc
  \/ \E u \in Users : HandOut(u) \/ TakeBack(u)

PoolSpec == PoolInit /\ [][PoolNext]_poolVars

----------------------------------------------------------------------------

(* Types, and that a block pool keeps no more free blocks than its limit.  *)
PoolTypeOK ==
  /\ kind \in Kinds
  /\ DOMAIN heap \subseteq Chunks /\ \A c \in DOMAIN heap : heap[c] \in Nat
  /\ free \in Seq(AnyObject) /\ userList \in Seq(AnyObject)
  /\ scope \in [chunk : {0} \cup Chunks, left : 0 .. BlockSize]
  /\ param \in [max : Limits, grow : GrowCounts \cup {1}]
  /\ initing \in BOOLEAN
  /\ holds \in [Users -> [obj : AnyObject, asked : {1} \cup Sizes] \cup {None}]
  /\ kind = "block" => Len(free) <= param.max

(* As long as the behaviour is defined, what a user holds is allocated, is *)
(* as large as it asked for, shares no cell with what another one holds,   *)
(* and is not free.                                                        *)
ObjectHasOneUser ==
  Defined => \A u \in Holders :
    LET o == holds[u].obj
    IN /\ o.chunk \in DOMAIN heap
       /\ o.first + o.size - 1 <= heap[o.chunk] /\ o.size >= holds[u].asked
       /\ \A v \in Holders \ {u} : CellsOf(o) \cap CellsOf(holds[v].obj) = {}
       /\ \A i \in DOMAIN free : CellsOf(o) \cap CellsOf(free[i]) = {}

(* As long as the behaviour is defined, nothing of the object pools and of *)
(* the block pool is lost: what is allocated is free or held, and the      *)
(* fixed pool's list of what is in use is what is held.                    *)
NothingLeaks ==
  Defined /\ kind \notin {"scope", "normal"} =>
    /\ UNION {CellsOf(Object(c, 1, heap[c])) : c \in DOMAIN heap}
         = (UNION {CellsOf(free[i]) : i \in DOMAIN free})
           \cup (UNION {CellsOf(holds[u].obj) : u \in Holders})
    /\ kind = "fixed" => ToSet(userList) = {holds[u].obj : u \in Holders}
=============================================================================
