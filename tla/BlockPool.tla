----------------------------- MODULE BlockPool -----------------------------
(***************************************************************************)
(* The allocation half of PagedCacheManager (vmlx_engine/paged_cache.py):  *)
(* reference counts, the LRU queue of free blocks, the allocated_blocks    *)
(* map and the two counters health reporting reads.  Block contents are    *)
(* left to PagedCache.                                                     *)
(*                                                                         *)
(* Every method runs under the manager's RLock, so one pass of a method    *)
(* over one block is one step.  The client is the most general one: it may *)
(* free, release, touch or pin any block at any time, paired or not.       *)
(*                                                                         *)
(* The null block (id 0) is popped by __init__ and never returns; it is    *)
(* counted in statAlloc and is otherwise outside Block.                    *)
(***************************************************************************)
EXTENDS Integers, Sequences, FiniteSets

CONSTANTS Block,   \* the usable blocks, ids 1..max_blocks-1
          IdOrder, \* the usable blocks in id order, the order a fresh queue has
          MaxRef   \* bound on a reference count (the code has none)

VARIABLES refCount,  \* CacheBlock.ref_count
          queue,     \* FreeKVCacheBlockQueue: head is least recently used
          numFree,   \* FreeKVCacheBlockQueue.num_free_blocks
          allocated, \* keys of PagedCacheManager.allocated_blocks
          statAlloc, \* stats.allocated_blocks
          statFree   \* stats.free_blocks

poolVars == <<refCount, queue, numFree, allocated, statAlloc, statFree>>

-----------------------------------------------------------------------------
(* Sequences of blocks. Defined position by position, so that the proofs   *)
(* reason about indices only.                                              *)

Members(s) == {s[i] : i \in 1..Len(s)}

Distinct(s) == \A i, j \in 1..Len(s) : s[i] = s[j] => i = j

\* The first k elements moved to the back, as k popleft/append pairs do.
Rotated(s, k) ==
  [i \in 1..Len(s) |-> IF i <= Len(s) - k THEN s[i + k] ELSE s[i - (Len(s) - k)]]

\* s without the element at position p.
Without(s, p) == [i \in 1..(Len(s) - 1) |-> IF i < p THEN s[i] ELSE s[i + 1]]

AtLeastZero(n) == IF n < 0 THEN 0 ELSE n

ASSUME BlockAssumption == IsFiniteSet(Block) /\ Block # {}
ASSUME OrderAssumption == /\ IdOrder \in Seq(Block)
                          /\ Distinct(IdOrder)
                          /\ Members(IdOrder) = Block
ASSUME MaxRefAssumption == MaxRef \in Nat \ {0}

Linked(b) == b \in Members(queue)

-----------------------------------------------------------------------------
FreshPool ==
  /\ refCount = [b \in Block |-> 0]
  /\ queue = IdOrder
  /\ numFree = Len(IdOrder)
  /\ allocated = {}
  /\ statAlloc = 1
  /\ statFree = Len(IdOrder)

PoolInit == FreshPool

\* allocate_block: the k blocks at the head are durability-pending and are
\* rotated to the back; the first recyclable one is handed out with one ref.
\* (When every block is pending the scan is a full turn: no change.)
Take(k) ==
  /\ numFree # 0
  /\ k \in 0..(Len(queue) - 1)
  /\ LET b == queue[k + 1] IN
       /\ refCount' = [refCount EXCEPT ![b] = 1]
       /\ allocated' = allocated \cup {b}
  /\ queue' = Without(Rotated(queue, k), 1)
  /\ numFree' = numFree - 1
  /\ statAlloc' = statAlloc + 1
  /\ statFree' = statFree - 1

\* FreeKVCacheBlockQueue.append, with the statistic its callers keep.
Enqueue(b) ==
  /\ queue' = Append(queue, b)
  /\ numFree' = numFree + 1
  /\ statFree' = statFree + 1

\* FreeKVCacheBlockQueue.remove.
Dequeue(b) ==
  \E p \in 1..Len(queue) : /\ queue[p] = b
                           /\ queue' = Without(queue, p)
                           /\ numFree' = numFree - 1

\* free_block: an id that is unknown or already unreferenced is refused.
FreeBlock(b) ==
  /\ b \in allocated
  /\ refCount[b] > 0
  /\ refCount' = [refCount EXCEPT ![b] = @ - 1]
  /\ IF refCount[b] = 1
       THEN /\ allocated' = allocated \ {b}
            /\ statAlloc' = statAlloc - 1
            /\ IF Linked(b) THEN UNCHANGED <<queue, numFree, statFree>>
                            ELSE Enqueue(b)
       ELSE UNCHANGED <<queue, numFree, allocated, statAlloc, statFree>>

\* release_request_refs, one table entry: the block stays in allocated, so
\* a "cached but free" block is both allocated and queued.
ReleaseRef(b) ==
  /\ b \in allocated
  /\ refCount[b] > 0
  /\ refCount' = [refCount EXCEPT ![b] = @ - 1]
  /\ IF refCount[b] = 1 /\ ~Linked(b)
       THEN Enqueue(b) /\ statAlloc' = AtLeastZero(statAlloc - 1)
       ELSE UNCHANGED <<queue, numFree, statAlloc, statFree>>
  /\ UNCHANGED allocated

\* touch: a cache hit revives an unreferenced block out of the free queue.
Touch(b) ==
  /\ refCount[b] < MaxRef
  /\ refCount' = [refCount EXCEPT ![b] = @ + 1]
  /\ IF refCount[b] = 0 /\ Linked(b)
       THEN /\ Dequeue(b)
            /\ statFree' = statFree - 1
            /\ statAlloc' = statAlloc + 1
            /\ allocated' = allocated \cup {b}
       ELSE UNCHANGED <<queue, numFree, allocated, statAlloc, statFree>>

\* Fault: a cached-but-free block is counted again but stays in the queue.
IncrementRefQueued(b) ==
  /\ b \in allocated
  /\ refCount[b] < MaxRef
  /\ refCount' = [refCount EXCEPT ![b] = @ + 1]
  /\ UNCHANGED <<queue, numFree, allocated, statAlloc, statFree>>

\* increment_ref: by id, and only for an id still in allocated_blocks.
IncrementRef(b) ==
  /\ b \in allocated
  /\ refCount[b] < MaxRef
  /\ refCount' = [refCount EXCEPT ![b] = @ + 1]
  /\ IF refCount[b] = 0 /\ Linked(b)
       THEN /\ Dequeue(b)
            /\ statFree' = AtLeastZero(statFree - 1)
            /\ statAlloc' = statAlloc + 1
       ELSE UNCHANGED <<queue, numFree, statAlloc, statFree>>
  /\ UNCHANGED allocated

\* evict_lru_blocks and handle_memory_pressure: k blocks are popped, their
\* contents dropped when the fence allows it, and every one is re-queued.
EvictLru(k) ==
  /\ k \in 1..Len(queue)
  /\ queue' = Rotated(queue, k)
  /\ statFree' \in {statFree, numFree}
  /\ UNCHANGED <<refCount, numFree, allocated, statAlloc>>

\* clear: a new pool, whoever still holds the old block ids.
Rebuild ==
  /\ refCount' = [b \in Block |-> 0]
  /\ queue' = IdOrder
  /\ numFree' = Len(IdOrder)
  /\ allocated' = {}
  /\ statAlloc' = 1
  /\ statFree' = Len(IdOrder)

PoolNext ==
  \/ \E k \in 0..(Len(queue) - 1) : Take(k)
  \/ \E b \in Block : FreeBlock(b)
  \/ \E b \in Block : ReleaseRef(b)
  \/ \E b \in Block : Touch(b)
  \/ \E b \in Block : IncrementRef(b)
  \/ \E k \in 1..Len(queue) : EvictLru(k)
  \/ Rebuild

PoolSpec == PoolInit /\ [][PoolNext]_poolVars

-----------------------------------------------------------------------------
(* Every variable keeps its type; counts never go negative.                *)
PoolTypeOK ==
  /\ refCount \in [Block -> 0..MaxRef]
  /\ queue \in Seq(Block)
  /\ numFree \in Nat
  /\ allocated \subseteq Block
  /\ statAlloc \in Nat
  /\ statFree \in Nat

(* The intrusive list is a list: no block is linked into it twice, and the *)
(* counter allocate_block trusts equals what popleft can reach. (The two   *)
(* corruptions the comment in free_block describes.)                       *)
QueueExact == Distinct(queue) /\ numFree = Len(queue)

(* A block can be handed out by allocate_block exactly when no request     *)
(* holds it: no block is lost from the pool and no block is in use twice.  *)
FreeIffUnreferenced == \A b \in Block : Linked(b) <=> refCount[b] = 0

(* A referenced block can be found by id, so that its holder can give the  *)
(* reference back: free_block and release_request_refs skip unknown ids.   *)
ReferencedIsAllocated == \A b \in Block : refCount[b] > 0 => b \in allocated

(* The two health counters agree with the queue, whatever order of frees,  *)
(* releases and revivals led here; the null block is the extra one.        *)
StatsExact == statFree = numFree /\ statAlloc + statFree = Len(IdOrder) + 1

(* All of this is one invariant, and inductive: QueueExact alone is not,   *)
(* because appending needs the block to be unlinked, which                 *)
(* FreeIffUnreferenced gives.                                              *)
PoolInv ==
  /\ PoolTypeOK
  /\ QueueExact
  /\ FreeIffUnreferenced
  /\ ReferencedIsAllocated
  /\ StatsExact
=============================================================================
