----------------------------- MODULE LinkedPool -----------------------------
(***************************************************************************)
(* The block pool with its free list as the code keeps it                  *)
(* (FreeKVCacheBlockQueue, paged_cache.py): an intrusive doubly linked     *)
(* list with two sentinels, a block counting as linked when either of its  *)
(* own pointers is set.  It implements BlockPool.                          *)
(***************************************************************************)
EXTENDS Integers, Sequences, FiniteSets

CONSTANTS Block, IdOrder, MaxRef,
          FakeHead, FakeTail, \* the sentinels fake_head and fake_tail
          Nil          \* Python's None

VARIABLES refCount, list, allocated, statAlloc, statFree

vars == <<refCount, list, allocated, statAlloc, statFree>>

Node == Block \cup {FakeHead, FakeTail}

ASSUME PoolAssumption ==
  /\ IsFiniteSet(Block) /\ Block # {}
  /\ IdOrder \in Seq(Block)
  /\ \A b \in Block : \E i \in 1..Len(IdOrder) : IdOrder[i] = b
  /\ \A i, j \in 1..Len(IdOrder) : IdOrder[i] = IdOrder[j] => i = j
  /\ MaxRef \in Nat \ {0}

\* The sentinels are blocks of their own (ids -1 and -2), never popped.
ASSUME SentinelAssumption ==
  FakeHead # FakeTail /\ {FakeHead, FakeTail} \cap Block = {} /\ Nil \notin Node

-----------------------------------------------------------------------------
(* The list operations, each a function from a list record to the next:    *)
(* prev and next are the pointer fields of every node, n the counter.      *)

\* __init__: blocks linked in id order between the sentinels.
FreshList ==
  LET chain == <<FakeHead>> \o IdOrder \o <<FakeTail>>
      at(x) == CHOOSE i \in DOMAIN chain : chain[i] = x
  IN [prev |-> [x \in Node |-> IF x = FakeHead THEN Nil ELSE chain[at(x) - 1]],
      next |-> [x \in Node |-> IF x = FakeTail THEN Nil ELSE chain[at(x) + 1]],
      n    |-> Len(IdOrder)]

First(l) == l.next[FakeHead]

\* popleft, of a list that is not empty.
PopLeft(l) ==
  LET b == First(l)
      after == l.next[b]
  IN [prev |-> [x \in Node |-> IF x = b THEN Nil
                               ELSE IF x = after THEN FakeHead ELSE l.prev[x]],
      next |-> [l.next EXCEPT ![FakeHead] = after, ![b] = Nil],
      n    |-> l.n - 1]

\* Fault: the removed block keeps its own pointers.
UnlinkStale(l, b) ==
  [prev |-> [l.prev EXCEPT ![l.next[b]] = l.prev[b]],
   next |-> [l.next EXCEPT ![l.prev[b]] = l.next[b]],
   n    |-> l.n - 1]

\* remove, of a block whose two pointers are set.
Unlink(l, b) ==
  [prev |-> [l.prev EXCEPT ![l.next[b]] = l.prev[b], ![b] = Nil],
   next |-> [l.next EXCEPT ![l.prev[b]] = l.next[b], ![b] = Nil],
   n    |-> l.n - 1]

\* Fault: the tail sentinel still points back at the former last block.
AppendToHalf(l, b) ==
  LET last == l.prev[FakeTail]
  IN [prev |-> [l.prev EXCEPT ![b] = last],
      next |-> [l.next EXCEPT ![last] = b, ![b] = FakeTail],
      n    |-> l.n + 1]

\* append: nothing checks whether b is linked already; callers must.
AppendTo(l, b) ==
  LET last == l.prev[FakeTail]
  IN [prev |-> [l.prev EXCEPT ![b] = last, ![FakeTail] = b],
      next |-> [l.next EXCEPT ![last] = b, ![b] = FakeTail],
      n    |-> l.n + 1]

\* The test remove makes before it unlinks.
InList(l, b) == l.prev[b] # Nil /\ l.next[b] # Nil

\* The test free_block and release_request_refs make before they append.
Unlinked(l, b) == l.prev[b] = Nil /\ l.next[b] = Nil

\* k turns of popleft + append.
Turned(l, k) ==
  LET turn[i \in 0..k] == IF i = 0 THEN l
                          ELSE AppendTo(PopLeft(turn[i - 1]), First(turn[i - 1]))
  IN turn[k]

\* get_all_free_blocks: what a walk from the head finds.
Walk(l) ==
  LET step[i \in 0..Cardinality(Block)] ==
        IF i = 0 THEN <<>>
        ELSE LET s == step[i - 1]
                 x == IF s = <<>> THEN First(l) ELSE l.next[s[Len(s)]]
             IN IF Len(s) < i - 1 \/ x \in {FakeTail, Nil} THEN s ELSE Append(s, x)
  IN step[Cardinality(Block)]

-----------------------------------------------------------------------------
Init ==
  /\ refCount = [b \in Block |-> 0]
  /\ list = FreshList
  /\ allocated = {}
  /\ statAlloc = 1
  /\ statFree = Len(IdOrder)

\* allocate_block, with k durability-pending blocks at the head.
Take(k) ==
  /\ list.n # 0
  /\ k < list.n
  /\ LET l == Turned(list, k)
         b == First(l)
     IN /\ b \in Block
        /\ list' = PopLeft(l)
        /\ refCount' = [refCount EXCEPT ![b] = 1]
        /\ allocated' = allocated \cup {b}
  /\ statAlloc' = statAlloc + 1
  /\ statFree' = statFree - 1

FreeBlock(b) ==
  /\ b \in allocated
  /\ refCount[b] > 0
  /\ refCount' = [refCount EXCEPT ![b] = @ - 1]
  /\ IF refCount[b] > 1 THEN UNCHANGED <<list, allocated, statAlloc, statFree>>
     ELSE /\ allocated' = allocated \ {b}
          /\ statAlloc' = statAlloc - 1
          /\ IF Unlinked(list, b)
               THEN list' = AppendTo(list, b) /\ statFree' = statFree + 1
               ELSE UNCHANGED <<list, statFree>>

ReleaseRef(b) ==
  /\ b \in allocated
  /\ refCount[b] > 0
  /\ refCount' = [refCount EXCEPT ![b] = @ - 1]
  /\ IF refCount[b] = 1 /\ Unlinked(list, b)
       THEN /\ list' = AppendTo(list, b)
            /\ statAlloc' = IF statAlloc > 0 THEN statAlloc - 1 ELSE 0
            /\ statFree' = statFree + 1
       ELSE UNCHANGED <<list, statAlloc, statFree>>
  /\ UNCHANGED allocated

Touch(b) ==
  /\ refCount[b] < MaxRef
  /\ refCount' = [refCount EXCEPT ![b] = @ + 1]
  /\ IF refCount[b] = 0 /\ InList(list, b)
       THEN /\ list' = Unlink(list, b)
            /\ statFree' = statFree - 1
            /\ statAlloc' = statAlloc + 1
            /\ allocated' = allocated \cup {b}
       ELSE UNCHANGED <<list, allocated, statAlloc, statFree>>

IncrementRef(b) ==
  /\ b \in allocated
  /\ refCount[b] < MaxRef
  /\ refCount' = [refCount EXCEPT ![b] = @ + 1]
  /\ IF refCount[b] = 0 /\ ~Unlinked(list, b) /\ InList(list, b)
       THEN /\ list' = Unlink(list, b)
            /\ statFree' = IF statFree > 0 THEN statFree - 1 ELSE 0
            /\ statAlloc' = statAlloc + 1
       ELSE UNCHANGED <<list, statAlloc, statFree>>
  /\ UNCHANGED allocated

\* evict_lru_blocks, alone or from handle_memory_pressure.
EvictLru(k) ==
  /\ k \in 1..list.n
  /\ list' = Turned(list, k)
  /\ statFree' \in {statFree, list.n}
  /\ UNCHANGED <<refCount, allocated, statAlloc>>

Rebuild ==
  /\ refCount' = [b \in Block |-> 0]
  /\ list' = FreshList
  /\ allocated' = {}
  /\ statAlloc' = 1
  /\ statFree' = Len(IdOrder)

Next ==
  \/ \E k \in 0..(list.n - 1) : Take(k)
  \/ \E b \in Block : FreeBlock(b)
  \/ \E b \in Block : ReleaseRef(b)
  \/ \E b \in Block : Touch(b)
  \/ \E b \in Block : IncrementRef(b)
  \/ \E k \in 1..list.n : EvictLru(k)
  \/ Rebuild

Spec == Init /\ [][Next]_vars

-----------------------------------------------------------------------------
Pool == INSTANCE BlockPool WITH queue <- Walk(list), numFree <- list.n

(* Every step on the pointers is the corresponding step on the sequence a  *)
(* walk from the head finds: popleft, remove and append never lose, repeat *)
(* or reorder a block, and the caller's pointer test means "in the queue". *)
ImplementsPool == Pool!PoolSpec

(* The two directions agree: walking back from the tail finds the same     *)
(* blocks, and a block outside the list has both pointers cleared.         *)
Coherent ==
  /\ \A x \in Node \ {FakeTail} : list.next[x] # Nil => list.prev[list.next[x]] = x
  /\ \A x \in Node \ {FakeHead} : list.prev[x] # Nil => list.next[list.prev[x]] = x
  /\ \A b \in Block : InList(list, b) \/ Unlinked(list, b)
=============================================================================
