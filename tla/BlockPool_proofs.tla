-------------------------- MODULE BlockPool_proofs --------------------------
(***************************************************************************)
(* The invariants of BlockPool hold for every number of blocks and every   *)
(* bound on the reference counts.                                          *)
(***************************************************************************)
EXTENDS BlockPool, FiniteSetTheorems, TLAPS

-----------------------------------------------------------------------------
(* What the three queue operators return.                                  *)

\* Rotating a list of distinct blocks loses, adds and repeats none.
LEMMA RotatedFacts ==
  ASSUME NEW s \in Seq(Block), Distinct(s), NEW k \in 0..Len(s)
  PROVE  /\ Rotated(s, k) \in Seq(Block)
         /\ Len(Rotated(s, k)) = Len(s)
         /\ Distinct(Rotated(s, k))
         /\ Members(Rotated(s, k)) = Members(s)
         /\ k < Len(s) => Rotated(s, k)[1] = s[k + 1]
<1> DEFINE n == Len(s)
           r == Rotated(s, k)
<1>1. n \in Nat /\ \A i \in 1..n : s[i] \in Block
  OBVIOUS
<1>2. r \in Seq(Block) /\ Len(r) = n
  BY <1>1 DEF Rotated
<1>3. \A i \in 1..n : r[i] = IF i <= n - k THEN s[i + k] ELSE s[i - (n - k)]
  BY <1>1 DEF Rotated
<1> HIDE DEF n, r
<1>4. Distinct(r)
  <2>1. SUFFICES ASSUME NEW i \in 1..n, NEW j \in 1..n, r[i] = r[j]
                 PROVE  i = j
    BY <1>2 DEF Distinct
  <2>2. \A x, y \in 1..n : s[x] = s[y] => x = y
    BY DEF Distinct, n
  <2>3. k \in 0..n
    BY DEF n
  <2>4. CASE i <= n - k /\ j <= n - k
    <3>1. i + k \in 1..n /\ j + k \in 1..n /\ s[i + k] = s[j + k]
      BY <1>1, <1>3, <2>1, <2>3, <2>4
    <3>2. QED BY <3>1, <2>2, <1>1, <2>3
  <2>5. CASE i > n - k /\ j > n - k
    <3>1. /\ i - (n - k) \in 1..n /\ j - (n - k) \in 1..n
          /\ s[i - (n - k)] = s[j - (n - k)]
      BY <1>1, <1>3, <2>1, <2>3, <2>5
    <3>2. i - (n - k) = j - (n - k)
      BY <3>1, <2>2
    <3>3. QED BY <3>2, <1>1, <2>3
  <2>6. CASE i <= n - k /\ j > n - k
    <3>1. /\ i + k \in 1..n /\ j - (n - k) \in 1..n
          /\ s[i + k] = s[j - (n - k)]
      BY <1>1, <1>3, <2>1, <2>3, <2>6
    <3>2. i + k = j - (n - k)
      BY <3>1, <2>2
    <3>3. QED BY <3>2, <1>1, <2>3
  <2>7. CASE i > n - k /\ j <= n - k
    <3>1. /\ j + k \in 1..n /\ i - (n - k) \in 1..n
          /\ s[j + k] = s[i - (n - k)]
      BY <1>1, <1>3, <2>1, <2>3, <2>7
    <3>2. j + k = i - (n - k)
      BY <3>1, <2>2
    <3>3. QED BY <3>2, <1>1, <2>3
  <2>8. QED BY <1>1, <2>3, <2>4, <2>5, <2>6, <2>7
<1>5. Members(r) \subseteq Members(s)
  <2>1. SUFFICES ASSUME NEW i \in 1..n PROVE \E j \in 1..n : s[j] = r[i]
    BY <1>2 DEF Members, n
  <2>2. k \in 0..n
    BY DEF n
  <2>3. CASE i <= n - k
    <3>1. i + k \in 1..n /\ r[i] = s[i + k]
      BY <1>1, <1>3, <2>2, <2>3
    <3>2. QED BY <3>1
  <2>4. CASE i > n - k
    <3>1. i - (n - k) \in 1..n /\ r[i] = s[i - (n - k)]
      BY <1>1, <1>3, <2>2, <2>4
    <3>2. QED BY <3>1
  <2>5. QED BY <1>1, <2>2, <2>3, <2>4
<1>6. Members(s) \subseteq Members(r)
  <2>1. SUFFICES ASSUME NEW j \in 1..n PROVE \E i \in 1..n : r[i] = s[j]
    BY <1>2 DEF Members, n
  <2> k \in 0..n
    BY DEF n
  <2>2. CASE j > k
    <3>1. j - k \in 1..n /\ r[j - k] = s[j]
      BY <1>1, <1>3, <2>2
    <3>2. QED BY <3>1
  <2>3. CASE j <= k
    <3>1. j + (n - k) \in 1..n /\ r[j + (n - k)] = s[j]
      BY <1>1, <1>3, <2>3
    <3>2. QED BY <3>1
  <2>4. QED BY <1>1, <2>2, <2>3
<1>7. k < n => r[1] = s[k + 1]
  <2>1. k \in 0..n
    BY DEF n
  <2>2. ASSUME k < n PROVE r[1] = s[k + 1]
    <3>1. 1 \in 1..n /\ 1 <= n - k
      BY <2>1, <2>2, <1>1
    <3>2. r[1] = s[1 + k]
      BY <3>1, <1>3
    <3>3. 1 + k = k + 1
      BY <2>1, <1>1
    <3>4. QED BY <3>2, <3>3
  <2>3. QED BY <2>2
<1>8. QED BY <1>2, <1>4, <1>5, <1>6, <1>7 DEF n, r

\* Unlinking one position removes exactly that block.
LEMMA WithoutFacts ==
  ASSUME NEW s \in Seq(Block), Distinct(s), NEW p \in 1..Len(s)
  PROVE  /\ Without(s, p) \in Seq(Block)
         /\ Len(Without(s, p)) = Len(s) - 1
         /\ Distinct(Without(s, p))
         /\ Members(Without(s, p)) = Members(s) \ {s[p]}
<1> DEFINE n == Len(s)
           r == Without(s, p)
<1>1. n \in Nat /\ \A i \in 1..n : s[i] \in Block
  OBVIOUS
<1>2. r \in Seq(Block) /\ Len(r) = n - 1
  BY <1>1 DEF Without
<1>3. \A i \in 1..(n - 1) : r[i] = IF i < p THEN s[i] ELSE s[i + 1]
  BY <1>1 DEF Without
<1>4. Distinct(r)
  BY <1>1, <1>2, <1>3 DEF Distinct
<1>5. Members(r) \subseteq Members(s) \ {s[p]}
  BY <1>1, <1>2, <1>3 DEF Members, Distinct
<1>6. Members(s) \ {s[p]} \subseteq Members(r)
  <2>1. SUFFICES ASSUME NEW j \in 1..n, j # p
                 PROVE  \E i \in 1..(n - 1) : r[i] = s[j]
    BY <1>2 DEF Members
  <2>2. CASE j < p
    BY <1>1, <1>3, <2>2
  <2>3. CASE j > p
    <3>1. j - 1 \in 1..(n - 1) /\ r[j - 1] = s[j]
      BY <1>1, <1>3, <2>3
    <3>2. QED BY <3>1
  <2>4. QED BY <1>1, <2>1, <2>2, <2>3
<1>7. QED BY <1>2, <1>4, <1>5, <1>6

\* Appending a block that is not linked adds exactly that block.
LEMMA AppendFacts ==
  ASSUME NEW s \in Seq(Block), Distinct(s), NEW b \in Block, b \notin Members(s)
  PROVE  /\ Append(s, b) \in Seq(Block)
         /\ Len(Append(s, b)) = Len(s) + 1
         /\ Distinct(Append(s, b))
         /\ Members(Append(s, b)) = Members(s) \cup {b}
<1> DEFINE n == Len(s)
           r == Append(s, b)
<1>1. n \in Nat /\ \A i \in 1..n : s[i] \in Block
  OBVIOUS
<1>2. /\ r \in Seq(Block) /\ Len(r) = n + 1 /\ r[n + 1] = b
      /\ \A i \in 1..n : r[i] = s[i]
  BY <1>1
<1>3. \A i \in 1..n : s[i] # b
  BY DEF Members
<1>4. Distinct(r)
  BY <1>1, <1>2, <1>3 DEF Distinct
<1>5. Members(r) \subseteq Members(s) \cup {b}
  BY <1>1, <1>2 DEF Members
<1>6. Members(s) \cup {b} \subseteq Members(r)
  BY <1>1, <1>2 DEF Members
<1>7. QED BY <1>2, <1>4, <1>5, <1>6

\* A list of distinct blocks that misses one is shorter than the id order.
LEMMA QueueBound ==
  ASSUME NEW s \in Seq(Block), Distinct(s)
  PROVE  /\ Len(s) <= Len(IdOrder)
         /\ \A b \in Block : b \notin Members(s) => Len(s) < Len(IdOrder)
<1>1. IsFiniteSet(Block)
  BY BlockAssumption
<1>2. ASSUME NEW q \in Seq(Block), Distinct(q)
      PROVE  /\ Len(q) \in Nat /\ Cardinality(Block) \in Nat
             /\ Len(q) <= Cardinality(Block)
             /\ Len(q) = Cardinality(Block) <=> Members(q) = Block
  <2>1. Len(q) \in Nat /\ q \in [1..Len(q) -> Block]
    OBVIOUS
  <2>2. q \in Injection(1..Len(q), Block)
    BY <1>2, <2>1 DEF Injection, IsInjective, Distinct
  <2>3. IsFiniteSet(1..Len(q)) /\ Cardinality(1..Len(q)) = Len(q)
    <3>1. /\ IsFiniteSet(1..Len(q))
          /\ Cardinality(1..Len(q)) = IF 1 > Len(q) THEN 0 ELSE Len(q) - 1 + 1
      <4>1. Len(q) \in Int /\ 1 \in Int
        BY <2>1
      <4>2. QED BY <4>1, FS_Interval, Zenon
    <3>2. QED BY <2>1, <3>1
  <2>4. /\ Cardinality(1..Len(q)) <= Cardinality(Block)
        /\ Cardinality(1..Len(q)) = Cardinality(Block)
             <=> q \in Surjection(1..Len(q), Block)
    BY <1>1, <2>2, FS_Injection
  <2>5. q \in Surjection(1..Len(q), Block) <=> Members(q) = Block
    BY <2>1 DEF Surjection, Members
  <2>6. Cardinality(Block) \in Nat
    BY <1>1, FS_CardinalityType
  <2>7. QED BY <2>1, <2>3, <2>4, <2>5, <2>6
<1>3. Len(IdOrder) = Cardinality(Block)
  BY <1>2, OrderAssumption
<1>4. QED BY <1>2, <1>3

-----------------------------------------------------------------------------
(* PoolInv is inductive.                                                   *)

\* A fresh pool, at start-up or after clear, satisfies the invariant.
LEMMA FreshInv == PoolInit => PoolInv
<1> SUFFICES ASSUME PoolInit PROVE PoolInv
  OBVIOUS
<1> USE OrderAssumption, MaxRefAssumption DEF PoolInit, FreshPool
<1>1. PoolTypeOK
  BY DEF PoolTypeOK
<1>2. QueueExact
  BY DEF QueueExact
<1>3. FreeIffUnreferenced
  BY DEF FreeIffUnreferenced, Linked
<1>4. ReferencedIsAllocated
  BY DEF ReferencedIsAllocated
<1>5. StatsExact
  BY DEF StatsExact
<1>6. QED BY <1>1, <1>2, <1>3, <1>4, <1>5 DEF PoolInv

\* A block in the queue can be unlinked at exactly one position.
LEMMA DequeueFacts ==
  ASSUME PoolInv, NEW b \in Block, Dequeue(b)
  PROVE  /\ queue' \in Seq(Block) /\ Distinct(queue')
         /\ Len(queue') = Len(queue) - 1 /\ numFree' = Len(queue')
         /\ Members(queue') = Members(queue) \ {b}
         /\ numFree' = numFree - 1 /\ numFree' \in Nat
<1>1. queue \in Seq(Block) /\ Distinct(queue) /\ numFree = Len(queue)
  BY DEF PoolInv, PoolTypeOK, QueueExact
<1>2. PICK p \in 1..Len(queue) :
         queue[p] = b /\ queue' = Without(queue, p) /\ numFree' = numFree - 1
  BY DEF Dequeue
<1>3. QED BY <1>1, <1>2, WithoutFacts

\* A block that is not in the queue joins it at the back.
LEMMA EnqueueFacts ==
  ASSUME PoolInv, NEW b \in Block, ~Linked(b), Enqueue(b)
  PROVE  /\ queue' \in Seq(Block) /\ Distinct(queue')
         /\ numFree' = Len(queue') /\ numFree' \in Nat
         /\ Members(queue') = Members(queue) \cup {b}
         /\ numFree' = numFree + 1 /\ statFree' = statFree + 1
<1>1. queue \in Seq(Block) /\ Distinct(queue) /\ numFree = Len(queue)
  BY DEF PoolInv, PoolTypeOK, QueueExact
<1>2. QED BY <1>1, AppendFacts DEF Enqueue, Linked

\* allocate_block keeps the invariant.
LEMMA TakeInv == ASSUME PoolInv, NEW k \in 0..(Len(queue) - 1), Take(k)
                 PROVE  PoolInv'
<1> DEFINE r == Rotated(queue, k)
           b == queue[k + 1]
<1>1. /\ queue \in Seq(Block) /\ Distinct(queue) /\ numFree = Len(queue)
      /\ Len(queue) \in Nat /\ k \in 0..Len(queue) /\ k < Len(queue)
  BY DEF PoolInv, PoolTypeOK, QueueExact
<1>2. /\ r \in Seq(Block) /\ Len(r) = Len(queue) /\ Distinct(r)
      /\ Members(r) = Members(queue) /\ r[1] = b
  BY <1>1, RotatedFacts
<1>3. b \in Block /\ b \in Members(queue)
  BY <1>1 DEF Members
<1> HIDE DEF r, b
<1>4. /\ queue' \in Seq(Block) /\ Distinct(queue')
      /\ Len(queue') = Len(queue) - 1
      /\ Members(queue') = Members(queue) \ {b}
  <2>1. 1 \in 1..Len(r)
    BY <1>1, <1>2
  <2>2. queue' = Without(r, 1)
    BY DEF Take, r
  <2>3. QED BY <1>2, <2>1, <2>2, WithoutFacts
<1>5. /\ refCount' = [refCount EXCEPT ![b] = 1]
      /\ allocated' = allocated \cup {b}
      /\ numFree' = numFree - 1
      /\ statAlloc' = statAlloc + 1 /\ statFree' = statFree - 1
  BY DEF Take, b
<1>6. PoolTypeOK'
  BY <1>1, <1>3, <1>4, <1>5, MaxRefAssumption DEF PoolInv, PoolTypeOK, StatsExact
<1>7. QueueExact'
  BY <1>1, <1>4, <1>5 DEF QueueExact
<1>8. FreeIffUnreferenced'
  BY <1>3, <1>4, <1>5 DEF PoolInv, PoolTypeOK, FreeIffUnreferenced, Linked
<1>9. ReferencedIsAllocated'
  BY <1>3, <1>5 DEF PoolInv, PoolTypeOK, ReferencedIsAllocated
<1>10. StatsExact'
  BY <1>1, <1>5 DEF PoolInv, PoolTypeOK, StatsExact
<1>11. QED BY <1>6, <1>7, <1>8, <1>9, <1>10 DEF PoolInv

\* The allocated counter never reaches zero while a block is unlinked.
LEMMA StatBound ==
  ASSUME PoolInv, NEW b \in Block, ~Linked(b)
  PROVE  statAlloc > 1
<1>1. Len(queue) < Len(IdOrder) /\ Len(IdOrder) \in Nat
  BY QueueBound, OrderAssumption DEF PoolInv, PoolTypeOK, QueueExact, Linked
<1>2. QED BY <1>1 DEF PoolInv, PoolTypeOK, QueueExact, StatsExact

\* free_block keeps the invariant: its refusals make unpaired calls harmless.
LEMMA FreeInv == ASSUME PoolInv, NEW b \in Block, FreeBlock(b) PROVE PoolInv'
<1> USE DEF PoolInv
<1>1. refCount' = [refCount EXCEPT ![b] = @ - 1] /\ refCount[b] > 0
  BY DEF FreeBlock
<1>2. /\ refCount \in [Block -> 0..MaxRef] /\ ~Linked(b)
      /\ refCount' \in [Block -> 0..MaxRef]
      /\ statAlloc > 1
  BY <1>1, MaxRefAssumption, StatBound DEF PoolTypeOK, FreeIffUnreferenced
<1>3. CASE refCount[b] = 1
  <2>1. /\ Enqueue(b) /\ allocated' = allocated \ {b}
        /\ statAlloc' = statAlloc - 1
    BY <1>2, <1>3 DEF FreeBlock
  <2>2. /\ queue' \in Seq(Block) /\ Distinct(queue')
        /\ numFree' = Len(queue') /\ numFree' \in Nat
        /\ Members(queue') = Members(queue) \cup {b}
        /\ numFree' = numFree + 1 /\ statFree' = statFree + 1
    BY <1>2, <2>1, EnqueueFacts
  <2>3. PoolTypeOK'
    BY <1>2, <2>1, <2>2 DEF PoolTypeOK
  <2>4. FreeIffUnreferenced'
    BY <1>1, <1>2, <1>3, <2>2 DEF FreeIffUnreferenced, Linked
  <2>5. ReferencedIsAllocated'
    BY <1>1, <1>2, <1>3, <2>1 DEF ReferencedIsAllocated
  <2>6. StatsExact'
    BY <2>1, <2>2 DEF StatsExact, PoolTypeOK
  <2>7. QED BY <2>2, <2>3, <2>4, <2>5, <2>6 DEF QueueExact
<1>4. CASE refCount[b] # 1
  <2>1. UNCHANGED <<queue, numFree, allocated, statAlloc, statFree>>
    BY <1>4 DEF FreeBlock
  <2>2. PoolTypeOK' /\ QueueExact' /\ StatsExact'
    BY <1>2, <2>1 DEF PoolTypeOK, QueueExact, StatsExact
  <2>3. FreeIffUnreferenced' /\ ReferencedIsAllocated'
    BY <1>1, <1>2, <1>4, <2>1
    DEF FreeIffUnreferenced, ReferencedIsAllocated, Linked
  <2>4. QED BY <2>2, <2>3
<1>5. QED BY <1>3, <1>4

\* release_request_refs keeps the invariant: "cached but free" blocks are
\* queued once although they stay in allocated.
LEMMA ReleaseInv == ASSUME PoolInv, NEW b \in Block, ReleaseRef(b) PROVE PoolInv'
<1> USE DEF PoolInv
<1>1. /\ refCount' = [refCount EXCEPT ![b] = @ - 1] /\ refCount[b] > 0
      /\ allocated' = allocated
  BY DEF ReleaseRef
<1>2. /\ refCount \in [Block -> 0..MaxRef] /\ ~Linked(b)
      /\ refCount' \in [Block -> 0..MaxRef]
      /\ statAlloc > 1
  BY <1>1, MaxRefAssumption, StatBound DEF PoolTypeOK, FreeIffUnreferenced
<1>3. CASE refCount[b] = 1
  <2>1. Enqueue(b) /\ statAlloc' = statAlloc - 1
    BY <1>2, <1>3 DEF ReleaseRef, AtLeastZero, PoolTypeOK
  <2>2. /\ queue' \in Seq(Block) /\ Distinct(queue')
        /\ numFree' = Len(queue') /\ numFree' \in Nat
        /\ Members(queue') = Members(queue) \cup {b}
        /\ numFree' = numFree + 1 /\ statFree' = statFree + 1
    BY <1>2, <2>1, EnqueueFacts
  <2>3. PoolTypeOK'
    BY <1>1, <1>2, <2>1, <2>2 DEF PoolTypeOK
  <2>4. FreeIffUnreferenced' /\ ReferencedIsAllocated'
    BY <1>1, <1>2, <1>3, <2>2
    DEF FreeIffUnreferenced, ReferencedIsAllocated, Linked
  <2>5. StatsExact'
    BY <2>1, <2>2 DEF StatsExact, PoolTypeOK
  <2>6. QED BY <2>2, <2>3, <2>4, <2>5 DEF QueueExact
<1>4. CASE refCount[b] # 1
  <2>1. UNCHANGED <<queue, numFree, allocated, statAlloc, statFree>>
    BY <1>4 DEF ReleaseRef
  <2>2. PoolTypeOK' /\ QueueExact' /\ StatsExact'
    BY <1>2, <2>1 DEF PoolTypeOK, QueueExact, StatsExact
  <2>3. FreeIffUnreferenced' /\ ReferencedIsAllocated'
    BY <1>1, <1>2, <1>4, <2>1
    DEF FreeIffUnreferenced, ReferencedIsAllocated, Linked
  <2>4. QED BY <2>2, <2>3
<1>5. QED BY <1>3, <1>4

\* touch and increment_ref revive a cached-but-free block; they differ only
\* in whether the id must already be allocated.
LEMMA ReviveInv ==
  ASSUME PoolInv, NEW b \in Block, Touch(b) \/ IncrementRef(b) PROVE PoolInv'
<1> USE DEF PoolInv
<1>1. refCount' = [refCount EXCEPT ![b] = @ + 1] /\ refCount[b] < MaxRef
  BY DEF Touch, IncrementRef
<1>2. /\ refCount \in [Block -> 0..MaxRef] /\ refCount' \in [Block -> 0..MaxRef]
      /\ Linked(b) <=> refCount[b] = 0
  BY <1>1, MaxRefAssumption DEF PoolTypeOK, FreeIffUnreferenced
<1>3. CASE refCount[b] = 0
  <2>1. Dequeue(b) /\ statAlloc' = statAlloc + 1
    BY <1>2, <1>3 DEF Touch, IncrementRef
  <2>2. allocated' \subseteq Block /\ allocated \cup {b} = allocated'
    BY <1>2, <1>3 DEF Touch, IncrementRef, PoolTypeOK
  <2>3. /\ queue' \in Seq(Block) /\ Distinct(queue')
        /\ Len(queue') = Len(queue) - 1 /\ numFree' = Len(queue')
        /\ Members(queue') = Members(queue) \ {b}
        /\ numFree' = numFree - 1 /\ numFree' \in Nat
    BY <2>1, DequeueFacts
  <2>4. statFree' = statFree - 1
    BY <1>2, <1>3, <2>3 DEF Touch, IncrementRef, AtLeastZero, PoolTypeOK, StatsExact
  <2>5. PoolTypeOK'
    BY <1>2, <2>1, <2>2, <2>3, <2>4 DEF PoolTypeOK, StatsExact
  <2>6. FreeIffUnreferenced' /\ ReferencedIsAllocated'
    BY <1>1, <1>2, <1>3, <2>2, <2>3
    DEF FreeIffUnreferenced, ReferencedIsAllocated, Linked
  <2>7. StatsExact'
    BY <2>1, <2>3, <2>4 DEF StatsExact, PoolTypeOK
  <2>8. QED BY <2>3, <2>5, <2>6, <2>7 DEF QueueExact
<1>4. CASE refCount[b] # 0
  <2>1. UNCHANGED <<queue, numFree, allocated, statAlloc, statFree>>
    BY <1>4 DEF Touch, IncrementRef
  <2>2. PoolTypeOK' /\ QueueExact' /\ StatsExact'
    BY <1>2, <2>1 DEF PoolTypeOK, QueueExact, StatsExact
  <2>3. FreeIffUnreferenced'
    BY <1>1, <1>2, <1>4, <2>1 DEF FreeIffUnreferenced, Linked
  <2>4. ReferencedIsAllocated'
    BY <1>1, <1>2, <1>4, <2>1 DEF ReferencedIsAllocated
  <2>5. QED BY <2>2, <2>3, <2>4
<1>5. QED BY <1>3, <1>4

\* Rotating the queue under memory pressure keeps the invariant.
LEMMA EvictInv == ASSUME PoolInv, NEW k \in 1..Len(queue), EvictLru(k) PROVE PoolInv'
<1> USE DEF PoolInv
<1>1. queue \in Seq(Block) /\ Distinct(queue) /\ k \in 0..Len(queue)
  BY DEF PoolTypeOK, QueueExact
<1>2. /\ queue' \in Seq(Block) /\ Len(queue') = Len(queue) /\ Distinct(queue')
      /\ Members(queue') = Members(queue)
  BY <1>1, RotatedFacts DEF EvictLru
<1>3. /\ UNCHANGED <<refCount, numFree, allocated, statAlloc>>
      /\ statFree' = statFree
  BY DEF EvictLru, StatsExact
<1>4. PoolTypeOK' /\ QueueExact' /\ StatsExact'
  BY <1>2, <1>3 DEF PoolTypeOK, QueueExact, StatsExact
<1>5. FreeIffUnreferenced' /\ ReferencedIsAllocated'
  BY <1>2, <1>3 DEF FreeIffUnreferenced, ReferencedIsAllocated, Linked
<1>6. QED BY <1>4, <1>5

\* clear starts again from a fresh pool.
LEMMA RebuildInv == Rebuild => PoolInv'
<1> SUFFICES ASSUME Rebuild PROVE PoolInv'
  OBVIOUS
<1> USE OrderAssumption, MaxRefAssumption DEF Rebuild
<1>1. PoolTypeOK'
  BY DEF PoolTypeOK
<1>2. QueueExact'
  BY DEF QueueExact
<1>3. FreeIffUnreferenced' /\ ReferencedIsAllocated'
  BY DEF FreeIffUnreferenced, ReferencedIsAllocated, Linked
<1>4. StatsExact'
  BY DEF StatsExact
<1>5. QED BY <1>1, <1>2, <1>3, <1>4 DEF PoolInv

\* Every step of the pool keeps the invariant.
LEMMA PoolStep == PoolInv /\ [PoolNext]_poolVars => PoolInv'
<1> SUFFICES ASSUME PoolInv, [PoolNext]_poolVars PROVE PoolInv'
  OBVIOUS
<1>1. CASE UNCHANGED poolVars
  BY <1>1 DEF poolVars, PoolInv, PoolTypeOK, QueueExact, FreeIffUnreferenced,
              ReferencedIsAllocated, StatsExact, Linked
<1>2. CASE \E k \in 0..(Len(queue) - 1) : Take(k)
  BY <1>2, TakeInv
<1>3. CASE \E b \in Block : FreeBlock(b)
  BY <1>3, FreeInv
<1>4. CASE \E b \in Block : ReleaseRef(b)
  BY <1>4, ReleaseInv
<1>5. CASE \E b \in Block : Touch(b) \/ IncrementRef(b)
  BY <1>5, ReviveInv
<1>6. CASE \E k \in 1..Len(queue) : EvictLru(k)
  BY <1>6, EvictInv
<1>7. CASE Rebuild
  BY <1>7, RebuildInv
<1>8. QED BY <1>1, <1>2, <1>3, <1>4, <1>5, <1>6, <1>7 DEF PoolNext

\* In every behaviour, for any pool size: the free list holds exactly the
\* unreferenced blocks, each once, and the counters agree with it.
THEOREM PoolCorrect == PoolSpec => []PoolInv
<1>1. PoolInit => PoolInv
  BY FreshInv
<1>2. PoolInv /\ [PoolNext]_poolVars => PoolInv'
  BY PoolStep
<1>3. QED BY <1>1, <1>2, PTL DEF PoolSpec

\* Types.
THEOREM PoolTypes == PoolSpec => []PoolTypeOK
<1>1. PoolInv => PoolTypeOK
  BY DEF PoolInv
<1>2. QED BY <1>1, PoolCorrect, PTL

\* A block can be handed out exactly when nobody references it.
THEOREM PoolExclusive == PoolSpec => []FreeIffUnreferenced
<1>1. PoolInv => FreeIffUnreferenced
  BY DEF PoolInv
<1>2. QED BY <1>1, PoolCorrect, PTL
=============================================================================
