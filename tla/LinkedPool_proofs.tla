------------------------- MODULE LinkedPool_proofs -------------------------
(***************************************************************************)
(* The pointers of the free list always thread one sequence of blocks, the *)
(* walk from the head finds it, and every step of LinkedPool is the step   *)
(* of BlockPool on that sequence.  The invariants of BlockPool hold of the *)
(* code's list with it.                                                    *)
(***************************************************************************)
EXTENDS LinkedPool, Queues_proofs

\* The theorems of BlockPool, of the pool that LinkedPool implements.
Proved == INSTANCE BlockPool_proofs WITH queue <- Walk(list), numFree <- list.n

-----------------------------------------------------------------------------
(* The sequence that a list threads.                                       *)

\* The node at a place: the head sentinel before the first block, the tail
\* sentinel after the last.
Spot(q, i) == IF i = 0 THEN FakeHead ELSE IF i = Len(q) + 1 THEN FakeTail ELSE q[i]

Queue(q) == q \in Seq(Block) /\ Pool!Distinct(q)

ListType == [prev : [Node -> Node \cup {Nil}], next : [Node -> Node \cup {Nil}], n : Nat]

\* The pointers of l run along q in both directions, and only there.
Threads(l, q) ==
  /\ Queue(q)
  /\ l \in ListType
  /\ l.n = Len(q)
  /\ \A i \in 0..Len(q) : l.next[Spot(q, i)] = Spot(q, i + 1)
  /\ \A i \in 0..Len(q) : l.prev[Spot(q, i + 1)] = Spot(q, i)
  /\ \A b \in Block \ Pool!Members(q) : l.next[b] = Nil /\ l.prev[b] = Nil
  /\ l.next[FakeTail] = Nil /\ l.prev[FakeHead] = Nil

\* Each place holds a node of its own.
LEMMA Spots ==
  ASSUME NEW q, Queue(q)
  PROVE  /\ Len(q) \in Nat
         /\ \A i \in 1..Len(q) : Spot(q, i) = q[i] /\ q[i] \in Block /\ q[i] \in Pool!Members(q)
         /\ \A i \in 0..(Len(q) + 1) : Spot(q, i) \in Node /\ Spot(q, i) # Nil
         /\ \A i, j \in 0..(Len(q) + 1) : Spot(q, i) = Spot(q, j) => i = j
         /\ Spot(q, 0) = FakeHead /\ Spot(q, Len(q) + 1) = FakeTail
         /\ \A x \in Node : x \in Block \ Pool!Members(q) \/ \E i \in 0..(Len(q) + 1) : x = Spot(q, i)
<1> USE SentinelAssumption DEF Node
<1>1. /\ q \in Seq(Block) /\ Len(q) \in Nat
      /\ \A i \in 1..Len(q) : q[i] \in Block /\ q[i] \in Pool!Members(q)
  BY DEF Queue, Pool!Members
<1>2. \A i \in 1..Len(q) : Spot(q, i) = q[i]
  BY <1>1 DEF Spot
<1>3. Spot(q, 0) = FakeHead /\ Spot(q, Len(q) + 1) = FakeTail
  BY <1>1 DEF Spot
<1>4. \A i \in 0..(Len(q) + 1) : i = 0 \/ i = Len(q) + 1 \/ i \in 1..Len(q)
  BY <1>1
<1>5. \A i \in 0..(Len(q) + 1) : Spot(q, i) \in Node /\ Spot(q, i) # Nil
  BY <1>1, <1>2, <1>3, <1>4
<1>6. \A i, j \in 1..Len(q) : q[i] = q[j] => i = j
  BY DEF Queue, Pool!Distinct
<1>7. \A i, j \in 0..(Len(q) + 1) : Spot(q, i) = Spot(q, j) => i = j
  <2> SUFFICES ASSUME NEW i \in 0..(Len(q) + 1), NEW j \in 0..(Len(q) + 1), Spot(q, i) = Spot(q, j)
               PROVE  i = j
    OBVIOUS
  <2>1. \A k \in 1..Len(q) : Spot(q, k) # FakeHead /\ Spot(q, k) # FakeTail
    BY <1>1, <1>2
  <2>. QED  BY <2>1, <1>2, <1>3, <1>4, <1>6
<1>8. \A x \in Node : x \in Block \ Pool!Members(q) \/ \E i \in 0..(Len(q) + 1) : x = Spot(q, i)
  <2> TAKE x \in Node
  <2>1. 0 \in 0..(Len(q) + 1) /\ Len(q) + 1 \in 0..(Len(q) + 1)
    BY <1>1
  <2>2. CASE x \in Pool!Members(q)
    <3>1. PICK i \in 1..Len(q) : x = q[i]
      BY <2>2 DEF Pool!Members
    <3>2. i \in 0..(Len(q) + 1)
      BY <1>1
    <3>. QED  BY <1>2, <3>1, <3>2
  <2>3. CASE x \notin Block
    BY <2>1, <2>3, <1>3
  <2>. QED  BY <2>2, <2>3
<1>. QED  BY <1>1, <1>2, <1>3, <1>5, <1>7, <1>8

\* The two tests of a block's own pointers tell whether it is threaded.
LEMMA PointerTests ==
  ASSUME NEW l, NEW q, Threads(l, q), NEW b \in Block
  PROVE  /\ InList(l, b) <=> b \in Pool!Members(q)
         /\ Unlinked(l, b) <=> b \notin Pool!Members(q)
<1>1. Queue(q)
  BY DEF Threads
<1>2. CASE b \in Pool!Members(q)
  <2>1. PICK i \in 1..Len(q) : b = q[i]
    BY <1>2 DEF Pool!Members
  <2>2. /\ Len(q) \in Nat /\ b = Spot(q, i) /\ i \in 0..Len(q) /\ i - 1 \in 0..Len(q)
        /\ (i - 1) + 1 = i /\ i + 1 \in 0..(Len(q) + 1) /\ i - 1 \in 0..(Len(q) + 1)
    BY <1>1, <2>1, Spots
  <2>3. l.next[b] = Spot(q, i + 1) /\ l.prev[b] = Spot(q, i - 1)
    BY <2>2 DEF Threads
  <2>4. Spot(q, i + 1) # Nil /\ Spot(q, i - 1) # Nil
    BY <1>1, <2>2, Spots
  <2>. QED  BY <1>2, <2>3, <2>4 DEF InList, Unlinked
<1>3. CASE b \notin Pool!Members(q)
  BY <1>3 DEF Threads, InList, Unlinked
<1>. QED  BY <1>2, <1>3

\* Of a list that threads a sequence the two directions agree.
LEMMA ThreadsCoheres ==
  ASSUME Threads(list, Walk(list))
  PROVE  Coherent
<1> DEFINE q == Walk(list)
<1>1. Queue(q)
  BY DEF Threads
<1>2. ASSUME NEW x \in Node \ {FakeTail}, list.next[x] # Nil
      PROVE  list.prev[list.next[x]] = x
  <2> HIDE DEF q
  <2>1. x \notin Block \ Pool!Members(q)
    BY <1>2 DEF Threads, q
  <2>2. PICK i \in 0..(Len(q) + 1) : x = Spot(q, i)
    BY <1>1, <2>1, Spots
  <2>3. i # Len(q) + 1 /\ Len(q) \in Nat
    BY <1>1, <2>2, Spots
  <2>4. i \in 0..Len(q)
    BY <2>3
  <2>. QED  BY <2>2, <2>4 DEF Threads, q
<1>3. ASSUME NEW x \in Node \ {FakeHead}, list.prev[x] # Nil
      PROVE  list.next[list.prev[x]] = x
  <2> HIDE DEF q
  <2>1. x \notin Block \ Pool!Members(q)
    BY <1>3 DEF Threads, q
  <2>2. PICK i \in 0..(Len(q) + 1) : x = Spot(q, i)
    BY <1>1, <2>1, Spots
  <2>3. i # 0 /\ Len(q) \in Nat
    BY <1>1, <2>2, Spots
  <2>4. i - 1 \in 0..Len(q) /\ (i - 1) + 1 = i
    BY <2>3
  <2>. QED  BY <2>2, <2>4 DEF Threads, q
<1>4. \A b \in Block : InList(list, b) \/ Unlinked(list, b)
  BY PointerTests
<1>. QED  BY <1>2, <1>3, <1>4 DEF Coherent

-----------------------------------------------------------------------------
(* The list operations on the sequence.                                    *)

\* What BlockPool assumes of the constants.
LEMMA Assumed ==
  /\ Proved!IsFiniteSet(Block) /\ Block # {}
  /\ IdOrder \in Seq(Block) /\ Proved!Distinct(IdOrder) /\ Proved!Members(IdOrder) = Block
  /\ MaxRef \in Nat \ {0}
<1>1. Proved!IsFiniteSet(Block)
  BY PoolAssumption DEF Proved!IsFiniteSet, IsFiniteSet
<1>2. Proved!Distinct(IdOrder) /\ Proved!Members(IdOrder) = Block
  BY PoolAssumption, SMTT(40) DEF Proved!Distinct, Proved!Members
<1>. QED  BY <1>1, <1>2, PoolAssumption

\* Removal keeps the blocks distinct and removes exactly the one.
LEMMA WithoutIsQueue ==
  ASSUME NEW q, Queue(q), NEW p \in 1..Len(q)
  PROVE  /\ Queue(Pool!Without(q, p))
         /\ Len(Pool!Without(q, p)) = Len(q) - 1
         /\ Pool!Members(Pool!Without(q, p)) = Pool!Members(q) \ {q[p]}
<1>1. q \in Seq(Block) /\ Proved!Distinct(q)
  BY DEF Queue, Pool!Distinct, Proved!Distinct
<1>2. /\ Proved!Without(q, p) \in Seq(Block)
      /\ Len(Proved!Without(q, p)) = Len(q) - 1
      /\ Proved!Distinct(Proved!Without(q, p))
      /\ Proved!Members(Proved!Without(q, p)) = Proved!Members(q) \ {q[p]}
  BY <1>1, Assumed, Proved!WithoutFacts
<1>3. Proved!Without(q, p) = Pool!Without(q, p)
  BY DEF Proved!Without, Pool!Without
<1>4. \A s : Proved!Distinct(s) = Pool!Distinct(s) /\ Proved!Members(s) = Pool!Members(s)
  BY DEF Pool!Distinct, Proved!Distinct, Pool!Members, Proved!Members
<1>. QED  BY <1>2, <1>3, <1>4 DEF Queue

\* A block that is not in the queue can join it at the back.
LEMMA AppendIsQueue ==
  ASSUME NEW q, Queue(q), NEW b \in Block, b \notin Pool!Members(q)
  PROVE  /\ Queue(Append(q, b))
         /\ Len(Append(q, b)) = Len(q) + 1
         /\ Pool!Members(Append(q, b)) = Pool!Members(q) \cup {b}
<1>1. q \in Seq(Block) /\ Proved!Distinct(q) /\ b \notin Proved!Members(q)
  BY DEF Queue, Pool!Distinct, Proved!Distinct, Pool!Members, Proved!Members
<1>2. /\ Append(q, b) \in Seq(Block)
      /\ Len(Append(q, b)) = Len(q) + 1
      /\ Proved!Distinct(Append(q, b))
      /\ Proved!Members(Append(q, b)) = Proved!Members(q) \cup {b}
  BY <1>1, Assumed, Proved!AppendFacts
<1>. QED  BY <1>2 DEF Queue, Pool!Distinct, Proved!Distinct, Pool!Members, Proved!Members

\* remove unlinks a block wherever it is, and clears its two pointers.
LEMMA UnlinkThreads ==
  ASSUME NEW l, NEW q, Threads(l, q), NEW p \in 1..Len(q)
  PROVE  Threads(Unlink(l, q[p]), Pool!Without(q, p))
<1> DEFINE n == Len(q)
           r == Pool!Without(q, p)
           b == q[p]
           m == Unlink(l, b)
<1>0. Queue(q) /\ l \in ListType /\ l.n = n
  BY DEF Threads
<1>1. n \in Nat /\ n - 1 \in Nat /\ p \in Nat /\ p >= 1 /\ p <= n
  BY <1>0, Spots
<1>2. /\ b = Spot(q, p) /\ b \in Block /\ b \in Node
      /\ \A i \in 0..(n + 1) : Spot(q, i) \in Node
      /\ \A i, j \in 0..(n + 1) : Spot(q, i) = Spot(q, j) => i = j
  BY <1>0, Spots DEF Node
<1>3. Queue(r) /\ Len(r) = n - 1 /\ Pool!Members(r) = Pool!Members(q) \ {b}
  BY <1>0, WithoutIsQueue
<1>4. \A i \in 0..n : Spot(r, i) = IF i < p THEN Spot(q, i) ELSE Spot(q, i + 1)
  <2> TAKE i \in 0..n
  <2>1. CASE i = 0
    BY <2>1, <1>1 DEF Spot
  <2>2. CASE i = n
    BY <2>2, <1>1, <1>3 DEF Spot
  <2>3. CASE i \in 1..(n - 1)
    <3>1. Spot(r, i) = r[i] /\ r[i] = IF i < p THEN q[i] ELSE q[i + 1]
      BY <2>3, <1>1, <1>3 DEF Spot, Pool!Without
    <3>2. Spot(q, i) = q[i] /\ Spot(q, i + 1) = q[i + 1]
      BY <2>3, <1>1 DEF Spot
    <3>. QED  BY <3>1, <3>2
  <2>. QED  BY <2>1, <2>2, <2>3, <1>1
<1>5. /\ \A i \in 0..n : l.next[Spot(q, i)] = Spot(q, i + 1)
      /\ \A i \in 0..n : l.prev[Spot(q, i + 1)] = Spot(q, i)
  BY DEF Threads
<1>6. /\ l.next[b] = Spot(q, p + 1) /\ l.prev[b] = Spot(q, p - 1)
      /\ Spot(q, p + 1) \in Node /\ Spot(q, p - 1) \in Node
  <2>1. p \in 0..n /\ p - 1 \in 0..n /\ (p - 1) + 1 = p /\ p + 1 \in 0..(n + 1) /\ p - 1 \in 0..(n + 1)
    BY <1>1
  <2>. QED  BY <2>1, <1>2, <1>5
<1>7. /\ m \in ListType /\ m.n = n - 1
      /\ \A x \in Node : m.next[x] = IF x = b THEN Nil ELSE IF x = Spot(q, p - 1) THEN Spot(q, p + 1)
                                     ELSE l.next[x]
      /\ \A x \in Node : m.prev[x] = IF x = b THEN Nil ELSE IF x = Spot(q, p + 1) THEN Spot(q, p - 1)
                                     ELSE l.prev[x]
  <2> HIDE DEF b
  <2>1. /\ l.next \in [Node -> Node \cup {Nil}] /\ l.prev \in [Node -> Node \cup {Nil}] /\ l.n \in Nat
    BY <1>0 DEF ListType
  <2>2. /\ m.next = [l.next EXCEPT ![Spot(q, p - 1)] = Spot(q, p + 1), ![b] = Nil]
        /\ m.prev = [l.prev EXCEPT ![Spot(q, p + 1)] = Spot(q, p - 1), ![b] = Nil]
        /\ m.n = l.n - 1 /\ m = [prev |-> m.prev, next |-> m.next, n |-> m.n]
    BY <1>6 DEF Unlink
  <2> HIDE DEF m, n
  <2>3. m.next \in [Node -> Node \cup {Nil}] /\ m.prev \in [Node -> Node \cup {Nil}]
    BY <2>1, <2>2, <1>2, <1>6
  <2>4. m.n = n - 1 /\ m.n \in Nat
    BY <2>2, <1>0, <1>1
  <2>5. m \in ListType
    BY <2>2, <2>3, <2>4 DEF ListType
  <2>. QED  BY <2>1, <2>2, <2>4, <2>5, <1>2, <1>6
<1> HIDE DEF m, b, r, n
<1>8. \A i \in 0..(n - 1) : m.next[Spot(r, i)] = Spot(r, i + 1)
  <2> TAKE i \in 0..(n - 1)
  <2>1. i \in 0..n /\ i + 1 \in 0..n /\ i + 2 \in 0..(n + 1) /\ i \in 0..(n + 1) /\ i + 1 \in 0..(n + 1)
        /\ p \in 0..(n + 1) /\ p - 1 \in 0..(n + 1) /\ (i + 1) + 1 = i + 2
    BY <1>1
  <2>2. Spot(r, i + 1) = IF i + 1 < p THEN Spot(q, i + 1) ELSE Spot(q, i + 2)
    BY <2>1, <1>4
  <2>3. CASE i < p - 1
    <3>1. Spot(r, i) = Spot(q, i) /\ Spot(r, i + 1) = Spot(q, i + 1) /\ i # p /\ i # p - 1
      BY <2>1, <2>2, <2>3, <1>1, <1>4
    <3>2. Spot(q, i) # b /\ Spot(q, i) # Spot(q, p - 1)
      BY <3>1, <2>1, <1>2
    <3>. QED  BY <3>1, <3>2, <2>1, <1>2, <1>5, <1>7
  <2>4. CASE i = p - 1
    <3>1. Spot(r, i) = Spot(q, p - 1) /\ Spot(r, i + 1) = Spot(q, p + 1) /\ p - 1 # p
      BY <2>1, <2>2, <2>4, <1>1, <1>4
    <3>2. Spot(q, p - 1) # b
      BY <3>1, <2>1, <1>2
    <3>. QED  BY <3>1, <3>2, <2>1, <1>2, <1>7
  <2>5. CASE i > p - 1
    <3>1. /\ Spot(r, i) = Spot(q, i + 1) /\ Spot(r, i + 1) = Spot(q, i + 2)
          /\ i + 1 # p /\ i + 1 # p - 1
      BY <2>1, <2>2, <2>5, <1>1, <1>4
    <3>2. Spot(q, i + 1) # b /\ Spot(q, i + 1) # Spot(q, p - 1)
      BY <3>1, <2>1, <1>2
    <3>3. m.next[Spot(q, i + 1)] = l.next[Spot(q, i + 1)]
      BY <3>2, <2>1, <1>2, <1>7
    <3>4. l.next[Spot(q, i + 1)] = Spot(q, i + 2)
      BY <2>1, <1>5
    <3>. QED  BY <3>1, <3>3, <3>4
  <2>. QED  BY <2>3, <2>4, <2>5, <1>1
<1>9. \A i \in 0..(n - 1) : m.prev[Spot(r, i + 1)] = Spot(r, i)
  <2> TAKE i \in 0..(n - 1)
  <2>1. i \in 0..n /\ i + 1 \in 0..n /\ i + 2 \in 0..(n + 1) /\ i \in 0..(n + 1) /\ i + 1 \in 0..(n + 1)
        /\ p \in 0..(n + 1) /\ p + 1 \in 0..(n + 1) /\ (i + 1) + 1 = i + 2
    BY <1>1
  <2>2. Spot(r, i + 1) = IF i + 1 < p THEN Spot(q, i + 1) ELSE Spot(q, i + 2)
    BY <2>1, <1>4
  <2>3. CASE i < p - 1
    <3>1. /\ Spot(r, i) = Spot(q, i) /\ Spot(r, i + 1) = Spot(q, i + 1)
          /\ i + 1 # p /\ i + 1 # p + 1
      BY <2>1, <2>2, <2>3, <1>1, <1>4
    <3>2. Spot(q, i + 1) # b /\ Spot(q, i + 1) # Spot(q, p + 1)
      BY <3>1, <2>1, <1>2
    <3>3. m.prev[Spot(q, i + 1)] = l.prev[Spot(q, i + 1)]
      BY <3>2, <2>1, <1>2, <1>7
    <3>. QED  BY <3>1, <3>3, <2>1, <1>5
  <2>4. CASE i = p - 1
    <3>1. /\ Spot(r, i) = Spot(q, p - 1) /\ Spot(r, i + 1) = Spot(q, p + 1) /\ p + 1 # p
      BY <2>1, <2>2, <2>4, <1>1, <1>4
    <3>2. Spot(q, p + 1) # b
      BY <3>1, <2>1, <1>2
    <3>. QED  BY <3>1, <3>2, <2>1, <1>2, <1>7
  <2>5. CASE i > p - 1
    <3>1. /\ Spot(r, i) = Spot(q, i + 1) /\ Spot(r, i + 1) = Spot(q, i + 2)
          /\ i + 2 # p /\ i + 2 # p + 1
      BY <2>1, <2>2, <2>5, <1>1, <1>4
    <3>2. Spot(q, i + 2) # b /\ Spot(q, i + 2) # Spot(q, p + 1)
      BY <3>1, <2>1, <1>2
    <3>3. m.prev[Spot(q, i + 2)] = l.prev[Spot(q, i + 2)]
      BY <3>2, <2>1, <1>2, <1>7
    <3>4. l.prev[Spot(q, i + 2)] = Spot(q, i + 1)
      BY <2>1, <1>5
    <3>. QED  BY <3>1, <3>3, <3>4
  <2>. QED  BY <2>3, <2>4, <2>5, <1>1
<1>10. ASSUME NEW c \in Block \ Pool!Members(r)  PROVE m.next[c] = Nil /\ m.prev[c] = Nil
  <2>1. CASE c = b
    BY <2>1, <1>2, <1>7
  <2>2. CASE c # b
    <3>1. c \in Block \ Pool!Members(q)
      BY <2>2, <1>3
    <3>2. l.next[c] = Nil /\ l.prev[c] = Nil
      BY <3>1 DEF Threads
    <3>3. p - 1 \in 0..n /\ p + 1 \in 1..(n + 1) /\ (p + 1) - 1 \in 0..n /\ ((p + 1) - 1) + 1 = p + 1
      BY <1>1
    <3>4. l.next[Spot(q, p - 1)] = Spot(q, (p - 1) + 1) /\ l.prev[Spot(q, p + 1)] = Spot(q, p)
      BY <3>3, <1>1, <1>5
    <3>5. c # Spot(q, p - 1) /\ c # Spot(q, p + 1)
      <4>1. (p - 1) + 1 = p /\ b # Nil
        BY <1>1, <1>2, SentinelAssumption
      <4>. QED  BY <4>1, <3>2, <3>4, <1>2
    <3>. QED  BY <2>2, <3>2, <3>5, <1>7 DEF Node
  <2>. QED  BY <2>1, <2>2
<1>11. m.next[FakeTail] = Nil /\ m.prev[FakeHead] = Nil
  <2>1. l.next[FakeTail] = Nil /\ l.prev[FakeHead] = Nil
    BY DEF Threads
  <2>2. FakeTail = Spot(q, n + 1) /\ FakeHead = Spot(q, 0)
    BY <1>0, Spots DEF n
  <2>3. n + 1 \in 0..(n + 1) /\ 0 \in 0..(n + 1) /\ p - 1 \in 0..(n + 1) /\ p + 1 \in 0..(n + 1)
        /\ n + 1 # p - 1 /\ 0 # p + 1
    BY <1>1
  <2>4. FakeTail # Spot(q, p - 1) /\ FakeHead # Spot(q, p + 1)
    BY <2>2, <2>3, <1>2
  <2>. QED  BY <2>1, <2>4, <1>7 DEF Node
<1>. QED  BY <1>3, <1>7, <1>8, <1>9, <1>10, <1>11 DEF Threads, m, b, r, n

\* popleft hands out the head of the queue and unlinks it.
LEMMA PopThreads ==
  ASSUME NEW l, NEW q, Threads(l, q), q # <<>>
  PROVE  First(l) = q[1] /\ Threads(PopLeft(l), Pool!Without(q, 1))
<1>1. Queue(q) /\ 1 \in 1..Len(q) /\ l \in ListType
  BY DEF Threads, Queue
<1> DEFINE b == q[1]
           after == Spot(q, 2)
<1>2. b = Spot(q, 1) /\ after \in Node /\ b \in Node /\ b # after /\ b # FakeHead /\ after # FakeHead
  <2>1. Len(q) \in Nat /\ 0 \in 0..(Len(q) + 1) /\ 1 \in 0..(Len(q) + 1) /\ 2 \in 0..(Len(q) + 1)
    BY <1>1, Spots
  <2>2. b = Spot(q, 1) /\ FakeHead = Spot(q, 0)
    BY <1>1, Spots
  <2>. QED  BY <1>1, <2>1, <2>2, Spots
<1>3. l.next[FakeHead] = b /\ l.prev[b] = FakeHead /\ l.next[b] = after
  <2>1. 0 \in 0..Len(q) /\ 1 \in 0..Len(q) /\ Spot(q, 0) = FakeHead /\ 0 + 1 = 1 /\ 1 + 1 = 2
    BY <1>1, Spots
  <2>. QED  BY <1>2, <2>1 DEF Threads
<1>4. PopLeft(l) = Unlink(l, b)
  <2> HIDE DEF b, after
  <2>1. l.prev \in [Node -> Node \cup {Nil}]
    BY <1>1 DEF ListType
  <2>2. PopLeft(l) = [prev |-> [x \in Node |-> IF x = b THEN Nil
                                               ELSE IF x = after THEN FakeHead ELSE l.prev[x]],
                      next |-> [l.next EXCEPT ![FakeHead] = after, ![b] = Nil],
                      n    |-> l.n - 1]
    BY <1>3 DEF PopLeft, First
  <2>3. Unlink(l, b) = [prev |-> [l.prev EXCEPT ![after] = FakeHead, ![b] = Nil],
                        next |-> [l.next EXCEPT ![FakeHead] = after, ![b] = Nil],
                        n    |-> l.n - 1]
    BY <1>3 DEF Unlink
  <2>4. [l.prev EXCEPT ![after] = FakeHead, ![b] = Nil]
          = [x \in Node |-> IF x = b THEN Nil ELSE IF x = after THEN FakeHead ELSE l.prev[x]]
    BY <2>1, <1>2
  <2>. QED  BY <2>2, <2>3, <2>4
<1>5. Threads(Unlink(l, b), Pool!Without(q, 1))
  BY <1>1, UnlinkThreads
<1>. QED  BY <1>3, <1>4, <1>5 DEF First

\* append links an unlinked block in before the tail sentinel.
LEMMA AppendThreads ==
  ASSUME NEW l, NEW q, Threads(l, q), NEW b \in Block, b \notin Pool!Members(q)
  PROVE  Threads(AppendTo(l, b), Append(q, b))
<1> DEFINE n == Len(q)
           r == Append(q, b)
           m == AppendTo(l, b)
           last == Spot(q, n)
<1>0. Queue(q) /\ l \in ListType /\ l.n = n /\ n \in Nat
  BY Spots DEF Threads
<1>1. Queue(r) /\ Len(r) = n + 1 /\ Pool!Members(r) = Pool!Members(q) \cup {b}
  BY <1>0, AppendIsQueue
<1>2. /\ b \in Node /\ \A i \in 0..(n + 1) : Spot(q, i) \in Node /\ Spot(q, i) # b
      /\ \A i, j \in 0..(n + 1) : Spot(q, i) = Spot(q, j) => i = j
      /\ FakeTail = Spot(q, n + 1) /\ FakeHead = Spot(q, 0) /\ last \in Node
  <2>1. \A i \in 0..(n + 1) : Spot(q, i) # b
    <3> TAKE i \in 0..(n + 1)
    <3>1. i = 0 \/ i = n + 1 \/ i \in 1..n
      BY <1>0
    <3>2. b # FakeHead /\ b # FakeTail
      BY SentinelAssumption
    <3>. QED  BY <3>1, <3>2, <1>0, Spots
  <2>2. n \in 0..(n + 1)
    BY <1>0
  <2>. QED  BY <2>1, <2>2, <1>0, Spots DEF Node
<1>3. /\ \A i \in 0..n : Spot(r, i) = Spot(q, i)
      /\ Spot(r, n + 1) = b /\ Spot(r, n + 2) = FakeTail
  <2>1. \A i \in 1..n : r[i] = q[i]
    BY <1>0 DEF Queue
  <2>2. r[n + 1] = b
    BY <1>0 DEF Queue
  <2>. QED  BY <1>0, <1>1, <2>1, <2>2 DEF Spot
<1>4. /\ \A i \in 0..n : l.next[Spot(q, i)] = Spot(q, i + 1)
      /\ \A i \in 0..n : l.prev[Spot(q, i + 1)] = Spot(q, i)
      /\ l.prev[FakeTail] = last
  <2>1. n \in 0..n
    BY <1>0
  <2>. QED  BY <2>1, <1>2 DEF Threads
<1>5. /\ m \in ListType /\ m.n = n + 1
      /\ \A x \in Node : m.next[x] = IF x = b THEN FakeTail ELSE IF x = last THEN b ELSE l.next[x]
      /\ \A x \in Node : m.prev[x] = IF x = FakeTail THEN b ELSE IF x = b THEN last ELSE l.prev[x]
  <2> HIDE DEF last
  <2>1. /\ l.next \in [Node -> Node \cup {Nil}] /\ l.prev \in [Node -> Node \cup {Nil}] /\ l.n \in Nat
    BY <1>0 DEF ListType
  <2>2. /\ m.next = [l.next EXCEPT ![last] = b, ![b] = FakeTail]
        /\ m.prev = [l.prev EXCEPT ![b] = last, ![FakeTail] = b]
        /\ m.n = l.n + 1 /\ m = [prev |-> m.prev, next |-> m.next, n |-> m.n]
    BY <1>4 DEF AppendTo
  <2> HIDE DEF m, n
  <2>3. FakeTail \in Node
    BY DEF Node
  <2>4. m.next \in [Node -> Node \cup {Nil}] /\ m.prev \in [Node -> Node \cup {Nil}]
    BY <2>1, <2>2, <2>3, <1>2
  <2>5. m.n = n + 1 /\ m.n \in Nat
    BY <2>2, <1>0
  <2>6. m \in ListType
    BY <2>2, <2>4, <2>5 DEF ListType
  <2>. QED  BY <2>1, <2>2, <2>3, <2>5, <2>6, <1>2
<1> HIDE DEF m, r, n
<1>6. \A i \in 0..(n + 1) : m.next[Spot(r, i)] = Spot(r, i + 1)
  <2> TAKE i \in 0..(n + 1)
  <2>1. CASE i < n
    <3>1. /\ i \in 0..n /\ i + 1 \in 0..n /\ i \in 0..(n + 1) /\ n \in 0..(n + 1) /\ i # n
      BY <1>0, <2>1
    <3>2. Spot(r, i) = Spot(q, i) /\ Spot(r, i + 1) = Spot(q, i + 1)
      BY <3>1, <1>3
    <3>3. Spot(q, i) # b /\ Spot(q, i) # last /\ Spot(q, i) \in Node
      BY <3>1, <1>2
    <3>. QED  BY <3>1, <3>2, <3>3, <1>4, <1>5
  <2>2. CASE i = n
    <3>1. Spot(r, i) = last /\ Spot(r, i + 1) = b /\ last # b
      BY <2>2, <1>0, <1>2, <1>3
    <3>. QED  BY <3>1, <1>2, <1>5
  <2>3. CASE i = n + 1
    <3>1. Spot(r, i) = b /\ Spot(r, i + 1) = FakeTail
      BY <2>3, <1>0, <1>3
    <3>. QED  BY <3>1, <1>2, <1>5
  <2>. QED  BY <2>1, <2>2, <2>3, <1>0
<1>7. \A i \in 0..(n + 1) : m.prev[Spot(r, i + 1)] = Spot(r, i)
  <2> TAKE i \in 0..(n + 1)
  <2>1. CASE i < n
    <3>1. /\ i \in 0..n /\ i + 1 \in 0..n /\ i + 1 \in 0..(n + 1) /\ n + 1 \in 0..(n + 1) /\ i + 1 # n + 1
      BY <1>0, <2>1
    <3>2. Spot(r, i) = Spot(q, i) /\ Spot(r, i + 1) = Spot(q, i + 1)
      BY <3>1, <1>3
    <3>3. Spot(q, i + 1) # b /\ Spot(q, i + 1) # FakeTail /\ Spot(q, i + 1) \in Node
      BY <3>1, <1>2
    <3>. QED  BY <3>1, <3>2, <3>3, <1>4, <1>5
  <2>2. CASE i = n
    <3>1. Spot(r, i) = last /\ Spot(r, i + 1) = b /\ b # FakeTail
      BY <2>2, <1>0, <1>2, <1>3, SentinelAssumption
    <3>. QED  BY <3>1, <1>2, <1>5
  <2>3. CASE i = n + 1
    <3>1. Spot(r, i) = b /\ Spot(r, i + 1) = FakeTail
      BY <2>3, <1>0, <1>3
    <3>. QED  BY <3>1, <1>5 DEF Node
  <2>. QED  BY <2>1, <2>2, <2>3, <1>0
<1>8. ASSUME NEW c \in Block \ Pool!Members(r)  PROVE m.next[c] = Nil /\ m.prev[c] = Nil
  <2>1. c \in Block \ Pool!Members(q) /\ c # b /\ c # FakeTail
    BY <1>1, SentinelAssumption
  <2>2. l.next[c] = Nil /\ l.prev[c] = Nil
    BY <2>1 DEF Threads
  <2>3. l.next[last] = FakeTail
    BY <1>0, <1>2, <1>4
  <2>4. c # last
    BY <2>2, <2>3, SentinelAssumption DEF Node
  <2>. QED  BY <2>1, <2>2, <2>4, <1>5 DEF Node
<1>9. m.next[FakeTail] = Nil /\ m.prev[FakeHead] = Nil
  <2>1. l.next[FakeTail] = Nil /\ l.prev[FakeHead] = Nil
    BY DEF Threads
  <2>2. FakeTail # last /\ FakeTail # b /\ FakeHead # b /\ FakeHead # FakeTail
    <3>1. n \in 0..(n + 1) /\ n + 1 \in 0..(n + 1) /\ n # n + 1
      BY <1>0
    <3>. QED  BY <3>1, <1>2, SentinelAssumption
  <2>. QED  BY <2>1, <2>2, <1>5 DEF Node
<1>. QED
  <2> USE DEF m, r, n
  <2>. QED  BY <1>1, <1>5, <1>6, <1>7, <1>8, <1>9 DEF Threads

\* __init__ links the blocks in id order.
LEMMA FreshThreads == Threads(FreshList, IdOrder)
<1> DEFINE n == Len(IdOrder)
           chain == <<FakeHead>> \o IdOrder \o <<FakeTail>>
           at(x) == CHOOSE i \in DOMAIN chain : chain[i] = x
<1>1. Queue(IdOrder) /\ n \in Nat /\ Pool!Members(IdOrder) = Block
  <2>1. n \in Nat /\ \A i \in 1..n : IdOrder[i] \in Block
    BY PoolAssumption
  <2>2. Pool!Members(IdOrder) = Block
    BY <2>1, PoolAssumption, SMTT(40) DEF Pool!Members
  <2>. QED  BY <2>1, <2>2, PoolAssumption DEF Queue, Pool!Distinct
<1>2. DOMAIN chain = 1..(n + 2) /\ \A i \in 1..(n + 2) : chain[i] = Spot(IdOrder, i - 1)
  <2>1. <<FakeHead>> \o IdOrder \in Seq(Node) /\ Len(<<FakeHead>> \o IdOrder) = n + 1
        /\ \A i \in 1..(n + 1) : (<<FakeHead>> \o IdOrder)[i] = IF i = 1 THEN FakeHead ELSE IdOrder[i - 1]
    BY PoolAssumption DEF Node
  <2> DEFINE front == <<FakeHead>> \o IdOrder
  <2> HIDE DEF front
  <2>2. /\ front \o <<FakeTail>> \in Seq(Node) /\ Len(front \o <<FakeTail>>) = n + 2
        /\ \A i \in 1..(n + 2) :
             (front \o <<FakeTail>>)[i] = IF i <= n + 1 THEN front[i] ELSE FakeTail
    BY <2>1, <1>1 DEF front, Node
  <2>3. ASSUME NEW i \in 1..(n + 2)  PROVE (front \o <<FakeTail>>)[i] = Spot(IdOrder, i - 1)
    <3>1. CASE i = n + 2
      <4>1. ~(i <= n + 1) /\ i - 1 = n + 1 /\ i - 1 # 0
        BY <3>1, <1>1
      <4>. QED  BY <2>2, <4>1 DEF Spot
    <3>2. CASE i # n + 2
      <4>1. i \in 1..(n + 1) /\ i <= n + 1 /\ i - 1 # n + 1 /\ (i = 1 <=> i - 1 = 0)
        BY <3>2, <1>1
      <4>2. (front \o <<FakeTail>>)[i] = front[i]
        BY <2>2, <4>1
      <4>3. front[i] = IF i = 1 THEN FakeHead ELSE IdOrder[i - 1]
        BY <2>1, <4>1 DEF front
      <4>. QED  BY <4>1, <4>2, <4>3 DEF Spot
    <3>. QED  BY <3>1, <3>2
  <2>4. DOMAIN (front \o <<FakeTail>>) = 1..(n + 2)
    BY <2>2
  <2>. QED  BY <2>3, <2>4 DEF front
<1> HIDE DEF chain
<1>3. \A i \in 0..(n + 1) : at(Spot(IdOrder, i)) = i + 1
  <2> TAKE i \in 0..(n + 1)
  <2>1. i + 1 \in 1..(n + 2) /\ chain[i + 1] = Spot(IdOrder, i)
    BY <1>1, <1>2
  <2>2. ASSUME NEW j \in 1..(n + 2), chain[j] = Spot(IdOrder, i)  PROVE j = i + 1
    <3>1. j - 1 \in 0..(n + 1) /\ Spot(IdOrder, j - 1) = Spot(IdOrder, i)
      BY <2>2, <1>1, <1>2
    <3>2. j - 1 = i
      BY <3>1, <1>1, Spots
    <3>. QED  BY <3>2
  <2>. QED  BY <2>1, <2>2, <1>2
<1>4. /\ FreshList.prev = [x \in Node |-> IF x = FakeHead THEN Nil ELSE chain[at(x) - 1]]
      /\ FreshList.next = [x \in Node |-> IF x = FakeTail THEN Nil ELSE chain[at(x) + 1]]
      /\ FreshList.n = n
      /\ FreshList = [prev |-> FreshList.prev, next |-> FreshList.next, n |-> FreshList.n]
  BY DEF FreshList, chain
<1> HIDE DEF at, n
<1>5. Spot(IdOrder, 0) = FakeHead /\ Spot(IdOrder, n + 1) = FakeTail
      /\ (\A i \in 0..(n + 1) : Spot(IdOrder, i) \in Node)
      /\ (\A i, j \in 0..(n + 1) : Spot(IdOrder, i) = Spot(IdOrder, j) => i = j)
      /\ (\A x \in Node : \E i \in 0..(n + 1) : x = Spot(IdOrder, i))
  BY <1>1, Spots DEF n
<1>6. \A i \in 0..n : FreshList.next[Spot(IdOrder, i)] = Spot(IdOrder, i + 1)
  <2> TAKE i \in 0..n
  <2>1. i \in 0..(n + 1) /\ n + 1 \in 0..(n + 1) /\ i # n + 1 /\ (i + 1) + 1 \in 1..(n + 2)
        /\ ((i + 1) + 1) - 1 = i + 1
    BY <1>1
  <2>2. Spot(IdOrder, i) # FakeTail /\ Spot(IdOrder, i) \in Node
    BY <2>1, <1>5
  <2>3. FreshList.next[Spot(IdOrder, i)] = chain[(i + 1) + 1]
    BY <2>1, <2>2, <1>3, <1>4
  <2>. QED  BY <2>1, <2>3, <1>2
<1>7. \A i \in 0..n : FreshList.prev[Spot(IdOrder, i + 1)] = Spot(IdOrder, i)
  <2> TAKE i \in 0..n
  <2>1. i + 1 \in 0..(n + 1) /\ 0 \in 0..(n + 1) /\ i + 1 # 0 /\ i + 1 \in 1..(n + 2)
        /\ ((i + 1) + 1) - 1 = i + 1 /\ (i + 1) - 1 = i
    BY <1>1
  <2>2. Spot(IdOrder, i + 1) # FakeHead /\ Spot(IdOrder, i + 1) \in Node
    BY <2>1, <1>5
  <2>3. FreshList.prev[Spot(IdOrder, i + 1)] = chain[i + 1]
    BY <2>1, <2>2, <1>3, <1>4
  <2>. QED  BY <2>1, <2>3, <1>2
<1>8. FreshList.next[FakeTail] = Nil /\ FreshList.prev[FakeHead] = Nil
  BY <1>4 DEF Node
<1>9. FreshList \in ListType
  <2>1. \A x \in Node : FreshList.next[x] \in Node \cup {Nil}
    <3> TAKE x \in Node
    <3>1. PICK i \in 0..(n + 1) : x = Spot(IdOrder, i)
      BY <1>5
    <3>2. CASE i \in 0..n
      <4>1. i + 1 \in 0..(n + 1)
        BY <3>2, <1>1
      <4>. QED  BY <3>1, <3>2, <4>1, <1>5, <1>6
    <3>3. CASE i = n + 1
      BY <3>1, <3>3, <1>5, <1>8
    <3>. QED  BY <3>2, <3>3, <1>1
  <2>2. \A x \in Node : FreshList.prev[x] \in Node \cup {Nil}
    <3> TAKE x \in Node
    <3>1. PICK i \in 0..(n + 1) : x = Spot(IdOrder, i)
      BY <1>5
    <3>2. CASE i # 0
      <4>1. i - 1 \in 0..n /\ (i - 1) + 1 = i /\ i - 1 \in 0..(n + 1)
        BY <3>2, <1>1
      <4>2. FreshList.prev[x] = Spot(IdOrder, i - 1)
        BY <3>1, <4>1, <1>7
      <4>. QED  BY <4>1, <4>2, <1>5
    <3>3. CASE i = 0
      BY <3>1, <3>3, <1>5, <1>8
    <3>. QED  BY <3>2, <3>3
  <2>3. /\ FreshList.next = [x \in Node |-> FreshList.next[x]]
        /\ FreshList.prev = [x \in Node |-> FreshList.prev[x]]
    BY <1>4
  <2>4. FreshList.next \in [Node -> Node \cup {Nil}] /\ FreshList.prev \in [Node -> Node \cup {Nil}]
    BY <2>1, <2>2, <2>3
  <2>. QED  BY <2>4, <1>1, <1>4 DEF ListType, n
<1>. QED  BY <1>1, <1>4, <1>6, <1>7, <1>8, <1>9 DEF Threads, n

\* A queue has no more blocks than there are.
LEMMA QueueFits ==
  ASSUME NEW q, Queue(q)
  PROVE  Cardinality(Block) \in Nat /\ Len(q) <= Cardinality(Block)
<1>1. q \in [1..Len(q) -> Block] /\ Len(q) \in Nat /\ IsFiniteSet(Block)
  BY PoolAssumption DEF Queue
<1>2. q \in Injection(1..Len(q), Block)
  BY <1>1 DEF Injection, IsInjective, Queue, Pool!Distinct
<1>3. Cardinality(1..Len(q)) = Len(q)
  <2>1. Len(q) \in Int /\ 1 \in Int
    BY <1>1
  <2>2. Cardinality(1..Len(q)) = IF 1 > Len(q) THEN 0 ELSE Len(q) - 1 + 1
    BY <2>1, FS_Interval, Zenon
  <2>. QED  BY <1>1, <2>2
<1>4. Cardinality(1..Len(q)) <= Cardinality(Block)
  BY <1>1, <1>2, FS_Injection
<1>. QED  BY <1>1, <1>3, <1>4, FS_CardinalityType

\* A walk from the head finds the sequence that the list threads.
LEMMA WalkFinds ==
  ASSUME NEW l, NEW q, Threads(l, q)
  PROVE  Walk(l) = q
<1> DEFINE n == Len(q)
           c == Cardinality(Block)
           upto(i) == IF i < n THEN i ELSE n
           x(s) == IF s = <<>> THEN First(l) ELSE l.next[s[Len(s)]]
           Longer(i, s) == IF Len(s) < i - 1 \/ x(s) \in {FakeTail, Nil} THEN s ELSE Append(s, x(s))
           Steps(f) == f = [i \in 0..c |-> IF i = 0 THEN <<>> ELSE Longer(i, f[i - 1])]
           step == CHOOSE f : Steps(f)
           g == [i \in 0..c |-> [j \in 1..upto(i) |-> q[j]]]
<1>1. Queue(q) /\ q \in Seq(Block) /\ n \in Nat /\ c \in Nat /\ n <= c
  BY QueueFits DEF Threads, Queue
<1>2. \A i \in 0..c : g[i] \in Seq(Block) /\ Len(g[i]) = upto(i) /\ \A j \in 1..upto(i) : g[i][j] = q[j]
  BY <1>1
<1>3. g[0] = <<>>
  BY <1>1
<1>4. \A i \in 1..c : g[i] = Longer(i, g[i - 1])
  <2> TAKE i \in 1..c
  <2> DEFINE s == g[i - 1]
  <2>1. i - 1 \in 0..c /\ i \in 0..c
    BY <1>1
  <2>2. s \in Seq(Block) /\ Len(s) = upto(i - 1) /\ \A j \in 1..upto(i - 1) : s[j] = q[j]
    BY <1>2, <2>1
  <2>3. g[i] = [j \in 1..upto(i) |-> q[j]] /\ s = [j \in 1..upto(i - 1) |-> q[j]]
    BY <2>1
  <2> HIDE DEF s, g
  <2>4. CASE i - 1 > n
    <3>1. Len(s) < i - 1 /\ upto(i) = upto(i - 1)
      BY <2>2, <2>4, <1>1
    <3>. QED  BY <2>3, <3>1 DEF s
  <2>5. CASE i - 1 <= n
    <3>1. Len(s) = i - 1 /\ ~(Len(s) < i - 1)
      BY <2>2, <2>5, <1>1
    <3>2. x(s) = Spot(q, i)
      <4>1. CASE i = 1
        <5>1. s = <<>>
          BY <2>2, <3>1, <4>1
        <5>2. 0 \in 0..n /\ Spot(q, 0) = FakeHead /\ 0 + 1 = 1
          BY <1>1, Spots
        <5>. QED  BY <4>1, <5>1, <5>2 DEF Threads, First
      <4>2. CASE i # 1
        <5>1. s # <<>> /\ i - 1 \in 1..upto(i - 1) /\ i - 1 \in 1..n /\ i - 1 \in 0..n /\ (i - 1) + 1 = i
          BY <2>2, <2>5, <3>1, <4>2, <1>1
        <5>2. s[Len(s)] = Spot(q, i - 1)
          BY <2>2, <3>1, <5>1, <1>1, Spots
        <5>. QED  BY <5>1, <5>2 DEF Threads
      <4>. QED  BY <4>1, <4>2
    <3>3. CASE i = n + 1
      <4>1. x(s) = FakeTail /\ upto(i) = upto(i - 1)
        BY <3>2, <3>3, <1>1, Spots
      <4> HIDE DEF x
      <4>. QED  BY <2>3, <4>1 DEF s
    <3>4. CASE i # n + 1
      <4>1. i \in 1..n /\ upto(i) = i /\ upto(i - 1) = i - 1
        BY <2>5, <3>4, <1>1
      <4>2. x(s) = q[i] /\ q[i] \in Block
        BY <4>1, <3>2, <1>1, Spots
      <4>3. x(s) # FakeTail /\ x(s) # Nil
        BY <4>2, SentinelAssumption DEF Node
      <4>4. Append(s, q[i]) = g[i]
        <5>1. Append(s, q[i]) \in Seq(Block) /\ Len(Append(s, q[i])) = i
              /\ \A j \in 1..i : Append(s, q[i])[j] = q[j]
          BY <2>2, <3>1, <4>1, <4>2
        <5>2. Append(s, q[i]) = [j \in 1..i |-> Append(s, q[i])[j]]
          BY <5>1
        <5>. QED  BY <5>1, <5>2, <2>3, <4>1
      <4> HIDE DEF x
      <4>. QED  BY <3>1, <4>2, <4>3, <4>4 DEF s
    <3>. QED  BY <3>3, <3>4
  <2>. QED  BY <2>4, <2>5, <1>1
<1>5. Steps(g)
  <2> HIDE DEF Longer
  <2>1. \A i \in 0..c : i = 0 \/ i \in 1..c
    BY <1>1
  <2>2. \A i \in 0..c : g[i] = IF i = 0 THEN <<>> ELSE Longer(i, g[i - 1])
    BY <2>1, <1>3, <1>4
  <2>3. g = [i \in 0..c |-> g[i]]
    OBVIOUS
  <2> HIDE DEF g
  <2>. QED  BY <2>2, <2>3
<1>6. Steps(step)
  <2> HIDE DEF Steps, g
  <2>. QED  BY <1>5
<1>7. c \in 0..c /\ \A i \in Nat : i <= c => step[i] = g[i]
  <2> HIDE DEF step, Longer, g
  <2>1. step[0] = <<>> /\ \A i \in 1..c : step[i] = Longer(i, step[i - 1])
    BY <1>1, <1>6
  <2> DEFINE T == {i \in Nat : i <= c => step[i] = g[i]}
  <2>2. T \in SUBSET Nat /\ 0 \in T
    BY <2>1, <1>3
  <2>3. ASSUME NEW i \in T  PROVE i + 1 \in T
    <3>1. CASE i + 1 <= c
      <4>1. i \in Nat /\ i + 1 \in 1..c /\ (i + 1) - 1 = i /\ step[i] = g[i]
        BY <3>1, <1>1
      <4>2. step[i + 1] = Longer(i + 1, step[i]) /\ g[i + 1] = Longer(i + 1, g[i])
        BY <2>1, <4>1, <1>4
      <4>. QED  BY <4>1, <4>2
    <3>2. CASE ~(i + 1 <= c)
      BY <3>2
    <3>. QED  BY <3>1, <3>2
  <2>4. T = Nat
    <3> HIDE DEF T
    <3>. QED  BY <2>2, <2>3, AllNaturals
  <2>. QED  BY <2>4, <1>1
<1>8. Walk(l) = step[c]
  BY DEF Walk
<1>9. g[c] = q
  BY <1>1
<1> HIDE DEF step, g, c
<1>. QED  BY <1>1, <1>7, <1>8, <1>9

\* Rotating a queue keeps its blocks distinct and moves the k-th but first
\* to the head; one popleft and append more is one place more.
LEMMA RotatedIsQueue ==
  ASSUME NEW q, Queue(q), NEW k \in 0..Len(q)
  PROVE  /\ Queue(Pool!Rotated(q, k))
         /\ Len(Pool!Rotated(q, k)) = Len(q)
         /\ k < Len(q) => /\ Pool!Rotated(q, k)[1] = q[k + 1]
                          /\ Append(Pool!Without(Pool!Rotated(q, k), 1), q[k + 1])
                               = Pool!Rotated(q, k + 1)
<1> DEFINE n == Len(q)
           s == Pool!Rotated(q, k)
<1>1. q \in Seq(Block) /\ Proved!Distinct(q) /\ n \in Nat
  BY DEF Queue, Pool!Distinct, Proved!Distinct
<1>2. /\ Proved!Rotated(q, k) \in Seq(Block)
      /\ Len(Proved!Rotated(q, k)) = n
      /\ Proved!Distinct(Proved!Rotated(q, k))
      /\ k < n => Proved!Rotated(q, k)[1] = q[k + 1]
  BY <1>1, Assumed, Proved!RotatedFacts
<1>3. Proved!Rotated(q, k) = s
  BY DEF Proved!Rotated, Pool!Rotated
<1>4. \A t : Proved!Distinct(t) = Pool!Distinct(t)
  BY DEF Pool!Distinct, Proved!Distinct
<1>5. Queue(s) /\ Len(s) = n /\ (k < n => s[1] = q[k + 1])
  BY <1>2, <1>3, <1>4 DEF Queue
<1>6. ASSUME k < n
      PROVE  Append(Pool!Without(s, 1), q[k + 1]) = Pool!Rotated(q, k + 1)
  <2> DEFINE w == Pool!Without(s, 1)
             t == Pool!Rotated(q, k + 1)
  <2>1. \A i \in 1..n : s[i] = IF i <= n - k THEN q[i + k] ELSE q[i - (n - k)]
    BY <1>1 DEF Pool!Rotated
  <2>2. t = [i \in 1..n |-> IF i <= n - (k + 1) THEN q[i + (k + 1)] ELSE q[i - (n - (k + 1))]]
    BY DEF Pool!Rotated
  <2> HIDE DEF s, t
  <2>3. w \in Seq(Block) /\ Len(w) = n - 1 /\ \A i \in 1..(n - 1) : w[i] = s[i + 1]
    <3>1. 1 \in 1..Len(s)
      BY <1>1, <1>5, <1>6
    <3>2. Queue(w) /\ Len(w) = n - 1
      BY <1>5, <3>1, WithoutIsQueue
    <3>3. \A i \in 1..(n - 1) : w[i] = s[i + 1]
      BY <1>1, <1>5 DEF Pool!Without
    <3>. QED  BY <3>2, <3>3 DEF Queue
  <2> HIDE DEF w
  <2>4. q[k + 1] \in Block
    BY <1>1, <1>6
  <2>5. /\ Append(w, q[k + 1]) \in Seq(Block) /\ Len(Append(w, q[k + 1])) = n
        /\ \A i \in 1..n : Append(w, q[k + 1])[i] = IF i < n THEN w[i] ELSE q[k + 1]
    BY <2>3, <2>4, <1>1, <1>6
  <2>6. ASSUME NEW i \in 1..n
        PROVE  Append(w, q[k + 1])[i]
                 = IF i <= n - (k + 1) THEN q[i + (k + 1)] ELSE q[i - (n - (k + 1))]
    <3>1. CASE i = n
      <4>1. ~(i <= n - (k + 1)) /\ i - (n - (k + 1)) = k + 1
        BY <3>1, <1>1
      <4>. QED  BY <3>1, <4>1, <2>5
    <3>2. CASE i < n
      <4>1. i + 1 \in 1..n /\ i \in 1..(n - 1)
        BY <3>2, <1>1
      <4>2. Append(w, q[k + 1])[i] = s[i + 1]
        BY <3>2, <4>1, <2>3, <2>5
      <4>3. s[i + 1] = IF i + 1 <= n - k THEN q[(i + 1) + k] ELSE q[(i + 1) - (n - k)]
        BY <4>1, <2>1
      <4>4. (i + 1 <= n - k <=> i <= n - (k + 1)) /\ (i + 1) + k = i + (k + 1)
            /\ (i + 1) - (n - k) = i - (n - (k + 1))
        BY <1>1
      <4>. QED  BY <4>2, <4>3, <4>4
    <3>3. i = n \/ i < n
      BY <1>1
    <3>. QED  BY <3>1, <3>2, <3>3, Zenon
  <2>7. Append(w, q[k + 1]) = [i \in 1..n |-> Append(w, q[k + 1])[i]]
    BY <2>5
  <2>. QED  BY <2>2, <2>6, <2>7 DEF w, t, s
<1>. QED  BY <1>5, <1>6

\* k turns of popleft and append thread the rotated sequence.
LEMMA TurnedThreads ==
  ASSUME NEW l, NEW q, Threads(l, q), q # <<>>, NEW k \in 0..Len(q)
  PROVE  Threads(Turned(l, k), Pool!Rotated(q, k))
<1> DEFINE n == Len(q)
           S == {m \in ListType : \E s \in Seq(Block) : s # <<>> /\ Threads(m, s)}
           Once(m) == AppendTo(PopLeft(m), First(m))
           G == [i \in 1..k |-> [m \in S |-> Once(m)]]
           Turns(f) == f = [i \in 0..k |-> IF i = 0 THEN l ELSE Once(f[i - 1])]
           turn == CHOOSE f : Turns(f)
<1>1. Queue(q) /\ q \in Seq(Block) /\ n \in Nat /\ l \in ListType /\ k \in Nat /\ n > 0
  BY DEF Threads, Queue
<1>2. ASSUME NEW m, NEW s, Threads(m, s), s # <<>>
      PROVE  /\ Threads(Once(m), Append(Pool!Without(s, 1), s[1]))
             /\ Append(Pool!Without(s, 1), s[1]) \in Seq(Block)
             /\ Append(Pool!Without(s, 1), s[1]) # <<>>
  <2>1. First(m) = s[1] /\ Threads(PopLeft(m), Pool!Without(s, 1))
    BY <1>2, PopThreads
  <2>2. Queue(s) /\ 1 \in 1..Len(s) /\ s[1] \in Block
    BY <1>2 DEF Threads, Queue
  <2>3. s[1] \notin Pool!Members(Pool!Without(s, 1))
    BY <2>2, WithoutIsQueue
  <2>4. Threads(Once(m), Append(Pool!Without(s, 1), s[1]))
    BY <2>1, <2>2, <2>3, AppendThreads
  <2>5. Append(Pool!Without(s, 1), s[1]) \in Seq(Block)
    BY <2>4 DEF Threads, Queue
  <2>6. Pool!Without(s, 1) \in Seq(Block)
    BY <2>1 DEF Threads, Queue
  <2> HIDE DEF Once
  <2>. QED  BY <2>2, <2>4, <2>5, <2>6
<1>3. l \in S
  BY <1>1
<1>4. ASSUME NEW m \in S  PROVE Once(m) \in S
  <2>1. PICK s \in Seq(Block) : s # <<>> /\ Threads(m, s)
    OBVIOUS
  <2> HIDE DEF Once
  <2>. QED  BY <2>1, <1>2 DEF Threads
<1>5. G \in [1..k -> [S -> S]] /\ \A i \in 1..k, m \in S : G[i][m] = Once(m)
  <2> HIDE DEF S, Once
  <2>. QED  BY <1>4
<1>6. PICK f \in [0..k -> S] : f[0] = l /\ \A i \in 1..k : f[i] = G[i][f[i - 1]]
  <2> HIDE DEF G, S
  <2>1. \E f \in [0..k -> S] : Follows(f, k, l, G)
    BY <1>1, <1>3, <1>5, Recursion, Zenon
  <2>. QED  BY <2>1 DEF Follows
<1>7. Turns(f)
  <2> HIDE DEF G, S, Once
  <2>1. \A i \in 1..k : f[i] = Once(f[i - 1])
    <3> TAKE i \in 1..k
    <3>1. f[i - 1] \in S
      BY <1>1, <1>6
    <3>. QED  BY <1>5, <1>6, <3>1
  <2>2. \A i \in 0..k : i # 0 => i \in 1..k
    OBVIOUS
  <2>3. \A i \in 0..k : f[i] = IF i = 0 THEN l ELSE Once(f[i - 1])
    BY <1>6, <2>1, <2>2
  <2>. QED  BY <1>6, <2>3
<1>8. Turns(turn)
  <2> HIDE DEF Turns
  <2>. QED  BY <1>7
<1>9. \A i \in Nat : i <= k => Threads(turn[i], Pool!Rotated(q, i))
  <2>1. turn[0] = l /\ \A i \in 1..k : turn[i] = Once(turn[i - 1])
    <3> HIDE DEF turn, Once
    <3>. QED  BY <1>1, <1>8
  <2> HIDE DEF turn, Once
  <2> DEFINE T == {i \in Nat : i <= k => Threads(turn[i], Pool!Rotated(q, i))}
  <2>2. Pool!Rotated(q, 0) = q
    BY <1>1 DEF Pool!Rotated
  <2>3. T \in SUBSET Nat /\ 0 \in T
    BY <2>1, <2>2
  <2>4. ASSUME NEW i \in T  PROVE i + 1 \in T
    <3>1. CASE i + 1 <= k
      <4> DEFINE s == Pool!Rotated(q, i)
      <4>1. /\ i \in Nat /\ i + 1 \in 1..k /\ (i + 1) - 1 = i /\ i \in 0..Len(q) /\ i < Len(q)
            /\ Threads(turn[i], s)
        BY <3>1, <1>1
      <4>2. Len(s) = n /\ s[1] = q[i + 1]
            /\ Append(Pool!Without(s, 1), q[i + 1]) = Pool!Rotated(q, i + 1)
        BY <4>1, <1>1, RotatedIsQueue
      <4>3. s # <<>>
        <5> HIDE DEF s
        <5>. QED  BY <4>2, <1>1
      <4>4. Threads(Once(turn[i]), Append(Pool!Without(s, 1), s[1]))
        <5> HIDE DEF s
        <5>. QED  BY <4>1, <4>3, <1>2
      <4>5. turn[i + 1] = Once(turn[i])
        BY <4>1, <2>1
      <4>6. Threads(turn[i + 1], Pool!Rotated(q, i + 1))
        <5> HIDE DEF s
        <5>. QED  BY <4>2, <4>4, <4>5
      <4>7. i + 1 \in Nat
        BY <4>1
      <4>. QED  BY <4>6, <4>7
    <3>2. CASE ~(i + 1 <= k)
      BY <3>2
    <3>. QED  BY <3>1, <3>2
  <2>5. T = Nat
    <3> HIDE DEF T
    <3>. QED  BY <2>3, <2>4, AllNaturals
  <2>. QED  BY <2>5
<1>10. Turned(l, k) = turn[k]
  BY DEF Turned
<1> HIDE DEF turn
<1>. QED  BY <1>1, <1>9, <1>10

-----------------------------------------------------------------------------
(* Every step keeps the list threaded, and is the step of BlockPool on the *)
(* sequence that the walk finds.                                           *)

LinkedInv ==
  /\ Threads(list, Walk(list))
  /\ refCount \in [Block -> Nat]
  /\ statAlloc \in Int
  /\ statFree \in Int

\* To know what the next list threads is to know the next queue.
LEMMA NextQueue ==
  ASSUME NEW q, Threads(list', q)
  PROVE  Walk(list)' = q /\ Threads(list, Walk(list))'
<1>1. Walk(list') = q
  BY WalkFinds
<1>. QED  BY <1>1

\* allocate_block turns past the pending blocks and pops the first other.
LEMMA TakeMaps ==
  ASSUME LinkedInv, NEW k \in 0..(list.n - 1), Take(k)
  PROVE  LinkedInv' /\ Pool!Take(k)
<1> DEFINE q == Walk(list)
           l == Turned(list, k)
           s == Pool!Rotated(q, k)
<1>1. Threads(list, q) /\ Queue(q) /\ list.n = Len(q) /\ Len(q) \in Nat
  BY Spots DEF LinkedInv, Threads
<1>2. k \in 0..(Len(q) - 1) /\ k \in 0..Len(q) /\ k < Len(q) /\ q # <<>> /\ q[k + 1] \in Block
  BY <1>1 DEF Queue
<1>3. Threads(l, s)
  BY <1>1, <1>2, TurnedThreads
<1>4. Len(s) = Len(q) /\ s[1] = q[k + 1]
  BY <1>1, <1>2, RotatedIsQueue
<1>5. s # <<>>
  <2> HIDE DEF s, q
  <2>. QED  BY <1>1, <1>2, <1>4
<1>6. First(l) = q[k + 1] /\ Threads(PopLeft(l), Pool!Without(s, 1))
  BY <1>3, <1>4, <1>5, PopThreads
<1>7. /\ list' = PopLeft(l)
      /\ refCount' = [refCount EXCEPT ![q[k + 1]] = 1]
      /\ allocated' = allocated \cup {q[k + 1]}
      /\ statAlloc' = statAlloc + 1 /\ statFree' = statFree - 1
  BY <1>6 DEF Take
<1>8. Walk(list)' = Pool!Without(s, 1) /\ Threads(list, Walk(list))'
  BY <1>6, <1>7, NextQueue
<1>9. list'.n = list.n - 1
  <2>1. l.n = Len(s)
    BY <1>3 DEF Threads
  <2>. QED  BY <2>1, <1>1, <1>4, <1>7 DEF PopLeft
<1>10. LinkedInv'
  <2>1. refCount' \in [Block -> Nat] /\ statAlloc' \in Int /\ statFree' \in Int
    BY <1>2, <1>7 DEF LinkedInv
  <2>. QED  BY <2>1, <1>8 DEF LinkedInv
<1>11. Pool!Take(k)
  <2>1. list.n # 0
    BY DEF Take
  <2>. QED  BY <2>1, <1>1, <1>2, <1>7, <1>8, <1>9 DEF Pool!Take
<1>. QED  BY <1>10, <1>11

\* append of a block whose two pointers are clear.
LEMMA AppendMaps ==
  ASSUME LinkedInv, NEW b \in Block, Unlinked(list, b), list' = AppendTo(list, b)
  PROVE  /\ ~Pool!Linked(b)
         /\ Walk(list)' = Append(Walk(list), b) /\ Threads(list, Walk(list))'
         /\ list'.n = list.n + 1
<1>1. Threads(list, Walk(list))
  BY DEF LinkedInv
<1>2. b \notin Pool!Members(Walk(list))
  BY <1>1, PointerTests
<1>3. Threads(list', Append(Walk(list), b))
  BY <1>1, <1>2, AppendThreads
<1>4. list'.n = list.n + 1
  BY DEF AppendTo
<1>. QED  BY <1>2, <1>3, <1>4, NextQueue DEF Pool!Linked

\* remove of a block whose two pointers are set.
LEMMA UnlinkMaps ==
  ASSUME LinkedInv, NEW b \in Block, InList(list, b), list' = Unlink(list, b)
  PROVE  /\ Pool!Linked(b) /\ Pool!Dequeue(b) /\ Threads(list, Walk(list))'
<1>1. Threads(list, Walk(list))
  BY DEF LinkedInv
<1>2. b \in Pool!Members(Walk(list))
  BY <1>1, PointerTests
<1>3. PICK p \in 1..Len(Walk(list)) : Walk(list)[p] = b
  BY <1>2 DEF Pool!Members
<1>4. Threads(list', Pool!Without(Walk(list), p))
  BY <1>1, <1>3, UnlinkThreads
<1>5. Walk(list)' = Pool!Without(Walk(list), p) /\ Threads(list, Walk(list))'
  BY <1>4, NextQueue
<1>6. list'.n = list.n - 1
  BY DEF Unlink
<1>. QED  BY <1>2, <1>3, <1>5, <1>6 DEF Pool!Linked, Pool!Dequeue

\* The caller's test means what BlockPool asks: linked or not.
LEMMA TestMaps ==
  ASSUME LinkedInv, NEW b \in Block
  PROVE  (InList(list, b) <=> Pool!Linked(b)) /\ (Unlinked(list, b) <=> ~Pool!Linked(b))
BY PointerTests DEF LinkedInv, Pool!Linked

\* A step that leaves the list alone leaves the queue alone.
LEMMA StillMaps ==
  ASSUME LinkedInv, list' = list
  PROVE  Walk(list)' = Walk(list) /\ list'.n = list.n /\ Threads(list, Walk(list))'
<1>1. Threads(list', Walk(list))
  BY DEF LinkedInv
<1>. QED  BY <1>1, NextQueue

\* free_block.
LEMMA FreeMaps ==
  ASSUME LinkedInv, NEW b \in Block, FreeBlock(b)
  PROVE  LinkedInv' /\ Pool!FreeBlock(b)
<1>1. /\ b \in allocated /\ refCount[b] > 0 /\ refCount' = [refCount EXCEPT ![b] = @ - 1]
      /\ refCount[b] \in Nat /\ refCount' \in [Block -> Nat]
  BY DEF FreeBlock, LinkedInv
<1>2. CASE refCount[b] > 1
  <2>1. UNCHANGED <<list, allocated, statAlloc, statFree>> /\ refCount[b] # 1
    BY <1>1, <1>2 DEF FreeBlock
  <2>2. Walk(list)' = Walk(list) /\ list'.n = list.n /\ Threads(list, Walk(list))'
    BY <2>1, StillMaps
  <2>. QED  BY <1>1, <2>1, <2>2 DEF LinkedInv, Pool!FreeBlock
<1>3. CASE ~(refCount[b] > 1) /\ Unlinked(list, b)
  <2>1. /\ refCount[b] = 1 /\ allocated' = allocated \ {b} /\ statAlloc' = statAlloc - 1
        /\ list' = AppendTo(list, b) /\ statFree' = statFree + 1
    BY <1>1, <1>3 DEF FreeBlock
  <2>2. /\ ~Pool!Linked(b) /\ Walk(list)' = Append(Walk(list), b) /\ list'.n = list.n + 1
        /\ Threads(list, Walk(list))'
    BY <1>3, <2>1, AppendMaps
  <2>. QED  BY <1>1, <2>1, <2>2 DEF LinkedInv, Pool!FreeBlock, Pool!Enqueue
<1>4. CASE ~(refCount[b] > 1) /\ ~Unlinked(list, b)
  <2>1. /\ refCount[b] = 1 /\ allocated' = allocated \ {b} /\ statAlloc' = statAlloc - 1
        /\ list' = list /\ statFree' = statFree
    BY <1>1, <1>4 DEF FreeBlock
  <2>2. Pool!Linked(b)
    BY <1>4, TestMaps
  <2>3. Walk(list)' = Walk(list) /\ list'.n = list.n /\ Threads(list, Walk(list))'
    BY <2>1, StillMaps
  <2>. QED  BY <1>1, <2>1, <2>2, <2>3 DEF LinkedInv, Pool!FreeBlock
<1>. QED  BY <1>2, <1>3, <1>4

\* release_request_refs.
LEMMA ReleaseMaps ==
  ASSUME LinkedInv, NEW b \in Block, ReleaseRef(b)
  PROVE  LinkedInv' /\ Pool!ReleaseRef(b)
<1>1. /\ b \in allocated /\ refCount[b] > 0 /\ refCount' = [refCount EXCEPT ![b] = @ - 1]
      /\ refCount' \in [Block -> Nat] /\ allocated' = allocated
  BY DEF ReleaseRef, LinkedInv
<1>2. CASE refCount[b] = 1 /\ Unlinked(list, b)
  <2>1. /\ list' = AppendTo(list, b) /\ statFree' = statFree + 1
        /\ statAlloc' = IF statAlloc > 0 THEN statAlloc - 1 ELSE 0
    BY <1>2 DEF ReleaseRef
  <2>2. /\ ~Pool!Linked(b) /\ Walk(list)' = Append(Walk(list), b) /\ list'.n = list.n + 1
        /\ Threads(list, Walk(list))'
    BY <1>2, <2>1, AppendMaps
  <2>3. statAlloc' = Pool!AtLeastZero(statAlloc - 1) /\ statAlloc' \in Int /\ statFree' \in Int
    BY <2>1 DEF LinkedInv, Pool!AtLeastZero
  <2>. QED  BY <1>1, <1>2, <2>1, <2>2, <2>3 DEF LinkedInv, Pool!ReleaseRef, Pool!Enqueue
<1>3. CASE ~(refCount[b] = 1 /\ Unlinked(list, b))
  <2>1. UNCHANGED <<list, statAlloc, statFree>>
    BY <1>3 DEF ReleaseRef
  <2>2. ~(refCount[b] = 1 /\ ~Pool!Linked(b))
    BY <1>3, TestMaps
  <2>3. Walk(list)' = Walk(list) /\ list'.n = list.n /\ Threads(list, Walk(list))'
    BY <2>1, StillMaps
  <2>. QED  BY <1>1, <2>1, <2>2, <2>3 DEF LinkedInv, Pool!ReleaseRef
<1>. QED  BY <1>2, <1>3

\* touch.
LEMMA TouchMaps ==
  ASSUME LinkedInv, NEW b \in Block, Touch(b)
  PROVE  LinkedInv' /\ Pool!Touch(b)
<1>1. /\ refCount[b] < MaxRef /\ refCount' = [refCount EXCEPT ![b] = @ + 1]
      /\ refCount' \in [Block -> Nat]
  BY DEF Touch, LinkedInv
<1>2. CASE refCount[b] = 0 /\ InList(list, b)
  <2>1. /\ list' = Unlink(list, b) /\ statFree' = statFree - 1 /\ statAlloc' = statAlloc + 1
        /\ allocated' = allocated \cup {b}
    BY <1>2 DEF Touch
  <2>2. Pool!Linked(b) /\ Pool!Dequeue(b) /\ Threads(list, Walk(list))'
    BY <1>2, <2>1, UnlinkMaps
  <2>. QED  BY <1>1, <1>2, <2>1, <2>2 DEF LinkedInv, Pool!Touch
<1>3. CASE ~(refCount[b] = 0 /\ InList(list, b))
  <2>1. UNCHANGED <<list, allocated, statAlloc, statFree>>
    BY <1>3 DEF Touch
  <2>2. ~(refCount[b] = 0 /\ Pool!Linked(b))
    BY <1>3, TestMaps
  <2>3. Walk(list)' = Walk(list) /\ list'.n = list.n /\ Threads(list, Walk(list))'
    BY <2>1, StillMaps
  <2>. QED  BY <1>1, <2>1, <2>2, <2>3 DEF LinkedInv, Pool!Touch
<1>. QED  BY <1>2, <1>3

\* increment_ref.
LEMMA IncrementMaps ==
  ASSUME LinkedInv, NEW b \in Block, IncrementRef(b)
  PROVE  LinkedInv' /\ Pool!IncrementRef(b)
<1>1. /\ b \in allocated /\ refCount[b] < MaxRef /\ refCount' = [refCount EXCEPT ![b] = @ + 1]
      /\ refCount' \in [Block -> Nat] /\ allocated' = allocated
  BY DEF IncrementRef, LinkedInv
<1>2. CASE refCount[b] = 0 /\ ~Unlinked(list, b) /\ InList(list, b)
  <2>1. /\ list' = Unlink(list, b) /\ statAlloc' = statAlloc + 1
        /\ statFree' = IF statFree > 0 THEN statFree - 1 ELSE 0
    BY <1>2 DEF IncrementRef
  <2>2. Pool!Linked(b) /\ Pool!Dequeue(b) /\ Threads(list, Walk(list))'
    BY <1>2, <2>1, UnlinkMaps
  <2>3. statFree' = Pool!AtLeastZero(statFree - 1) /\ statAlloc' \in Int /\ statFree' \in Int
    BY <2>1 DEF LinkedInv, Pool!AtLeastZero
  <2>. QED  BY <1>1, <1>2, <2>1, <2>2, <2>3 DEF LinkedInv, Pool!IncrementRef
<1>3. CASE ~(refCount[b] = 0 /\ ~Unlinked(list, b) /\ InList(list, b))
  <2>1. UNCHANGED <<list, statAlloc, statFree>>
    BY <1>3 DEF IncrementRef
  <2>2. ~(refCount[b] = 0 /\ Pool!Linked(b))
    BY <1>3, TestMaps
  <2>3. Walk(list)' = Walk(list) /\ list'.n = list.n /\ Threads(list, Walk(list))'
    BY <2>1, StillMaps
  <2>. QED  BY <1>1, <2>1, <2>2, <2>3 DEF LinkedInv, Pool!IncrementRef
<1>. QED  BY <1>2, <1>3

\* evict_lru_blocks and handle_memory_pressure.
LEMMA EvictMaps ==
  ASSUME LinkedInv, NEW k \in 1..list.n, EvictLru(k)
  PROVE  LinkedInv' /\ Pool!EvictLru(k)
<1> DEFINE q == Walk(list)
<1>1. Threads(list, q) /\ Queue(q) /\ list.n = Len(q) /\ Len(q) \in Nat
  BY Spots DEF LinkedInv, Threads
<1>2. k \in 1..Len(q) /\ k \in 0..Len(q) /\ q # <<>>
  <2> HIDE DEF q
  <2>. QED  BY <1>1
<1>3. list' = Turned(list, k) /\ statFree' \in {statFree, list.n}
      /\ UNCHANGED <<refCount, allocated, statAlloc>>
  BY DEF EvictLru
<1>4. Threads(list', Pool!Rotated(q, k))
  BY <1>1, <1>2, <1>3, TurnedThreads
<1>5. Walk(list)' = Pool!Rotated(q, k) /\ Threads(list, Walk(list))'
  BY <1>4, NextQueue
<1>6. list'.n = list.n
  <2>1. list'.n = Len(Pool!Rotated(q, k))
    BY <1>4 DEF Threads
  <2>2. Len(Pool!Rotated(q, k)) = Len(q)
    BY <1>1, <1>2, RotatedIsQueue
  <2>. QED  BY <2>1, <2>2, <1>1
<1>7. LinkedInv'
  <2>1. refCount' \in [Block -> Nat] /\ statAlloc' \in Int /\ statFree' \in Int
    BY <1>1, <1>3 DEF LinkedInv
  <2>. QED  BY <2>1, <1>5 DEF LinkedInv
<1>. QED  BY <1>2, <1>3, <1>5, <1>6, <1>7 DEF Pool!EvictLru

\* __init__, and clear: the list is the fresh one.
LEMMA FreshMaps ==
  /\ Init => LinkedInv /\ Pool!PoolInit
  /\ Rebuild => LinkedInv' /\ Pool!Rebuild
<1>1. Len(IdOrder) \in Nat /\ FreshList.n = Len(IdOrder)
  BY PoolAssumption DEF FreshList
<1>2. ASSUME Init  PROVE LinkedInv /\ Pool!PoolInit
  <2>1. Walk(list) = IdOrder /\ Threads(list, Walk(list))
    BY <1>2, FreshThreads, WalkFinds DEF Init
  <2>. QED  BY <1>1, <1>2, <2>1 DEF Init, LinkedInv, Pool!PoolInit, Pool!FreshPool
<1>3. ASSUME Rebuild  PROVE LinkedInv' /\ Pool!Rebuild
  <2>1. Walk(list)' = IdOrder /\ Threads(list, Walk(list))'
    BY <1>3, FreshThreads, NextQueue DEF Rebuild
  <2>. QED  BY <1>1, <1>3, <2>1 DEF Rebuild, LinkedInv, Pool!Rebuild
<1>. QED  BY <1>2, <1>3

\* A step of the list is a step of the queue, or none.
LEMMA StepMaps ==
  ASSUME LinkedInv, [Next]_vars
  PROVE  LinkedInv' /\ [Pool!PoolNext]_Pool!poolVars
<1>1. list.n = Len(Walk(list))
  BY DEF LinkedInv, Threads
<1>2. ASSUME NEW k \in 0..(list.n - 1), Take(k)  PROVE LinkedInv' /\ Pool!PoolNext
  BY <1>1, <1>2, TakeMaps DEF Pool!PoolNext
<1>3. ASSUME NEW b \in Block, FreeBlock(b)  PROVE LinkedInv' /\ Pool!PoolNext
  BY <1>3, FreeMaps DEF Pool!PoolNext
<1>4. ASSUME NEW b \in Block, ReleaseRef(b)  PROVE LinkedInv' /\ Pool!PoolNext
  BY <1>4, ReleaseMaps DEF Pool!PoolNext
<1>5. ASSUME NEW b \in Block, Touch(b)  PROVE LinkedInv' /\ Pool!PoolNext
  BY <1>5, TouchMaps DEF Pool!PoolNext
<1>6. ASSUME NEW b \in Block, IncrementRef(b)  PROVE LinkedInv' /\ Pool!PoolNext
  BY <1>6, IncrementMaps DEF Pool!PoolNext
<1>7. ASSUME NEW k \in 1..list.n, EvictLru(k)  PROVE LinkedInv' /\ Pool!PoolNext
  BY <1>1, <1>7, EvictMaps DEF Pool!PoolNext
<1>8. CASE Rebuild
  BY <1>8, FreshMaps DEF Pool!PoolNext
<1>9. CASE UNCHANGED vars
  <2>1. Walk(list)' = Walk(list) /\ list'.n = list.n /\ Threads(list, Walk(list))'
    BY <1>9, StillMaps DEF vars
  <2>. QED  BY <1>9, <2>1 DEF vars, LinkedInv, Pool!poolVars
<1>. QED  BY <1>2, <1>3, <1>4, <1>5, <1>6, <1>7, <1>8, <1>9 DEF Next

-----------------------------------------------------------------------------
(* The theorems.                                                           *)

(***************************************************************************)
(* Every operation of FreeKVCacheBlockQueue leaves a list whose pointers   *)
(* thread, in both directions, one sequence of distinct blocks, which a    *)
(* walk from the head finds.                                               *)
(***************************************************************************)
THEOREM LinkedInvariant == Spec => []LinkedInv
<1>1. Init => LinkedInv
  BY FreshMaps
<1>2. LinkedInv /\ [Next]_vars => LinkedInv'
  BY StepMaps
<1>. QED  BY <1>1, <1>2, PTL DEF Spec

(***************************************************************************)
(* The two directions of the list agree, and a block has both pointers set *)
(* or both cleared: the tests of remove, free_block and                    *)
(* release_request_refs cannot disagree.                                   *)
(***************************************************************************)
THEOREM LinkedCoherent == Spec => []Coherent
<1>1. LinkedInv => Coherent
  BY ThreadsCoheres DEF LinkedInv
<1>. QED  BY <1>1, LinkedInvariant, PTL

(***************************************************************************)
(* The pool with the code's linked list implements the pool with a queue:  *)
(* popleft, remove and append never lose, repeat or reorder a block.       *)
(***************************************************************************)
THEOREM LinkedImplementsPool == Spec => ImplementsPool
<1>1. Init => Pool!PoolInit
  BY FreshMaps
<1>2. LinkedInv /\ [Next]_vars => [Pool!PoolNext]_Pool!poolVars
  BY StepMaps
<1>. QED  BY <1>1, <1>2, LinkedInvariant, PTL DEF Spec, ImplementsPool, Pool!PoolSpec

(***************************************************************************)
(* So the code's list has every invariant of the pool: the counter popleft *)
(* trusts is what a walk finds, a block is on the list exactly when nobody *)
(* references it, and the health counters agree with the list.             *)
(***************************************************************************)
THEOREM LinkedPoolCorrect == Spec => []Pool!PoolInv
<1>1. Pool!PoolInit => Proved!PoolInit
  BY DEF Pool!PoolInit, Proved!PoolInit, Pool!FreshPool, Proved!FreshPool
<1>2. [Pool!PoolNext]_Pool!poolVars => [Proved!PoolNext]_Proved!poolVars
  <2>1. \A s, k : Pool!Rotated(s, k) = Proved!Rotated(s, k) /\ Pool!Without(s, k) = Proved!Without(s, k)
    BY DEF Pool!Rotated, Proved!Rotated, Pool!Without, Proved!Without
  <2>2. \A b : Pool!Linked(b) <=> Proved!Linked(b)
    BY DEF Pool!Linked, Proved!Linked, Pool!Members, Proved!Members
  <2>3. \A n : Pool!AtLeastZero(n) = Proved!AtLeastZero(n)
    BY DEF Pool!AtLeastZero, Proved!AtLeastZero
  <2>4. \A b : Pool!Dequeue(b) => Proved!Dequeue(b)
    BY <2>1 DEF Pool!Dequeue, Proved!Dequeue
  <2>5. ASSUME NEW k, Pool!Take(k)  PROVE Proved!Take(k)
    BY <2>1, <2>5 DEF Pool!Take, Proved!Take
  <2>6. ASSUME NEW b, Pool!FreeBlock(b)  PROVE Proved!FreeBlock(b)
    BY <2>2, <2>6 DEF Pool!FreeBlock, Proved!FreeBlock, Pool!Enqueue, Proved!Enqueue
  <2>7. ASSUME NEW b, Pool!ReleaseRef(b)  PROVE Proved!ReleaseRef(b)
    BY <2>2, <2>3, <2>7 DEF Pool!ReleaseRef, Proved!ReleaseRef, Pool!Enqueue, Proved!Enqueue
  <2>8. ASSUME NEW b, Pool!Touch(b)  PROVE Proved!Touch(b)
    BY <2>2, <2>4, <2>8 DEF Pool!Touch, Proved!Touch
  <2>9. ASSUME NEW b, Pool!IncrementRef(b)  PROVE Proved!IncrementRef(b)
    BY <2>2, <2>3, <2>4, <2>9 DEF Pool!IncrementRef, Proved!IncrementRef
  <2>10. ASSUME NEW k, Pool!EvictLru(k)  PROVE Proved!EvictLru(k)
    BY <2>1, <2>10 DEF Pool!EvictLru, Proved!EvictLru
  <2>11. Pool!Rebuild => Proved!Rebuild
    BY DEF Pool!Rebuild, Proved!Rebuild
  <2>12. UNCHANGED Pool!poolVars => UNCHANGED Proved!poolVars
    BY DEF Pool!poolVars, Proved!poolVars
  <2>13. Pool!PoolNext => Proved!PoolNext
    BY <2>5, <2>6, <2>7, <2>8, <2>9, <2>10, <2>11, Zenon DEF Pool!PoolNext, Proved!PoolNext
  <2>. QED  BY <2>12, <2>13
<1>3. Pool!PoolSpec => []Proved!PoolInv
  <2>1. Proved!PoolSpec => []Proved!PoolInv
    BY Assumed, Proved!PoolCorrect
  <2>2. Proved!PoolSpec <=> Proved!PoolInit /\ [][Proved!PoolNext]_Proved!poolVars
    BY DEF Proved!PoolSpec
  <2>3. Pool!PoolSpec <=> Pool!PoolInit /\ [][Pool!PoolNext]_Pool!poolVars
    BY DEF Pool!PoolSpec
  <2>. QED  BY <1>1, <1>2, <2>1, <2>2, <2>3, PTL
<1>4. Proved!PoolInv => Pool!PoolInv
  <2>1. Proved!PoolTypeOK => Pool!PoolTypeOK
    BY DEF Proved!PoolTypeOK, Pool!PoolTypeOK
  <2>2. Proved!QueueExact => Pool!QueueExact
    BY DEF Proved!QueueExact, Pool!QueueExact, Proved!Distinct, Pool!Distinct
  <2>3. Proved!FreeIffUnreferenced => Pool!FreeIffUnreferenced
    BY DEF Proved!FreeIffUnreferenced, Pool!FreeIffUnreferenced, Proved!Linked, Pool!Linked,
           Proved!Members, Pool!Members
  <2>4. Proved!ReferencedIsAllocated => Pool!ReferencedIsAllocated
    BY DEF Proved!ReferencedIsAllocated, Pool!ReferencedIsAllocated
  <2>5. Proved!StatsExact => Pool!StatsExact
    BY DEF Proved!StatsExact, Pool!StatsExact
  <2>. QED  BY <2>1, <2>2, <2>3, <2>4, <2>5 DEF Proved!PoolInv, Pool!PoolInv
<1>5. ImplementsPool <=> Pool!PoolSpec
  BY DEF ImplementsPool
<1>. QED  BY <1>3, <1>4, <1>5, LinkedImplementsPool, PTL
=============================================================================
