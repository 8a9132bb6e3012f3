------------------------- MODULE WorkerLink_proofs -------------------------
(***************************************************************************)
(* The assignment of layers is a partition, whatever the nodes have of     *)
(* memory; the abort, the slots and the tokens of WorkerLink.              *)
(***************************************************************************)
EXTENDS WorkerLink, Queues_proofs, FunctionTheorems

-----------------------------------------------------------------------------
(* Sorting: before each node come those that are before any node before    *)
(* it, so that each has a place of its own.                                *)
LEMMA OrderPermutes ==
  ASSUME NEW n \in Nat, NEW ram \in [1..n -> Nat]
  PROVE  /\ Order(n, ram) \in [1..n -> 1..n]
         /\ \A k, l \in 1..n : Order(n, ram)[k] = Order(n, ram)[l] => k = l
<1> DEFINE N == 1..n
           Ahead(i) == {j \in N : Before(ram, j, i)}
           rank == [i \in N |-> Cardinality(Ahead(i))]
           P == 0..(n - 1)
<1>1. ASSUME NEW i \in N  PROVE IsFiniteSet(Ahead(i)) /\ Cardinality(Ahead(i)) \in Nat
  <2>1. Ahead(i) \in SUBSET (1..n)
    OBVIOUS
  <2>. QED  BY <2>1, BoundedFinite
<1>2. ASSUME NEW i \in N, NEW j \in N, Before(ram, j, i)  PROVE rank[j] < rank[i]
  <2>1. Ahead(j) \cup {j} \in SUBSET Ahead(i)
    BY <1>2 DEF Before
  <2>2. j \notin Ahead(j)
    BY DEF Before
  <2>3. /\ IsFiniteSet(Ahead(j) \cup {j})
        /\ Cardinality(Ahead(j) \cup {j}) = Cardinality(Ahead(j)) + 1
    <3> HIDE DEF Ahead
    <3>. QED  BY <1>1, <2>2, FS_AddElement
  <2>4. Cardinality(Ahead(j) \cup {j}) <= Cardinality(Ahead(i))
    <3> HIDE DEF Ahead
    <3>. QED  BY <1>1, <2>1, FS_Subset
  <2>5. rank[j] = Cardinality(Ahead(j)) /\ rank[i] = Cardinality(Ahead(i))
    OBVIOUS
  <2> HIDE DEF Ahead, rank
  <2>. QED  BY <1>1, <2>3, <2>4, <2>5
<1>3. ASSUME NEW i \in N  PROVE rank[i] \in P
  <2>1. Ahead(i) \cup {i} \in SUBSET (1..n) /\ i \notin Ahead(i)
    BY DEF Before
  <2>2. Cardinality(Ahead(i) \cup {i}) = Cardinality(Ahead(i)) + 1
    <3> HIDE DEF Ahead
    <3>. QED  BY <1>1, <2>1, FS_AddElement
  <2>3. IsFiniteSet(1..n) /\ Cardinality(1..n) = n
    BY FS_Interval
  <2>4. Cardinality(Ahead(i) \cup {i}) <= n
    <3> HIDE DEF Ahead
    <3>. QED  BY <2>1, <2>3, FS_Subset
  <2>5. rank[i] = Cardinality(Ahead(i))
    OBVIOUS
  <2> HIDE DEF Ahead, rank
  <2>. QED  BY <1>1, <2>2, <2>4, <2>5
<1>4. ASSUME NEW i \in N, NEW j \in N, rank[i] = rank[j]  PROVE i = j
  <2>1. Before(ram, i, j) \/ Before(ram, j, i) \/ i = j
    BY DEF Before
  <2>2. rank[i] \in Nat /\ rank[j] \in Nat
    <3> HIDE DEF rank
    <3>. QED  BY <1>3
  <2> HIDE DEF rank
  <2>. QED  BY <1>2, <1>4, <2>1, <2>2
<1>5. rank \in Injection(N, P)
  <2>1. rank \in [N -> P]
    <3>1. DOMAIN rank = N
      OBVIOUS
    <3>. QED  BY <1>3
  <2> HIDE DEF rank
  <2>. QED  BY <2>1, <1>4, Fun_IsInj
<1>6. IsFiniteSet(N) /\ IsFiniteSet(P) /\ Cardinality(N) = n /\ Cardinality(P) = n
  <2>1. IsFiniteSet(1..n) /\ Cardinality(1..n) = n
    BY FS_Interval
  <2>2. IsFiniteSet(0..(n - 1)) /\ Cardinality(0..(n - 1)) = n
    <3>1. 0 \in Int /\ n - 1 \in Int
      OBVIOUS
    <3>2. /\ IsFiniteSet(0..(n - 1))
          /\ Cardinality(0..(n - 1)) = IF 0 > n - 1 THEN 0 ELSE (n - 1) - 0 + 1
      BY <3>1, FS_Interval, Zenon
    <3>. QED  BY <3>2
  <2>. QED  BY <2>1, <2>2
<1>7. rank \in Surjection(N, P)
  <2> HIDE DEF rank, N, P
  <2>. QED  BY <1>5, <1>6, FS_Injection
<1>8. ASSUME NEW k \in N
      PROVE  Order(n, ram)[k] \in N /\ rank[Order(n, ram)[k]] = k - 1
  <2>1. k - 1 \in P
    OBVIOUS
  <2>2. \E i \in N : rank[i] = k - 1
    <3> HIDE DEF rank, N, P
    <3>. QED  BY <1>7, <2>1, Fun_SurjectionProperties
  <2>3. \E i \in N : Cardinality({j \in N : Before(ram, j, i)}) = k - 1
    BY <2>2
  <2>4. Order(n, ram)[k] = CHOOSE i \in N : Cardinality({j \in N : Before(ram, j, i)}) = k - 1
    BY DEF Order
  <2>5. /\ Order(n, ram)[k] \in N
        /\ Cardinality({j \in N : Before(ram, j, Order(n, ram)[k])}) = k - 1
    BY <2>3, <2>4
  <2>. QED  BY <2>5
<1>9. Order(n, ram) \in [1..n -> 1..n]
  <2> DEFINE at(k) == CHOOSE i \in N : Cardinality({j \in N : Before(ram, j, i)}) = k - 1
  <2>0. Order(n, ram) = [k \in 1..n |-> at(k)]
    BY DEF Order
  <2> HIDE DEF at
  <2>1. Order(n, ram) = [k \in 1..n |-> Order(n, ram)[k]]
    BY <2>0
  <2> HIDE DEF rank
  <2>. QED  BY <1>8, <2>1
<1>10. ASSUME NEW k \in 1..n, NEW l \in 1..n, Order(n, ram)[k] = Order(n, ram)[l]
       PROVE  k = l
  <2> HIDE DEF rank
  <2>1. k - 1 = l - 1
    BY <1>8, <1>10
  <2>. QED  BY <2>1
<1>. QED  BY <1>9, <1>10

(* The sum of naturals is a natural. *)
LEMMA TotalIsNatural ==
  ASSUME NEW n \in Nat, NEW cap \in [1..n -> Nat]
  PROVE  Total(n, cap) \in Nat
<1> DEFINE Sum(f) == f = [i \in 0..n |-> IF i = 0 THEN 0 ELSE f[i - 1] + cap[i]]
           G == [i \in 1..n |-> [e \in Nat |-> e + cap[i]]]
           sum == CHOOSE f : Sum(f)
<1>1. G \in [1..n -> [Nat -> Nat]] /\ \A i \in 1..n, e \in Nat : G[i][e] = e + cap[i]
  OBVIOUS
<1>2. PICK f \in [0..n -> Nat] : f[0] = 0 /\ \A i \in 1..n : f[i] = G[i][f[i - 1]]
  <2> HIDE DEF G
  <2>1. 0 \in Nat /\ G \in [1..n -> [Nat -> Nat]]
    BY <1>1
  <2>2. \E f \in [0..n -> Nat] : Follows(f, n, 0, G)
    BY <2>1, Recursion, Zenon
  <2>. QED  BY <2>2 DEF Follows
<1>3. Sum(f)
  <2> HIDE DEF G
  <2>1. \A i \in 1..n : f[i] = f[i - 1] + cap[i]
    <3> TAKE i \in 1..n
    <3>1. f[i - 1] \in Nat
      BY <1>2
    <3>. QED  BY <1>1, <1>2, <3>1
  <2>2. \A i \in 0..n : i # 0 => i \in 1..n
    OBVIOUS
  <2>3. \A i \in 0..n : f[i] = IF i = 0 THEN 0 ELSE f[i - 1] + cap[i]
    BY <1>2, <2>1, <2>2
  <2>. QED  BY <1>2, <2>3
<1>4. Sum(sum)
  <2> HIDE DEF Sum
  <2>. QED  BY <1>3
<1>5. \A i \in Nat : i <= n => sum[i] \in Nat
  <2> HIDE DEF sum
  <2>1. sum[0] = 0 /\ \A i \in 1..n : sum[i] = sum[i - 1] + cap[i]
    BY <1>4
  <2> DEFINE T == {i \in Nat : i <= n => sum[i] \in Nat}
  <2>2. T \in SUBSET Nat /\ 0 \in T
    BY <2>1
  <2>3. ASSUME NEW i \in T, i + 1 <= n  PROVE sum[i + 1] \in Nat
    <3>1. i \in Nat /\ i + 1 \in 1..n /\ (i + 1) - 1 = i /\ sum[i] \in Nat
      BY <2>3
    <3>2. sum[i + 1] = sum[i] + cap[i + 1] /\ cap[i + 1] \in Nat
      BY <2>1, <3>1
    <3>. QED  BY <3>1, <3>2
  <2>4. ASSUME NEW i \in T  PROVE i + 1 \in T
    BY <2>3
  <2>5. T = Nat
    <3> HIDE DEF T
    <3>. QED  BY <2>2, <2>4, AllNaturals
  <2>. QED  BY <2>5
<1>6. Total(n, cap) = sum[n]
  BY DEF Total
<1>. QED  BY <1>5, <1>6

(* The ends of the shares: each follows from the one before it. *)
LEMMA EndsFollow ==
  ASSUME NEW n \in Nat, NEW layers \in Nat, NEW share \in [1..n -> Nat \ {0}]
  PROVE  /\ \A i \in 0..n : Ends(n, share, layers)[i] \in 0..layers
         /\ Ends(n, share, layers)[0] = 0
         /\ \A i \in 1..n : Ends(n, share, layers)[i]
                              = End(i, n, Ends(n, share, layers)[i - 1], share[i], layers)
<1> DEFINE Value(i, e) == End(i, n, e, share[i], layers)
           Is(f) == f = [i \in 0..n |-> IF i = 0 THEN 0 ELSE Value(i, f[i - 1])]
           S == 0..layers
           G == [i \in 1..n |-> [e \in S |-> Value(i, e)]]
           end == CHOOSE f : Is(f)
<1>1. ASSUME NEW i \in 1..n, NEW e \in S  PROVE Value(i, e) \in S
  BY DEF End, Least
<1>2. G \in [1..n -> [S -> S]] /\ \A i \in 1..n, e \in S : G[i][e] = Value(i, e)
  <2> HIDE DEF S, Value
  <2>. QED  BY <1>1
<1>3. 0 \in S
  OBVIOUS
<1>4. PICK f \in [0..n -> S] : f[0] = 0 /\ \A i \in 1..n : f[i] = G[i][f[i - 1]]
  <2> HIDE DEF G, S
  <2>1. G \in [1..n -> [S -> S]]
    BY <1>2
  <2>2. \E f \in [0..n -> S] : Follows(f, n, 0, G)
    BY <2>1, <1>3, Recursion, Zenon
  <2>. QED  BY <2>2 DEF Follows
<1>5. Is(f)
  <2> HIDE DEF G, S, Value
  <2>1. \A i \in 1..n : f[i] = Value(i, f[i - 1])
    <3> TAKE i \in 1..n
    <3>1. f[i - 1] \in S
      BY <1>4
    <3>. QED  BY <1>2, <1>4, <3>1
  <2>2. \A i \in 0..n : i # 0 => i \in 1..n
    OBVIOUS
  <2>3. \A i \in 0..n : f[i] = IF i = 0 THEN 0 ELSE Value(i, f[i - 1])
    BY <1>4, <2>1, <2>2
  <2>. QED  BY <1>4, <2>3
<1>6. Is(end)
  <2> HIDE DEF Is
  <2>. QED  BY <1>5
<1>7. end[0] = 0 /\ \A i \in 1..n : end[i] = Value(i, end[i - 1])
  <2> HIDE DEF end, Value
  <2>. QED  BY <1>6
<1>8. \A i \in Nat : i <= n => end[i] \in S
  <2> HIDE DEF end, Value, S
  <2> DEFINE T == {i \in Nat : i <= n => end[i] \in S}
  <2>2. T \in SUBSET Nat /\ 0 \in T
    BY <1>3, <1>7
  <2>3. ASSUME NEW i \in T, i + 1 <= n  PROVE end[i + 1] \in S
    <3>1. i \in Nat /\ i + 1 \in 1..n /\ (i + 1) - 1 = i /\ end[i] \in S
      BY <2>3
    <3>2. end[i + 1] = Value(i + 1, end[i])
      BY <1>7, <3>1
    <3>. QED  BY <1>1, <3>1, <3>2
  <2>4. ASSUME NEW i \in T  PROVE i + 1 \in T
    BY <2>3
  <2>5. T = Nat
    <3> HIDE DEF T
    <3>. QED  BY <2>2, <2>4, AllNaturals
  <2>. QED  BY <2>5
<1>9. Ends(n, share, layers) = end
  BY DEF Ends
<1> HIDE DEF end, S
<1>10. \A i \in 0..n : end[i] \in S
  BY <1>8
<1>. QED  BY <1>7, <1>9, <1>10 DEF S

(* The ends grow until the layers are given away, at the latest with the   *)
(* last node; the nodes up to there are those that get any.                *)
LEMMA SharesReach ==
  ASSUME NEW n \in Nat \ {0}, NEW layers \in Nat \ {0}, NEW share \in [1..n -> Nat \ {0}],
         NEW end, end = Ends(n, share, layers)
  PROVE  \E m \in 1..n :
           /\ Cardinality({i \in 1..n : end[i - 1] < layers}) = m
           /\ end[m] = layers
           /\ \A i \in 1..m : end[i - 1] < end[i]
<1>1. /\ \A i \in 0..n : end[i] \in 0..layers
      /\ end[0] = 0
      /\ \A i \in 1..n : end[i] = End(i, n, end[i - 1], share[i], layers)
  BY EndsFollow
<1>2. ASSUME NEW i \in 1..n
      PROVE  /\ end[i - 1] \in 0..layers /\ end[i] \in 0..layers
             /\ end[i - 1] < layers => end[i - 1] < end[i]
             /\ end[i - 1] = layers => end[i] = layers
  <2>1. i - 1 \in 0..n /\ i \in 0..n /\ share[i] \in Nat \ {0}
    OBVIOUS
  <2>. QED  BY <1>1, <2>1 DEF End, Least
<1>3. end[n] = layers
  BY <1>1 DEF End
<1> DEFINE T == {i \in 0..n : end[i] = layers}
<1>4. PICK m \in T : \A k \in T : m <= k
  <2>1. n \in T /\ T \in SUBSET Nat
    BY <1>3
  <2> HIDE DEF T
  <2>. QED  BY <2>1, LeastNat
<1>5. m \in 1..n /\ end[m] = layers
  BY <1>1, <1>4
<1>6. ASSUME NEW i \in 1..m  PROVE end[i - 1] < layers
  <2>1. i - 1 \in 0..n /\ i \in 1..n /\ ~(m <= i - 1)
    BY <1>5
  <2>2. end[i - 1] # layers
    BY <1>4, <2>1
  <2>3. end[i - 1] \in 0..layers
    BY <1>1, <2>1
  <2> HIDE DEF T
  <2>. QED  BY <2>2, <2>3
<1>7. \A i \in Nat : m <= i /\ i <= n => end[i] = layers
  <2> DEFINE U == {i \in Nat : m <= i /\ i <= n => end[i] = layers}
  <2>1. U \in SUBSET Nat /\ 0 \in U
    BY <1>5
  <2>2. ASSUME NEW i \in U, m <= i + 1, i + 1 <= n  PROVE end[i + 1] = layers
    <3>1. CASE m = i + 1
      BY <3>1, <1>5
    <3>2. CASE m # i + 1
      <4>1. i \in Nat /\ m <= i /\ i <= n /\ i + 1 \in 1..n /\ (i + 1) - 1 = i
        BY <3>2, <2>2, <1>5
      <4>. QED  BY <4>1, <1>2
    <3>. QED  BY <3>1, <3>2
  <2>3. ASSUME NEW i \in U  PROVE i + 1 \in U
    BY <2>2
  <2>4. U = Nat
    <3> HIDE DEF U
    <3>. QED  BY <2>1, <2>3, AllNaturals
  <2>. QED  BY <2>4
<1>8. {i \in 1..n : end[i - 1] < layers} = 1..m
  <2>1. ASSUME NEW i \in 1..n, end[i - 1] < layers  PROVE i \in 1..m
    <3>1. i - 1 \in Nat /\ i - 1 <= n /\ i \in Nat /\ m \in Nat
      BY <1>5
    <3>2. ~(m <= i - 1)
      BY <2>1, <3>1, <1>7
    <3>. QED  BY <3>1, <3>2
  <2>. QED  BY <2>1, <1>5, <1>6
<1>9. Cardinality(1..m) = m
  BY <1>5, FS_Interval
<1>. QED  BY <1>2, <1>5, <1>6, <1>8, <1>9

(* Every layer belongs to exactly one range and every node has one range   *)
(* at most, whatever the nodes have of memory and however the quotients    *)
(* are rounded.                                                            *)
Divided(ranges, nodes, layers) ==
  /\ Len(ranges) \in 1..Len(nodes)
  /\ ranges \in Seq([node : Members(nodes), lo : 0..layers, hi : 0..layers])
  /\ Partition(ranges, layers)
  /\ \A i, j \in 1..Len(ranges) : ranges[i].node = ranges[j].node => i = j

(* assign_layers_by_ram divides the layers: for any nodes, of any memory. *)
THEOREM AssignPartitions ==
  ASSUME NEW nodes, nodes \in Seq(Members(nodes)), nodes # <<>>, NoRepeats(nodes),
         NEW ram \in [1..Len(nodes) -> Nat], NEW layers \in Nat \ {0}, NEW overhead \in Nat
  PROVE  Divided(Assign(nodes, ram, layers, overhead), nodes, layers)
<1> DEFINE ranges == Assign(nodes, ram, layers, overhead)
           S == Members(nodes)
           n == Len(nodes)
           order == Order(n, ram)
           cap == [i \in 1..n |-> Most(0, ram[order[i]] - overhead)]
           total == Total(n, cap)
           share == [i \in 1..n |->
                       Most(1, IF total > 0 THEN Round(layers * cap[i], total)
                               ELSE Round(layers, n))]
           end == Ends(n, share, layers)
           count == Cardinality({i \in 1..n : end[i - 1] < layers})
<1>1. n \in Nat \ {0} /\ nodes \in [1..n -> S]
  OBVIOUS
<1>2. order \in [1..n -> 1..n] /\ \A k, l \in 1..n : order[k] = order[l] => k = l
  <2> HIDE DEF n
  <2>. QED  BY <1>1, OrderPermutes DEF n
<1>3. ranges = [i \in 1..count |-> [node |-> nodes[order[i]], lo |-> end[i - 1], hi |-> end[i]]]
  BY DEF Assign
<1> HIDE DEF n, order, ranges, S
<1>4. cap \in [1..n -> Nat]
  <2>1. ASSUME NEW i \in 1..n  PROVE Most(0, ram[order[i]] - overhead) \in Nat
    <3>1. ram[order[i]] \in Nat
      BY <1>2 DEF n
    <3>. QED  BY <3>1 DEF Most
  <2>. QED  BY <2>1
<1> HIDE DEF cap
<1>5. total \in Nat
  BY <1>1, <1>4, TotalIsNatural
<1> HIDE DEF total
<1>6. ASSUME NEW a \in Nat, NEW b \in Nat \ {0}  PROVE Round(a, b) \in Int
  <2>1. a \div b \in Int
    BY <1>6
  <2>. QED  BY <2>1 DEF Round
<1>7. share \in [1..n -> Nat \ {0}]
  <2>1. ASSUME NEW i \in 1..n
        PROVE  (IF total > 0 THEN Round(layers * cap[i], total) ELSE Round(layers, n)) \in Int
    <3>1. cap[i] \in Nat
      BY <1>4
    <3>2. layers * cap[i] \in Nat
      BY <3>1
    <3>3. Round(layers, n) \in Int
      BY <1>1, <1>6
    <3>4. total > 0 => Round(layers * cap[i], total) \in Int
      <4> DEFINE a == layers * cap[i]
      <4>1. a \in Nat /\ (total > 0 => total \in Nat \ {0})
        BY <1>5, <3>2
      <4> HIDE DEF a
      <4>2. total > 0 => Round(a, total) \in Int
        BY <1>6, <4>1
      <4>. QED  BY <4>2 DEF a
    <3>. QED  BY <3>3, <3>4
  <2>2. ASSUME NEW k \in Int  PROVE Most(1, k) \in Nat \ {0}
    BY DEF Most
  <2>. QED  BY <2>1, <2>2
<1> HIDE DEF share
<1>8. PICK m \in 1..n : count = m /\ end[m] = layers /\ \A i \in 1..m : end[i - 1] < end[i]
  <2> HIDE DEF end
  <2>. QED  BY <1>1, <1>7, SharesReach DEF end
<1>9. end[0] = 0 /\ \A i \in 0..n : end[i] \in 0..layers
  BY <1>1, <1>7, EndsFollow
<1> HIDE DEF end, count
<1>10. /\ ranges = [i \in 1..m |-> [node |-> nodes[order[i]], lo |-> end[i - 1], hi |-> end[i]]]
       /\ m \in Nat /\ 1 <= m /\ m <= n
  BY <1>1, <1>3, <1>8
<1>11. ASSUME NEW i \in 1..m
       PROVE  /\ ranges[i].node = nodes[order[i]] /\ order[i] \in 1..n
              /\ ranges[i].lo = end[i - 1] /\ ranges[i].hi = end[i]
              /\ ranges[i] \in [node : S, lo : 0..layers, hi : 0..layers]
  <2>1. i \in 1..n /\ i \in 0..n /\ i - 1 \in 0..n
    BY <1>1, <1>10
  <2>2. order[i] \in 1..n /\ nodes[order[i]] \in S
    BY <1>1, <1>2, <2>1
  <2>. QED  BY <1>9, <1>10, <2>1, <2>2
<1>12. DOMAIN ranges = 1..m /\ Len(ranges) = m
       /\ ranges \in Seq([node : S, lo : 0..layers, hi : 0..layers])
  <2>1. ranges \in [1..m -> [node : S, lo : 0..layers, hi : 0..layers]]
    BY <1>10, <1>11
  <2>. QED  BY <1>10, <2>1
<1>13. Partition(ranges, layers)
  <2>1. ranges[1].lo = 0 /\ ranges[Len(ranges)].hi = layers
    <3>1. 1 \in 1..m /\ m \in 1..m /\ 1 - 1 = 0
      BY <1>10
    <3>. QED  BY <1>8, <1>9, <1>11, <1>12, <3>1
  <2>2. \A i \in DOMAIN ranges : ranges[i].lo < ranges[i].hi
    BY <1>8, <1>11, <1>12
  <2>3. ASSUME NEW i \in 1..(Len(ranges) - 1)  PROVE ranges[i].hi = ranges[i + 1].lo
    <3>1. i \in 1..m /\ i + 1 \in 1..m /\ (i + 1) - 1 = i
      BY <1>10, <1>12
    <3>. QED  BY <3>1, <1>11
  <2>. QED  BY <2>1, <2>2, <2>3 DEF Partition
<1>14. ASSUME NEW i \in DOMAIN ranges, NEW j \in DOMAIN ranges, ranges[i].node = ranges[j].node
       PROVE  i = j
  <2>1. i \in 1..m /\ j \in 1..m /\ i \in 1..n /\ j \in 1..n
    BY <1>1, <1>10, <1>12
  <2>2. nodes[order[i]] = nodes[order[j]] /\ order[i] \in 1..n /\ order[j] \in 1..n
    BY <1>11, <1>14, <2>1
  <2>3. order[i] = order[j]
    BY <2>2 DEF NoRepeats, n
  <2>. QED  BY <1>2, <2>1, <2>3
<1>. QED  BY <1>1, <1>10, <1>12, <1>13, <1>14 DEF n, S, ranges, Divided

-----------------------------------------------------------------------------
(* The inductive invariant.  First the shape of the state: where a request *)
(* is in its pass and what connections and slots hold.                     *)
Running == {"forward", "yield", "release"}
Stage == [req : Req, pos : Nat, lo : Nat, hi : Nat]
Run ==
  [pc : {"new", "queued", "forward", "yield", "release", "done"}, at : Nat, pos : Nat,
   pass : Seq(Stage), todo : SUBSET Worker, ended : BOOLEAN, stalled : BOOLEAN]
Asked ==
  [kind : {"forward", "release"}, req : Req, pos : Nat]
    \cup [kind : {"health"}, req : {NoReq}, pos : Nat]
Answered ==
  [kind : {"result", "released"}, req : Req, pos : Nat]
    \cup [kind : {"health", "error"}, req : {NoReq}, pos : Nat]

Part == [node : Members(Node), lo : 0..Layers, hi : 0..Layers]
PipeTypes ==
  /\ pipe \in Seq(Part)
  /\ Len(pipe) >= 1 /\ Partition(pipe, Layers)
  /\ \A i, j \in 1..Len(pipe) : pipe[i].node = pipe[j].node => i = j

Fit(x) ==
  /\ x \in Run /\ x.at <= Len(pipe) + 1 /\ x.pos < MaxTok
  /\ x.pc \in {"new", "queued"} => x.pos = 0 /\ x.pass = <<>> /\ x.at = 0
  /\ x.pc = "forward" => x.at \in 1..Len(pipe)
  /\ x.pc = "yield" => x.at = Len(pipe) + 1
ReqTypes == req \in [Req -> Run] /\ \A r \in Req : Fit(req[r])

LockTypes ==
  /\ lock \in Seq(Req) /\ NoRepeats(lock)
  /\ current \in Req \cup {NoReq} \cup {<<r>> : r \in Chat} /\ aborting \in Req \cup {NoReq}

WireTypes ==
  /\ reader \in [Party -> [st : {"idle", "draining", "sent", "waiting"}, at : Members(Node)]]
  /\ \A x \in Party : ~Idle(x) => reader[x].at \in Worker
  /\ link \in [Worker -> [open : BOOLEAN, out : Seq(Asked), in : Seq(Answered)]]
  /\ shaken \subseteq Worker

CacheTypes ==
  /\ slot \in [Worker -> UNION {[A -> Nat] : A \in SUBSET Req}]
  /\ touched \in [Worker -> SUBSET Req]
  /\ beat \in [todo : SUBSET Worker, count : Nat] /\ upsets \in Nat

Types == PipeTypes /\ ReqTypes /\ LockTypes /\ WireTypes /\ CacheTypes

(* The lock: its holders are the requests under way, its first is the one  *)
(* that runs; an id that is no chat's names that one.                      *)
Turns ==
  /\ Members(lock) = {r \in Req : req[r].pc \in Running \cup {"queued"}}
  /\ \A r \in Req : req[r].pc \in Running => lock[1] = r
  /\ current \in Req \ Chat => req[current].pc \in Running
  /\ AbortAims

(* Who reads asked the stage it is at, or tells that it ended.             *)
ReadsOwn ==
  \A r \in Req : ~Idle(r) =>
    \/ req[r].pc = "forward" /\ At(r).node = reader[r].at
    \/ req[r].pc = "release"

(* The passes of r in a queue are those from a to b - 1, in order, and its *)
(* release is not among the messages.                                      *)
Pass(m, r) == m.kind = "forward" /\ m.req = r
Steps(q, r, a, b) ==
  /\ a <= b
  /\ \A i, j \in 1..Len(q) : i < j /\ Pass(q[i], r) /\ Pass(q[j], r) => q[i].pos < q[j].pos
  /\ \A i \in 1..Len(q) : Pass(q[i], r) => a <= q[i].pos /\ q[i].pos < b
  /\ \A p \in Nat : a <= p /\ p < b => \E i \in 1..Len(q) : Pass(q[i], r) /\ q[i].pos = p
  /\ \A i \in 1..Len(q) : ~(q[i].kind = "release" /\ q[i].req = r)

(* How many passes of r were sent to w.                                    *)
Asks(w, r) ==
  \E i \in 1..Len(pipe) : pipe[i].node = w /\ (i < req[r].at \/ (i = req[r].at /\ ~Idle(r)))
Sent(w, r) ==
  IF \E i \in 1..Len(pipe) : pipe[i].node = w
    THEN IF Asks(w, r) THEN req[r].pos + 1 ELSE req[r].pos
    ELSE 0

Going(w, r) == link[w].open /\ req[r].pc \notin {"release", "done"} /\ ~req[r].stalled
InStep ==
  \A w \in Worker, r \in Req : Going(w, r) => Steps(link[w].out, r, Passes(w, r), Sent(w, r))

(* A connection nobody gave up on or shared: one reader at most, and what  *)
(* is on its way is what that one asked or its answer.                     *)
Own(x, m) ==
  x \in Req /\ req[x].pc = "forward" =>
    \/ m.kind = "error"
    \/ m.kind \in {"forward", "result"} /\ m.req = x /\ m.pos = req[x].pos
Quiet ==
  \A w \in Worker \ shaken :
    /\ \A x, y \in Reading(w) : x = y
    /\ Len(link[w].out) + Len(link[w].in) <= 1
    /\ Reading(w) = {} => Len(link[w].out) = 0 /\ Len(link[w].in) = 0
    /\ \A x \in Reading(w) :
         /\ \A i \in 1..Len(link[w].out) : Own(x, link[w].out[i])
         /\ \A i \in 1..Len(link[w].in) : Own(x, link[w].in[i])

(* What the hidden states went through, when the coordinator's range is    *)
(* the first and no connection was shaken: the stages before this one.     *)
SelfFirst == \A i \in 1..Len(pipe) : pipe[i].node = Self => i = 1
Way ==
  shaken = {} /\ SelfFirst =>
    \A r \in Req : req[r].pc \in {"forward", "yield"} =>
      /\ Len(req[r].pass) = req[r].at - 1
      /\ \A i \in 1..(req[r].at - 1) :
           req[r].pass[i] = [req |-> r, pos |-> req[r].pos, lo |-> pipe[i].lo, hi |-> pipe[i].hi]

LinkInv == Types /\ Turns /\ ReadsOwn /\ InStep /\ Quiet /\ Way

-----------------------------------------------------------------------------
(* Initially.                                                              *)
LEMMA InitInv ==
  ASSUME Init
  PROVE  LinkInv
<1>1. PICK ram \in Rams : pipe = Assign(Node, ram, Layers, Overhead)
  BY DEF Init
<1>2. /\ Node \in Seq(Members(Node)) /\ Node # <<>> /\ NoRepeats(Node)
      /\ Layers \in Nat \ {0} /\ Overhead \in Nat /\ ram \in [1..Len(Node) -> Nat]
  BY LinkAssumption DEF Members
<1>3. Divided(pipe, Node, Layers)
  BY <1>1, <1>2, AssignPartitions
<1>4. PipeTypes
  BY <1>2, <1>3 DEF PipeTypes, Part, Divided
<1>5. Self \in Members(Node) /\ MaxTok \in Nat \ {0} /\ <<>> \in Seq(Stage)
  BY LinkAssumption
<1>6. ReqTypes /\ LockTypes
  <2>1. NoRun \in Run
    BY <1>5 DEF NoRun, Run
  <2>2. lock \in Seq(Req) /\ NoRepeats(lock)
    BY DEF Init, NoRepeats
  <2>3. req \in [Req -> Run] /\ \A r \in Req : req[r] = NoRun
    BY <2>1 DEF Init
  <2>4. Fit(NoRun)
    BY <1>4, <1>5, <2>1 DEF Fit, NoRun, PipeTypes
  <2>. QED  BY <2>2, <2>3, <2>4 DEF Init, ReqTypes, LockTypes
<1>7. WireTypes
  <2>1. NoRead \in [st : {"idle", "draining", "sent", "waiting"}, at : Members(Node)]
        /\ NoRead.st = "idle"
    BY <1>5 DEF NoRead
  <2>. QED  BY <2>1 DEF Init, WireTypes, Idle
<1>8. CacheTypes
  <2>1. <<>> \in UNION {[A -> Nat] : A \in SUBSET Req}
    <3>1. <<>> \in [{} -> Nat]
      OBVIOUS
    <3>. QED  BY <3>1
  <2>. QED  BY <2>1 DEF Init, CacheTypes
<1>9. Turns
  <2>1. Members(lock) = {}
    BY DEF Init, Members
  <2>2. \A r \in Req : req[r].pc = "new"
    BY DEF Init, NoRun
  <2>. QED  BY <2>1, <2>2, LinkAssumption DEF Init, Turns, Running, AbortAims
<1>10. \A x \in Party : Idle(x)
  BY DEF Init, Idle, NoRead
<1>11. ReadsOwn
  BY <1>10 DEF ReadsOwn, Party
<1>12. InStep
  <2> SUFFICES ASSUME NEW w \in Worker, NEW r \in Req
               PROVE  Steps(link[w].out, r, Passes(w, r), Sent(w, r))
    BY DEF InStep
  <2>1. Passes(w, r) = 0
    BY DEF Init, Passes
  <2>2. Idle(r) /\ req[r].at = 0 /\ req[r].pos = 0
    BY <1>10 DEF Init, Party, NoRun
  <2>3. Sent(w, r) = 0
    BY <2>2 DEF Sent, Asks
  <2>4. Len(link[w].out) = 0
    BY DEF Init
  <2>. QED  BY <2>1, <2>3, <2>4 DEF Steps
<1>13. Quiet
  BY <1>10 DEF Init, Quiet, Reading
<1>14. Way
  BY DEF Init, Way, NoRun
<1>. QED  BY <1>4, <1>6, <1>7, <1>8, <1>9, <1>11, <1>12, <1>13, <1>14 DEF LinkInv, Types

-----------------------------------------------------------------------------
(* Types.                                                                  *)

(* What somebody does at a connection after asking.                        *)
AtWire(x) == Read(x) \/ GiveUp(x) \/ Drained(x) \/ (x \in Req /\ Quit(x))

(* The assignments never change.                                           *)
LEMMA PipeStays ==
  ASSUME Types, Next
  PROVE  pipe' = pipe /\ PipeTypes'
<1>1. pipe' = pipe
  BY DEF Next, Coordinator, Loop, Begin, Local, Forward, Resume, Release, Finish, Read, GiveUp,
         Drops, Drained, Quit,
         CheckHealth, Arrive, Cancel, Abort, Close, Beats, Handle, HandlerRaises, Lost, Crash,
         Sweep, SweepStalled, Reaps
<1>. QED  BY <1>1 DEF Types, PipeTypes

(* A run that is changed in one place is typed if what is put there is.    *)
LEMMA OneRun ==
  ASSUME Types, pipe' = pipe, NEW r \in Req, NEW x, Fit(x), req' = [req EXCEPT ![r] = x]
  PROVE  ReqTypes'
<1>1. req' \in [Req -> Run]
  BY DEF Types, ReqTypes, Fit
<1>2. req'[r] = x /\ \A q \in Req \ {r} : req'[q] = req[q]
  BY DEF Types, ReqTypes
<1>3. \A q \in Req : Fit(req'[q])
  BY <1>2 DEF Types, ReqTypes
<1>4. \A y : Fit(y) => Fit(y)'
  BY DEF Fit
<1>. QED  BY <1>1, <1>3, <1>4 DEF ReqTypes

(* A stage that is behind, and the end of a run.                           *)
LEMMA ThroughTypes ==
  ASSUME Types, pipe' = pipe, NEW r \in Req, req[r].pc = "forward", NEW s \in Stage, Through(r, s)
  PROVE  ReqTypes'
<1> DEFINE pc == IF req[r].at = Len(pipe) THEN "yield" ELSE "forward"
           x == [pc |-> pc, at |-> req[r].at + 1, pos |-> req[r].pos,
                 pass |-> Append(req[r].pass, s), todo |-> req[r].todo,
                 ended |-> req[r].ended, stalled |-> req[r].stalled]
<1>1. req[r] \in Run /\ req[r].at \in 1..Len(pipe) /\ req[r].pos < MaxTok /\ Len(pipe) \in Nat
  BY DEF Types, ReqTypes, Fit, PipeTypes
<1>2. Append(req[r].pass, s) \in Seq(Stage)
  BY <1>1 DEF Run
<1>3. x \in Run
  BY <1>1, <1>2 DEF Run
<1>4. req' = [req EXCEPT ![r] = x]
  BY <1>1 DEF Through, Run, Types, ReqTypes
<1>5. Fit(x)
  BY <1>1, <1>3 DEF Fit
<1> HIDE DEF x
<1>. QED  BY <1>4, <1>5, OneRun

(* The end of a run. *)
LEMMA LeavesTypes ==
  ASSUME Types, pipe' = pipe, NEW r \in Req, NEW e \in BOOLEAN, Leaves(r, e)
  PROVE  ReqTypes'
<1> DEFINE x == [req[r] EXCEPT !.pc = "release", !.todo = Worker, !.ended = e]
<1>1. req[r] \in Run /\ req[r].at <= Len(pipe) + 1 /\ req[r].pos < MaxTok
  BY DEF Types, ReqTypes, Fit
<1>2. x \in Run /\ x.at = req[r].at /\ x.pos = req[r].pos /\ x.pc = "release"
  BY <1>1 DEF Run
<1>3. req' = [req EXCEPT ![r] = x]
  BY <1>1 DEF Leaves, Types, ReqTypes
<1> HIDE DEF x
<1>4. Fit(x)
  BY <1>1, <1>2 DEF Fit
<1>. QED  BY <1>3, <1>4, OneRun

(* A read that failed. *)
LEMMA FailsTypes ==
  ASSUME Types, pipe' = pipe, NEW x \in Party, Fails(x)
  PROVE  ReqTypes'
<1>1. CASE UNCHANGED req
  BY <1>1 DEF Types, ReqTypes, Fit
<1>. QED  BY <1>1, LeavesTypes DEF Fails

(* The message an answer is, and the stage it stands for.                  *)
LEMMA AnswerTypes ==
  ASSUME Types, NEW x \in Party, ~Idle(x), link[reader[x].at].in # <<>>
  PROVE  /\ Head(link[reader[x].at].in) \in Answered
         /\ Head(link[reader[x].at].in) = link[reader[x].at].in[1]
         /\ Tail(link[reader[x].at].in) \in Seq(Answered)
<1>1. reader[x].at \in Worker /\ link[reader[x].at].in \in Seq(Answered)
  BY DEF Types, WireTypes
<1>. QED  BY <1>1

(* What is put behind a pass when an answer comes. *)
LEMMA StageTypes ==
  ASSUME Types, NEW r \in Req, req[r].pc = "forward",
         NEW m \in Answered, m.kind = "result"
  PROVE  /\ [req |-> m.req, pos |-> m.pos, lo |-> At(r).lo, hi |-> At(r).hi] \in Stage
         /\ At(r) \in Part
<1>1. req[r].at \in 1..Len(pipe)
  BY DEF Types, ReqTypes, Fit
<1>2. At(r) \in Part
  BY <1>1 DEF Types, PipeTypes, At
<1>3. m.req \in Req /\ m.pos \in Nat
  BY DEF Answered
<1>4. 0..Layers \subseteq Nat
  BY LinkAssumption
<1>. QED  BY <1>2, <1>3, <1>4 DEF Stage, Part

(* The requests stay typed in every step.                                  *)
LEMMA RequestTypes ==
  ASSUME Types, Next
  PROVE  ReqTypes'
<1>0. pipe' = pipe /\ MaxTok \in Nat \ {0} /\ Len(pipe) \in Nat /\ Len(pipe) >= 1
  BY PipeStays, LinkAssumption DEF Types, PipeTypes
<1>1. ASSUME UNCHANGED req  PROVE ReqTypes'
  BY <1>0, <1>1 DEF Types, ReqTypes, Fit
<1>2. ASSUME NEW r \in Req, Arrive(r) \/ Cancel(r) \/ Begin(r) \/ Finish(r)  PROVE ReqTypes'
  <2>1. req[r] \in Run /\ req[r].at <= Len(pipe) + 1 /\ req[r].pos < MaxTok
    BY DEF Types, ReqTypes, Fit
  <2>2. CASE Arrive(r)
    <3> DEFINE x == [req[r] EXCEPT !.pc = "queued"]
    <3>1. x \in Run /\ x.pos = 0 /\ x.pass = <<>> /\ x.at = 0 /\ x.pc = "queued"
      BY <2>1, <2>2 DEF Arrive, Types, ReqTypes, Fit, Run
    <3>2. req' = [req EXCEPT ![r] = x]
      BY <2>2 DEF Arrive, Types, ReqTypes
    <3> HIDE DEF x
    <3>4. Fit(x)
      BY <1>0, <2>1, <3>1, <3>2 DEF Fit
    <3>. QED  BY <1>0, <3>1, <3>2, <3>4, OneRun
  <2>3. CASE Cancel(r)
    <3> DEFINE x == [req[r] EXCEPT !.pc = "done"]
    <3>1. x \in Run /\ x.pos = req[r].pos /\ x.at = req[r].at /\ x.pc = "done"
      BY <2>1 DEF Run
    <3>2. req' = [req EXCEPT ![r] = x]
      BY <2>3 DEF Cancel, Types, ReqTypes
    <3> HIDE DEF x
    <3>4. Fit(x)
      BY <1>0, <2>1, <3>1, <3>2 DEF Fit
    <3>. QED  BY <1>0, <2>1, <3>1, <3>2, <3>4, OneRun
  <2>4. CASE Begin(r)
    <3> DEFINE x == [req[r] EXCEPT !.pc = "forward", !.at = 1]
    <3>1. x \in Run /\ x.pos = req[r].pos /\ x.at = 1 /\ x.pc = "forward"
      BY <2>1 DEF Run
    <3>2. req' = [req EXCEPT ![r] = x]
      BY <2>4 DEF Begin, Types, ReqTypes
    <3> HIDE DEF x
    <3>4. Fit(x)
      BY <1>0, <2>1, <3>1, <3>2 DEF Fit
    <3>. QED  BY <1>0, <2>1, <3>1, <3>2, <3>4, OneRun
  <2>5. CASE Finish(r)
    <3> DEFINE x == [req[r] EXCEPT !.pc = "done", !.pass = <<>>]
    <3>1. x \in Run /\ x.pos = req[r].pos /\ x.at = req[r].at /\ x.pc = "done"
      <4>1. <<>> \in Seq(Stage)
        OBVIOUS
      <4>. QED  BY <2>1, <4>1 DEF Run
    <3>2. req' = [req EXCEPT ![r] = x]
      BY <2>5 DEF Finish, Types, ReqTypes
    <3> HIDE DEF x
    <3>4. Fit(x)
      BY <1>0, <2>1, <3>1, <3>2 DEF Fit
    <3>. QED  BY <1>0, <2>1, <3>1, <3>2, <3>4, OneRun
  <2>. QED  BY <1>2, <2>2, <2>3, <2>4, <2>5
<1>3. ASSUME NEW r \in Req, Local(r)  PROVE ReqTypes'
  <2> DEFINE s == [req |-> r, pos |-> req[r].pos, lo |-> pipe[1].lo, hi |-> pipe[1].hi]
  <2>1. s \in Stage
    <3>1. pipe[1] \in Part
      BY <1>0 DEF Types, PipeTypes
    <3>2. req[r].pos \in Nat
      BY DEF Types, ReqTypes, Run
    <3>3. 0..Layers \subseteq Nat
      BY LinkAssumption
    <3>. QED  BY <3>1, <3>2, <3>3 DEF Stage, Part
  <2>2. req[r].pc = "forward" /\ Through(r, s)
    BY <1>3 DEF Local
  <2> HIDE DEF s
  <2>. QED  BY <1>0, <2>1, <2>2, ThroughTypes
<1>4. ASSUME NEW r \in Req, Forward(r)  PROVE ReqTypes'
  BY <1>0, <1>1, <1>4, LeavesTypes DEF Forward
<1>5. ASSUME NEW r \in Req, Resume(r)  PROVE ReqTypes'
  <2>1. CASE Leaves(r, TRUE)
    BY <1>0, <2>1, LeavesTypes
  <2>2. CASE ~Leaves(r, TRUE)
    <3> DEFINE n == req[r].pos + 1
               x == [req[r] EXCEPT !.pc = "forward", !.at = 1, !.pos = n, !.pass = <<>>]
    <3>1. req[r] \in Run /\ req[r].pos + 1 < MaxTok
      BY <1>5, <2>2 DEF Resume, Types, ReqTypes, Fit
    <3>2. x \in Run /\ x.pos = req[r].pos + 1 /\ x.at = 1 /\ x.pc = "forward"
      <4>1. <<>> \in Seq(Stage) /\ n \in Nat /\ n = req[r].pos + 1
        BY <3>1 DEF Run
      <4> HIDE DEF n
      <4>. QED  BY <3>1, <4>1 DEF Run
    <3>3. req' = [req EXCEPT ![r] = x]
      BY <1>5, <2>2 DEF Resume, Types, ReqTypes
    <3> HIDE DEF x
    <3>4. Fit(x)
      BY <1>0, <3>1, <3>2 DEF Fit
    <3>. QED  BY <1>0, <3>1, <3>2, <3>3, <3>4, OneRun
  <2>. QED  BY <2>1, <2>2
<1>6. ASSUME NEW r \in Req, Close(r)  PROVE ReqTypes'
  BY <1>0, <1>6, LeavesTypes DEF Close
<1>7. ASSUME NEW r \in Req, Release(r)  PROVE ReqTypes'
  <2>1. PICK w \in req[r].todo : req' = [req EXCEPT ![r].todo = @ \ {w}]
    BY <1>7 DEF Release
  <2> DEFINE x == [req[r] EXCEPT !.todo = @ \ {w}]
  <2>2. req[r] \in Run /\ req[r].at <= Len(pipe) + 1 /\ req[r].pos < MaxTok
    BY DEF Types, ReqTypes, Fit
  <2>3. x \in Run /\ x.pos = req[r].pos /\ x.at = req[r].at /\ x.pc = "release"
    BY <2>2, <1>7 DEF Run, Release
  <2>4. req' = [req EXCEPT ![r] = x]
    BY <2>1 DEF Types, ReqTypes
  <2> HIDE DEF x
  <2>5. Fit(x)
    BY <1>0, <2>2, <2>3, <2>4 DEF Fit
  <2>. QED  BY <1>0, <2>2, <2>3, <2>4, <2>5, OneRun
<1>8. ASSUME NEW x \in Party, AtWire(x)  PROVE ReqTypes'
  <2>1. CASE Fails(x)
    BY <1>0, <2>1, FailsTypes
  <2>2. CASE UNCHANGED req
    BY <2>2, <1>1
  <2>3. CASE ~Fails(x) /\ ~UNCHANGED req
    <3> DEFINE m == Head(link[reader[x].at].in)
    <3>1. /\ ~Idle(x) /\ link[reader[x].at].in # <<>> /\ x \in Req /\ req[x].pc = "forward"
          /\ m.kind = "result"
          /\ Through(x, [req |-> m.req, pos |-> m.pos, lo |-> At(x).lo, hi |-> At(x).hi])
      BY <1>8, <2>3 DEF AtWire, Read, Takes, GiveUp, Quit, Drops, Drained, Idle, loop
    <3>2. m \in Answered
      BY <3>1, AnswerTypes
    <3> HIDE DEF m
    <3>. QED  BY <1>0, <3>1, <3>2, StageTypes, ThroughTypes
  <2>. QED  BY <2>1, <2>2, <2>3
<1>9. ASSUME NEW r \in Req, NEW w \in Worker, SweepStalled(w, r)  PROVE ReqTypes'
  <2> DEFINE x == [req[r] EXCEPT !.stalled = TRUE]
  <2>1. req[r] \in Run /\ req[r].at = Len(pipe) + 1 /\ req[r].pos < MaxTok
    BY <1>9 DEF Types, ReqTypes, Fit, SweepStalled
  <2>2. x \in Run /\ x.pos = req[r].pos /\ x.at = req[r].at /\ x.pc = "yield"
    BY <2>1, <1>9 DEF Run, SweepStalled
  <2>3. req' = [req EXCEPT ![r] = x]
    BY <1>9 DEF SweepStalled, Types, ReqTypes
  <2> HIDE DEF x
  <2>5. Fit(x)
    BY <1>0, <2>1, <2>2, <2>3 DEF Fit
  <2>. QED  BY <1>0, <2>1, <2>2, <2>3, <2>5, OneRun
<1>10. ASSUME NEW r \in Req, NEW w \in Worker, Sweep(w, r)  PROVE ReqTypes'
  BY <1>1, <1>10 DEF Sweep
<1>11. ASSUME NEW w \in Worker,
              CheckHealth(w) \/ Handle(w) \/ HandlerRaises(w) \/ Lost(w) \/ Crash(w)
       PROVE ReqTypes'
  BY <1>1, <1>11 DEF CheckHealth, Handle, HandlerRaises, Lost, Crash, loop
<1>12. ASSUME Beats  PROVE ReqTypes'
  BY <1>1, <1>12 DEF Beats, loop
<1>13. CASE Coordinator
  <2>1. ASSUME NEW r \in Req, Loop(r)  PROVE ReqTypes'
    BY <2>1, <1>2, <1>3, <1>4, <1>5, <1>7 DEF Loop
  <2>. QED  BY <1>13, <2>1, <1>8, <1>11 DEF Coordinator, AtWire
<1>14. ASSUME NEW r \in Req, Arrive(r) \/ Cancel(r) \/ Abort(r) \/ Close(r)  PROVE ReqTypes'
  <2>1. CASE Abort(r)
    BY <2>1, <1>1 DEF Abort
  <2>. QED  BY <1>14, <2>1, <1>2, <1>6
<1>15. ASSUME NEW w \in Worker, NEW r \in Req, Sweep(w, r) \/ SweepStalled(w, r)  PROVE ReqTypes'
  BY <1>15, <1>9, <1>10
<1>16. ASSUME NEW x \in Party, Drained(x) \/ (x \in Req /\ Quit(x))  PROVE ReqTypes'
  BY <1>16, <1>8 DEF AtWire
<1>. QED  BY <1>11, <1>12, <1>13, <1>14, <1>15, <1>16 DEF Next, Party

-----------------------------------------------------------------------------
(* The lock and the abort.                                                 *)

(* What a stage that is behind and the end of a run change.                *)
LEMMA ThroughDoes ==
  ASSUME Types, NEW r \in Req, NEW s, Through(r, s), req[r].pc = "forward"
  PROVE  /\ \A q \in Req \ {r} : req'[q] = req[q]
         /\ req'[r].pc = IF req[r].at = Len(pipe) THEN "yield" ELSE "forward"
         /\ req'[r].at = req[r].at + 1 /\ req'[r].pos = req[r].pos
         /\ req'[r].pass = Append(req[r].pass, s) /\ req'[r].stalled = req[r].stalled
<1>1. req \in [Req -> Run]
  BY DEF Types, ReqTypes
<1>. QED  BY <1>1 DEF Through, Run

(* On every way out the workers are to be told. *)
LEMMA LeavesDoes ==
  ASSUME Types, NEW r \in Req, NEW e \in BOOLEAN, Leaves(r, e)
  PROVE  /\ \A q \in Req \ {r} : req'[q] = req[q]
         /\ req'[r].pc = "release" /\ req'[r].todo = Worker
<1>1. req \in [Req -> Run]
  BY DEF Types, ReqTypes
<1>. QED  BY <1>1 DEF Leaves, Run

(* A read that fails ends the pass of a request and nothing else.          *)
LEMMA FailsDoes ==
  ASSUME Types, NEW x \in Party, Fails(x)
  PROVE  /\ \A q \in Req \ {x} : req'[q] = req[q]
         /\ x \in Req => \/ req[x].pc = "forward" /\ req'[x].pc = "release"
                         \/ req[x].pc # "forward" /\ req'[x] = req[x]
<1>1. CASE x \in Req /\ req[x].pc = "forward"
  BY <1>1, LeavesDoes DEF Fails
<1>2. CASE ~(x \in Req /\ req[x].pc = "forward")
  BY <1>2 DEF Fails
<1>. QED  BY <1>1, <1>2

(* Every other step leaves the lock and the ids alone and takes no request *)
(* into a run or out of it.                                                *)
Keeps ==
  /\ UNCHANGED <<lock, current, aborting>>
  /\ \A q \in Req : req'[q].pc = req[q].pc \/ {req[q].pc, req'[q].pc} \subseteq Running

(* Only these five take a request into the lock or out of it. *)
LEMMA OthersKeep ==
  ASSUME Types, Next
  PROVE  Keeps \/ \E r \in Req : Arrive(r) \/ Cancel(r) \/ Begin(r) \/ Abort(r) \/ Finish(r)
<1>1. ASSUME UNCHANGED req, UNCHANGED <<lock, current, aborting>>  PROVE Keeps
  BY <1>1 DEF Keeps
<1>2. ASSUME NEW r \in Req, NEW e \in BOOLEAN, req[r].pc \in Running, Leaves(r, e),
             UNCHANGED <<lock, current, aborting>>
      PROVE  Keeps
  BY <1>2, LeavesDoes DEF Keeps, Running
<1>3. ASSUME NEW r \in Req, NEW s, req[r].pc = "forward", Through(r, s),
             UNCHANGED <<lock, current, aborting>>
      PROVE  Keeps
  BY <1>3, ThroughDoes DEF Keeps, Running
<1>4. req \in [Req -> Run]
  BY DEF Types, ReqTypes
<1>5. ASSUME NEW r \in Req, Local(r)  PROVE Keeps
  BY <1>5, <1>3 DEF Local
<1>6. ASSUME NEW r \in Req, Forward(r)  PROVE Keeps
  BY <1>6, <1>1, <1>2 DEF Forward, Running
<1>7. ASSUME NEW r \in Req, Resume(r)  PROVE Keeps
  <2>1. CASE Leaves(r, TRUE)
    BY <2>1, <1>7, <1>2 DEF Resume, Running
  <2>2. CASE ~Leaves(r, TRUE)
    <3>1. \A q \in Req : q # r => req'[q] = req[q]
      BY <2>2, <1>7, <1>4 DEF Resume
    <3>2. req[r].pc = "yield" /\ req'[r].pc = "forward" /\ UNCHANGED <<lock, current, aborting>>
      <4>1. /\ req' = [req EXCEPT ![r].pc = "forward", ![r].at = 1, ![r].pos = @ + 1,
               ![r].pass = <<>>]
            /\ req[r].pc = "yield" /\ UNCHANGED <<lock, current, aborting>>
        BY <2>2, <1>7 DEF Resume
      <4>2. req'[r] = [req[r] EXCEPT !.pc = "forward", !.at = 1, !.pos = @ + 1, !.pass = <<>>]
        BY <4>1, <1>4
      <4>3. req[r] \in Run
        BY <1>4
      <4>4. req'[r].pc = "forward"
        BY <4>2, <4>3 DEF Run
      <4>. QED  BY <4>1, <4>4
    <3>. QED  BY <3>1, <3>2 DEF Keeps, Running
  <2>. QED  BY <2>1, <2>2
<1>8. ASSUME NEW r \in Req, Close(r)  PROVE Keeps
  BY <1>8, <1>2 DEF Close, Running
<1>9. ASSUME NEW r \in Req, Release(r)  PROVE Keeps
  BY <1>9, <1>4 DEF Release, Keeps
<1>10. ASSUME NEW x \in Party, AtWire(x)  PROVE Keeps
  <2>1. UNCHANGED <<lock, current, aborting>>
    BY <1>10 DEF AtWire, Read, GiveUp, Quit, Drops, Drained, loop
  <2>2. CASE Fails(x)
    BY <2>1, <2>2, FailsDoes DEF Keeps, Running
  <2>3. CASE UNCHANGED req
    BY <2>1, <2>3, <1>1
  <2>4. CASE ~Fails(x) /\ ~UNCHANGED req
    <3>1. x \in Req /\ req[x].pc = "forward" /\ \E s : Through(x, s)
      BY <1>10, <2>4 DEF AtWire, Read, Takes, GiveUp, Quit, Drops, Drained, loop
    <3>. QED  BY <3>1, <2>1, <1>3
  <2>. QED  BY <2>2, <2>3, <2>4
<1>11. ASSUME NEW w \in Worker,
              CheckHealth(w) \/ Handle(w) \/ HandlerRaises(w) \/ Lost(w) \/ Crash(w)
       PROVE Keeps
  BY <1>1, <1>11 DEF CheckHealth, Handle, HandlerRaises, Lost, Crash, loop
<1>12. ASSUME Beats  PROVE Keeps
  BY <1>1, <1>12 DEF Beats, loop
<1>13. ASSUME NEW w \in Worker, NEW r \in Req, Sweep(w, r) \/ SweepStalled(w, r)  PROVE Keeps
  <2>1. UNCHANGED <<lock, current, aborting>>
    BY <1>13 DEF Sweep, SweepStalled, Reaps
  <2>2. \A q \in Req : req'[q].pc = req[q].pc
    BY <1>13, <1>4 DEF Sweep, SweepStalled, Run
  <2>. QED  BY <2>1, <2>2 DEF Keeps
<1>14. ASSUME Coordinator
       PROVE  Keeps \/ \E r \in Req : Begin(r) \/ Finish(r)
  BY <1>14, <1>5, <1>6, <1>7, <1>9, <1>10, <1>11 DEF Coordinator, Loop, AtWire
<1>15. ASSUME NEW x \in Party, Drained(x) \/ (x \in Req /\ Quit(x))  PROVE Keeps
  BY <1>15, <1>10 DEF AtWire
<1>. QED  BY <1>8, <1>11, <1>12, <1>13, <1>14, <1>15 DEF Next, Party

(* The queue of the lock: who is put at the end or taken out of it.        *)
LEMMA HeadStays ==
  ASSUME NEW S, NEW q \in Seq(S), NEW A, Len(q) > 0, q[1] \notin A
  PROVE  Without(q, A)[1] = q[1]
<1> DEFINE n == Len(q)
           K == {i \in 1..n : q[i] \notin A}
           one == Nth(K, 1)
<1>1. n \in Nat /\ 1 \in K /\ K \in SUBSET (1..n)
  OBVIOUS
<1>2. IsFiniteSet(K) /\ Cardinality(K) \in Nat
  BY <1>1, BoundedFinite
<1>3. 1 \in 1..Cardinality(K)
  <2>1. Cardinality(K) # 0
    <3> HIDE DEF K
    <3>. QED  BY <1>1, <1>2, FS_EmptySet
  <2> HIDE DEF K
  <2>. QED  BY <1>2, <2>1
<1>4. one \in K /\ Cardinality({j \in K : j <= one}) = 1
  <2> HIDE DEF K, n
  <2>. QED  BY <1>1, <1>3, NthIsThere
<1>5. one = 1
  <2> DEFINE U == {j \in K : j <= one}
  <2>1. U \in SUBSET K /\ 1 \in U /\ one \in U
    BY <1>1, <1>4
  <2>2. IsFiniteSet(U) /\ Cardinality(U) = 1
    <3>1. Cardinality(U) = 1
      BY <1>4
    <3> HIDE DEF U, K
    <3>. QED  BY <2>1, <1>2, <3>1, FS_Subset
  <2>3. PICK x : U = {x}
    <3> HIDE DEF U
    <3>. QED  BY <2>2, FS_Singleton
  <2> HIDE DEF U, one
  <2>. QED  BY <2>1, <2>3
<1>6. Without(q, A) = [k \in 1..Cardinality(K) |-> q[Nth(K, k)]]
  BY DEF Without
<1> HIDE DEF K
<1>. QED  BY <1>3, <1>5, <1>6

(* An abort stops the request it names, or it names a chat: with it the    *)
(* turns that the lock gives.                                              *)
LEMMA LockStep ==
  ASSUME Types, Turns, Next
  PROVE  LockTypes' /\ Turns'
<1>1. CASE Keeps
  <2>1. LockTypes'
    BY <1>1 DEF Keeps, Types, LockTypes
  <2>2. \A r \in Req : (req'[r].pc \in Running) <=> (req[r].pc \in Running)
    BY <1>1 DEF Keeps
  <2>3. \A r \in Req : (req'[r].pc = "queued") <=> (req[r].pc = "queued")
    BY <1>1 DEF Keeps, Running
  <2>4. \A r \in Req : (req'[r].pc = "done") <=> (req[r].pc = "done")
    BY <1>1 DEF Keeps, Running
  <2>5. AbortAims'
    BY <1>1, <2>2, <2>4, LinkAssumption DEF Keeps, Turns, AbortAims, Running, Types, LockTypes
  <2>. QED  BY <1>1, <2>1, <2>2, <2>3, <2>5 DEF Keeps, Turns
<1>2. /\ lock \in Seq(Req) /\ NoRepeats(lock)
      /\ Members(lock) = {r \in Req : req[r].pc \in Running \cup {"queued"}}
      /\ \A r \in Req : req[r].pc \in Running => lock[1] = r
      /\ req \in [Req -> Run]
  BY DEF Types, LockTypes, ReqTypes, Turns
<1>3. ASSUME NEW r \in Req, Arrive(r)  PROVE LockTypes' /\ Turns'
  <2>1. /\ req'[r].pc = "queued" /\ req[r].pc = "new" /\ \A q \in Req \ {r} : req'[q] = req[q]
        /\ lock' = Append(lock, r) /\ aborting' = aborting
        /\ current' = IF r \in Chat THEN r ELSE current
    BY <1>2, <1>3 DEF Arrive, Run
  <2>2. r \notin Members(lock)
    BY <1>2, <2>1 DEF Running
  <2>3. lock' \in Seq(Req) /\ Members(lock') = Members(lock) \cup {r} /\ NoRepeats(lock')
    BY <1>2, <2>1, <2>2, AppendMembers
  <2>4. ASSUME NEW q \in Req, req'[q].pc \in Running  PROVE lock'[1] = q
    <3>1. q # r /\ req[q].pc \in Running
      BY <2>1, <2>4 DEF Running
    <3>2. lock[1] = q /\ q \in Members(lock)
      BY <1>2, <3>1
    <3>3. Len(lock) > 0
      BY <1>2, <3>2 DEF Members
    <3>. QED  BY <1>2, <2>1, <3>2, <3>3
  <2>5. Members(lock') = {q \in Req : req'[q].pc \in Running \cup {"queued"}}
    BY <1>2, <2>1, <2>3 DEF Running
  <2>6. current' \in Req \ Chat => req'[current'].pc \in Running
    BY <2>1 DEF Turns, Running
  <2>7. AbortAims'
    BY <2>1 DEF Turns, AbortAims, Running, Types, LockTypes
  <2>8. current' \in Req \cup {NoReq} \cup {<<q>> : q \in Chat} /\ aborting' \in Req \cup {NoReq}
    BY <2>1 DEF Types, LockTypes
  <2>. QED  BY <2>3, <2>4, <2>5, <2>6, <2>7, <2>8 DEF LockTypes, Turns
<1>4. ASSUME NEW r \in Req, Cancel(r)  PROVE LockTypes' /\ Turns'
  <2>1. /\ req[r].pc = "queued" /\ req'[r].pc = "done" /\ \A q \in Req \ {r} : req'[q] = req[q]
        /\ lock' = Without(lock, {r}) /\ UNCHANGED <<current, aborting>>
    BY <1>2, <1>4 DEF Cancel, Run
  <2>2. lock' \in Seq(Req) /\ Members(lock') = Members(lock) \ {r} /\ NoRepeats(lock')
    BY <1>2, <2>1, WithoutKeeps
  <2>3. ASSUME NEW q \in Req, req'[q].pc \in Running  PROVE lock'[1] = q
    <3>1. q # r /\ req[q].pc \in Running
      BY <2>1, <2>3 DEF Running
    <3>2. lock[1] = q /\ q \in Members(lock)
      BY <1>2, <3>1
    <3>3. Len(lock) > 0 /\ lock[1] \notin {r}
      BY <1>2, <3>1, <3>2 DEF Members
    <3>. QED  BY <1>2, <2>1, <3>2, <3>3, HeadStays
  <2>4. Members(lock') = {q \in Req : req'[q].pc \in Running \cup {"queued"}}
    BY <1>2, <2>1, <2>2 DEF Running
  <2>5. current' \in Req \ Chat => req'[current'].pc \in Running
    BY <2>1 DEF Turns, Running
  <2>6. AbortAims'
    BY <2>1 DEF Turns, AbortAims, Running, Types, LockTypes
  <2>7. current' \in Req \cup {NoReq} \cup {<<q>> : q \in Chat} /\ aborting' \in Req \cup {NoReq}
    BY <2>1 DEF Types, LockTypes
  <2>. QED  BY <2>2, <2>3, <2>4, <2>5, <2>6, <2>7 DEF LockTypes, Turns
<1>5. ASSUME NEW r \in Req, Begin(r)  PROVE LockTypes' /\ Turns'
  <2>1. /\ req[r].pc = "queued" /\ req'[r].pc = "forward" /\ \A q \in Req \ {r} : req'[q] = req[q]
        /\ lock' = lock /\ aborting' = NoReq /\ current' = Inner(r)
    BY <1>2, <1>5 DEF Begin, Run
  <2>2. lock[1] = r
    <3>1. r \in Members(lock)
      BY <1>2, <2>1
    <3>2. lock # <<>>
      BY <3>1 DEF Members
    <3>. QED  BY <1>2, <1>5, <3>2 DEF Begin
  <2>3. ASSUME NEW q \in Req, req'[q].pc \in Running  PROVE lock'[1] = q
    BY <1>2, <2>1, <2>2, <2>3
  <2>4. Members(lock') = {q \in Req : req'[q].pc \in Running \cup {"queued"}}
    BY <1>2, <2>1 DEF Running
  <2>5. /\ current' \in Req \cup {NoReq} \cup {<<q>> : q \in Chat}
        /\ current' \in Req \ Chat => current' = r
    BY <2>1, LinkAssumption DEF Inner
  <2>6. current' \in Req \ Chat => req'[current'].pc \in Running
    BY <2>1, <2>5 DEF Running
  <2>. QED  BY <1>2, <2>1, <2>3, <2>4, <2>5, <2>6 DEF LockTypes, Turns, AbortAims
<1>6. ASSUME NEW r \in Req, Abort(r)  PROVE LockTypes' /\ Turns'
  <2>1. current = r /\ aborting' = r /\ UNCHANGED <<req, lock, current>>
    BY <1>6 DEF Abort
  <2>2. AbortAims'
    <3>1. CASE r \in Chat
      BY <2>1, <3>1 DEF AbortAims
    <3>2. CASE r \notin Chat
      <4>1. req[r].pc \in Running /\ lock[1] = r
        BY <2>1, <3>2, <1>2 DEF Turns
      <4>2. \A q \in Req \ {r} : req[q].pc \notin Running
        BY <1>2, <4>1
      <4>. QED  BY <2>1, <4>1, <4>2 DEF AbortAims, Running
    <3>. QED  BY <3>1, <3>2
  <2>. QED  BY <2>1, <2>2 DEF LockTypes, Turns, Types
<1>7. ASSUME NEW r \in Req, Finish(r)  PROVE LockTypes' /\ Turns'
  <2>1. /\ req[r].pc = "release" /\ req'[r].pc = "done" /\ \A q \in Req \ {r} : req'[q] = req[q]
        /\ lock' = Tail(lock) /\ aborting' = aborting
        /\ current' \in {NoReq, current} /\ (current = Inner(r) => current' = NoReq)
    BY <1>2, <1>7 DEF Finish, Run
  <2>2. lock # <<>> /\ Head(lock) = r
    <3>1. r \in Members(lock) /\ lock[1] = r
      BY <1>2, <2>1 DEF Running
    <3>2. lock # <<>>
      BY <3>1 DEF Members
    <3>. QED  BY <1>2, <3>1, <3>2
  <2>3. lock' \in Seq(Req) /\ Members(lock') = Members(lock) \ {r} /\ NoRepeats(lock')
    BY <1>2, <2>1, <2>2, HeadMembers
  <2>4. \A q \in Req : req'[q].pc \notin Running
    BY <1>2, <2>1 DEF Running
  <2>5. Members(lock') = {q \in Req : req'[q].pc \in Running \cup {"queued"}}
    BY <1>2, <2>1, <2>3 DEF Running
  <2>6. current' \in Req \ Chat => FALSE
    <3>1. current \in Req \ Chat => current = r
      BY <1>2, <2>1 DEF Turns, Running
    <3>2. r \notin Chat => current # r \/ current' = NoReq
      BY <2>1 DEF Inner
    <3>. QED  BY <2>1, <3>1, <3>2, LinkAssumption
  <2>7. AbortAims'
    <3>1. ASSUME aborting # NoReq, aborting \notin Chat  PROVE req'[aborting].pc = "done"
      BY <3>1, <2>1 DEF Turns, AbortAims, Running, Types, LockTypes
    <3>. QED  BY <2>1, <2>4, <3>1 DEF AbortAims, Running
  <2>8. current' \in Req \cup {NoReq} \cup {<<q>> : q \in Chat} /\ aborting' \in Req \cup {NoReq}
    BY <2>1 DEF Types, LockTypes
  <2>. QED  BY <2>3, <2>4, <2>5, <2>6, <2>7, <2>8 DEF LockTypes, Turns
<1>. QED  BY <1>1, <1>3, <1>4, <1>5, <1>6, <1>7, OthersKeep

-----------------------------------------------------------------------------
(* What a step does to the connections.                                    *)

(* Asking: the message goes to the end of the queue, and one reader more.  *)
Others(x) == Party \ {x}

(* What asking does. *)
LEMMA PostDoes ==
  ASSUME Types, NEW x \in Party, NEW w \in Worker, NEW m \in Asked, Post(x, w, m)
  PROVE  /\ WireTypes'
         /\ \A v \in Worker \ {w} : link'[v] = link[v]
         /\ link'[w].out = Append(link[w].out, m)
         /\ link'[w].in = link[w].in /\ link'[w].open = link[w].open
         /\ \A y \in Others(x) : reader'[y] = reader[y]
         /\ reader'[x].at = w /\ ~Idle(x)'
         /\ shaken' = IF Reading(w) = {} THEN shaken ELSE shaken \cup {w}
<1> DEFINE Link == [open : BOOLEAN, out : Seq(Asked), in : Seq(Answered)]
           Reader == [st : {"idle", "draining", "sent", "waiting"}, at : Members(Node)]
<1>1. link \in [Worker -> Link] /\ reader \in [Party -> Reader] /\ shaken \subseteq Worker
  BY DEF Types, WireTypes
<1>2. Append(link[w].out, m) \in Seq(Asked)
  BY <1>1
<1>3. /\ link' = [link EXCEPT ![w].out = Append(@, m)]
      /\ shaken' = IF Reading(w) = {} THEN shaken ELSE shaken \cup {w}
  BY DEF Post
<1>s. PICK st \in {"draining", "sent"} : reader' = [reader EXCEPT ![x] = [st |-> st, at |-> w]]
  BY DEF Post
<1>4. link'[w] \in Link /\ link'[w].out = Append(link[w].out, m)
      /\ link'[w].in = link[w].in /\ link'[w].open = link[w].open
      /\ \A v \in Worker \ {w} : link'[v] = link[v]
  BY <1>1, <1>2, <1>3
<1>5. link' \in [Worker -> Link]
  <2>1. link' = [link EXCEPT ![w] = link'[w]]
    BY <1>1, <1>3
  <2> HIDE DEF Link
  <2>. QED  BY <1>1, <1>4, <2>1
<1>6. /\ reader' \in [Party -> Reader] /\ reader'[x] = [st |-> st, at |-> w]
      /\ \A y \in Others(x) : reader'[y] = reader[y]
  BY <1>1, <1>s DEF Worker, Others
<1>7. \A y \in Party : ~Idle(y)' => reader'[y].at \in Worker
  <2> SUFFICES ASSUME NEW y \in Party, ~Idle(y)'  PROVE reader'[y].at \in Worker
    OBVIOUS
  <2>1. CASE y = x
    BY <1>6, <2>1
  <2>2. CASE y # x
    BY <1>6, <2>2 DEF Others, Idle, Types, WireTypes
  <2>. QED  BY <2>1, <2>2
<1>8. WireTypes'
  BY <1>1, <1>3, <1>5, <1>6, <1>7 DEF WireTypes
<1>. QED  BY <1>3, <1>4, <1>6, <1>8 DEF Idle

(* Reading: the first answer is taken and the reader is done.              *)
LEMMA TakesDoes ==
  ASSUME Types, NEW x \in Party, ~Idle(x), NEW w, w = reader[x].at, link[w].in # <<>>, Takes(x, w)
  PROVE  /\ WireTypes' /\ w \in Worker
         /\ \A v \in Worker \ {w} : link'[v] = link[v]
         /\ link'[w].out = link[w].out /\ link'[w].open = link[w].open
         /\ link'[w].in = Tail(link[w].in)
         /\ \A y \in Others(x) : reader'[y] = reader[y]
         /\ Idle(x)' /\ shaken' = shaken
<1> DEFINE Link == [open : BOOLEAN, out : Seq(Asked), in : Seq(Answered)]
           Reader == [st : {"idle", "draining", "sent", "waiting"}, at : Members(Node)]
<1>1. /\ link \in [Worker -> Link] /\ reader \in [Party -> Reader] /\ shaken \subseteq Worker
      /\ w \in Worker
  BY DEF Types, WireTypes
<1>2. Tail(link[w].in) \in Seq(Answered)
  BY <1>1
<1>3. /\ link' = [link EXCEPT ![w].in = Tail(@)]
      /\ reader' = [reader EXCEPT ![x] = NoRead]
      /\ shaken' = shaken
  BY DEF Takes
<1>4. link'[w] \in Link /\ link'[w].in = Tail(link[w].in)
      /\ link'[w].out = link[w].out /\ link'[w].open = link[w].open
      /\ \A v \in Worker \ {w} : link'[v] = link[v]
  BY <1>1, <1>2, <1>3
<1>5. link' \in [Worker -> Link]
  <2>1. link' = [link EXCEPT ![w] = link'[w]]
    BY <1>1, <1>3
  <2> HIDE DEF Link
  <2>. QED  BY <1>1, <1>4, <2>1
<1>6. NoRead \in Reader /\ NoRead.st = "idle"
  BY LinkAssumption DEF NoRead
<1>7. /\ reader' \in [Party -> Reader] /\ reader'[x] = NoRead
      /\ \A y \in Others(x) : reader'[y] = reader[y]
  BY <1>1, <1>3, <1>6 DEF Others
<1>8. \A y \in Party : ~Idle(y)' => reader'[y].at \in Worker
  BY <1>6, <1>7 DEF Others, Idle, Types, WireTypes
<1>9. WireTypes'
  BY <1>1, <1>3, <1>5, <1>7, <1>8 DEF WireTypes
<1>. QED  BY <1>1, <1>3, <1>4, <1>6, <1>7, <1>9 DEF Idle

(* Giving up: the connection counts as shaken and nothing on it changes.   *)
GivesUp(x) ==
  /\ ~Idle(x) /\ link' = link
  /\ reader' = [reader EXCEPT ![x] = NoRead]
  /\ shaken' = shaken \cup {reader[x].at}
  /\ Fails(x)

(* What giving up does. *)
LEMMA GivesUpDoes ==
  ASSUME Types, NEW x \in Party, GivesUp(x)
  PROVE  /\ WireTypes' /\ reader[x].at \in Worker
         /\ \A y \in Others(x) : reader'[y] = reader[y]
         /\ Idle(x)'
<1> DEFINE Reader == [st : {"idle", "draining", "sent", "waiting"}, at : Members(Node)]
<1>1. reader \in [Party -> Reader] /\ reader[x].at \in Worker
  BY DEF Types, WireTypes, GivesUp
<1>2. NoRead \in Reader /\ NoRead.st = "idle"
  BY LinkAssumption DEF NoRead
<1>3. /\ reader' \in [Party -> Reader] /\ reader'[x] = NoRead
      /\ \A y \in Others(x) : reader'[y] = reader[y]
  BY <1>1, <1>2 DEF Others, GivesUp
<1>4. \A y \in Party : ~Idle(y)' => reader'[y].at \in Worker
  BY <1>2, <1>3 DEF Others, Idle, Types, WireTypes
<1>5. WireTypes'
  BY <1>1, <1>3, <1>4 DEF WireTypes, Types, GivesUp
<1>. QED  BY <1>1, <1>2, <1>3, <1>5 DEF Idle

(* Waiting changes who waits, not who reads.                               *)
Waits(x) ==
  /\ ~Idle(x)
  /\ \E st \in {"sent", "waiting"} : reader' = [reader EXCEPT ![x].st = st]
  /\ UNCHANGED <<link, shaken, req>>

(* What waiting does. *)
LEMMA WaitsDoes ==
  ASSUME Types, NEW x \in Party, Waits(x)
  PROVE  WireTypes' /\ \A y \in Party : reader'[y].at = reader[y].at /\ (Idle(y)' <=> Idle(y))
<1> DEFINE Reader == [st : {"idle", "draining", "sent", "waiting"}, at : Members(Node)]
<1>1. reader \in [Party -> Reader]
  BY DEF Types, WireTypes
<1>2. /\ reader' \in [Party -> Reader]
      /\ reader'[x].st \in {"sent", "waiting"} /\ reader'[x].at = reader[x].at
      /\ \A y \in Party : y # x => reader'[y] = reader[y]
  BY <1>1 DEF Waits
<1>3. \A y \in Party : reader'[y].at = reader[y].at /\ (Idle(y)' <=> Idle(y))
  BY <1>2 DEF Idle, Waits
<1>4. WireTypes'
  BY <1>2, <1>3 DEF WireTypes, Types, Waits
<1>. QED  BY <1>3, <1>4

(* A read takes an answer, is refused, or waits.                           *)
LEMMA ReadCases ==
  ASSUME NEW x \in Party, AtWire(x)
  PROVE  \/ ~Idle(x) /\ link[reader[x].at].in # <<>> /\ Takes(x, reader[x].at)
         \/ GivesUp(x)
         \/ Waits(x)
<1>1. CASE Read(x)
  BY <1>1 DEF Read, GivesUp, Waits, Idle
<1>2. CASE GiveUp(x) \/ Quit(x)
  BY <1>2 DEF GiveUp, Quit, Drops, GivesUp, RunsOut, Broken, Idle
<1>3. CASE Drained(x)
  BY <1>3 DEF Drained, Waits, Idle, loop
<1>. QED  BY <1>1, <1>2, <1>3 DEF AtWire

(* A worker takes the first message and answers, if it still can.          *)
LEMMA AnswersDoes ==
  ASSUME Types, NEW w \in Worker, link[w].out # <<>>, NEW m \in Answered, Answers(w, m),
         UNCHANGED <<reader, shaken>>
  PROVE  /\ WireTypes'
         /\ \A v \in Worker \ {w} : link'[v] = link[v]
         /\ link'[w].out = Tail(link[w].out) /\ link'[w].open = link[w].open
         /\ link'[w].in = IF link[w].open THEN Append(link[w].in, m) ELSE link[w].in
<1> DEFINE Link == [open : BOOLEAN, out : Seq(Asked), in : Seq(Answered)]
<1>1. link \in [Worker -> Link]
  BY DEF Types, WireTypes
<1>2. Tail(link[w].out) \in Seq(Asked) /\ Append(link[w].in, m) \in Seq(Answered)
  BY <1>1
<1>3. /\ link'[w] \in Link
      /\ link'[w].out = Tail(link[w].out) /\ link'[w].open = link[w].open
      /\ link'[w].in = IF link[w].open THEN Append(link[w].in, m) ELSE link[w].in
      /\ \A v \in Worker \ {w} : link'[v] = link[v]
      /\ link' = [link EXCEPT ![w] = link'[w]]
  <2>1. CASE link[w].open
    <3> DEFINE t == Tail(link[w].out)
               a == Append(link[w].in, m)
    <3>1. link' = [link EXCEPT ![w] = [link[w] EXCEPT !.out = t, !.in = a]]
      BY <1>1, <2>1 DEF Answers
    <3>2. t \in Seq(Asked) /\ a \in Seq(Answered)
      BY <1>2
    <3> HIDE DEF t, a
    <3>3. link'[w] \in Link /\ link'[w].out = t /\ link'[w].open = link[w].open /\ link'[w].in = a
      BY <1>1, <3>1, <3>2
    <3>4. /\ \A v \in Worker \ {w} : link'[v] = link[v]
          /\ link' = [link EXCEPT ![w] = link'[w]]
      BY <1>1, <3>1
    <3>. QED  BY <2>1, <3>3, <3>4 DEF t, a
  <2>2. CASE ~link[w].open
    BY <1>1, <1>2, <2>2 DEF Answers
  <2>. QED  BY <2>1, <2>2
<1>4. link' \in [Worker -> Link]
  <2> HIDE DEF Link
  <2>. QED  BY <1>1, <1>3
<1>5. WireTypes'
  BY <1>4 DEF Types, WireTypes, Idle
<1>. QED  BY <1>3, <1>5

(* A connection that is lost keeps a part of what was on it, in order.     *)
Breaks(w) ==
  /\ \A v \in Worker \ {w} : link'[v] = link[v]
  /\ ~link'[w].open
  /\ link'[w].out \in {<<>>, link[w].out} /\ link'[w].in \in {<<>>, link[w].in}
  /\ UNCHANGED <<reader, shaken>>

(* A lost connection and a crashed worker break it. *)
LEMMA CrashBreaks ==
  ASSUME Types, NEW w \in Worker, Lost(w) \/ Crash(w)
  PROVE  Breaks(w) /\ WireTypes'
<1> DEFINE Link == [open : BOOLEAN, out : Seq(Asked), in : Seq(Answered)]
<1>1. link \in [Worker -> Link]
  BY DEF Types, WireTypes
<1>2. <<>> \in Seq(Asked) /\ <<>> \in Seq(Answered)
  OBVIOUS
<1>3. CASE Lost(w)
  <2>1. PICK out \in {<<>>, link[w].out}, in \in {<<>>, link[w].in} :
          link' = [link EXCEPT ![w] = [open |-> FALSE, out |-> out, in |-> in]]
    BY <1>3 DEF Lost
  <2>2. out \in Seq(Asked) /\ in \in Seq(Answered)
    BY <1>1, <1>2
  <2>3. link' \in [Worker -> Link]
    BY <1>1, <2>1, <2>2
  <2>4. WireTypes'
    BY <1>3, <2>3 DEF Types, WireTypes, Idle, Lost
  <2>. QED  BY <1>1, <1>3, <2>1, <2>4 DEF Lost, Breaks
<1>4. CASE Crash(w)
  <2>1. link' = [link EXCEPT ![w] = [link[w] EXCEPT !.open = FALSE, !.out = <<>>]]
    BY <1>4 DEF Crash
  <2>2. [link[w] EXCEPT !.open = FALSE, !.out = <<>>] \in Link
    BY <1>1, <1>2
  <2>3. link' \in [Worker -> Link]
    BY <1>1, <2>1, <2>2
  <2>4. WireTypes'
    BY <1>4, <2>3 DEF Types, WireTypes, Idle, Crash
  <2>. QED  BY <1>1, <1>4, <2>1, <2>4 DEF Crash, Breaks
<1>. QED  BY <1>3, <1>4

(* A handler that raises sends an error and closes.                        *)
LEMMA RaisesDoes ==
  ASSUME Types, NEW w \in Worker, HandlerRaises(w)
  PROVE  /\ WireTypes'
         /\ \A v \in Worker \ {w} : link'[v] = link[v]
         /\ ~link'[w].open /\ link'[w].out = <<>>
         /\ link'[w].in = Append(link[w].in, Message("error", NoReq, 0))
<1> DEFINE Link == [open : BOOLEAN, out : Seq(Asked), in : Seq(Answered)]
           e == Message("error", NoReq, 0)
<1>1. link \in [Worker -> Link]
  BY DEF Types, WireTypes
<1>2. e \in Answered
  BY DEF Message, Answered
<1>3. link' = [link EXCEPT ![w] = [open |-> FALSE, out |-> <<>>, in |-> Append(link[w].in, e)]]
  BY <1>1 DEF HandlerRaises
<1> HIDE DEF e
<1>4. Append(link[w].in, e) \in Seq(Answered) /\ <<>> \in Seq(Asked)
  BY <1>1, <1>2
<1>5. link' \in [Worker -> Link]
  BY <1>1, <1>3, <1>4
<1>6. WireTypes'
  BY <1>5 DEF Types, WireTypes, Idle, HandlerRaises
<1>. QED  BY <1>1, <1>3, <1>6 DEF e

(* Who asks: a stage, the end of a run, the heartbeat.                     *)
Asking(x, w, m) ==
  \/ /\ x \in Req /\ req[x].pc = "forward" /\ At(x).node = w
     /\ m = Message("forward", x, req[x].pos)
  \/ x \in Req /\ req[x].pc = "release" /\ m = Message("release", x, 0)
  \/ x = Beat /\ m = Message("health", NoReq, 0)

(* What is asked is a message.                                             *)
LEMMA AskingTypes ==
  ASSUME Types, NEW x \in Party, NEW w, NEW m, Asking(x, w, m)
  PROVE  m \in Asked
<1>1. \A r \in Req : req[r].pos \in Nat
  BY DEF Types, ReqTypes, Run
<1>. QED  BY <1>1 DEF Asking, Message, Asked

-----------------------------------------------------------------------------
(* The kinds of steps there are.                                           *)

(* A run that is where it was, and one that the loop takes further.        *)
Stays(q) ==
  /\ req'[q].pc = req[q].pc /\ req'[q].at = req[q].at
  /\ req'[q].pos = req[q].pos /\ req'[q].pass = req[q].pass
  /\ req[q].stalled => req'[q].stalled

Waited(r) ==
  /\ req[r].pc \in {"new", "queued"}
  /\ req'[r].pos = req[r].pos /\ req'[r].pass = req[r].pass
  /\ \/ req'[r].pc \in {"queued", "done"} /\ req'[r].at = req[r].at
     \/ req'[r].pc = "forward" /\ req'[r].at = 1
PassedHere(r) ==
  /\ req[r].pc = "forward" /\ At(r).node = Self
  /\ req'[r].pc \in {"forward", "yield"} /\ req'[r].at = req[r].at + 1
  /\ req'[r].pos = req[r].pos
  /\ req'[r].pass =
       Append(req[r].pass, [req |-> r, pos |-> req[r].pos, lo |-> pipe[1].lo, hi |-> pipe[1].hi])
NextToken(r) ==
  /\ req[r].pc = "yield" /\ req'[r].pc = "forward"
  /\ req'[r].at = 1 /\ req'[r].pos = req[r].pos + 1 /\ req'[r].pass = <<>>
Ended(r) ==
  /\ Idle(r) \/ req[r].pc = "yield"
  /\ req[r].pc \in Running /\ req'[r].pc \in {"release", "done"}

Moves(r) ==
  /\ \A q \in Req \ {r} : Stays(q)
  /\ req[r].stalled => req'[r].stalled
  /\ Waited(r) \/ PassedHere(r) \/ NextToken(r) \/ Ended(r)

(* The loop alone, with a connection, a worker, or a sweeper.              *)
AtRest == \A q \in Req : Stays(q)
InLoop == UNCHANGED <<wire, cache>> /\ (AtRest \/ \E r \in Req : Moves(r))
AsksOne(x, w, m) ==
  /\ Idle(x) /\ Asking(x, w, m) /\ Post(x, w, m)
  /\ AtRest /\ UNCHANGED cache
ReadsOne(x) == AtWire(x) /\ UNCHANGED cache
LosesOne(w) == Breaks(w) /\ UNCHANGED req /\ \A v \in Worker \ {w} : slot'[v] = slot[v]
Reaped(w, r) ==
  /\ UNCHANGED wire /\ AtRest /\ slot' = [slot EXCEPT ![w] = Freed(@, r)]
  /\ req'[r].pc = "done" \/ req'[r].stalled

(* What the loop does with a run.                                          *)
LEMMA LoopMoves ==
  ASSUME Types, NEW r \in Req,
         \/ Begin(r) \/ Local(r) \/ Resume(r) \/ Finish(r) \/ Arrive(r) \/ Cancel(r) \/ Close(r)
  PROVE  InLoop
<1>1. req \in [Req -> Run]
  BY DEF Types, ReqTypes
<1>2. ASSUME Leaves(r, TRUE) \/ Leaves(r, FALSE), Idle(r) \/ req[r].pc = "yield",
             req[r].pc \in Running
      PROVE  Moves(r)
  BY <1>1, <1>2 DEF Leaves, Moves, Ended, Stays, Run
<1>3. CASE Begin(r)
  BY <1>1, <1>3 DEF Begin, InLoop, Moves, Waited, Stays, Run
<1>4. CASE Local(r)
  <2> DEFINE s == [req |-> r, pos |-> req[r].pos, lo |-> pipe[1].lo, hi |-> pipe[1].hi]
  <2>1. Through(r, s) /\ req[r].pc = "forward" /\ At(r).node = Self /\ UNCHANGED <<wire, cache>>
    BY <1>4 DEF Local
  <2>2. \A q \in Req \ {r} : Stays(q)
    BY <1>1, <2>1 DEF Through, Stays
  <2> HIDE DEF s
  <2>3. /\ req'[r].pc \in {"forward", "yield"} /\ req'[r].at = req[r].at + 1
        /\ req'[r].pos = req[r].pos /\ req'[r].pass = Append(req[r].pass, s)
        /\ req'[r].stalled = req[r].stalled
    BY <2>1, ThroughDoes
  <2>. QED  BY <2>1, <2>2, <2>3 DEF InLoop, Moves, PassedHere, s
<1>5. CASE Resume(r)
  <2>1. CASE Leaves(r, TRUE)
    BY <1>2, <1>5, <2>1 DEF Resume, InLoop, Running
  <2>2. CASE ~Leaves(r, TRUE)
    <3>1. /\ req' = [req EXCEPT ![r].pc = "forward", ![r].at = 1, ![r].pos = @ + 1,
             ![r].pass = <<>>]
          /\ req[r].pc = "yield" /\ UNCHANGED <<wire, cache>>
      BY <2>2, <1>5 DEF Resume
    <3>2. /\ req'[r] = [req[r] EXCEPT !.pc = "forward", !.at = 1, !.pos = @ + 1, !.pass = <<>>]
          /\ \A q \in Req \ {r} : req'[q] = req[q] /\ req[r] \in Run
      BY <3>1, <1>1
    <3>3. NextToken(r) /\ req'[r].stalled = req[r].stalled
      BY <3>1, <3>2, <1>1 DEF NextToken, Run
    <3>. QED  BY <3>1, <3>2, <3>3 DEF InLoop, Moves, Stays
  <2>. QED  BY <2>1, <2>2
<1>6. CASE Finish(r)
  BY <1>1, <1>6 DEF Finish, InLoop, Moves, Ended, Stays, Run, Running
<1>7. CASE Arrive(r)
  BY <1>1, <1>7 DEF Arrive, InLoop, Moves, Waited, Stays, Run
<1>8. CASE Cancel(r)
  BY <1>1, <1>8 DEF Cancel, InLoop, Moves, Waited, Stays, Run
<1>9. CASE Close(r)
  BY <1>2, <1>9 DEF Close, InLoop, Running
<1>. QED  BY <1>3, <1>4, <1>5, <1>6, <1>7, <1>8, <1>9

(* Every step is of one of the kinds.                                      *)
LEMMA StepCases ==
  ASSUME Types, Next
  PROVE  \/ InLoop
         \/ \E x \in Party, w \in Worker, m \in Asked : AsksOne(x, w, m)
         \/ \E x \in Party : ReadsOne(x)
         \/ \E w \in Worker : Handle(w) \/ HandlerRaises(w) \/ (LosesOne(w) /\ WireTypes')
         \/ \E w \in Worker, r \in Req : Reaped(w, r)
<1> DEFINE Some == \E x \in Party, w \in Worker, m \in Asked : AsksOne(x, w, m)
<1>0. req \in [Req -> Run]
  BY DEF Types, ReqTypes
<1>1. ASSUME UNCHANGED req  PROVE AtRest
  BY <1>1 DEF AtRest, Stays
<1>2. ASSUME NEW r \in Req, Forward(r)  PROVE InLoop \/ Some
  <2> DEFINE w == At(r).node
             m == Message("forward", r, req[r].pos)
  <2>1. req[r].at \in 1..Len(pipe)
    BY <1>2 DEF Forward, Types, ReqTypes, Fit
  <2>2. At(r) \in Part
    BY <2>1 DEF At, Types, PipeTypes
  <2>3. w \in Worker /\ r \in Party
    BY <2>2, <1>2 DEF Forward, Worker, Part, Party
  <2>4. CASE link[w].open
    <3>1. Idle(r) /\ Asking(r, w, m) /\ Post(r, w, m) /\ UNCHANGED req /\ UNCHANGED cache
      BY <1>2, <2>4 DEF Forward, Asking
    <3>2. m \in Asked
      BY <2>3, <3>1, AskingTypes
    <3>3. AsksOne(r, w, m)
      BY <3>1, <1>1 DEF AsksOne
    <3> HIDE DEF w, m
    <3>. QED  BY <2>3, <3>2, <3>3
  <2>5. CASE ~link[w].open
    <3>1. Leaves(r, FALSE) /\ Idle(r) /\ req[r].pc = "forward" /\ UNCHANGED <<wire, cache>>
      BY <1>2, <2>5 DEF Forward
    <3>2. Moves(r)
      BY <1>0, <3>1 DEF Leaves, Moves, Ended, Stays, Run, Running
    <3>. QED  BY <3>1, <3>2 DEF InLoop
  <2>. QED  BY <2>4, <2>5
<1>3. ASSUME NEW r \in Req, Release(r)  PROVE InLoop \/ Some
  <2> DEFINE m == Message("release", r, 0)
  <2>1. PICK w \in req[r].todo :
          /\ req' = [req EXCEPT ![r].todo = @ \ {w}]
          /\ IF link[w].open THEN Post(r, w, m) ELSE UNCHANGED wire
    BY <1>3 DEF Release
  <2>2. w \in Worker /\ r \in Party
    BY <1>0 DEF Run, Party
  <2>3. AtRest
    BY <1>0, <2>1 DEF AtRest, Stays, Run
  <2>4. Asking(r, w, m) /\ Idle(r) /\ UNCHANGED cache
    BY <1>3 DEF Release, Asking
  <2>5. m \in Asked
    BY <2>2, <2>4, AskingTypes
  <2> HIDE DEF m
  <2>6. CASE link[w].open
    BY <2>1, <2>2, <2>3, <2>4, <2>5, <2>6 DEF AsksOne
  <2>7. CASE ~link[w].open
    BY <2>1, <2>3, <2>4, <2>7 DEF InLoop
  <2>. QED  BY <2>6, <2>7
<1>4. ASSUME NEW w \in Worker, CheckHealth(w)  PROVE InLoop \/ Some
  <2> DEFINE m == Message("health", NoReq, 0)
  <2>1. Asking(Beat, w, m) /\ Idle(Beat) /\ Beat \in Party /\ UNCHANGED req /\ UNCHANGED cache
    BY <1>4 DEF CheckHealth, Asking, Party, loop
  <2>2. m \in Asked
    BY <2>1, AskingTypes
  <2>3. CASE link[w].open
    <3>1. AsksOne(Beat, w, m)
      BY <1>1, <1>4, <2>1, <2>3 DEF CheckHealth, AsksOne
    <3> HIDE DEF m
    <3>. QED  BY <2>1, <2>2, <3>1
  <2>4. CASE ~link[w].open
    BY <1>1, <1>4, <2>1, <2>4 DEF CheckHealth, InLoop
  <2>. QED  BY <2>3, <2>4
<1> HIDE DEF Some
<1>5. ASSUME NEW x \in Party, AtWire(x)  PROVE ReadsOne(x)
  BY <1>5 DEF AtWire, Read, GiveUp, Quit, Drops, Drained, ReadsOne
<1>6. ASSUME NEW r \in Req, Abort(r)  PROVE InLoop
  BY <1>1, <1>6 DEF Abort, InLoop
<1>7. ASSUME Beats  PROVE InLoop
  BY <1>1, <1>7 DEF Beats, loop, InLoop
<1>8. ASSUME NEW w \in Worker, Lost(w) \/ Crash(w)  PROVE LosesOne(w) /\ WireTypes'
  <2>1. slot \in [Worker -> UNION {[A -> Nat] : A \in SUBSET Req}]
    BY DEF Types, CacheTypes
  <2>2. UNCHANGED req /\ \A v \in Worker \ {w} : slot'[v] = slot[v]
    BY <1>8, <2>1 DEF Lost, Crash, loop, cache
  <2>. QED  BY <1>8, <2>2, CrashBreaks DEF LosesOne
<1>9. ASSUME NEW w \in Worker, NEW r \in Req, Sweep(w, r) \/ SweepStalled(w, r)
      PROVE  Reaped(w, r)
  <2>1. UNCHANGED wire /\ slot' = [slot EXCEPT ![w] = Freed(@, r)]
    BY <1>9 DEF Sweep, SweepStalled, Reaps
  <2>2. CASE Sweep(w, r)
    BY <1>1, <2>1, <2>2 DEF Sweep, Reaped
  <2>3. CASE SweepStalled(w, r)
    <3>1. req' = [req EXCEPT ![r].stalled = TRUE]
      BY <2>3 DEF SweepStalled
    <3>2. AtRest /\ req'[r].stalled
      BY <1>0, <3>1 DEF AtRest, Stays, Run
    <3>. QED  BY <2>1, <3>2 DEF Reaped
  <2>. QED  BY <1>9, <2>2, <2>3
<1>10. ASSUME NEW r \in Req, Loop(r)  PROVE InLoop \/ Some
  BY <1>2, <1>3, <1>10, LoopMoves DEF Loop
<1>11. CASE Coordinator
  BY <1>4, <1>5, <1>10, <1>11 DEF Coordinator, Some, AtWire
<1>12. ASSUME NEW r \in Req, Arrive(r) \/ Cancel(r) \/ Abort(r) \/ Close(r)  PROVE InLoop
  BY <1>6, <1>12, LoopMoves
<1>13. ASSUME NEW x \in Party, Drained(x) \/ (x \in Req /\ Quit(x))  PROVE ReadsOne(x)
  BY <1>13, <1>5 DEF AtWire
<1>. QED  BY <1>7, <1>8, <1>9, <1>11, <1>12, <1>13 DEF Next, Some, Party

-----------------------------------------------------------------------------
(* What a step does to the slots.                                          *)
Slots == UNION {[A -> Nat] : A \in SUBSET Req}

(* A slot that is filled leaves the others. *)
LEMMA WithDoes ==
  ASSUME NEW f \in Slots, NEW r \in Req, NEW n \in Nat
  PROVE  /\ With(f, r, n) \in Slots /\ DOMAIN With(f, r, n) = DOMAIN f \cup {r}
         /\ With(f, r, n)[r] = n
         /\ \A s \in DOMAIN f \ {r} : With(f, r, n)[s] = f[s]
<1>1. PICK A \in SUBSET Req : f \in [A -> Nat]
  BY DEF Slots
<1>2. A \cup {r} \in SUBSET Req
  OBVIOUS
<1>3. /\ With(f, r, n) \in [A \cup {r} -> Nat]
      /\ With(f, r, n)[r] = n /\ \A s \in A \ {r} : With(f, r, n)[s] = f[s]
  BY <1>1 DEF With
<1>4. DOMAIN f = A /\ DOMAIN With(f, r, n) = A \cup {r}
  BY <1>1, <1>3
<1>5. With(f, r, n) \in Slots
  BY <1>2, <1>3 DEF Slots
<1>. QED  BY <1>3, <1>4, <1>5

(* A slot that is freed leaves the others.                                 *)
LEMMA FreedDoes ==
  ASSUME NEW f \in Slots, NEW r \in Req
  PROVE  /\ Freed(f, r) \in Slots /\ DOMAIN Freed(f, r) = DOMAIN f \ {r}
         /\ \A s \in DOMAIN f \ {r} : Freed(f, r)[s] = f[s]
<1>1. PICK A \in SUBSET Req : f \in [A -> Nat]
  BY DEF Slots
<1>2. A \ {r} \in SUBSET Req
  OBVIOUS
<1>3. Freed(f, r) \in [A \ {r} -> Nat] /\ \A s \in A \ {r} : Freed(f, r)[s] = f[s]
  BY <1>1 DEF Freed
<1>4. DOMAIN f = A /\ DOMAIN Freed(f, r) = A \ {r}
  BY <1>1, <1>3
<1>5. Freed(f, r) \in Slots
  BY <1>2, <1>3 DEF Slots
<1>. QED  BY <1>3, <1>4, <1>5

(* A slot has seen so many passes. *)
LEMMA PassesNatural ==
  ASSUME Types, NEW w \in Worker, NEW r \in Req
  PROVE  Passes(w, r) \in Nat
<1>1. slot[w] \in Slots
  BY DEF Types, CacheTypes, Slots
<1>2. PICK A \in SUBSET Req : slot[w] \in [A -> Nat]
  BY <1>1 DEF Slots
<1>. QED  BY <1>2 DEF Passes

(* One slot of one worker is filled or freed.                              *)
LEMMA SlotFilled ==
  ASSUME Types, NEW w \in Worker, NEW r \in Req, NEW n \in Nat,
         slot' = [slot EXCEPT ![w] = With(@, r, n)]
  PROVE  /\ slot' \in [Worker -> Slots]
         /\ Passes(w, r)' = n
         /\ \A v \in Worker, s \in Req : v # w \/ s # r => Passes(v, s)' = Passes(v, s)
<1>1. slot \in [Worker -> Slots]
  BY DEF Types, CacheTypes, Slots
<1>0. slot[w] \in Slots
  BY <1>1
<1>2. /\ With(slot[w], r, n) \in Slots /\ DOMAIN With(slot[w], r, n) = DOMAIN slot[w] \cup {r}
      /\ With(slot[w], r, n)[r] = n
      /\ \A s \in DOMAIN slot[w] \ {r} : With(slot[w], r, n)[s] = slot[w][s]
  BY <1>0, WithDoes
<1>3. slot'[w] = With(slot[w], r, n) /\ \A v \in Worker \ {w} : slot'[v] = slot[v]
  BY <1>1
<1>4. slot' \in [Worker -> Slots]
  BY <1>1, <1>2
<1>5. ASSUME NEW v \in Worker, NEW s \in Req, v # w \/ s # r  PROVE Passes(v, s)' = Passes(v, s)
  BY <1>2, <1>3, <1>5 DEF Passes
<1>. QED  BY <1>2, <1>3, <1>4, <1>5 DEF Passes

(* The slot of one request is freed, the others are not. *)
LEMMA SlotFreed ==
  ASSUME Types, NEW w \in Worker, NEW r \in Req,
         slot' = [slot EXCEPT ![w] = Freed(@, r)]
  PROVE  /\ slot' \in [Worker -> Slots]
         /\ \A v \in Worker, s \in Req : v # w \/ s # r => Passes(v, s)' = Passes(v, s)
<1>1. slot \in [Worker -> Slots]
  BY DEF Types, CacheTypes, Slots
<1>2. /\ Freed(slot[w], r) \in Slots /\ DOMAIN Freed(slot[w], r) = DOMAIN slot[w] \ {r}
      /\ \A s \in DOMAIN slot[w] \ {r} : Freed(slot[w], r)[s] = slot[w][s]
  BY <1>1, FreedDoes
<1>3. slot'[w] = Freed(slot[w], r) /\ \A v \in Worker \ {w} : slot'[v] = slot[v]
  BY <1>1
<1>4. slot' \in [Worker -> Slots]
  BY <1>1, <1>2
<1>5. ASSUME NEW v \in Worker, NEW s \in Req, v # w \/ s # r  PROVE Passes(v, s)' = Passes(v, s)
  BY <1>2, <1>3, <1>5 DEF Passes
<1>. QED  BY <1>4, <1>5

(* What a worker does with the first message.                              *)
Handled(w, m, a) ==
  \/ /\ m.kind = "forward" /\ m.req \in Req /\ m.pos \in Nat
     /\ slot' = [slot EXCEPT ![w] = With(@, m.req, Passes(w, m.req) + 1)]
     /\ touched' = [touched EXCEPT ![w] = @ \cup {m.req}]
     /\ a = Message("result", m.req, m.pos)
  \/ /\ m.kind = "release" /\ m.req \in Req
     /\ slot' = [slot EXCEPT ![w] = Freed(@, m.req)]
     /\ touched' = [touched EXCEPT ![w] = @ \ {m.req}]
     /\ a = Message("released", m.req, 0)
  \/ /\ m.kind = "health" /\ UNCHANGED cache /\ a = m

(* What handling the first message does. *)
LEMMA HandleDoes ==
  ASSUME Types, NEW w \in Worker, Handle(w)
  PROVE  /\ link[w].out # <<>> /\ link[w].out[1] = Head(link[w].out)
         /\ \E a \in Answered : Answers(w, a) /\ Handled(w, Head(link[w].out), a)
         /\ UNCHANGED <<req, reader, shaken>>
<1> DEFINE m == Head(link[w].out)
<1>1. link[w].out \in Seq(Asked) /\ link[w].out # <<>>
  BY DEF Types, WireTypes, Handle
<1>2. m \in Asked /\ link[w].out[1] = m
  BY <1>1
<1>3. UNCHANGED <<req, reader, shaken>>
  BY DEF Handle, loop
<1>4. CASE m.kind = "forward"
  <2> DEFINE a == Message("result", m.req, m.pos)
  <2>1. m.req \in Req /\ m.pos \in Nat
    BY <1>2, <1>4 DEF Asked
  <2>2. a \in Answered
    <3> HIDE DEF m
    <3>. QED  BY <2>1 DEF Answered, Message
  <2>3. Answers(w, a) /\ Handled(w, m, a)
    BY <1>4, <2>1 DEF Handle, Handled, Touch
  <2>. QED  BY <1>1, <1>2, <1>3, <2>2, <2>3
<1>5. CASE m.kind = "release"
  <2> DEFINE a == Message("released", m.req, 0)
  <2>1. m.req \in Req
    BY <1>2, <1>5 DEF Asked
  <2>2. a \in Answered
    <3> HIDE DEF m
    <3>. QED  BY <2>1 DEF Answered, Message
  <2>3. Answers(w, a) /\ Handled(w, m, a)
    BY <1>5, <2>1 DEF Handle, Handled
  <2>. QED  BY <1>1, <1>2, <1>3, <2>2, <2>3
<1>6. CASE m.kind \notin {"forward", "release"}
  <2>1. m \in Answered /\ m.kind = "health"
    BY <1>2, <1>6 DEF Asked, Answered
  <2>2. Answers(w, m) /\ Handled(w, m, m)
    BY <1>6 DEF Handle, Handled
  <2>. QED  BY <1>1, <1>2, <1>3, <2>1, <2>2
<1>. QED  BY <1>4, <1>5, <1>6

(* The rest of the state stays typed.                                      *)
LEMMA WireStep ==
  ASSUME Types, Next
  PROVE  WireTypes'
<1>1. ASSUME UNCHANGED wire  PROVE WireTypes'
  BY <1>1 DEF wire, Types, WireTypes, Idle
<1>2. ASSUME NEW x \in Party, NEW w \in Worker, NEW m \in Asked, AsksOne(x, w, m)
      PROVE  WireTypes'
  BY <1>2, PostDoes DEF AsksOne
<1>3. ASSUME NEW x \in Party, ReadsOne(x)  PROVE WireTypes'
  BY <1>3, ReadCases, TakesDoes, GivesUpDoes, WaitsDoes DEF ReadsOne
<1>4. ASSUME NEW w \in Worker, Handle(w)  PROVE WireTypes'
  BY <1>4, HandleDoes, AnswersDoes
<1>5. ASSUME NEW w \in Worker, HandlerRaises(w)  PROVE WireTypes'
  BY <1>5, RaisesDoes
<1>. QED  BY <1>1, <1>2, <1>3, <1>4, <1>5, StepCases DEF InLoop, Reaped

(* Slots, touches and the heartbeat stay typed. *)
LEMMA CacheStep ==
  ASSUME Types, Next
  PROVE  CacheTypes'
<1>1. /\ slot \in [Worker -> Slots] /\ touched \in [Worker -> SUBSET Req]
      /\ beat \in [todo : SUBSET Worker, count : Nat] /\ upsets \in Nat
  BY DEF Types, CacheTypes, Slots
<1>2. Upset => upsets' \in Nat
  BY <1>1 DEF Upset
<1>3. upsets' \in Nat
  <2>1. UNCHANGED upsets \/ Upset
    BY DEF Next, Coordinator, Loop, Begin, Local, Forward, Resume, Release, Finish, Read, GiveUp,
         Drops, Drained, Quit,
           CheckHealth, Arrive, Cancel, Abort, Close, Beats, Handle, HandlerRaises, Lost, Crash,
           Sweep, SweepStalled
  <2>. QED  BY <1>1, <1>2, <2>1
<1>4. beat' \in [todo : SUBSET Worker, count : Nat]
  <2>1. CASE Beats
    BY <1>1, <2>1 DEF Beats
  <2>2. ASSUME NEW w \in Worker, CheckHealth(w)  PROVE beat' \in [todo : SUBSET Worker, count : Nat]
    BY <1>1, <2>2 DEF CheckHealth
  <2>3. CASE UNCHANGED beat
    BY <1>1, <2>3
  <2>4. UNCHANGED beat \/ Beats \/ \E w \in Worker : CheckHealth(w)
    BY DEF Next, Coordinator, Loop, Begin, Local, Forward, Resume, Release, Finish, Read, GiveUp,
         Drops, Drained, Quit,
           Arrive, Cancel, Abort, Close, Handle, HandlerRaises, Lost, Crash,
           Sweep, SweepStalled, Reaps
  <2>. QED  BY <2>1, <2>2, <2>3, <2>4
<1>5. ASSUME NEW w \in Worker, NEW r \in Req, Reaps(w, r)
      PROVE  slot' \in [Worker -> Slots] /\ touched' \in [Worker -> SUBSET Req]
  BY <1>1, <1>5, SlotFreed DEF Reaps
<1>6. ASSUME NEW w \in Worker, HandlerRaises(w)
      PROVE  slot' \in [Worker -> Slots] /\ touched' \in [Worker -> SUBSET Req]
  <2> DEFINE m == Head(link[w].out)
  <2>1. link[w].out \in Seq(Asked) /\ link[w].out # <<>> /\ m.kind = "forward"
    BY <1>6 DEF Types, WireTypes, HandlerRaises
  <2>2. m \in Asked
    BY <2>1
  <2>3. m.req \in Req
    BY <2>1, <2>2 DEF Asked
  <2>4. Passes(w, m.req) \in Nat
    BY <2>3, PassesNatural
  <2>5. /\ slot' = [slot EXCEPT ![w] = With(@, m.req, Passes(w, m.req))]
        /\ touched' = [touched EXCEPT ![w] = @ \cup {m.req}]
    BY <1>6 DEF HandlerRaises, Touch
  <2> HIDE DEF m
  <2>. QED  BY <1>1, <2>3, <2>4, <2>5, SlotFilled
<1>7. ASSUME NEW w \in Worker, Handle(w)
      PROVE  slot' \in [Worker -> Slots] /\ touched' \in [Worker -> SUBSET Req]
  <2> DEFINE m == Head(link[w].out)
  <2>1. PICK a \in Answered : Handled(w, m, a)
    BY <1>7, HandleDoes
  <2> HIDE DEF m
  <2>2. CASE m.kind = "forward"
    <3>1. /\ m.req \in Req /\ slot' = [slot EXCEPT ![w] = With(@, m.req, Passes(w, m.req) + 1)]
          /\ touched' = [touched EXCEPT ![w] = @ \cup {m.req}]
      BY <2>1, <2>2 DEF Handled
    <3>2. Passes(w, m.req) + 1 \in Nat
      BY <3>1, PassesNatural
    <3>. QED  BY <1>1, <3>1, <3>2, SlotFilled
  <2>3. CASE m.kind = "release"
    <3>1. /\ m.req \in Req /\ slot' = [slot EXCEPT ![w] = Freed(@, m.req)]
          /\ touched' = [touched EXCEPT ![w] = @ \ {m.req}]
      BY <2>1, <2>3 DEF Handled
    <3>. QED  BY <1>1, <3>1, SlotFreed
  <2>4. CASE m.kind \notin {"forward", "release"}
    BY <1>1, <2>1, <2>4 DEF Handled, cache
  <2>. QED  BY <2>2, <2>3, <2>4
<1>8. ASSUME NEW w \in Worker, Crash(w)
      PROVE  slot' \in [Worker -> Slots] /\ touched' \in [Worker -> SUBSET Req]
  <2>1. <<>> \in Slots
    <3>1. <<>> \in [{} -> Nat]
      OBVIOUS
    <3>. QED  BY <3>1 DEF Slots
  <2>. QED  BY <1>1, <1>8, <2>1 DEF Crash
<1>9. ASSUME UNCHANGED cache
      PROVE  slot' \in [Worker -> Slots] /\ touched' \in [Worker -> SUBSET Req]
  BY <1>1, <1>9 DEF cache
<1>10. \/ UNCHANGED cache \/ \E w \in Worker : Handle(w) \/ HandlerRaises(w) \/ Crash(w)
       \/ \E w \in Worker, r \in Req : Reaps(w, r)
  BY DEF Next, Coordinator, Loop, Begin, Local, Forward, Resume, Release, Finish, Read, GiveUp,
         Drops, Drained, Quit,
         CheckHealth, Arrive, Cancel, Abort, Close, Beats, Lost, Sweep, SweepStalled
<1>11. slot' \in [Worker -> Slots] /\ touched' \in [Worker -> SUBSET Req]
  BY <1>1, <1>5, <1>6, <1>7, <1>8, <1>9, <1>10 DEF cache
<1>. QED  BY <1>3, <1>4, <1>11 DEF CacheTypes, Slots

(* Every step keeps the types and the turns. *)
LEMMA TypesStep ==
  ASSUME Types, Turns, Next
  PROVE  Types' /\ Turns'
BY PipeStays, RequestTypes, LockStep, WireStep, CacheStep DEF Types


-----------------------------------------------------------------------------
(* Who reads.                                                              *)

(* A request that the loop moves reads nothing, and so it is afterwards.   *)
LEMMA MoversIdle ==
  ASSUME Types, ReadsOwn, NEW r \in Req, Moves(r)
  PROVE  Idle(r)
<1>1. r \in Party /\ (~Idle(r) => reader[r].at # Self)
  BY DEF Types, WireTypes, Worker, Party
<1>. QED  BY <1>1 DEF Moves, Waited, PassedHere, NextToken, Ended, ReadsOwn

(* A stage of the pipeline that is at rest stays the same.                 *)
LEMMA AtStays ==
  ASSUME pipe' = pipe, NEW q \in Req, Stays(q)
  PROVE  At(q)' = At(q)
BY DEF At, Stays

(* What a read does to a run.                                              *)
LEMMA ReadMoves ==
  ASSUME Types, NEW x \in Party, ReadsOne(x)
  PROVE  /\ ~Idle(x)
         /\ \A q \in Req \ {x} : req'[q] = req[q]
         /\ UNCHANGED cache
<1>1. CASE ~Idle(x) /\ link[reader[x].at].in # <<>> /\ Takes(x, reader[x].at)
  <2>1. CASE Fails(x)
    BY <1>1, <2>1, FailsDoes DEF ReadsOne
  <2>2. CASE ~Fails(x)
    <3>1. x \in Req /\ req[x].pc = "forward" /\ \E s : Through(x, s)
      BY <1>1, <2>2 DEF Takes
    <3>. QED  BY <1>1, <3>1, ThroughDoes DEF ReadsOne
  <2>. QED  BY <2>1, <2>2
<1>2. CASE GivesUp(x)
  BY <1>2, FailsDoes DEF GivesUp, ReadsOne
<1>3. CASE Waits(x)
  BY <1>3 DEF Waits, ReadsOne
<1>. QED  BY <1>1, <1>2, <1>3, ReadCases DEF ReadsOne

(* Of the readers, the step of one changes that one alone.                 *)
LEMMA ReadersStep ==
  ASSUME Types, ReadsOwn, Next
  PROVE  ReadsOwn'
<1>0. pipe' = pipe
  BY PipeStays
<1>1. ASSUME UNCHANGED reader, NEW q \in Req, Stays(q), ~Idle(q)'
      PROVE  \/ req'[q].pc = "forward" /\ At(q)'.node = reader'[q].at
             \/ req'[q].pc = "release"
  BY <1>0, <1>1, AtStays DEF ReadsOwn, Idle, Stays
<1>2. ASSUME UNCHANGED reader, AtRest  PROVE ReadsOwn'
  BY <1>1, <1>2 DEF AtRest, ReadsOwn
<1>3. ASSUME InLoop  PROVE ReadsOwn'
  <2>1. UNCHANGED reader
    BY <1>3 DEF InLoop, wire
  <2>2. ASSUME NEW r \in Req, Moves(r)  PROVE ReadsOwn'
    <3>1. Idle(r)'
      BY <2>1, <2>2, MoversIdle DEF Idle
    <3>2. \A q \in Req \ {r} : Stays(q)
      BY <2>2 DEF Moves
    <3>. QED  BY <2>1, <3>1, <3>2, <1>1 DEF ReadsOwn
  <2>. QED  BY <1>2, <1>3, <2>1, <2>2 DEF InLoop
<1>4. ASSUME NEW x \in Party, NEW w \in Worker, NEW m \in Asked, AsksOne(x, w, m)
      PROVE  ReadsOwn'
  <2>1. (\A y \in Others(x) : reader'[y] = reader[y]) /\ reader'[x].at = w
    BY <1>4, PostDoes DEF AsksOne
  <2>2. ASSUME NEW q \in Req, ~Idle(q)'
        PROVE  \/ req'[q].pc = "forward" /\ At(q)'.node = reader'[q].at
               \/ req'[q].pc = "release"
    <3>1. Stays(q) /\ At(q)' = At(q)
      BY <1>0, <1>4, AtStays DEF AsksOne, AtRest
    <3>2. CASE q = x
      BY <3>1, <3>2, <2>1, <1>4, LinkAssumption DEF AsksOne, Asking, Stays
    <3>3. CASE q # x
      <4>1. reader'[q] = reader[q]
        BY <3>3, <2>1 DEF Others, Party
      <4>. QED  BY <4>1, <3>1, <2>2 DEF ReadsOwn, Idle, Stays
    <3>. QED  BY <3>2, <3>3
  <2>. QED  BY <2>2 DEF ReadsOwn
<1>5. ASSUME NEW x \in Party, ReadsOne(x)  PROVE ReadsOwn'
  <2>1. \A q \in Req \ {x} : req'[q] = req[q]
    BY <1>5, ReadMoves
  <2>2. ASSUME \A y \in Others(x) : reader'[y] = reader[y], Idle(x)'  PROVE ReadsOwn'
    <3>1. \A q \in Req \ {x} : reader'[q] = reader[q] /\ At(q)' = At(q)
      BY <1>0, <2>1, <2>2 DEF Others, Party, At
    <3>. QED  BY <2>1, <2>2, <3>1 DEF ReadsOwn, Idle
  <2>3. CASE ~Idle(x) /\ link[reader[x].at].in # <<>> /\ Takes(x, reader[x].at)
    BY <2>2, <2>3, TakesDoes
  <2>4. CASE GivesUp(x)
    BY <2>2, <2>4, GivesUpDoes
  <2>5. CASE Waits(x)
    BY <1>0, <2>5, WaitsDoes DEF ReadsOwn, Waits, Party, At
  <2>. QED  BY <1>5, <2>3, <2>4, <2>5, ReadCases DEF ReadsOne
<1>6. ASSUME NEW w \in Worker, Handle(w) \/ HandlerRaises(w) \/ LosesOne(w)  PROVE ReadsOwn'
  <2>1. UNCHANGED <<req, reader>>
    BY <1>6 DEF Handle, HandlerRaises, LosesOne, Breaks, loop
  <2>2. AtRest
    BY <2>1 DEF AtRest, Stays
  <2>. QED  BY <2>1, <2>2, <1>2
<1>7. ASSUME NEW w \in Worker, NEW r \in Req, Reaped(w, r)  PROVE ReadsOwn'
  BY <1>2, <1>7 DEF Reaped, wire
<1>. QED  BY <1>3, <1>4, <1>5, <1>6, <1>7, StepCases


-----------------------------------------------------------------------------
(* The passes in a queue.                                                  *)

(* A pass that is sent goes behind those before it.                        *)
LEMMA StepsSent ==
  ASSUME NEW q \in Seq(Asked), NEW r \in Req, NEW a \in Nat, NEW b \in Nat, NEW m \in Asked,
         Steps(q, r, a, b), Pass(m, r), m.pos = b
  PROVE  Steps(Append(q, m), r, a, b + 1)
<1> DEFINE n == Len(q)
           t == Append(q, m)
<1>1. /\ n \in Nat /\ Len(t) = n + 1 /\ t[n + 1] = m /\ n + 1 \in 1..(n + 1)
      /\ \A i \in 1..n : t[i] = q[i] /\ i \in 1..(n + 1) /\ i < n + 1
      /\ \A i \in 1..(n + 1) : i \in 1..n \/ i = n + 1
  OBVIOUS
<1> HIDE DEF t
<1>2. /\ a <= b
      /\ \A i, j \in 1..n : i < j /\ Pass(q[i], r) /\ Pass(q[j], r) => q[i].pos < q[j].pos
      /\ \A i \in 1..n : Pass(q[i], r) => a <= q[i].pos /\ q[i].pos < b
      /\ \A p \in Nat : a <= p /\ p < b => \E i \in 1..n : Pass(q[i], r) /\ q[i].pos = p
      /\ \A i \in 1..n : ~(q[i].kind = "release" /\ q[i].req = r)
  BY DEF Steps
<1>3. \A i \in 1..n : q[i].pos \in Nat
  BY DEF Asked
<1>4. \A i, j \in 1..(n + 1) : i < j /\ Pass(t[i], r) /\ Pass(t[j], r) => t[i].pos < t[j].pos
  BY <1>1, <1>2
<1>5. \A i \in 1..(n + 1) : Pass(t[i], r) => a <= t[i].pos /\ t[i].pos < b + 1
  BY <1>1, <1>2, <1>3
<1>6. ASSUME NEW p \in Nat, a <= p, p < b + 1
      PROVE  \E i \in 1..(n + 1) : Pass(t[i], r) /\ t[i].pos = p
  <2>1. CASE p = b
    BY <1>1, <2>1
  <2>2. CASE p # b
    <3>1. p < b
      BY <1>6, <2>2
    <3>2. PICK i \in 1..n : Pass(q[i], r) /\ q[i].pos = p
      BY <1>2, <1>6, <3>1
    <3>. QED  BY <1>1, <3>2
  <2>. QED  BY <2>1, <2>2
<1>7. \A i \in 1..(n + 1) : ~(t[i].kind = "release" /\ t[i].req = r)
  BY <1>1, <1>2 DEF Pass
<1>8. a <= b + 1
  BY <1>2
<1>9. Len(t) = n + 1
  BY <1>1
<1> HIDE DEF n
<1>10. Steps(t, r, a, b + 1)
  BY <1>4, <1>5, <1>6, <1>7, <1>8, <1>9 DEF Steps
<1>. QED  BY <1>10 DEF t

(* So does what belongs to another request.                                *)
LEMMA StepsBehind ==
  ASSUME NEW q \in Seq(Asked), NEW r \in Req, NEW a \in Nat, NEW b \in Nat, NEW m \in Asked,
         Steps(q, r, a, b), ~Pass(m, r), ~(m.kind = "release" /\ m.req = r)
  PROVE  Steps(Append(q, m), r, a, b)
<1> DEFINE n == Len(q)
           t == Append(q, m)
<1>1. /\ n \in Nat /\ Len(t) = n + 1 /\ t[n + 1] = m
      /\ \A i \in 1..n : t[i] = q[i] /\ i \in 1..(n + 1)
      /\ \A i \in 1..(n + 1) : i \in 1..n \/ i = n + 1
  OBVIOUS
<1> HIDE DEF t
<1>2. /\ a <= b
      /\ \A i, j \in 1..n : i < j /\ Pass(q[i], r) /\ Pass(q[j], r) => q[i].pos < q[j].pos
      /\ \A i \in 1..n : Pass(q[i], r) => a <= q[i].pos /\ q[i].pos < b
      /\ \A p \in Nat : a <= p /\ p < b => \E i \in 1..n : Pass(q[i], r) /\ q[i].pos = p
      /\ \A i \in 1..n : ~(q[i].kind = "release" /\ q[i].req = r)
  BY DEF Steps
<1>3. \A i \in 1..(n + 1) : Pass(t[i], r) => i \in 1..n /\ t[i] = q[i]
  BY <1>1
<1>4. \A i, j \in 1..(n + 1) : i < j /\ Pass(t[i], r) /\ Pass(t[j], r) => t[i].pos < t[j].pos
  BY <1>2, <1>3
<1>5. \A i \in 1..(n + 1) : Pass(t[i], r) => a <= t[i].pos /\ t[i].pos < b
  BY <1>2, <1>3
<1>6. \A p \in Nat : a <= p /\ p < b => \E i \in 1..(n + 1) : Pass(t[i], r) /\ t[i].pos = p
  BY <1>1, <1>2
<1>7. \A i \in 1..(n + 1) : ~(t[i].kind = "release" /\ t[i].req = r)
  BY <1>1, <1>2
<1>8. Len(t) = n + 1
  BY <1>1
<1> HIDE DEF n
<1>9. Steps(t, r, a, b)
  BY <1>2, <1>4, <1>5, <1>6, <1>7, <1>8 DEF Steps
<1>. QED  BY <1>9 DEF t

(* The first pass in a queue is the next one.                              *)
LEMMA StepsTaken ==
  ASSUME NEW q \in Seq(Asked), NEW r \in Req, NEW a \in Nat, NEW b \in Nat,
         q # <<>>, Steps(q, r, a, b), Pass(q[1], r)
  PROVE  q[1].pos = a /\ Steps(Tail(q), r, a + 1, b)
<1> DEFINE n == Len(q)
           l == n - 1
           t == Tail(q)
<1>1. /\ n \in Nat \ {0} /\ l \in Nat /\ Len(t) = l /\ 1 \in 1..n
      /\ \A i \in 1..l : t[i] = q[i + 1] /\ i + 1 \in 1..n /\ 1 < i + 1
      /\ \A i \in 1..n : i = 1 \/ (i - 1 \in 1..l /\ 1 < i)
  OBVIOUS
<1>2. \A i \in 1..n : i = 1 \/ t[i - 1] = q[i]
  OBVIOUS
<1> HIDE DEF t
<1>3. /\ a <= b
      /\ \A i, j \in 1..n : i < j /\ Pass(q[i], r) /\ Pass(q[j], r) => q[i].pos < q[j].pos
      /\ \A i \in 1..n : Pass(q[i], r) => a <= q[i].pos /\ q[i].pos < b
      /\ \A p \in Nat : a <= p /\ p < b => \E i \in 1..n : Pass(q[i], r) /\ q[i].pos = p
      /\ \A i \in 1..n : ~(q[i].kind = "release" /\ q[i].req = r)
  BY DEF Steps
<1>4. \A i \in 1..n : q[i].pos \in Nat
  BY DEF Asked
<1>5. q[1].pos = a
  <2>1. a <= q[1].pos /\ q[1].pos < b /\ q[1].pos \in Nat
    BY <1>1, <1>3, <1>4
  <2>2. PICK i \in 1..n : Pass(q[i], r) /\ q[i].pos = a
    BY <1>3, <2>1
  <2>3. i # 1 => q[1].pos < a
    BY <1>1, <1>3, <2>2
  <2>. QED  BY <2>1, <2>2, <2>3
<1>6. a + 1 <= b
  BY <1>1, <1>3, <1>5
<1>7. ASSUME NEW i \in 1..l, NEW j \in 1..l, i < j, Pass(t[i], r), Pass(t[j], r)
      PROVE  t[i].pos < t[j].pos
  <2>1. t[i] = q[i + 1] /\ i + 1 \in 1..n /\ t[j] = q[j + 1] /\ j + 1 \in 1..n /\ i + 1 < j + 1
    BY <1>1, <1>7
  <2>. QED  BY <1>3, <1>7, <2>1
<1>8. ASSUME NEW i \in 1..l, Pass(t[i], r)  PROVE a + 1 <= t[i].pos /\ t[i].pos < b
  <2>1. t[i] = q[i + 1] /\ i + 1 \in 1..n /\ 1 < i + 1
    BY <1>1
  <2>2. a < t[i].pos /\ t[i].pos < b /\ t[i].pos \in Nat
    BY <1>1, <1>3, <1>4, <1>5, <1>8, <2>1
  <2>. QED  BY <2>2
<1>9. ASSUME NEW p \in Nat, a + 1 <= p, p < b
      PROVE  \E i \in 1..l : Pass(t[i], r) /\ t[i].pos = p
  <2>1. PICK i \in 1..n : Pass(q[i], r) /\ q[i].pos = p
    BY <1>3, <1>9
  <2>2. i # 1
    BY <1>5, <1>9, <2>1
  <2>3. i - 1 \in 1..l /\ t[i - 1] = q[i]
    BY <1>1, <1>2, <2>1, <2>2
  <2>. QED  BY <2>1, <2>3
<1>10. \A i \in 1..l : ~(t[i].kind = "release" /\ t[i].req = r)
  BY <1>1, <1>3
<1>11. Len(t) = l
  BY <1>1
<1> HIDE DEF l
<1>12. Steps(t, r, a + 1, b)
  BY <1>6, <1>7, <1>8, <1>9, <1>10, <1>11 DEF Steps
<1>. QED  BY <1>5, <1>12 DEF t

(* What belongs to another request may go.                                 *)
LEMMA StepsLeft ==
  ASSUME NEW q \in Seq(Asked), NEW r \in Req, NEW a \in Nat, NEW b \in Nat,
         q # <<>>, Steps(q, r, a, b), ~Pass(q[1], r)
  PROVE  Steps(Tail(q), r, a, b)
<1> DEFINE n == Len(q)
           l == n - 1
           t == Tail(q)
<1>1. /\ n \in Nat \ {0} /\ l \in Nat /\ Len(t) = l
      /\ \A i \in 1..l : t[i] = q[i + 1] /\ i + 1 \in 1..n
      /\ \A i \in 1..n : i = 1 \/ i - 1 \in 1..l
  OBVIOUS
<1>2. \A i \in 1..n : i = 1 \/ t[i - 1] = q[i]
  OBVIOUS
<1> HIDE DEF t
<1>3. /\ a <= b
      /\ \A i, j \in 1..n : i < j /\ Pass(q[i], r) /\ Pass(q[j], r) => q[i].pos < q[j].pos
      /\ \A i \in 1..n : Pass(q[i], r) => a <= q[i].pos /\ q[i].pos < b
      /\ \A p \in Nat : a <= p /\ p < b => \E i \in 1..n : Pass(q[i], r) /\ q[i].pos = p
      /\ \A i \in 1..n : ~(q[i].kind = "release" /\ q[i].req = r)
  BY DEF Steps
<1>4. ASSUME NEW i \in 1..l, NEW j \in 1..l, i < j, Pass(t[i], r), Pass(t[j], r)
      PROVE  t[i].pos < t[j].pos
  <2>1. t[i] = q[i + 1] /\ i + 1 \in 1..n /\ t[j] = q[j + 1] /\ j + 1 \in 1..n /\ i + 1 < j + 1
    BY <1>1, <1>4
  <2>. QED  BY <1>3, <1>4, <2>1
<1>5. ASSUME NEW i \in 1..l, Pass(t[i], r)  PROVE a <= t[i].pos /\ t[i].pos < b
  <2>1. t[i] = q[i + 1] /\ i + 1 \in 1..n
    BY <1>1
  <2>. QED  BY <1>3, <1>5, <2>1
<1>6. ASSUME NEW p \in Nat, a <= p, p < b
      PROVE  \E i \in 1..l : Pass(t[i], r) /\ t[i].pos = p
  <2>1. PICK i \in 1..n : Pass(q[i], r) /\ q[i].pos = p
    BY <1>3, <1>6
  <2>2. i - 1 \in 1..l /\ t[i - 1] = q[i]
    BY <1>1, <1>2, <2>1
  <2>. QED  BY <2>1, <2>2
<1>7. \A i \in 1..l : ~(t[i].kind = "release" /\ t[i].req = r)
  BY <1>1, <1>3
<1>8. Len(t) = l
  BY <1>1
<1> HIDE DEF l
<1>9. Steps(t, r, a, b)
  BY <1>3, <1>4, <1>5, <1>6, <1>7, <1>8 DEF Steps
<1>. QED  BY <1>9 DEF t


-----------------------------------------------------------------------------
(* How many passes were sent.                                              *)
LEMMA SentNatural ==
  ASSUME Types, NEW w, NEW r \in Req
  PROVE  Sent(w, r) \in Nat
<1>1. req[r].pos \in Nat
  BY DEF Types, ReqTypes, Run
<1>. QED  BY <1>1 DEF Sent

(* None by a run that is at rest.                                          *)
LEMMA SentStays ==
  ASSUME pipe' = pipe, NEW w, NEW q \in Req, Stays(q), Idle(q)' <=> Idle(q)
  PROVE  Sent(w, q)' = Sent(w, q)
<1>1. Asks(w, q)' <=> Asks(w, q)
  BY DEF Asks, Stays
<1>. QED  BY <1>1 DEF Sent, Stays

(* None by the loop alone: the coordinator's stage is no worker's, and     *)
(* with a new token the count starts where it ended.                       *)
LEMMA SentMoves ==
  ASSUME Types, pipe' = pipe, NEW w \in Worker, NEW r \in Req,
         Idle(r), Idle(r)', Waited(r) \/ PassedHere(r) \/ NextToken(r)
  PROVE  Sent(w, r)' = Sent(w, r)
<1> DEFINE on(at) == \E i \in 1..Len(pipe) : pipe[i].node = w /\ i < at
           part == \E i \in 1..Len(pipe) : pipe[i].node = w
<1>1. Len(pipe) \in Nat /\ req[r] \in Run /\ Fit(req[r])
  BY DEF Types, PipeTypes, ReqTypes
<1>2. (Asks(w, r) <=> on(req[r].at)) /\ (Asks(w, r)' <=> on(req'[r].at))
  BY DEF Asks
<1>3. CASE Waited(r)
  <2>1. req[r].pos = 0 /\ req'[r].pos = 0 /\ req[r].at = 0 /\ req'[r].at \in {0, 1}
    BY <1>1, <1>3 DEF Waited, Fit
  <2>2. ~on(req[r].at) /\ ~on(req'[r].at)
    BY <1>1, <2>1
  <2>. QED  BY <1>2, <2>1, <2>2 DEF Sent
<1>4. CASE PassedHere(r)
  <2>1. /\ req'[r].pos = req[r].pos /\ req'[r].at = req[r].at + 1
        /\ req[r].at \in 1..Len(pipe) /\ pipe[req[r].at].node = Self
    BY <1>1, <1>4 DEF PassedHere, Fit, At
  <2>2. \A i \in 1..Len(pipe) : pipe[i].node = w => i # req[r].at
    BY <2>1 DEF Worker
  <2>3. on(req[r].at) <=> on(req'[r].at)
    BY <1>1, <2>1, <2>2
  <2> HIDE DEF on
  <2>. QED  BY <1>2, <2>1, <2>3 DEF Sent
<1>5. CASE NextToken(r)
  <2>1. /\ req'[r].pos = req[r].pos + 1 /\ req[r].at = Len(pipe) + 1 /\ req'[r].at = 1
    BY <1>1, <1>5 DEF NextToken, Fit
  <2>2. (on(req[r].at) <=> part) /\ ~on(req'[r].at)
    BY <1>1, <2>1
  <2> HIDE DEF on
  <2>3. Sent(w, r)' = IF part THEN req'[r].pos ELSE 0
    BY <1>2, <2>2 DEF Sent
  <2>4. Sent(w, r) = IF part THEN req[r].pos + 1 ELSE 0
    BY <1>2, <2>2 DEF Sent
  <2> HIDE DEF part
  <2>. QED  BY <2>1, <2>3, <2>4
<1>. QED  BY <1>3, <1>4, <1>5

(* None by an answer.                                                      *)
LEMMA SentAnswered ==
  ASSUME Types, pipe' = pipe, NEW w, NEW r \in Req,
         ~Idle(r), Idle(r)', req'[r].at = req[r].at + 1, req'[r].pos = req[r].pos
  PROVE  Sent(w, r)' = Sent(w, r)
<1>1. Len(pipe) \in Nat /\ req[r].at \in Nat
  BY DEF Types, PipeTypes, ReqTypes, Run
<1>2. \A i \in 1..Len(pipe) : i < req'[r].at <=> (i < req[r].at \/ i = req[r].at)
  BY <1>1
<1>3. Asks(w, r)' <=> Asks(w, r)
  BY <1>2 DEF Asks
<1>. QED  BY <1>3 DEF Sent

(* One by a stage that is asked, to the worker it is at.                   *)
LEMMA SentAsked ==
  ASSUME Types, pipe' = pipe, NEW w, NEW r \in Req,
         Idle(r), ~Idle(r)', req[r].pc = "forward", At(r).node = w, Stays(r)
  PROVE  /\ Sent(w, r) = req[r].pos /\ Sent(w, r)' = req[r].pos + 1
         /\ \A v : v # w => Sent(v, r)' = Sent(v, r)
<1>1. /\ Len(pipe) \in Nat /\ req[r].at \in 1..Len(pipe) /\ pipe[req[r].at].node = w
      /\ \A i, j \in 1..Len(pipe) : pipe[i].node = pipe[j].node => i = j
      /\ req'[r].at = req[r].at /\ req'[r].pos = req[r].pos
  BY DEF Types, PipeTypes, ReqTypes, Fit, At, Stays
<1>2. \A i \in 1..Len(pipe) : pipe[i].node = w => i = req[r].at
  BY <1>1
<1>3. ~Asks(w, r) /\ Asks(w, r)'
  BY <1>1, <1>2 DEF Asks
<1>4. ASSUME NEW v, v # w  PROVE Sent(v, r)' = Sent(v, r)
  <2>1. Asks(v, r)' <=> Asks(v, r)
    BY <1>1, <1>4 DEF Asks
  <2>. QED  BY <1>1, <2>1 DEF Sent
<1>. QED  BY <1>1, <1>3, <1>4 DEF Sent


-----------------------------------------------------------------------------
(* A worker's slot and the passes that wait for it are in step.            *)
AtStep(w, q) == Steps(link'[w].out, q, Passes(w, q)', Sent(w, q)')

(* Nothing was sent to it and it did nothing.                              *)
LEMMA StillInStep ==
  ASSUME InStep, NEW w \in Worker, NEW q \in Req, Going(w, q),
         link'[w].out = link[w].out, Passes(w, q)' = Passes(w, q), Sent(w, q)' = Sent(w, q)
  PROVE  AtStep(w, q)
BY DEF InStep, AtStep

(* The loop moves a run.                                                   *)
LEMMA LoopInStep ==
  ASSUME Types, ReadsOwn, InStep, pipe' = pipe, InLoop,
         NEW w \in Worker, NEW q \in Req, Going(w, q)'
  PROVE  AtStep(w, q)
<1>1. UNCHANGED <<link, slot, reader>>
  BY DEF InLoop, wire, cache
<1>2. Passes(w, q)' = Passes(w, q) /\ (Idle(q)' <=> Idle(q)) /\ link'[w] = link[w]
  BY <1>1 DEF Passes, Idle
<1>3. CASE Stays(q)
  <2>1. Going(w, q)
    BY <1>2, <1>3 DEF Going, Stays
  <2>. QED  BY <1>2, <1>3, <2>1, SentStays, StillInStep
<1>4. CASE Moves(q)
  <2>1. Idle(q) /\ Idle(q)'
    BY <1>2, <1>4, MoversIdle
  <2>2. Waited(q) \/ PassedHere(q) \/ NextToken(q)
    BY <1>4 DEF Moves, Ended, Going
  <2>3. Going(w, q)
    BY <1>2, <1>4, <2>2 DEF Going, Moves, Waited, PassedHere, NextToken
  <2>4. Sent(w, q)' = Sent(w, q)
    BY <2>1, <2>2, SentMoves
  <2>. QED  BY <1>2, <2>3, <2>4, StillInStep
<1>. QED  BY <1>3, <1>4 DEF InLoop, AtRest, Moves

(* A message is sent.                                                      *)
LEMMA AskedInStep ==
  ASSUME Types, InStep, pipe' = pipe, NEW x \in Party, NEW u \in Worker, NEW m \in Asked,
         AsksOne(x, u, m), NEW w \in Worker, NEW q \in Req, Going(w, q)'
  PROVE  AtStep(w, q)
<1>1. /\ \A v \in Worker \ {u} : link'[v] = link[v]
      /\ link'[u].out = Append(link[u].out, m) /\ link'[u].open = link[u].open
      /\ \A y \in Others(x) : reader'[y] = reader[y]
      /\ ~Idle(x)'
  BY PostDoes DEF AsksOne
<1>2. Stays(q) /\ Idle(x) /\ Asking(x, u, m) /\ Passes(w, q)' = Passes(w, q)
  BY DEF AsksOne, AtRest, Passes, cache
<1>3. Going(w, q)
  BY <1>1, <1>2 DEF Going, Stays
<1>4. q # x => (Idle(q)' <=> Idle(q))
  BY <1>1 DEF Idle, Others, Party
<1>5. /\ link[w].out \in Seq(Asked) /\ Passes(w, q) \in Nat /\ Sent(w, q) \in Nat
      /\ Steps(link[w].out, q, Passes(w, q), Sent(w, q))
  BY <1>3, PassesNatural, SentNatural DEF Types, WireTypes, InStep
<1>6. CASE q = x /\ req[x].pc = "forward"
  <2>1. /\ At(q).node = u /\ m = Message("forward", q, req[q].pos) /\ Idle(q) /\ ~Idle(q)'
        /\ req[q].pc = "forward"
    BY <1>1, <1>2, <1>6, LinkAssumption DEF Asking
  <2>2. /\ Sent(u, q) = req[q].pos /\ Sent(u, q)' = req[q].pos + 1
        /\ \A v : v # u => Sent(v, q)' = Sent(v, q)
    BY <1>2, <2>1, SentAsked
  <2>3. CASE w = u
    <3>1. Pass(m, q) /\ m.pos = Sent(w, q)
      BY <2>1, <2>2, <2>3 DEF Pass, Message
    <3>2. Steps(Append(link[w].out, m), q, Passes(w, q), Sent(w, q) + 1)
      BY <1>5, <3>1, StepsSent
    <3>. QED  BY <1>1, <1>2, <2>2, <2>3, <3>2 DEF AtStep
  <2>4. CASE w # u
    BY <1>1, <1>2, <1>3, <2>2, <2>4, StillInStep
  <2>. QED  BY <2>3, <2>4
<1>7. CASE ~(q = x /\ req[x].pc = "forward")
  <2>1. ~Pass(m, q) /\ ~(m.kind = "release" /\ m.req = q) /\ q # x
    <3>1. q # x
      BY <1>2, <1>3, <1>7, LinkAssumption DEF Asking, Going
    <3>. QED  BY <1>2, <3>1, LinkAssumption DEF Asking, Pass, Message
  <2>2. Sent(w, q)' = Sent(w, q)
    BY <1>2, <1>4, <2>1, SentStays
  <2>3. CASE w = u
    <3>1. Steps(Append(link[w].out, m), q, Passes(w, q), Sent(w, q))
      BY <1>5, <2>1, StepsBehind
    <3>. QED  BY <1>1, <1>2, <2>2, <2>3, <3>1 DEF AtStep
  <2>4. CASE w # u
    BY <1>1, <1>2, <1>3, <2>2, <2>4, StillInStep
  <2>. QED  BY <2>3, <2>4
<1>. QED  BY <1>6, <1>7

(* An answer is read, or not waited for any more.                          *)
LEMMA ReadInStep ==
  ASSUME Types, ReadsOwn, InStep, pipe' = pipe, NEW x \in Party, ReadsOne(x),
         NEW w \in Worker, NEW q \in Req, Going(w, q)'
  PROVE  AtStep(w, q)
<1>1. ~Idle(x) /\ (q # x => req'[q] = req[q]) /\ Passes(w, q)' = Passes(w, q)
  BY ReadMoves DEF cache, Passes
<1>2. /\ link'[w].out = link[w].out /\ link'[w].open = link[w].open
      /\ q # x => reader'[q].st = reader[q].st \/ Waits(x)
  <2>1. CASE link[reader[x].at].in # <<>> /\ Takes(x, reader[x].at)
    BY <1>1, <2>1, TakesDoes DEF Others, Party
  <2>2. CASE GivesUp(x)
    BY <2>2, GivesUpDoes DEF GivesUp, Others, Party
  <2>3. CASE Waits(x)
    BY <2>3 DEF Waits
  <2>. QED  BY <2>1, <2>2, <2>3, ReadCases DEF ReadsOne
<1>3. CASE q # x
  <2>1. Idle(q)' <=> Idle(q)
    BY <1>2, <1>3, WaitsDoes DEF Idle, Party
  <2>2. Stays(q) /\ Going(w, q)
    BY <1>1, <1>2, <1>3 DEF Stays, Going
  <2>. QED  BY <1>1, <1>2, <2>1, <2>2, SentStays, StillInStep
<1>4. CASE q = x /\ Waits(x)
  <2>1. (Idle(q)' <=> Idle(q)) /\ Stays(q)
    BY <1>4, WaitsDoes DEF Waits, Stays, Party
  <2>2. Going(w, q)
    BY <1>2, <2>1 DEF Stays, Going
  <2>. QED  BY <1>1, <1>2, <2>1, <2>2, SentStays, StillInStep
<1>5. ASSUME q = x, Fails(x)  PROVE FALSE
  <2>1. req'[q].pc = "release" \/ (req[q].pc # "forward" /\ req'[q] = req[q])
    BY <1>5, FailsDoes
  <2>2. req[q].pc \in {"forward", "release"}
    BY <1>1, <1>5 DEF ReadsOwn
  <2>. QED  BY <2>1, <2>2 DEF Going
<1>6. CASE q = x /\ ~Waits(x)
  <2>1. Takes(x, reader[x].at) /\ link[reader[x].at].in # <<>>
    BY <1>5, <1>6, ReadCases DEF ReadsOne, GivesUp
  <2>2. req[x].pc = "forward" /\ \E s : Through(x, s)
    BY <1>5, <1>6, <2>1 DEF Takes
  <2>3. /\ req'[q].pc \in {"forward", "yield"} /\ req'[q].at = req[q].at + 1
        /\ req'[q].pos = req[q].pos /\ req'[q].stalled = req[q].stalled
    BY <1>6, <2>2, ThroughDoes
  <2>4. Idle(q)'
    BY <1>1, <1>6, <2>1, TakesDoes
  <2>5. Going(w, q)
    BY <1>2, <1>6, <2>2, <2>3 DEF Going
  <2>6. Sent(w, q)' = Sent(w, q)
    BY <1>1, <1>6, <2>3, <2>4, SentAnswered
  <2>. QED  BY <1>1, <1>2, <2>5, <2>6, StillInStep
<1>. QED  BY <1>3, <1>4, <1>6

(* A worker does what it is asked.                                         *)
LEMMA HandledInStep ==
  ASSUME Types, InStep, pipe' = pipe, NEW u \in Worker, Handle(u),
         NEW w \in Worker, NEW q \in Req, Going(w, q)'
  PROVE  AtStep(w, q)
<1> DEFINE m == Head(link[u].out)
<1>1. /\ link[u].out # <<>> /\ link[u].out[1] = m
      /\ UNCHANGED <<req, reader, shaken>>
  BY HandleDoes
<1>2. PICK a \in Answered : Answers(u, a) /\ Handled(u, m, a)
  BY HandleDoes
<1>3. /\ \A v \in Worker \ {u} : link'[v] = link[v]
      /\ link'[u].out = Tail(link[u].out) /\ link'[u].open = link[u].open
  BY <1>1, <1>2, AnswersDoes
<1>4. Stays(q) /\ (Idle(q)' <=> Idle(q)) /\ Going(w, q)
  BY <1>1, <1>3 DEF Stays, Idle, Going
<1>5. Sent(w, q)' = Sent(w, q)
  BY <1>4, SentStays
<1>6. /\ link[u].out \in Seq(Asked) /\ Passes(w, q) \in Nat /\ Sent(w, q) \in Nat
      /\ Steps(link[w].out, q, Passes(w, q), Sent(w, q))
  BY <1>4, PassesNatural, SentNatural DEF Types, WireTypes, InStep
<1> HIDE DEF m
<1>7. m.kind = "forward" =>
        /\ m.req \in Req /\ Passes(u, m.req) + 1 \in Nat
        /\ slot' = [slot EXCEPT ![u] = With(@, m.req, Passes(u, m.req) + 1)]
  BY <1>2, PassesNatural DEF Handled
<1>8. m.kind = "release" => m.req \in Req /\ slot' = [slot EXCEPT ![u] = Freed(@, m.req)]
  BY <1>2 DEF Handled
<1>9. m.kind \notin {"forward", "release"} => slot' = slot
  BY <1>2 DEF Handled, cache
<1>10. w # u \/ m.kind \notin {"forward", "release"} \/ m.req # q => Passes(w, q)' = Passes(w, q)
  <2>1. CASE m.kind = "forward"
    BY <1>7, <2>1, SlotFilled
  <2>2. CASE m.kind = "release"
    BY <1>8, <2>2, SlotFreed
  <2>3. CASE m.kind \notin {"forward", "release"}
    BY <1>9, <2>3 DEF Passes
  <2>. QED  BY <2>1, <2>2, <2>3
<1>11. CASE w # u
  BY <1>3, <1>4, <1>5, <1>10, <1>11, StillInStep
<1>12. CASE w = u /\ Pass(m, q)
  <2>1. m.kind = "forward" /\ m.req = q
    BY <1>12 DEF Pass
  <2>2. Passes(w, q)' = Passes(w, q) + 1
    BY <1>7, <1>12, <2>1, SlotFilled
  <2>3. Steps(Tail(link[w].out), q, Passes(w, q) + 1, Sent(w, q))
    BY <1>1, <1>6, <1>12, StepsTaken
  <2>. QED  BY <1>3, <1>5, <1>12, <2>2, <2>3 DEF AtStep
<1>13. CASE w = u /\ ~Pass(m, q)
  <2>1. ~(m.kind = "release" /\ m.req = q)
    <3>1. Len(link[u].out) \in Nat /\ 1 \in 1..Len(link[u].out)
      BY <1>1, <1>6
    <3>. QED  BY <1>1, <1>6, <1>13, <3>1 DEF Steps
  <2>2. Passes(w, q)' = Passes(w, q)
    BY <1>10, <1>13, <2>1 DEF Pass
  <2>3. Steps(Tail(link[w].out), q, Passes(w, q), Sent(w, q))
    BY <1>1, <1>6, <1>13, StepsLeft
  <2>. QED  BY <1>3, <1>5, <1>13, <2>2, <2>3 DEF AtStep
<1>. QED  BY <1>11, <1>12, <1>13

(* Every step keeps workers and loop in step.                              *)
LEMMA InStepStep ==
  ASSUME Types, ReadsOwn, InStep, Next
  PROVE  InStep'
<1> SUFFICES ASSUME NEW w \in Worker, NEW q \in Req, Going(w, q)'  PROVE AtStep(w, q)
  BY DEF InStep, AtStep
<1>1. pipe' = pipe
  BY PipeStays
<1>2. CASE InLoop
  BY <1>1, <1>2, LoopInStep
<1>3. ASSUME NEW x \in Party, NEW u \in Worker, NEW m \in Asked, AsksOne(x, u, m)
      PROVE  AtStep(w, q)
  BY <1>1, <1>3, AskedInStep
<1>4. ASSUME NEW x \in Party, ReadsOne(x)  PROVE AtStep(w, q)
  BY <1>1, <1>4, ReadInStep
<1>5. ASSUME NEW u \in Worker, Handle(u)  PROVE AtStep(w, q)
  BY <1>1, <1>5, HandledInStep
<1>6. ASSUME w \in Worker, link'[w] = link[w], UNCHANGED reader, Stays(q),
             Passes(w, q)' = Passes(w, q)
      PROVE  AtStep(w, q)
  <2>1. Going(w, q) /\ (Idle(q)' <=> Idle(q))
    BY <1>6 DEF Going, Stays, Idle
  <2>. QED  BY <1>1, <1>6, <2>1, SentStays, StillInStep
<1>7. ASSUME NEW u \in Worker, HandlerRaises(u)  PROVE AtStep(w, q)
  <2>1. (\A v \in Worker \ {u} : link'[v] = link[v]) /\ ~link'[u].open
    BY <1>7, RaisesDoes
  <2>2. w # u
    BY <2>1 DEF Going
  <2>3. UNCHANGED <<reader, req>>
    BY <1>7 DEF HandlerRaises, loop
  <2>4. Passes(w, q)' = Passes(w, q)
    <3>1. slot'[w] = slot[w]
      BY <1>7, <2>2 DEF HandlerRaises, Types, CacheTypes
    <3>. QED  BY <3>1 DEF Passes
  <2>. QED  BY <1>6, <2>1, <2>2, <2>3, <2>4 DEF Stays
<1>8. ASSUME NEW u \in Worker, LosesOne(u)  PROVE AtStep(w, q)
  <2>1. w # u /\ UNCHANGED <<reader, req>> /\ link'[w] = link[w] /\ slot'[w] = slot[w]
    BY <1>8 DEF LosesOne, Breaks, Going
  <2>. QED  BY <1>6, <2>1 DEF Stays, Passes
<1>9. ASSUME NEW u \in Worker, NEW r \in Req, Reaped(u, r)  PROVE AtStep(w, q)
  <2>1. Stays(q) /\ UNCHANGED <<reader, link>>
    BY <1>9 DEF Reaped, AtRest, wire
  <2>2. w # u \/ q # r
    BY <1>9 DEF Reaped, Going
  <2>3. Passes(w, q)' = Passes(w, q)
    BY <1>9, <2>2, SlotFreed, ZenonT(60) DEF Reaped
  <2>. QED  BY <1>6, <2>1, <2>3
<1>. QED  BY <1>2, <1>3, <1>4, <1>5, <1>7, <1>8, <1>9, StepCases


-----------------------------------------------------------------------------
(* A connection nobody gave up on.                                         *)
QuietAt(w) ==
  /\ \A x, y \in Reading(w) : x = y
  /\ Len(link[w].out) + Len(link[w].in) <= 1
  /\ Reading(w) = {} => Len(link[w].out) = 0 /\ Len(link[w].in) = 0
  /\ \A x \in Reading(w) :
       /\ \A i \in 1..Len(link[w].out) : Own(x, link[w].out[i])
       /\ \A i \in 1..Len(link[w].in) : Own(x, link[w].in[i])

(* How long queues are.                                                    *)
LEMMA Lengths ==
  ASSUME NEW S, NEW q \in Seq(S)
  PROVE  /\ Len(q) \in Nat /\ (q = <<>> <=> Len(q) = 0)
         /\ q # <<>> => Len(q) >= 1 /\ Len(Tail(q)) = Len(q) - 1
         /\ \A e \in S : /\ Len(Append(q, e)) = Len(q) + 1
                         /\ Append(q, e)[Len(q) + 1] = e
OBVIOUS

(* Of the queues of a quiet connection one is empty.                       *)
LEMMA OneMessage ==
  ASSUME Types, NEW w \in Worker, QuietAt(w)
  PROVE  /\ link[w].out \in Seq(Asked) /\ link[w].in \in Seq(Answered)
         /\ link[w].out # <<>> => Len(link[w].out) = 1 /\ Len(link[w].in) = 0
         /\ link[w].in # <<>> => Len(link[w].in) = 1 /\ Len(link[w].out) = 0
<1> DEFINE o == Len(link[w].out)
           i == Len(link[w].in)
<1>1. link[w].out \in Seq(Asked) /\ link[w].in \in Seq(Answered)
  BY DEF Types, WireTypes
<1>2. o \in Nat /\ (link[w].out # <<>> => o >= 1)
  BY <1>1, Lengths
<1>3. i \in Nat /\ (link[w].in # <<>> => i >= 1)
  BY <1>1, Lengths
<1>4. o + i <= 1
  BY DEF QuietAt
<1> HIDE DEF o, i
<1>5. (o >= 1 => o = 1 /\ i = 0) /\ (i >= 1 => i = 1 /\ o = 0)
  BY <1>2, <1>3, <1>4
<1>. QED  BY <1>1, <1>2, <1>3, <1>5 DEF o, i

(* What belongs to a reader at rest still does.                            *)
LEMMA OwnStays ==
  ASSUME NEW x, NEW m, x \in Req => Stays(x), Own(x, m)
  PROVE  Own(x, m)'
BY DEF Own, Stays

(* Who reads elsewhere and goes on does not disturb it.                    *)
LEMMA StillQuiet ==
  ASSUME Types, NEW w \in Worker, QuietAt(w), link'[w] = link[w], Reading(w)' = Reading(w),
         \A x \in Reading(w) : x \in Req => Stays(x)
  PROVE  QuietAt(w)'
BY OwnStays DEF QuietAt

(* The loop moves a run that does not read.                                *)
LEMMA LoopQuiet ==
  ASSUME Types, ReadsOwn, InLoop, NEW w \in Worker, QuietAt(w)
  PROVE  QuietAt(w)'
<1>1. link' = link /\ reader' = reader
  BY DEF InLoop, wire
<1>2. Reading(w)' = Reading(w)
  BY <1>1 DEF Reading, Idle
<1>3. \A x \in Reading(w) : x \in Req => Stays(x)
  <2>1. ASSUME NEW r \in Req, Moves(r), NEW x \in Reading(w), x \in Req  PROVE Stays(x)
    <3>1. x # r
      BY <2>1, MoversIdle DEF Reading
    <3>. QED  BY <2>1, <3>1 DEF Moves
  <2>. QED  BY <2>1 DEF InLoop, AtRest
<1>. QED  BY <1>1, <1>2, <1>3, StillQuiet

(* Who asks is the only one, and its message is the only one.              *)
LEMMA AskedQuiet ==
  ASSUME Types, NEW x \in Party, NEW u \in Worker, NEW m \in Asked, AsksOne(x, u, m),
         NEW w \in Worker \ shaken', QuietAt(w)
  PROVE  QuietAt(w)'
<1>1. /\ \A v \in Worker \ {u} : link'[v] = link[v]
      /\ link'[u].out = Append(link[u].out, m) /\ link'[u].in = link[u].in
      /\ \A y \in Others(x) : reader'[y] = reader[y]
      /\ reader'[x].at = u /\ ~Idle(x)'
      /\ shaken' = IF Reading(u) = {} THEN shaken ELSE shaken \cup {u}
  BY PostDoes DEF AsksOne
<1>2. AtRest /\ Idle(x) /\ Asking(x, u, m)
  BY DEF AsksOne
<1>3. \A y \in Others(x) : y \in Reading(w)' <=> y \in Reading(w)
  BY <1>1 DEF Reading, Idle, Others
<1>4. x \notin Reading(w) /\ (x \in Reading(w)' <=> w = u)
  BY <1>1, <1>2 DEF Reading
<1>5. Reading(w) \subseteq Party /\ Reading(w)' \subseteq Party
  BY DEF Reading, Party
<1>6. CASE w # u
  <2>1. Reading(w)' = Reading(w)
    BY <1>3, <1>4, <1>5, <1>6 DEF Others
  <2>. QED  BY <1>1, <1>2, <1>6, <2>1, StillQuiet DEF AtRest
<1>7. CASE w = u
  <2>1. Reading(w) = {}
    BY <1>1, <1>7
  <2>2. Reading(w)' = {x}
    BY <1>3, <1>4, <1>5, <1>7, <2>1 DEF Others
  <2>3. /\ link[w].out \in Seq(Asked) /\ link[w].in \in Seq(Answered)
        /\ Len(link[w].out) = 0 /\ Len(link[w].in) = 0
    BY <2>1 DEF QuietAt, Types, WireTypes
  <2>4. /\ Len(link'[w].out) = 1 /\ link'[w].out[1] = m /\ Len(link'[w].in) = 0
    <3>1. Len(Append(link[w].out, m)) = 1 /\ Append(link[w].out, m)[1] = m
      BY <2>3, Lengths
    <3>. QED  BY <1>1, <1>7, <2>3, <3>1
  <2>5. Own(x, m)'
    BY <1>2, LinkAssumption DEF Own, Asking, Message, AtRest, Stays
  <2>6. /\ \A i \in 1..Len(link'[w].out) : i = 1
        /\ \A i \in 1..Len(link'[w].in) : FALSE
    BY <2>4
  <2>. QED  BY <2>2, <2>4, <2>5, <2>6 DEF QuietAt
<1>. QED  BY <1>6, <1>7

(* Who reads takes the only answer.                                        *)
LEMMA ReadQuiet ==
  ASSUME Types, NEW x \in Party, ReadsOne(x), NEW w \in Worker \ shaken', QuietAt(w)
  PROVE  QuietAt(w)'
<1>1. ~Idle(x) /\ \A q \in Req \ {x} : req'[q] = req[q]
  BY ReadMoves
<1>2. \A q \in Req \ {x} : Stays(q)
  BY <1>1 DEF Stays
<1>3. ASSUME (\A y \in Others(x) : reader'[y] = reader[y]), Idle(x)', reader[x].at # w,
             link'[w] = link[w]
      PROVE  QuietAt(w)'
  <2>1. Reading(w)' = Reading(w) /\ x \notin Reading(w)
    BY <1>3 DEF Reading, Idle, Others
  <2>. QED  BY <1>2, <1>3, <2>1, StillQuiet
<1>4. CASE link[reader[x].at].in # <<>> /\ Takes(x, reader[x].at)
  <2> DEFINE u == reader[x].at
  <2>1. /\ u \in Worker /\ \A v \in Worker \ {u} : link'[v] = link[v]
        /\ link'[u].out = link[u].out /\ link'[u].in = Tail(link[u].in)
        /\ \A y \in Others(x) : reader'[y] = reader[y]
        /\ Idle(x)'
    BY <1>1, <1>4, TakesDoes
  <2>2. CASE u # w
    BY <1>3, <2>1, <2>2
  <2>3. CASE u = w
    <3>1. x \in Reading(w)
      BY <1>1, <2>3 DEF Reading
    <3>2. \A y \in Reading(w) : y = x
      BY <3>1 DEF QuietAt
    <3>3. Reading(w)' = {}
      BY <2>1, <3>2 DEF Reading, Idle, Others
    <3>4. /\ link[w].in \in Seq(Answered) /\ link[w].in # <<>>
          /\ Len(link[w].in) = 1 /\ Len(link[w].out) = 0
      BY <1>4, <2>3, OneMessage
    <3>5. Len(Tail(link[w].in)) = 0
      BY <3>4
    <3>6. Len(link'[w].out) = 0 /\ Len(link'[w].in) = 0
      BY <2>1, <2>3, <3>4, <3>5
    <3>. QED  BY <3>3, <3>6 DEF QuietAt
  <2>. QED  BY <2>2, <2>3
<1>5. CASE GivesUp(x)
  BY <1>3, <1>5, GivesUpDoes DEF GivesUp
<1>6. CASE Waits(x)
  <2>1. Reading(w)' = Reading(w) /\ link' = link
    BY <1>6, WaitsDoes DEF Reading, Waits
  <2>2. \A q \in Req : Stays(q)
    BY <1>6 DEF Waits, Stays
  <2>. QED  BY <2>1, <2>2, StillQuiet
<1>. QED  BY <1>4, <1>5, <1>6, ReadCases DEF ReadsOne

(* A worker answers what it was asked.                                     *)
LEMMA HandledQuiet ==
  ASSUME Types, NEW u \in Worker, Handle(u), NEW w \in Worker, QuietAt(w)
  PROVE  QuietAt(w)'
<1> DEFINE m == Head(link[u].out)
<1>1. /\ link[u].out # <<>> /\ link[u].out[1] = m
      /\ UNCHANGED <<req, reader, shaken>>
  BY HandleDoes
<1>2. PICK a \in Answered : Answers(u, a) /\ Handled(u, m, a)
  BY HandleDoes
<1>3. /\ \A v \in Worker \ {u} : link'[v] = link[v]
      /\ link'[u].out = Tail(link[u].out)
      /\ link'[u].in = IF link[u].open THEN Append(link[u].in, a) ELSE link[u].in
  BY <1>1, <1>2, AnswersDoes
<1>4. Reading(w)' = Reading(w) /\ \A q \in Req : Stays(q)
  BY <1>1 DEF Reading, Idle, Stays
<1>5. CASE w # u
  BY <1>3, <1>4, <1>5, StillQuiet
<1>6. CASE w = u
  <2>1. /\ link[w].out \in Seq(Asked) /\ link[w].in \in Seq(Answered) /\ link[w].out # <<>>
        /\ Len(link[w].out) = 1 /\ Len(link[w].in) = 0
    BY <1>1, <1>6, OneMessage
  <2>2. 1 \in 1..Len(link[w].out)
    BY <2>1
  <2>3. /\ Len(link'[w].out) = 0
        /\ Len(link'[w].in) = 0 \/ (Len(link'[w].in) = 1 /\ link'[w].in[1] = a)
    <3>1. Len(Tail(link[w].out)) = 0
      BY <2>1
    <3>2. Len(Append(link[w].in, a)) = 1 /\ Append(link[w].in, a)[1] = a
      BY <2>1
    <3>3. Len(link'[w].out) = 0
      BY <1>3, <1>6, <3>1
    <3>4. link'[w].in = link[w].in \/ link'[w].in = Append(link[w].in, a)
      BY <1>3, <1>6
    <3>. QED  BY <2>1, <3>2, <3>3, <3>4
  <2>4. ASSUME NEW x \in Reading(w)  PROVE Own(x, a)'
    <3>1. Own(x, m)
      BY <1>1, <1>6, <2>2, <2>4 DEF QuietAt
    <3> HIDE DEF m
    <3>2. Own(x, a)
      BY <1>2, <3>1 DEF Own, Handled, Message
    <3>. QED  BY <1>4, <3>2, OwnStays
  <2>5. Reading(w)' # {}
    BY <1>4, <2>1 DEF QuietAt
  <2>6. \A x, y \in Reading(w)' : x = y
    BY <1>4 DEF QuietAt
  <2>7. /\ \A i \in 1..Len(link'[w].out) : FALSE
        /\ \A i \in 1..Len(link'[w].in) : link'[w].in[i] = a
    BY <2>3
  <2>8. Len(link'[w].out) + Len(link'[w].in) <= 1
    <3> DEFINE o == Len(link'[w].out)
               i == Len(link'[w].in)
    <3>1. o = 0 /\ (i = 0 \/ i = 1)
      BY <2>3
    <3> HIDE DEF o, i
    <3>2. o + i <= 1
      BY <3>1
    <3>. QED  BY <3>2 DEF o, i
  <2>. QED  BY <1>4, <2>4, <2>5, <2>6, <2>7, <2>8 DEF QuietAt
<1>. QED  BY <1>5, <1>6

(* A connection that ends has an error on it, or less than before.         *)
LEMMA LostQuiet ==
  ASSUME Types, NEW u \in Worker, HandlerRaises(u) \/ LosesOne(u), NEW w \in Worker, QuietAt(w)
  PROVE  QuietAt(w)'
<1>1. UNCHANGED <<req, reader>>
  BY DEF HandlerRaises, LosesOne, Breaks, loop
<1>2. Reading(w)' = Reading(w) /\ \A q \in Req : Stays(q)
  BY <1>1 DEF Reading, Idle, Stays
<1>3. \A v \in Worker \ {u} : link'[v] = link[v]
  BY RaisesDoes DEF LosesOne, Breaks
<1>4. CASE w # u
  BY <1>2, <1>3, <1>4, StillQuiet
<1>5. /\ link[w].out \in Seq(Asked) /\ link[w].in \in Seq(Answered)
      /\ Len(link[w].out) + Len(link[w].in) <= 1
  BY DEF Types, WireTypes, QuietAt
<1>6. CASE w = u /\ HandlerRaises(u)
  <2> DEFINE e == Message("error", NoReq, 0)
  <2>1. link'[w].out = <<>> /\ link'[w].in = Append(link[w].in, e) /\ link[w].out # <<>>
    BY <1>6, RaisesDoes DEF HandlerRaises
  <2>2. \A x : Own(x, e)'
    BY DEF Own, Message
  <2> HIDE DEF e
  <2>3. Len(link'[w].out) = 0 /\ Len(link'[w].in) = 1 /\ link'[w].in[1] = e
    <3>3. Len(link[w].in) = 0
      BY <2>1, OneMessage
    <3>4. e \in Answered
      BY DEF e, Message, Answered
    <3>5. Len(Append(link[w].in, e)) = 1 /\ Append(link[w].in, e)[1] = e
      BY <1>5, <3>3, <3>4, Lengths
    <3>6. Len(link'[w].out) = 0
      BY <2>1
    <3>. QED  BY <2>1, <3>5, <3>6
  <2>4. Reading(w)' # {}
    <3>1. Len(link[w].out) # 0
      BY <1>5, <2>1, Lengths
    <3>. QED  BY <1>2, <3>1 DEF QuietAt
  <2>5. /\ \A i \in 1..Len(link'[w].out) : FALSE
        /\ \A i \in 1..Len(link'[w].in) : link'[w].in[i] = e
    BY <2>3
  <2>. QED  BY <1>2, <2>2, <2>3, <2>4, <2>5 DEF QuietAt
<1>7. CASE w = u /\ LosesOne(u)
  <2>1. link'[w].out \in {<<>>, link[w].out} /\ link'[w].in \in {<<>>, link[w].in}
    BY <1>7 DEF LosesOne, Breaks
  <2> DEFINE o == Len(link[w].out)
             i == Len(link[w].in)
             oo == Len(link'[w].out)
             ii == Len(link'[w].in)
  <2>2. o \in Nat /\ oo \in {0, o}
    BY <1>5, <2>1
  <2>3. i \in Nat /\ ii \in {0, i}
    BY <1>5, <2>1
  <2>4. o + i <= 1 /\ (Reading(w) = {} => o = 0 /\ i = 0)
    BY DEF QuietAt
  <2> HIDE DEF o, i, oo, ii
  <2>6. oo + ii <= 1 /\ (Reading(w) = {} => oo = 0 /\ ii = 0)
    BY <2>2, <2>3, <2>4
  <2>5. ASSUME NEW x \in Reading(w)
        PROVE  /\ (\A k \in 1..Len(link[w].out) : Own(x, link[w].out[k]))'
               /\ (\A k \in 1..Len(link[w].in) : Own(x, link[w].in[k]))'
    <3>1. /\ \A k \in 1..Len(link'[w].out) :
                k \in 1..Len(link[w].out) /\ link'[w].out[k] = link[w].out[k]
          /\ \A k \in 1..Len(link'[w].in) :
                k \in 1..Len(link[w].in) /\ link'[w].in[k] = link[w].in[k]
      BY <1>5, <2>1
    <3>2. ASSUME NEW n, Own(x, n)  PROVE Own(x, n)'
      BY <1>2, <3>2, OwnStays
    <3>3. /\ \A k \in 1..Len(link[w].out) : Own(x, link[w].out[k])
          /\ \A k \in 1..Len(link[w].in) : Own(x, link[w].in[k])
      BY <2>5 DEF QuietAt
    <3>4. ASSUME NEW k \in 1..Len(link'[w].out)  PROVE Own(x, link[w].out[k])'
      <4>1. link'[w].out[k] = link[w].out[k] /\ Own(x, link[w].out[k])
        BY <3>1, <3>3
      <4>. QED  BY <3>2, <4>1
    <3>5. ASSUME NEW k \in 1..Len(link'[w].in)  PROVE Own(x, link[w].in[k])'
      <4>1. link'[w].in[k] = link[w].in[k] /\ Own(x, link[w].in[k])
        BY <3>1, <3>3
      <4>. QED  BY <3>2, <4>1
    <3>. QED  BY <3>4, <3>5
  <2>. QED  BY <1>2, <2>5, <2>6 DEF QuietAt, oo, ii
<1>. QED  BY <1>4, <1>6, <1>7

(* A connection that is quiet stays so until somebody shakes it.           *)
LEMMA QuietStep ==
  ASSUME Types, ReadsOwn, Quiet, Next
  PROVE  Quiet'
<1>1. shaken \subseteq shaken'
  <2>1. ASSUME NEW x \in Party, ReadsOne(x)  PROVE shaken \subseteq shaken'
    BY <2>1, ReadCases, ReadMoves DEF ReadsOne, Takes, GivesUp, Waits
  <2>. QED  BY <2>1, StepCases
         DEF InLoop, AsksOne, Post, wire, Handle, HandlerRaises, LosesOne, Breaks, Reaped
<1> SUFFICES ASSUME NEW w \in Worker \ shaken'  PROVE QuietAt(w)'
  BY DEF Quiet, QuietAt
<1>2. QuietAt(w)
  BY <1>1 DEF Quiet, QuietAt
<1>3. ASSUME NEW u \in Worker, NEW r \in Req, Reaped(u, r)  PROVE QuietAt(w)'
  <2>1. Reading(w)' = Reading(w) /\ link' = link /\ \A q \in Req : Stays(q)
    BY <1>3 DEF Reaped, wire, AtRest, Reading, Idle
  <2>. QED  BY <1>2, <2>1, StillQuiet
<1>. QED  BY <1>2, <1>3, StepCases, LoopQuiet, AskedQuiet, ReadQuiet, HandledQuiet, LostQuiet


-----------------------------------------------------------------------------
(* What the hidden states went through.                                    *)
WayOf(r) ==
  req[r].pc \in {"forward", "yield"} =>
    /\ Len(req[r].pass) = req[r].at - 1
    /\ \A i \in 1..(req[r].at - 1) :
         req[r].pass[i] = [req |-> r, pos |-> req[r].pos, lo |-> pipe[i].lo, hi |-> pipe[i].hi]

(* A run at rest went where it went.                                       *)
LEMMA WayStays ==
  ASSUME pipe' = pipe, NEW r, Stays(r), WayOf(r)
  PROVE  WayOf(r)'
BY DEF WayOf, Stays

(* One stage more, the next of the pipeline.                               *)
LEMMA WayGoesOn ==
  ASSUME Types, pipe' = pipe, NEW r \in Req, req[r].pc = "forward", WayOf(r),
         req'[r].at = req[r].at + 1, req'[r].pos = req[r].pos,
         NEW k, k = req[r].at,
         req'[r].pass = Append(req[r].pass,
                               [req |-> r, pos |-> req[r].pos, lo |-> pipe[k].lo,
                               hi |-> pipe[k].hi])
  PROVE  WayOf(r)'
<1> DEFINE s == [req |-> r, pos |-> req[r].pos, lo |-> pipe[k].lo, hi |-> pipe[k].hi]
           p == req[r].pass
           t == Append(p, s)
<1>1. p \in Seq(Stage) /\ k \in Nat /\ k >= 1
  BY DEF Types, ReqTypes, Run, Fit
<1>2. /\ Len(p) = k - 1
      /\ \A i \in 1..(k - 1) :
           p[i] = [req |-> r, pos |-> req[r].pos, lo |-> pipe[i].lo, hi |-> pipe[i].hi]
  BY DEF WayOf
<1> HIDE DEF p, s
<1>3. /\ Len(t) = k /\ t[k] = s
      /\ \A i \in 1..(k - 1) : t[i] = p[i]
      /\ \A i \in 1..k : i \in 1..(k - 1) \/ i = k
  BY <1>1, <1>2
<1>4. req'[r].pass = t /\ req'[r].at - 1 = k
  BY <1>1 DEF p, s
<1> HIDE DEF t
<1>5. \A i \in 1..k :
        t[i] = [req |-> r, pos |-> req[r].pos, lo |-> pipe[i].lo, hi |-> pipe[i].hi]
  BY <1>2, <1>3 DEF s
<1>. QED  BY <1>3, <1>4, <1>5 DEF WayOf

(* The loop moves a run: the coordinator's stage is the first.             *)
LEMMA WayMoves ==
  ASSUME Types, SelfFirst, pipe' = pipe, NEW r \in Req, Moves(r), WayOf(r)
  PROVE  WayOf(r)'
<1>1. CASE Waited(r)
  <2>1. req'[r].pc \in {"forward", "yield"} => req'[r].at = 1 /\ req'[r].pass = <<>>
    BY <1>1 DEF Waited, Types, ReqTypes, Fit
  <2>. QED  BY <2>1 DEF WayOf
<1>2. CASE PassedHere(r)
  <2>1. req[r].pc = "forward" /\ req[r].at \in 1..Len(pipe) /\ pipe[req[r].at].node = Self
    BY <1>2 DEF PassedHere, Types, ReqTypes, Fit, At
  <2>2. req[r].at = 1
    BY <2>1 DEF SelfFirst
  <2>. QED  BY <1>2, <2>1, <2>2, WayGoesOn DEF PassedHere
<1>3. CASE NextToken(r)
  BY <1>3 DEF NextToken, WayOf
<1>4. CASE Ended(r)
  BY <1>4 DEF Ended, WayOf
<1>. QED  BY <1>1, <1>2, <1>3, <1>4 DEF Moves

(* An answer of a connection nobody shook is the one that was asked for.   *)
LEMMA WayRead ==
  ASSUME Types, ReadsOwn, Quiet, shaken = {}, pipe' = pipe, shaken' = {},
         NEW x \in Party, ReadsOne(x), NEW r \in Req, WayOf(r)
  PROVE  WayOf(r)'
<1>1. ~Idle(x) /\ (r # x => Stays(r))
  BY ReadMoves DEF Stays
<1>2. CASE r # x \/ Stays(r)
  BY <1>1, <1>2, WayStays
<1>3. CASE r = x /\ Fails(x)
  BY <1>3, FailsDoes, WayStays DEF WayOf, Stays
<1>4. CASE r = x /\ ~Fails(x) /\ ~Stays(r)
  <2> DEFINE w == reader[x].at
             m == Head(link[w].in)
  <2>1. link[w].in # <<>> /\ Takes(x, w)
    BY <1>4, ReadCases DEF ReadsOne, GivesUp, Waits, Stays
  <2>2. /\ req[x].pc = "forward" /\ m.kind = "result"
        /\ Through(x, [req |-> m.req, pos |-> m.pos, lo |-> At(x).lo, hi |-> At(x).hi])
    BY <1>4, <2>1 DEF Takes
  <2>3. w \in Worker /\ x \in Reading(w) /\ m = link[w].in[1] /\ 1 \in 1..Len(link[w].in)
    <3>1. w \in Worker /\ link[w].in \in Seq(Answered)
      BY <1>1 DEF Types, WireTypes
    <3>. QED  BY <1>1, <2>1, <3>1 DEF Reading
  <2> HIDE DEF w, m
  <2>4. Own(x, m)
    <3>1. \A i \in 1..Len(link[w].in) : Own(x, link[w].in[i])
      BY <2>3 DEF Quiet
    <3>. QED  BY <2>3, <3>1
  <2>5. m.req = x /\ m.pos = req[x].pos
    BY <1>4, <2>2, <2>4 DEF Own
  <2> DEFINE s == [req |-> x, pos |-> req[x].pos, lo |-> At(x).lo, hi |-> At(x).hi]
  <2>6. Through(x, s)
    BY <2>2, <2>5
  <2> HIDE DEF s
  <2>7. /\ req'[x].at = req[x].at + 1 /\ req'[x].pos = req[x].pos
        /\ req'[x].pass = Append(req[x].pass, s)
    BY <1>4, <2>2, <2>6, ThroughDoes
  <2>. QED  BY <1>4, <2>2, <2>7, WayGoesOn DEF s, At
<1>. QED  BY <1>2, <1>3, <1>4

(* Every step keeps the way.                                               *)
LEMMA WayStep ==
  ASSUME Types, ReadsOwn, Quiet, Way, Next
  PROVE  Way'
<1>1. pipe' = pipe
  BY PipeStays
<1>2. shaken \subseteq shaken'
  <2>1. ASSUME NEW x \in Party, ReadsOne(x)  PROVE shaken \subseteq shaken'
    BY <2>1, ReadCases, ReadMoves DEF ReadsOne, Takes, GivesUp, Waits
  <2>. QED  BY <2>1, StepCases
         DEF InLoop, AsksOne, Post, wire, Handle, HandlerRaises, LosesOne, Breaks, Reaped
<1> SUFFICES ASSUME shaken' = {}, SelfFirst', NEW r \in Req  PROVE WayOf(r)'
  BY DEF Way, WayOf
<1>3. shaken = {} /\ SelfFirst
  BY <1>1, <1>2 DEF SelfFirst
<1>4. WayOf(r)
  BY <1>3 DEF Way, WayOf
<1>5. CASE Stays(r)
  BY <1>1, <1>4, <1>5, WayStays
<1>6. CASE InLoop
  BY <1>1, <1>3, <1>4, <1>5, <1>6, WayMoves DEF InLoop, AtRest, Moves
<1>7. ASSUME NEW x \in Party, ReadsOne(x)  PROVE WayOf(r)'
  BY <1>1, <1>3, <1>4, <1>7, WayRead
<1>8. ASSUME UNCHANGED req  PROVE Stays(r)
  BY <1>8 DEF Stays
<1>. QED  BY <1>5, <1>6, <1>7, <1>8, StepCases
       DEF AsksOne, Reaped, AtRest, Handle, HandlerRaises, LosesOne, loop

-----------------------------------------------------------------------------
(* A step that changes nothing.                                            *)
LEMMA Stutters ==
  ASSUME LinkInv, UNCHANGED vars
  PROVE  LinkInv'
<1>1. UNCHANGED <<pipe, req, lock, current, aborting, reader, link, shaken, slot, touched, beat,
      upsets>>
  BY DEF vars, loop, wire, cache
<1>2. PipeTypes' /\ ReqTypes' /\ LockTypes'
  BY <1>1 DEF LinkInv, Types, PipeTypes, ReqTypes, Fit, LockTypes
<1>3. WireTypes' /\ CacheTypes'
  BY <1>1 DEF LinkInv, Types, WireTypes, CacheTypes, Idle
<1>4. Turns'
  BY <1>1 DEF LinkInv, Turns, AbortAims
<1>5. ReadsOwn'
  BY <1>1 DEF LinkInv, ReadsOwn, Idle, At
<1>6. InStep'
  BY <1>1 DEF LinkInv, InStep, Going, Passes, Sent, Asks, Idle
<1>7. Quiet'
  <2>1. \A w : Reading(w)' = Reading(w)
    BY <1>1 DEF Reading, Idle
  <2>2. \A x, m : Own(x, m)' <=> Own(x, m)
    BY <1>1 DEF Own
  <2>. QED  BY <1>1, <2>1, <2>2 DEF LinkInv, Quiet
<1>8. Way'
  BY <1>1 DEF LinkInv, Way, SelfFirst
<1>. QED  BY <1>2, <1>3, <1>4, <1>5, <1>6, <1>7, <1>8 DEF LinkInv, Types

(* The loop, its connections and its workers agree, whoever gives up on    *)
(* whom.                                                                   *)
THEOREM LinkInvariant == Spec => []LinkInv
<1>1. Init => LinkInv
  BY InitInv
<1>2. LinkInv /\ [Next]_vars => LinkInv'
  <2> SUFFICES ASSUME LinkInv, [Next]_vars  PROVE LinkInv'
    OBVIOUS
  <2>1. CASE Next
    BY <2>1, TypesStep, ReadersStep, InStepStep, QuietStep, WayStep DEF LinkInv
  <2>2. CASE UNCHANGED vars
    BY <2>2, Stutters
  <2>. QED  BY <2>1, <2>2
<1>. QED  BY <1>1, <1>2, PTL DEF Spec

(* Where a request is, who waits for the lock, which slots there are.      *)
THEOREM LinkTypes == Spec => []LinkTypeOK
<1>1. LinkInv => LinkTypeOK
  <2> SUFFICES ASSUME LinkInv  PROVE LinkTypeOK
    OBVIOUS
  <2>1. ASSUME NEW r \in Req
        PROVE  /\ req[r].pc \in {"new", "queued", "forward", "yield", "release", "done"}
               /\ req[r].at \in 0..(Len(pipe) + 1) /\ req[r].pos \in 0..(MaxTok - 1)
               /\ req[r].todo \subseteq Worker
    <3>1. req[r] \in Run /\ req[r].at <= Len(pipe) + 1 /\ req[r].pos < MaxTok /\ Len(pipe) \in Nat
      BY DEF LinkInv, Types, ReqTypes, Fit, PipeTypes
    <3>2. req[r].at \in Nat /\ req[r].pos \in Nat /\ MaxTok \in Nat
      BY <3>1, LinkAssumption DEF Run
    <3>. QED  BY <3>1, <3>2 DEF Run
  <2>2. \A i, j \in DOMAIN lock : lock[i] = lock[j] => i = j
    BY DEF LinkInv, Types, LockTypes, NoRepeats
  <2>3. ASSUME NEW w \in Worker  PROVE DOMAIN slot[w] \subseteq Req /\ touched[w] \subseteq Req
    <3>1. slot[w] \in Slots /\ touched[w] \subseteq Req
      BY DEF LinkInv, Types, CacheTypes, Slots
    <3>2. PICK A \in SUBSET Req : slot[w] \in [A -> Nat]
      BY <3>1 DEF Slots
    <3>. QED  BY <3>1, <3>2
  <2>. QED  BY <2>1, <2>2, <2>3 DEF LinkInv, Types, LockTypes, LinkTypeOK
<1>. QED  BY <1>1, LinkInvariant, PTL

(* An abort stops the request it names, or it names a chat.                *)
THEOREM LinkAborts == Spec => []AbortAims
<1>1. LinkInv => AbortAims
  BY DEF LinkInv, Turns
<1>. QED  BY <1>1, LinkInvariant, PTL

(* A pass finds in a worker's slot exactly the passes before it.           *)
THEOREM LinkSlots == Spec => []SlotHoldsPrefix
<1>1. LinkInv => SlotHoldsPrefix
  <2> SUFFICES ASSUME LinkInv, NEW w \in Worker,
                      link[w].open, link[w].out # <<>>, Head(link[w].out).kind = "forward"
               PROVE  \/ Head(link[w].out).pos = Passes(w, Head(link[w].out).req)
                      \/ req[Head(link[w].out).req].pc \in {"release", "done"}
                      \/ req[Head(link[w].out).req].stalled
    BY DEF SlotHoldsPrefix
  <2> DEFINE m == Head(link[w].out)
             q == link[w].out
  <2>1. Types /\ InStep /\ q \in Seq(Asked)
    BY DEF LinkInv, Types, WireTypes
  <2>2. m \in Asked /\ m = q[1]
    BY <2>1
  <2>3. m.req \in Req /\ m.kind = "forward"
    BY <2>2 DEF Asked
  <2> HIDE DEF m, q
  <2>4. CASE Going(w, m.req)
    <3>1. Steps(q, m.req, Passes(w, m.req), Sent(w, m.req))
      BY <2>1, <2>3, <2>4 DEF InStep, q
    <3>2. Passes(w, m.req) \in Nat /\ Sent(w, m.req) \in Nat
      BY <2>1, <2>3, PassesNatural, SentNatural
    <3>3. Pass(q[1], m.req) /\ q # <<>>
      BY <2>2, <2>3 DEF Pass, q
    <3>4. q[1].pos = Passes(w, m.req)
      BY <2>1, <2>3, <3>1, <3>2, <3>3, StepsTaken
    <3>. QED  BY <2>2, <3>4 DEF m
  <2>5. CASE ~Going(w, m.req)
    BY <2>5 DEF Going, m
  <2>. QED  BY <2>4, <2>5
<1>. QED  BY <1>1, LinkInvariant, PTL

(* A token is sampled from hidden states of this token that went through   *)
(* every layer, as long as no connection was shaken.                       *)
THEOREM LinkTokens == Spec => []TokensAreOwn
<1>1. LinkInv => TokensAreOwn
  <2> SUFFICES ASSUME LinkInv, shaken = {}, \A i \in DOMAIN pipe : pipe[i].node = Self => i = 1,
                      NEW r \in Req, req[r].pc = "yield"
               PROVE  Complete(r)
    BY DEF TokensAreOwn, EveryLayerOnce
  <2> DEFINE n == Len(pipe)
             p == req[r].pass
  <2>1. /\ n \in Nat /\ n >= 1 /\ DOMAIN pipe = 1..n /\ Partition(pipe, Layers)
        /\ req[r].at = n + 1 /\ p \in Seq(Stage)
    BY DEF LinkInv, Types, PipeTypes, ReqTypes, Fit, Run
  <2>2. SelfFirst
    BY <2>1 DEF SelfFirst
  <2>3. /\ Len(p) = n
        /\ \A i \in 1..n :
             p[i] = [req |-> r, pos |-> req[r].pos, lo |-> pipe[i].lo, hi |-> pipe[i].hi]
    BY <2>1, <2>2 DEF LinkInv, Way
  <2>4. DOMAIN p = 1..n
    BY <2>1, <2>3
  <2>5. ASSUME NEW i \in 1..n
        PROVE  p[i].req = r /\ p[i].pos = req[r].pos /\ p[i].lo = pipe[i].lo /\ p[i].hi = pipe[i].hi
    <3>1. p[i] = [req |-> r, pos |-> req[r].pos, lo |-> pipe[i].lo, hi |-> pipe[i].hi]
      BY <2>3
    <3> HIDE DEF p
    <3>. QED  BY <3>1
  <2>6. \A i \in 1..n : p[i].lo = pipe[i].lo /\ p[i].hi = pipe[i].hi
    BY <2>5
  <2>7. \A i \in 1..(n - 1) : i \in 1..n /\ i + 1 \in 1..n
    BY <2>1
  <2>8. 1 \in 1..n /\ n \in 1..n
    BY <2>1
  <2>9. Partition(p, Layers)
    <3>1. p[1].lo = 0 /\ p[n].hi = Layers
      BY <2>1, <2>6, <2>8 DEF Partition
    <3>2. \A i \in 1..n : p[i].lo < p[i].hi
      BY <2>1, <2>6 DEF Partition
    <3>3. \A i \in 1..(n - 1) : p[i].hi = p[i + 1].lo
      BY <2>1, <2>6, <2>7 DEF Partition
    <3> HIDE DEF n, p
    <3>. QED  BY <2>3, <2>4, <3>1, <3>2, <3>3 DEF Partition
  <2>. QED  BY <2>4, <2>5, <2>9 DEF Complete
<1>. QED  BY <1>1, LinkInvariant, PTL
=============================================================================
