--------------------------- MODULE Queues_proofs ---------------------------
(***************************************************************************)
(* What the operators of Queues keep: the elements that remain, each once, *)
(* and what an element put at either end or taken from the head changes.   *)
(***************************************************************************)
EXTENDS Queues, FiniteSetTheorems, SequenceTheorems, WellFoundedInduction, TLAPS

(* A set of naturals has a least element: the initial segments of finite   *)
(* sets are well-founded, which is induction without a predicate variable. *)
LEMMA LeastNat ==
  ASSUME NEW T \in SUBSET Nat, T # {}
  PROVE  \E m \in T : \A k \in T : m <= k
<1> DEFINE F == {0..n : n \in T}
<1>1. F \subseteq FiniteSubsetsOf(Nat)
  <2> SUFFICES ASSUME NEW n \in T  PROVE 0..n \in FiniteSubsetsOf(Nat)
    OBVIOUS
  <2>1. IsFiniteSet(0..n) /\ 0..n \subseteq Nat
    BY FS_Interval
  <2>. QED  BY <2>1 DEF FiniteSubsetsOf
<1>2. F # {}
  OBVIOUS
<1>3. PICK X \in F : \A Y \in F : <<Y, X>> \notin StrictSubsetOrdering(Nat)
  BY <1>1, <1>2, FS_StrictSubsetOrderingWellFounded, WFMin, Zenon
<1>4. PICK m \in T : X = 0..m
  OBVIOUS
<1>5. ASSUME NEW k \in T, k < m  PROVE FALSE
  <2>1. 0..k \in F /\ 0..k \in SUBSET Nat /\ 0..m \in SUBSET Nat /\ 0..k \subseteq 0..m
    BY <1>5
  <2>2. m \in 0..m /\ m \notin 0..k
    BY <1>5
  <2>3. <<0..k, 0..m>> \in StrictSubsetOrdering(Nat)
    BY <2>1, <2>2, Zenon DEF StrictSubsetOrdering
  <2>. QED BY <2>1, <2>3, <1>3, <1>4
<1>. QED BY <1>5

(* What holds of 0 and goes from n to n + 1 holds of every natural. *)
LEMMA AllNaturals ==
  ASSUME NEW T \in SUBSET Nat, 0 \in T, \A n \in T : n + 1 \in T
  PROVE  T = Nat
<1> SUFFICES ASSUME Nat \ T # {}  PROVE FALSE
  OBVIOUS
<1>1. PICK m \in Nat \ T : \A k \in Nat \ T : m <= k
  BY LeastNat
<1>2. m - 1 \in Nat /\ ~(m <= m - 1)
  OBVIOUS
<1>3. m - 1 \in T
  BY <1>1, <1>2
<1>. QED  BY <1>2, <1>3

(* A function given by its value at 0 and by a step.                       *)
Follows(f, n, z, G) == f[0] = z /\ \A i \in 1..n : f[i] = G[i][f[i - 1]]
(* Such a function exists.                                                 *)
LEMMA Recursion ==
  ASSUME NEW n \in Nat, NEW S, NEW z \in S, NEW G \in [1..n -> [S -> S]]
  PROVE  \E f \in [0..n -> S] : Follows(f, n, z, G)
<1> DEFINE Upto(k, f) == Follows(f, k, z, G)
           T == {k \in Nat : k <= n => \E f \in [0..k -> S] : Upto(k, f)}
<1> USE DEF Follows
<1>1. 0 \in T
  <2>1. [i \in 0..0 |-> z] \in [0..0 -> S] /\ Upto(0, [i \in 0..0 |-> z])
    OBVIOUS
  <2>. QED  BY <2>1
<1>2. ASSUME NEW k \in T, k + 1 <= n  PROVE k + 1 \in T
  <2>1. k \in Nat /\ k <= n /\ k + 1 \in 1..n
    BY <1>2
  <2>2. PICK f \in [0..k -> S] : Upto(k, f)
    BY <2>1
  <2> DEFINE g == [i \in 0..(k + 1) |-> IF i = k + 1 THEN G[k + 1][f[k]] ELSE f[i]]
  <2>3. f[k] \in S /\ G[k + 1][f[k]] \in S
    BY <2>1
  <2>4. g \in [0..(k + 1) -> S]
    BY <2>1, <2>3
  <2>5. g[0] = z
    BY <2>1, <2>2
  <2>6. ASSUME NEW i \in 1..(k + 1)  PROVE g[i] = G[i][g[i - 1]]
    <3>1. CASE i = k + 1
      <4>1. i - 1 = k /\ i - 1 \in 0..(k + 1) /\ i - 1 # k + 1
        BY <3>1, <2>1
      <4>2. g[i] = G[k + 1][f[k]] /\ g[i - 1] = f[k]
        BY <3>1, <4>1
      <4>. QED  BY <3>1, <4>2
    <3>2. CASE i # k + 1
      <4>1. i \in 1..k /\ i - 1 \in 0..k /\ i - 1 # k + 1 /\ i - 1 \in 0..(k + 1)
        BY <3>2, <2>1
      <4>2. g[i] = f[i] /\ g[i - 1] = f[i - 1]
        BY <3>2, <4>1
      <4>. QED  BY <4>1, <4>2, <2>2
    <3>. QED  BY <3>1, <3>2
  <2>7. Upto(k + 1, g)
    BY <2>5, <2>6
  <2>8. \E h \in [0..(k + 1) -> S] : Upto(k + 1, h)
    <3> HIDE DEF g
    <3>. QED  BY <2>4, <2>7
  <2>. QED  BY <2>1, <2>8
<1>3. ASSUME NEW k \in T  PROVE k + 1 \in T
  <2>1. CASE k + 1 <= n
    BY <2>1, <1>2
  <2>2. CASE ~(k + 1 <= n)
    BY <2>2
  <2>. QED  BY <2>1, <2>2
<1>4. T = Nat
  <2>1. T \in SUBSET Nat
    OBVIOUS
  <2> HIDE DEF T
  <2>. QED  BY <2>1, <1>1, <1>3, AllNaturals
<1>5. n \in T
  BY <1>4
<1>. QED  BY <1>5

(* A set of positions is finite. *)
LEMMA BoundedFinite ==
  ASSUME NEW n \in Nat, NEW K \in SUBSET (1..n)
  PROVE  IsFiniteSet(K) /\ Cardinality(K) \in Nat
<1>1. IsFiniteSet(1..n)
  BY FS_Interval
<1>2. IsFiniteSet(K)
  BY <1>1, FS_Subset
<1>. QED  BY <1>2, FS_CardinalityType

(* The k-th position of a set is there: the smallest i with k positions up *)
(* to it is in the set.                                                    *)
LEMMA NthIsThere ==
  ASSUME NEW n \in Nat, NEW K \in SUBSET (1..n), NEW k \in 1..Cardinality(K)
  PROVE  Nth(K, k) \in K /\ Cardinality({j \in K : j <= Nth(K, k)}) = k
<1> DEFINE Upto(i) == {j \in K : j <= i}
           Many(i) == Cardinality(Upto(i))
           T == {i \in 0..n : Many(i) >= k}
<1>1. IsFiniteSet(K) /\ Cardinality(K) \in Nat /\ k \in Nat /\ k >= 1 /\ k <= Cardinality(K)
  BY BoundedFinite
<1>2. \A i \in 0..n : IsFiniteSet(Upto(i)) /\ Many(i) \in Nat
  <2> TAKE i \in 0..n
  <2>1. Upto(i) \in SUBSET (1..n)
    OBVIOUS
  <2>. QED  BY <2>1, BoundedFinite
<1>3. Upto(n) = K /\ Upto(0) = {}
  <2>1. \A j \in K : j \in Int /\ 1 <= j /\ j <= n /\ ~(j <= 0)
    OBVIOUS
  <2>2. Upto(n) = K
    BY <2>1
  <2>3. Upto(0) = {}
    BY <2>1
  <2>. QED BY <2>2, <2>3
<1>4. Many(n) >= k /\ Many(0) = 0
  BY <1>3, <1>1, FS_EmptySet
<1>5. \A i \in 1..n : i \in K => Many(i) = Many(i - 1) + 1
  <2> SUFFICES ASSUME NEW i \in 1..n, i \in K  PROVE Many(i) = Many(i - 1) + 1
    OBVIOUS
  <2>1. Upto(i) = Upto(i - 1) \cup {i} /\ i \notin Upto(i - 1)
    <3>1. \A j \in K : j \in Int /\ (j <= i <=> j <= i - 1 \/ j = i)
      OBVIOUS
    <3>2. ~(i <= i - 1)
      OBVIOUS
    <3>. QED BY <3>1, <3>2
  <2>2. IsFiniteSet(Upto(i - 1))
    <3>1. i - 1 \in 0..n
      OBVIOUS
    <3>. HIDE DEF Upto
    <3>. QED  BY <3>1, <1>2
  <2>. HIDE DEF Upto
  <2>. QED BY <2>1, <2>2, FS_AddElement
<1>6. \A i \in 1..n : i \notin K => Many(i) = Many(i - 1)
  <2> SUFFICES ASSUME NEW i \in 1..n, i \notin K  PROVE Upto(i) = Upto(i - 1)
    OBVIOUS
  <2>1. \A j \in K : j \in Int /\ j # i /\ (j <= i <=> j <= i - 1 \/ j = i)
    OBVIOUS
  <2>. QED BY <2>1
<1>7. \E i \in K : Many(i) = k
  <2>. HIDE DEF Many
  <2>1. PICK i \in T : \A l \in T : i <= l
    <3>1. T \in SUBSET Nat /\ T # {}
      BY <1>4
    <3>. HIDE DEF T
    <3>. QED  BY <3>1, LeastNat
  <2>2. i \in 1..n /\ i - 1 \in 0..n /\ Many(i) >= k
    BY <2>1, <1>4, <1>1
  <2>3. i - 1 \notin T
    BY <2>1, <2>2
  <2>4. Many(i - 1) < k /\ Many(i - 1) \in Nat /\ Many(i) \in Nat
    <3>1. Many(i - 1) \in Nat /\ Many(i) \in Nat
      BY <2>2, <1>2
    <3>2. ~(Many(i - 1) >= k)
      BY <2>2, <2>3
    <3>. QED  BY <3>1, <3>2, <1>1
  <2>5. i \in K
    BY <2>2, <2>4, <1>6, <1>1
  <2>6. Many(i) = Many(i - 1) + 1
    BY <2>2, <2>5, <1>5
  <2>. QED BY <2>2, <2>4, <2>5, <2>6, <1>1
<1>. QED  BY <1>7 DEF Nth

(* What a removal leaves: a queue of the elements that are not removed, in  *)
(* which nothing appears twice that did not before.                        *)
LEMMA WithoutParts ==
  ASSUME NEW S, NEW q \in Seq(S), NEW A
  PROVE  /\ Without(q, A) \in Seq(S)
         /\ \A k \in 1..Len(Without(q, A)) :
              \E i \in 1..Len(q) : Without(q, A)[k] = q[i] /\ q[i] \notin A
         /\ \A i \in 1..Len(q) : q[i] \notin A =>
              \E k \in 1..Len(Without(q, A)) : Without(q, A)[k] = q[i]
         /\ (\A i, j \in 1..Len(q) : q[i] = q[j] => i = j) =>
              \A i, j \in 1..Len(Without(q, A)) :
                Without(q, A)[i] = Without(q, A)[j] => i = j
<1> DEFINE n == Len(q)
           K == {i \in 1..n : q[i] \notin A}
           c == Cardinality(K)
           w == Without(q, A)
<1>1. n \in Nat /\ K \in SUBSET (1..n)
  OBVIOUS
<1>2. IsFiniteSet(K) /\ c \in Nat
  BY <1>1, BoundedFinite
<1>3. w = [k \in 1..c |-> q[Nth(K, k)]]
  BY DEF Without
<1>4. \A k \in 1..c : Nth(K, k) \in K /\ Cardinality({j \in K : j <= Nth(K, k)}) = k
  BY <1>1, NthIsThere
<1>5. \A i \in K : i \in 1..n /\ q[i] \in S /\ q[i] \notin A
  OBVIOUS
<1> HIDE DEF w, c, K
<1>6. w \in Seq(S) /\ Len(w) = c /\ \A k \in 1..c : w[k] = q[Nth(K, k)]
  <2>1. \A k \in 1..c : q[Nth(K, k)] \in S
    BY <1>4, <1>5
  <2>. QED  BY <1>2, <1>3, <2>1
<1>7. ASSUME NEW i \in K
      PROVE  \E k \in 1..c : Nth(K, k) = i
  <2> DEFINE U(l) == {j \in K : j <= l}
             k == Cardinality(U(i))
             m == Nth(K, k)
  <2>1. \A j \in K : j \in Int
    BY <1>1
  <2>2. U(i) \subseteq K /\ i \in U(i)
    BY <2>1
  <2>3. IsFiniteSet(U(i)) /\ k \in Nat /\ k <= c
    BY <2>2, <1>2, FS_Subset, FS_CardinalityType DEF c
  <2>4. k # 0
    <3> HIDE DEF U
    <3>. QED BY <2>2, <2>3, FS_EmptySet
  <2>5. k \in 1..c
    BY <2>3, <2>4, <1>2
  <2>6. m \in K /\ Cardinality(U(m)) = k
    BY <2>5, <1>4
  <2>7. /\ m \in U(m)
        /\ m <= i => U(m) \subseteq U(i)
        /\ i <= m => U(i) \subseteq U(m)
        /\ m <= i \/ i <= m
    <3> HIDE DEF m
    <3>. QED  BY <2>1, <2>6
  <2>8. IsFiniteSet(U(m))
    BY <1>2, FS_Subset
  <2>9. U(m) = U(i)
    <3> HIDE DEF U, m
    <3>. QED  BY <2>7, <2>8, <2>3, <2>6, FS_Subset
  <2>10. m = i
    BY <2>9, <2>7, <2>2, <2>1, <2>6
  <2>. QED BY <2>5, <2>10
<1>8. \A i \in 1..Len(q) : q[i] \notin A => i \in K
  BY DEF K
<1>9. ASSUME \A i, j \in 1..n : q[i] = q[j] => i = j,
             NEW i \in 1..c, NEW j \in 1..c, w[i] = w[j]
      PROVE  i = j
  <2>1. Nth(K, i) = Nth(K, j)
    BY <1>9, <1>4, <1>5, <1>6
  <2>. QED BY <2>1, <1>4
<1>10. \A k \in 1..c : \E i \in 1..n : w[k] = q[i] /\ q[i] \notin A
  BY <1>4, <1>5, <1>6
<1>11. \A i \in 1..n : q[i] \notin A => \E k \in 1..c : w[k] = q[i]
  BY <1>6, <1>7, <1>8
<1>12. c = Len(w) /\ n = Len(q)
  BY <1>6
<1> HIDE DEF n
<1>. QED BY <1>6, <1>9, <1>10, <1>11, <1>12 DEF w

(* The same of the members of the queue. *)
LEMMA WithoutKeeps ==
  ASSUME NEW S, NEW q \in Seq(S), NEW A
  PROVE  /\ Without(q, A) \in Seq(S)
         /\ Members(Without(q, A)) = Members(q) \ A
         /\ NoRepeats(q) => NoRepeats(Without(q, A))
<1> DEFINE w == Without(q, A)
<1>1. /\ w \in Seq(S)
      /\ \A k \in 1..Len(w) : \E i \in 1..Len(q) : w[k] = q[i] /\ q[i] \notin A
      /\ \A i \in 1..Len(q) : q[i] \notin A => \E k \in 1..Len(w) : w[k] = q[i]
      /\ NoRepeats(q) => NoRepeats(w)
  BY WithoutParts DEF NoRepeats
<1> HIDE DEF w
<1>2. Members(w) \subseteq Members(q) \ A
  <2> SUFFICES ASSUME NEW k \in 1..Len(w)  PROVE w[k] \in Members(q) \ A
    BY DEF Members
  <2>1. PICK i \in 1..Len(q) : w[k] = q[i] /\ q[i] \notin A
    BY <1>1
  <2>. QED  BY <2>1 DEF Members
<1>3. Members(q) \ A \subseteq Members(w)
  <2> SUFFICES ASSUME NEW i \in 1..Len(q), q[i] \notin A  PROVE q[i] \in Members(w)
    BY DEF Members
  <2>1. PICK k \in 1..Len(w) : w[k] = q[i]
    BY <1>1
  <2>. QED  BY <2>1 DEF Members
<1>. QED  BY <1>1, <1>2, <1>3 DEF w

(* Two queues one after the other. *)
LEMMA ConcatMembers ==
  ASSUME NEW S, NEW p \in Seq(S), NEW q \in Seq(S)
  PROVE  /\ p \o q \in Seq(S)
         /\ Members(p \o q) = Members(p) \cup Members(q)
         /\ NoRepeats(p) /\ NoRepeats(q) /\ Members(p) \cap Members(q) = {}
              => NoRepeats(p \o q)
<1> DEFINE c == p \o q
           m == Len(p)
           n == Len(q)
<1>1. /\ c \in Seq(S) /\ Len(c) = m + n /\ m \in Nat /\ n \in Nat
      /\ \A i \in 1..(m + n) : c[i] = IF i <= m THEN p[i] ELSE q[i - m]
  BY ConcatProperties, LenProperties
<1> HIDE DEF c, m, n
<1>2. \A i \in 1..m : i \in 1..(m + n) /\ c[i] = p[i]
  BY <1>1
<1>3. \A i \in 1..n : m + i \in 1..(m + n) /\ c[m + i] = q[i]
  <2> SUFFICES ASSUME NEW i \in 1..n  PROVE m + i \in 1..(m + n) /\ c[m + i] = q[i]
    OBVIOUS
  <2>1. m + i \in 1..(m + n) /\ ~(m + i <= m) /\ (m + i) - m = i
    BY <1>1
  <2>. QED  BY <2>1, <1>1
<1>4. \A i \in 1..(m + n) : \/ i \in 1..m /\ c[i] = p[i]
                            \/ i > m /\ i - m \in 1..n /\ c[i] = q[i - m]
  BY <1>1
<1>5. /\ Members(c) = {c[i] : i \in 1..(m + n)}
      /\ Members(p) = {p[i] : i \in 1..m} /\ Members(q) = {q[i] : i \in 1..n}
  BY <1>1 DEF Members, m, n
<1>6. Members(c) = Members(p) \cup Members(q)
  BY <1>2, <1>3, <1>4, <1>5
<1>7. ASSUME NoRepeats(p), NoRepeats(q), Members(p) \cap Members(q) = {},
             NEW i \in 1..(m + n), NEW j \in 1..(m + n), c[i] = c[j]
      PROVE  i = j
  <2>1. \A k, l \in 1..m : p[k] = p[l] => k = l
    BY <1>7 DEF NoRepeats, m
  <2>2. \A k, l \in 1..n : q[k] = q[l] => k = l
    BY <1>7 DEF NoRepeats, n
  <2>3. \A k \in 1..m, l \in 1..n : p[k] # q[l]
    BY <1>7, <1>5
  <2>4. CASE i \in 1..m /\ j \in 1..m
    BY <2>4, <2>1, <1>2, <1>7
  <2>5. CASE i > m /\ j > m
    <3>1. i - m \in 1..n /\ j - m \in 1..n /\ q[i - m] = q[j - m]
      BY <2>5, <1>4, <1>7, <1>1
    <3>2. i - m = j - m
      BY <3>1, <2>2
    <3>. QED  BY <3>2, <1>1
  <2>6. ~(i \in 1..m /\ j > m) /\ ~(j \in 1..m /\ i > m)
    <3>1. ~(i \in 1..m /\ j > m)
      BY <2>3, <1>4, <1>7, <1>1
    <3>2. ~(j \in 1..m /\ i > m)
      BY <2>3, <1>4, <1>7, <1>1
    <3>. QED  BY <3>1, <3>2
  <2>. QED  BY <2>4, <2>5, <2>6, <1>4
<1>8. NoRepeats(p) /\ NoRepeats(q) /\ Members(p) \cap Members(q) = {} => NoRepeats(c)
  BY <1>1, <1>7 DEF NoRepeats
<1>. QED  BY <1>1, <1>6, <1>8 DEF c

(* A queue of one. *)
LEMMA OneMember ==
  ASSUME NEW S, NEW x \in S
  PROVE  <<x>> \in Seq(S) /\ Members(<<x>>) = {x} /\ NoRepeats(<<x>>)
<1> DEFINE q == <<x>>
<1>1. q \in Seq(S) /\ Len(q) = 1 /\ q[1] = x
  OBVIOUS
<1> HIDE DEF q
<1>2. \A i \in 1..Len(q) : i = 1
  BY <1>1
<1>3. 1 \in 1..Len(q)
  BY <1>1
<1>4. Members(q) = {x}
  BY <1>1, <1>2, <1>3 DEF Members
<1>5. NoRepeats(q)
  BY <1>2 DEF NoRepeats
<1>. QED  BY <1>1, <1>4, <1>5 DEF q

(* An element at the end of a queue. *)
LEMMA AppendMembers ==
  ASSUME NEW S, NEW q \in Seq(S), NEW x \in S
  PROVE  /\ Append(q, x) \in Seq(S)
         /\ Members(Append(q, x)) = Members(q) \cup {x}
         /\ NoRepeats(q) /\ x \notin Members(q) => NoRepeats(Append(q, x))
<1>1. Append(q, x) = q \o <<x>>
  BY AppendIsConcat
<1>2. <<x>> \in Seq(S) /\ Members(<<x>>) = {x} /\ NoRepeats(<<x>>)
  BY OneMember
<1>3. x \notin Members(q) => Members(q) \cap Members(<<x>>) = {}
  BY <1>2
<1> DEFINE p == <<x>>
<1> HIDE DEF p
<1>4. /\ q \o p \in Seq(S) /\ Members(q \o p) = Members(q) \cup Members(p)
      /\ NoRepeats(q) /\ x \notin Members(q) => NoRepeats(q \o p)
  BY <1>2, <1>3, ConcatMembers, ZenonT(60) DEF p
<1>. QED  BY <1>1, <1>2, <1>4 DEF p

(* Taking the head. *)
LEMMA HeadMembers ==
  ASSUME NEW S, NEW q \in Seq(S), q # <<>>
  PROVE  /\ Head(q) \in S /\ Tail(q) \in Seq(S)
         /\ Members(q) = Members(Tail(q)) \cup {Head(q)}
         /\ NoRepeats(q) => NoRepeats(Tail(q)) /\ Head(q) \notin Members(Tail(q))
<1> DEFINE t == Tail(q)
           n == Len(q)
           h == Head(q)
<1>1. h \in S /\ t \in Seq(S) /\ Len(t) = n - 1 /\ n \in Nat \ {0} /\ h = q[1]
  BY HeadTailProperties, EmptySeq
<1>2. \A i \in 1..(n - 1) : t[i] = q[i + 1] /\ i + 1 \in 1..n /\ i + 1 # 1 /\ i \in Int
  BY <1>1, HeadTailProperties
<1> HIDE DEF t, n, h
<1>3. \A i \in 1..n : i = 1 \/ (i - 1 \in 1..(n - 1) /\ t[i - 1] = q[i])
  <2> SUFFICES ASSUME NEW i \in 1..n, i # 1
               PROVE  i - 1 \in 1..(n - 1) /\ t[i - 1] = q[i]
    OBVIOUS
  <2>1. i - 1 \in 1..(n - 1) /\ (i - 1) + 1 = i
    BY <1>1
  <2>. QED  BY <2>1, <1>2
<1>4. Members(q) = {q[i] : i \in 1..n} /\ Members(t) = {t[i] : i \in 1..(n - 1)}
  BY <1>1 DEF Members, n
<1>5. 1 \in 1..n
  BY <1>1
<1>6. Members(q) = Members(t) \cup {h}
  <2>1. \A i \in 1..n : q[i] \in Members(t) \cup {h}
    BY <1>1, <1>3, <1>4
  <2>2. \A i \in 1..(n - 1) : t[i] \in Members(q)
    BY <1>2, <1>4
  <2>3. h \in Members(q)
    BY <1>1, <1>4, <1>5
  <2>. QED  BY <2>1, <2>2, <2>3, <1>4
<1>7. ASSUME NoRepeats(q)  PROVE NoRepeats(t) /\ h \notin Members(t)
  <2>1. \A i, j \in 1..n : q[i] = q[j] => i = j
    BY <1>7 DEF NoRepeats, n
  <2>2. \A i, j \in 1..(n - 1) : t[i] = t[j] => i = j
    <3> SUFFICES ASSUME NEW i \in 1..(n - 1), NEW j \in 1..(n - 1), t[i] = t[j]
                 PROVE  i = j
      OBVIOUS
    <3>1. i + 1 = j + 1
      BY <1>2, <2>1
    <3>. QED  BY <3>1, <1>2
  <2>3. h \notin Members(t)
    BY <1>1, <1>2, <1>4, <1>5, <2>1
  <2>. QED  BY <2>2, <2>3, <1>1 DEF NoRepeats
<1>. QED  BY <1>1, <1>6, <1>7 DEF t, h

(* A queue that runs through a finite set of its own length has no repeats. *)
LEMMA EachOnce ==
  ASSUME NEW S, IsFiniteSet(S), NEW q \in [1..Cardinality(S) -> S],
         \A x \in S : \E i \in DOMAIN q : q[i] = x
  PROVE  q \in Seq(S) /\ Members(q) = S /\ NoRepeats(q)
<1> DEFINE n == Cardinality(S)
<1>1. n \in Nat
  BY FS_CardinalityType
<1> HIDE DEF n
<1>2. q \in Seq(S) /\ Len(q) = n
  BY <1>1 DEF n
<1>3. Members(q) = S
  BY <1>2 DEF Members, n
<1>4. IsFiniteSet(1..n) /\ Cardinality(1..n) = n
  BY <1>1, FS_Interval
<1>5. q \in Surjection(1..n, S)
  BY DEF Surjection, n
<1>6. q \in Injection(1..n, S)
  BY <1>4, <1>5, FS_SurjSameCardinalityImpliesInj DEF n
<1>. QED  BY <1>2, <1>3, <1>6 DEF NoRepeats, Injection, IsInjective
=============================================================================
