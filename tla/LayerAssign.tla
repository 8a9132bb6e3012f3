----------------------------- MODULE LayerAssign -----------------------------
(***************************************************************************)
(* Which node runs which layers (assign_layers_by_ram,                     *)
(* distributed/layer_assign.py).                                           *)
(***************************************************************************)
EXTENDS Integers, Sequences, FiniteSets

\* round of a quotient: to the even neighbour when both are as near.
Round(a, b) ==
  LET q == a \div b
      r == a % b
  IN IF 2 * r > b \/ (2 * r = b /\ q % 2 = 1) THEN q + 1 ELSE q

Least(a, b) == IF a < b THEN a ELSE b
Most(a, b) == IF a > b THEN a ELSE b

\* sorted, the largest first, nodes of one size in the order they came: the
\* k-th is the one with k - 1 before it.
Before(ram, i, j) == ram[i] > ram[j] \/ (ram[i] = ram[j] /\ i < j)
Order(n, ram) ==
  [k \in 1..n |-> CHOOSE i \in 1..n : Cardinality({j \in 1..n : Before(ram, j, i)}) = k - 1]

Total(n, cap) ==
  LET sum[i \in 0..n] == IF i = 0 THEN 0 ELSE sum[i - 1] + cap[i]
  IN sum[n]

\* Fault: the last node gets its share like the others.
EndOfShare(i, n, lo, share, layers) == Least(lo + share, layers)

\* Where the share of the i-th of n nodes ends, when it begins at lo: the last
\* node gets what is left.
End(i, n, lo, share, layers) == IF i = n THEN layers ELSE Least(lo + share, layers)

Ends(n, share, layers) ==
  LET end[i \in 0..n] == IF i = 0 THEN 0 ELSE End(i, n, end[i - 1], share[i], layers)
  IN end

\* In the order of memory each node gets its share, until no layer is left.
Assign(nodes, ram, layers, overhead) ==
  LET n == Len(nodes)
      order == Order(n, ram)
      cap == [i \in 1..n |-> Most(0, ram[order[i]] - overhead)]
      total == Total(n, cap)
      share == [i \in 1..n |->
                  Most(1, IF total > 0 THEN Round(layers * cap[i], total) ELSE Round(layers, n))]
      end == Ends(n, share, layers)
      count == Cardinality({i \in 1..n : end[i - 1] < layers})
  IN [i \in 1..count |-> [node |-> nodes[order[i]], lo |-> end[i - 1], hi |-> end[i]]]

\* Every layer belongs to one range, in order, and no range is empty.
Partition(ranges, layers) ==
  /\ ranges[1].lo = 0 /\ ranges[Len(ranges)].hi = layers
  /\ \A i \in DOMAIN ranges : ranges[i].lo < ranges[i].hi
  /\ \A i \in 1..(Len(ranges) - 1) : ranges[i].hi = ranges[i + 1].lo
=============================================================================
