------------------------------- MODULE Queues -------------------------------
(***************************************************************************)
(* Removal from a queue, as deque.remove and Array.filter do it: what is   *)
(* left keeps its order.  (SelectSeq says the same, but no prover of       *)
(* TLAPS knows it; Queues_proofs shows what Without keeps.)                *)
(***************************************************************************)
EXTENDS Integers, Sequences, FiniteSets

\* The k-th smallest of a set of positions.
Nth(K, k) == CHOOSE i \in K : Cardinality({j \in K : j <= i}) = k

\* The queue without the elements of A.
Without(q, A) ==
  LET kept == {i \in 1..Len(q) : q[i] \notin A}
  IN [k \in 1..Cardinality(kept) |-> q[Nth(kept, k)]]

Members(q) == {q[i] : i \in 1..Len(q)}

NoRepeats(q) == \A i, j \in 1..Len(q) : q[i] = q[j] => i = j
=============================================================================
