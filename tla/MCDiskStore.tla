---------------------------- MODULE MCDiskStore ----------------------------
(* TLC instances of DiskStore: a chain of two blocks stored under a fence, *)
(* and a write of the paged cache for its first block.                     *)
EXTENDS DiskStore, TLC

CONSTANTS top, leaf, s1, s2

MCParent == (top :> NoBlock) @@ (leaf :> top)
MCChain == (s1 :> <<top, leaf>>) @@ (s2 :> <<top>>)

\* One payload above the budget at each stage, the others within it.
MCSize ==
  LET size(e, f, c) == [estimate |-> e, frozen |-> f, encoded |-> c]
  IN (s1 :> <<size(1, 1, 3), size(1, 3, 1)>>) @@ (s2 :> <<size(3, 1, 2)>>)
=============================================================================
