---------------------------- MODULE MCPagedCache ----------------------------
(* TLC instances of PagedCache: two requests whose prompts share a block.  *)
(* Without L2, r1 is looked up by its whole key and by the key without its *)
(* last token, under which it is stored; r2 stores what r1's whole key     *)
(* finds, and one block more than the pool has free beside r1's.           *)
EXTENDS PagedFaults

CONSTANTS b1, b2, b3, h1, h2, h3, h4, r1, r2

MCOrder2 == <<b1, b2>>
MCOrder == <<b1, b2, b3>>

MCProbes ==
  [r \in Req |-> IF r = r1 THEN <<<<h1, h2>>, <<h1, h3>>>> ELSE <<<<h1, h2, h4>>>>]

MCStoreChain == [r \in Req |-> IF r = r1 THEN <<h1, h3>> ELSE <<h1, h2, h4>>]

\* Two hashes only, for the instances with an L2 store.
MCDiskProbes ==
  [r \in Req |-> IF r = r1 THEN <<<<h1>>>> ELSE <<<<h1, h2>>>>]

MCDiskChain == [r \in Req |-> IF r = r1 THEN <<h1>> ELSE <<h1, h2>>]

=============================================================================
