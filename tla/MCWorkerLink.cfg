CONSTANTS
  me = me
  w1 = w1
  w2 = w2
  r1 = r1
  r2 = r2
  Self = me
  NoReq = NoReq
  Beat = Beat
  Req = {r1, r2}
  Chat = {r1}
  Node <- TwoNodes
  Rams <- TwoRams
  Layers = 5
  Overhead = 2
  MaxTok = 2
  MaxBeat = 1
  MaxUpset = 1
SPECIFICATION FairSpec
CHECK_DEADLOCK FALSE
INVARIANTS
  LinkTypeOK
  TokensAreOwn
  SlotHoldsPrefix
  AbortAims
PROPERTIES
  EveryRequestEnds
  SlotsFreed
