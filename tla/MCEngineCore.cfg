CONSTANTS
  r1 = r1
  r2 = r2
  None = None
  Req = {r1, r2}
  Json = {r2}
  MaxTok = 3
  Interval = 2
  MaxSeqs = 2
  OrphanLimit = 2
  MaxFaults = 1
SPECIFICATION FairSpec
CHECK_DEADLOCK FALSE
INVARIANTS
  EngineTypeOK
  TokensInOrder
  IdleIsClean
PROPERTIES
  TerminalAfterStores
  AdmittedAfterStores
  ImplementsStream
  EveryRequestEnds
  EngineDrains
