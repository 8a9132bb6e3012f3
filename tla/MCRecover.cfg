CONSTANTS
  b1 = b1
  b2 = b2
  b3 = b3
  h1 = h1
  h2 = h2
  h3 = h3
  h4 = h4
  r1 = r1
  r2 = r2
  NoHash = NoHash
  Block = {b1, b2, b3}
  IdOrder <- MCOrder
  MaxRef = 6
  Hash = {h1, h2, h3, h4}
  Req = {r1, r2}
  Probes <- MCProbes
  StoreChain <- MCStoreChain
  DiskStore = FALSE
  Budget = FALSE
SPECIFICATION RecoverSpec
INVARIANT
  ServedOwnPrefix
