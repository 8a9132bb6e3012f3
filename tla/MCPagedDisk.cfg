CONSTANTS
  b1 = b1
  b2 = b2
  b3 = b3
  h1 = h1
  h2 = h2
  h3 = h3
  h4 = h4
  r1 = r1
  r2 = r2
  NoHash = NoHash
  Block = {b1, b2}
  IdOrder <- MCOrder2
  MaxRef = 6
  Hash = {h1, h2}
  Req = {r1, r2}
  Probes <- MCDiskProbes
  StoreChain <- MCDiskChain
  DiskStore = TRUE
  Budget = TRUE
SPECIFICATION CacheSpec
INVARIANTS
  PagedTypeOK
  RefsAreHeld
  PayloadMatchesHash
  TablesKeepChain
  ServedOwnPrefix
  IndexSound
