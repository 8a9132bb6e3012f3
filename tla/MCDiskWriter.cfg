CONSTANTS
  top = top
  leaf = leaf
  s1 = s1
  s2 = s2
  NoBlock = NoBlock
  NoStore = NoStore
  Block = {top, leaf}
  Parent <- MCParent
  Store = {s1, s2}
  Fenced = {s1}
  Chain <- MCChain
  QueueCap = 2
  Budget = 2
  Size <- MCSize
  Read = {top}
  MaxEra = 2
  MaxUpset = 1
SPECIFICATION Spec
CHECK_DEADLOCK FALSE
INVARIANT
  WriterServes
