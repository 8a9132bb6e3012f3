CONSTANTS
  b1 = b1
  b2 = b2
  b3 = b3
  b4 = b4
  Block = {b1, b2, b3, b4}
  IdOrder <- MCOrder
  MaxRef = 2
  FakeHead = FakeHead
  FakeTail = FakeTail
  Nil = Nil
SPECIFICATION Spec
INVARIANT Coherent
PROPERTY ImplementsPool
