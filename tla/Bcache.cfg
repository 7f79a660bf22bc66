CONSTANTS
  p1 = p1 p2 = p2 p3 = p3 b1 = b1 b2 = b2 k1 = k1 k2 = k2 k3 = k3
  None = None
  Proc = {p1, p2, p3}
  Buf = {b1, b2}
  Block = {k1, k2, k3}
  Value = {0, 1}
  MaxPin = 1
SPECIFICATION Spec
SYMMETRY Symmetry
CHECK_DEADLOCK FALSE
INVARIANTS SleeperHasWaker
PROPERTIES ImplementsBlockStore
