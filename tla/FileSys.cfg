CONSTANTS
  p1 = p1 p2 = p2
  None = None
  Proc = {p1, p2}
  NINODES = 3
  Name = {"a", "b"}
  Calls <- MakeAndUse
SPECIFICATION Spec
INVARIANT InodesKept
PROPERTY PanicsOnDotDot
