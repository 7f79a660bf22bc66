CONSTANTS
  p1 = p1 p2 = p2 p3 = p3
  None = None
  Proc = {p1, p2, p3}
  Value = {0, 1}
  NUM = 8
SPECIFICATION FairSpec
PROPERTIES ImplementsBlockDevice TransferEnds
