CONSTANTS
  w1 = w1 w2 = w2 r1 = r1
  None = None
  Reader = {r1}
  Writer = {w1, w2}
  N = 3
  PIPESIZE = 2
  UintMod = 4
SPECIFICATION FairSpec
INVARIANTS NoUseAfterFree ReadersSleepEmpty
PROPERTIES ImplementsByteStream WriterWakes
