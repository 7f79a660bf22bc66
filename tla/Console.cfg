CONSTANTS
  None = None
  Reader = {h1}
  Writer = {h2}
  Char = {"a"}
  INPUT_BUF_SIZE = 2
  UART_TX_BUF_SIZE = 1
  UintMod = 4
  FIFO = 2 RX = 1
  ReadSize = 2
  Loads <- TypeOrWrite
SPECIFICATION FairSpec
INVARIANTS OutputInOrder NoSelfDeadlock
PROPERTIES ImplementsTerminal Progress
CHECK_DEADLOCK FALSE
