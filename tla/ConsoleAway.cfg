SPECIFICATION Spec
CONSTANTS
  BUF_LEN = 3
  FifoDepth = 2
  WriteThreshold = 1
  ReadThreshold = 2
  IntMax = 4
  DefaultTimeout = 2
  Uart = 0
  Timer = 1
  Thread = Thread
  Scan = Scan
  Lengths <- ShortAndLong
  Timeouts <- SomeTimeouts
  SystemClocks <- WithAndWithout
  MaxIn = 3
  MaxOut = 3
INVARIANTS
  TypeOK
  Armed
PROPERTIES
  KeepsOutput
  KeepsInput
  ShortOnSilence
CHECK_DEADLOCK FALSE
