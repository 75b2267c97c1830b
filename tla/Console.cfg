SPECIFICATION FairSpec
CONSTANTS
  BUF_LEN = 3
  FifoDepth = 2
  WriteThreshold = 1
  ReadThreshold = 2
  IntMax = 7
  DefaultTimeout = 3
  Uart = 0
  Timer = 1
  Thread = Thread
  Scan = Scan
  Lengths <- ShortAndLong
  Timeouts <- SomeTimeouts
  SystemClocks <- Without
  MaxIn = 3
  MaxOut = 4
PROPERTY
  KeepsMoving
CHECK_DEADLOCK FALSE
