SPECIFICATION Spec
CONSTANTS
  BurstLength = 3
  AddrSpace = 64
  Depth = 4
  NoWord = NoWord
  Buffers <- FourWordBuffers
  MaxWords = 10
  MaxTasks = 2
  MaxResets = 0
  StallsIssue = FALSE
  ReadyAtEnd = FALSE
  MayAbort = FALSE
  TriggerAt = {}
INVARIANT
  BurstWhole
