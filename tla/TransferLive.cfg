SPECIFICATION FairSpec
CONSTANTS
  BurstLength = 1
  AddrSpace = 32
  Depth = 3
  NoWord = NoWord
  Buffers <- TwoBuffers
  MaxWords = 4
  MaxTasks = 1
  MaxResets = 0
  StallsIssue = FALSE
  ReadyAtEnd = FALSE
  MayAbort = FALSE
  TriggerAt = {}
PROPERTY
  StartedFinishes
