SPECIFICATION Spec
CONSTANTS
  BurstLength = 3
  AddrSpace = 64
  Depth = 4
  NoWord = NoWord
  Buffers <- FourWordBuffers
  MaxWords = 10
  MaxTasks = 2
  MaxResets = 1
  StallsIssue = TRUE
  ReadyAtEnd = TRUE
  MayAbort = TRUE
  TriggerAt = {"clear", "len", "dest", "start"}
INVARIANTS
  UnderflowOnlyOnLastBeat
  BurstWhole
  Placement
  FinishMeansComplete
  QuietWhileProgrammed
  FinishedIsProgrammed
PROPERTIES
  ImplementsFrameCopy
