SPECIFICATION FairSpec
CONSTANTS
  BurstLength = 3
  AddrSpace = 96
  Depth = 4
  NoWord = NoWord
  ConfigRange = 16
  NoPixel = NoPixel
  ColourDepth = 4
  Setting <- TwoBursts
  Buffers <- TwoPictures
  SyncStages = 2
  MaxStall = 1
  MaxPictures = 2
  MaxResets = 1
  FrameTags = 2
INVARIANTS
  PictureWhole
  NeverDry
  NothingDropped
PROPERTY
  PictureFinishes
