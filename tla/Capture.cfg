SPECIFICATION CaptureFairSpec
CONSTANTS
  ConfigRange = 8
  NoPixel = NoPixel
  ColourDepth = 2
  ConfigValues <- EvenFrames
  FrameTags = 2
  MidFrame = TRUE
INVARIANTS
  BlockCoherent
  AlignedBetweenFrames
  ColourFifosSuffice
  FrameComplete
PROPERTY
  WordsKeepComing
