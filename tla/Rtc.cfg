SPECIFICATION FairSpec
CONSTANTS
  LastSec = 11
  LastMin = 2
  LastHr = 1
  SwitchLast = 1
  HzDivider = 24
  DigitDivider = 2
  Program <- FunctionTest2
  MaxResets = 1
INVARIANTS
  CountsFromStart
  DigitsAreDecimal
PROPERTIES
  ImplementsWallClock
  SettlesOnStop
  BlankBetween
