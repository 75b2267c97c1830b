SPECIFICATION Spec
CONSTANTS
  Ratios <- SomeRatios
  period = 20
  Delays = {1, 2}
  MaxLate = 3
  Slot = 3
  Word = 16
INVARIANTS
  PatternHeld
  DelayLasts
