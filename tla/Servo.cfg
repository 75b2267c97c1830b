SPECIFICATION FairSpec
CONSTANTS
  period = 20
  Sticks <- EndsAndBetween
  Conversions <- AdcTicks
  Latency = 2
INVARIANTS
  TypeOK
  PulseUnbroken
  PulseIsFresh
PROPERTIES
  SampledBetweenPulses
  FollowsStick
