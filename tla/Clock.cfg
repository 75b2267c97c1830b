SPECIFICATION Spec
CONSTANTS
  Alarms = {a1, a2, a3}
  alt_alarm_list = alt_alarm_list
  Span = 4
  Off = Off
  Delays <- SomeDelays
  Periods <- SomePeriods
  ALT_US = 6
  TickRate = 2
  Times <- SomeTimes
INVARIANTS
  ListWhole
  DayGoesOn
PROPERTY
  OnTime
