---------------------------- MODULE SystemClock -----------------------------
(***************************************************************************)
(* The system clock of the HAL: a tick counter of w bits, a doubly linked  *)
(* list of alarms that alt_tick walks at interrupt level, and the time of  *)
(* day, which is the counter plus an offset.  Callbacks may start and stop *)
(* alarms while the list is walked.                                        *)
(*                                                                         *)
(* The program starts and stops alarms with interrupts disabled, so that   *)
(* its steps and those of a tick do not mix.                               *)
(***************************************************************************)
EXTENDS Integers, FiniteSets

CONSTANTS
  Alarms, alt_alarm_list,  \* the alarms and the head of their list
  Span,      \* 2^w: the values of an alt_u32
  Off,
  Delays, Periods,         \* given to alt_alarm_start, returned by callbacks
  ALT_US,    \* microseconds in a second
  TickRate,  \* ticks in a second
  Times      \* given to settimeofday, in microseconds

ASSUME AlarmsAssumption == alt_alarm_list \notin Alarms
ASSUME SpanAssumption == Span \in Nat \ {0}
\* A delay of 2^w - 1 cannot be told from none.
ASSUME DelaysAssumption == Delays \subseteq 0 .. Span - 2 /\ Periods \subseteq 0 .. Span - 1
ASSUME OffAssumption == Off \notin Int
ASSUME RateAssumption ==
  /\ TickRate \in Nat \ {0} /\ ALT_US \in Nat \ {0} /\ ALT_US % TickRate = 0
  /\ Times \subseteq Nat

VARIABLES
  _alt_nticks,
  next, previous,    \* the links of head and alarms
  time, rollover,    \* of each alarm; time is Off if it was never started
  alarm, saved,      \* alt_tick's place in the list, and the one it goes on to
  ticking,           \* "off", "look", or "callback" while a callback runs
  alt_resettime,     \* seconds and microseconds
  wall,              \* history: the time of day, Off if it is not known
  exact              \* history: it was set while 32 bits were enough

listVars == <<next, previous>>
alarmVars == <<time, rollover>>
tickVars == <<alarm, saved, ticking>>
dayVars == <<alt_resettime, wall, exact>>
vars == <<_alt_nticks, listVars, alarmVars, tickVars, dayVars>>

Nodes == Alarms \union {alt_alarm_list}

Init ==
  /\ _alt_nticks = 0
  /\ next = [l \in Nodes |-> l] /\ previous = [l \in Nodes |-> l]
  /\ time = [a \in Alarms |-> Off] /\ rollover = [a \in Alarms |-> FALSE]
  /\ alarm = alt_alarm_list /\ saved = alt_alarm_list /\ ticking = "off"
  /\ alt_resettime = [sec |-> 0, usec |-> 0] /\ wall = 0 /\ exact = TRUE

alt_llist_insert(entry) ==
  /\ previous' = [previous EXCEPT ![entry] = alt_alarm_list, ![next[alt_alarm_list]] = entry]
  /\ next' = [next EXCEPT ![entry] = next[alt_alarm_list], ![alt_alarm_list] = entry]

\* Mutant: the entry keeps its links.
alt_llist_remove_only(entry) ==
  /\ previous' = [previous EXCEPT ![next[entry]] = previous[entry]]
  /\ next' = [next EXCEPT ![previous[entry]] = next[entry]]

\* The entry points to itself afterwards: to remove it again is harmless.
alt_llist_remove(entry) ==
  /\ previous' = [[previous EXCEPT ![next[entry]] = previous[entry]] EXCEPT ![entry] = entry]
  /\ next' = [[next EXCEPT ![previous[entry]] = next[entry]] EXCEPT ![entry] = entry]

listed(a) == next[a] # a

-----------------------------------------------------------------------------
(* What the program and the callbacks call.                                *)

calling == ticking \in {"off", "callback"}

\* An alarm that is in the list is not started again, by its own callback
\* neither: that one returns the period.
alt_alarm_start(a, nticks) ==
  /\ calling /\ ~listed(a) /\ ~(ticking = "callback" /\ a = alarm)
  /\ time' = [time EXCEPT ![a] = (nticks + _alt_nticks + 1) % Span]
  /\ rollover' = [rollover EXCEPT ![a] = time'[a] < _alt_nticks]
  /\ alt_llist_insert(a)
  /\ UNCHANGED <<_alt_nticks, tickVars, dayVars>>

\* alt_tick holds on to the alarm after the one that runs: a callback does
\* not stop that one.
alt_alarm_stop(a) ==
  /\ calling /\ time[a] # Off /\ ~(ticking = "callback" /\ a = saved)
  /\ alt_llist_remove(a)
  /\ UNCHANGED <<_alt_nticks, alarmVars, tickVars, dayVars>>

-----------------------------------------------------------------------------
(* alt_tick.                                                               *)

TickBegin ==
  /\ ticking = "off"
  /\ _alt_nticks' = (_alt_nticks + 1) % Span
  /\ alarm' = next[alt_alarm_list] /\ ticking' = "look"
  /\ wall' = IF wall = Off \/ _alt_nticks' = 0 THEN Off ELSE wall + ALT_US \div TickRate
  /\ UNCHANGED <<listVars, alarmVars, saved, alt_resettime, exact>>

expired(a, flag) == time[a] <= _alt_nticks /\ ~flag

Look ==
  /\ ticking = "look" /\ alarm # alt_alarm_list
  /\ LET flag == rollover[alarm] /\ _alt_nticks # 0
     IN /\ rollover' = [rollover EXCEPT ![alarm] = flag]
        /\ saved' = next[alarm]
        /\ IF expired(alarm, flag)
             THEN ticking' = "callback" /\ UNCHANGED alarm
             ELSE alarm' = next[alarm] /\ UNCHANGED ticking
  /\ UNCHANGED <<_alt_nticks, listVars, time, dayVars>>

\* Mutant: the flag is only ever set when an alarm is started.
rolls_never(a, again) == FALSE
rolls(a, again) == again < _alt_nticks

\* The callback returns when the alarm is to run again.
CallbackReturns(period) ==
  /\ ticking = "callback"
  /\ IF period = 0
       THEN alt_llist_remove(alarm) /\ UNCHANGED alarmVars
       ELSE LET again == (time[alarm] + period) % Span
            IN /\ time' = [time EXCEPT ![alarm] = again]
               /\ rollover' = [rollover EXCEPT ![alarm] = rolls(alarm, again) \/ @]
               /\ UNCHANGED listVars
  /\ alarm' = saved /\ ticking' = "look"
  /\ UNCHANGED <<_alt_nticks, saved, dayVars>>

TickEnds ==
  /\ ticking = "look" /\ alarm = alt_alarm_list
  /\ ticking' = "off" /\ saved' = alt_alarm_list
  /\ UNCHANGED <<_alt_nticks, listVars, alarmVars, alarm, dayVars>>

-----------------------------------------------------------------------------
(* The time of day.                                                        *)

micros(nticks) == nticks * (ALT_US \div TickRate)
usecs(nticks) == micros(nticks) % ALT_US

\* Whether the microseconds of all ticks fit in 32 bits: about 71 minutes.
fits(nticks) == micros(nticks) < Span

\* Mutant: the microseconds that have passed are not taken off.
settimeofday_late(t) ==
  /\ ticking = "off"
  /\ alt_resettime' = [sec |-> t \div ALT_US - _alt_nticks \div TickRate,
                       usec |-> t % ALT_US]
  /\ wall' = t /\ exact' = fits(_alt_nticks)
  /\ UNCHANGED <<_alt_nticks, listVars, alarmVars, tickVars>>

\* Other than in gettimeofday, the product is taken in 32 bits: once it
\* overflows what is taken off is not what gettimeofday adds.
settimeofday(t) ==
  /\ ticking = "off"
  /\ alt_resettime' = [sec |-> t \div ALT_US - _alt_nticks \div TickRate,
                       usec |-> (t % ALT_US) - ((micros(_alt_nticks) % Span) % ALT_US)]
  /\ wall' = t /\ exact' = fits(_alt_nticks)
  /\ UNCHANGED <<_alt_nticks, listVars, alarmVars, tickVars>>

\* What is borrowed from the seconds or carried to them does not change the
\* sum; without seconds to borrow from the time is zero.
gettimeofday ==
  LET sec == alt_resettime.sec + _alt_nticks \div TickRate
      usec == alt_resettime.usec + usecs(_alt_nticks)
  IN IF usec < 0 /\ sec <= 0 THEN 0 ELSE sec * ALT_US + usec

Next ==
  \/ TickBegin \/ Look \/ TickEnds
  \/ \E period \in Periods : CallbackReturns(period)
  \/ \E a \in Alarms : alt_alarm_stop(a) \/ \E nticks \in Delays : alt_alarm_start(a, nticks)
  \/ \E t \in Times : settimeofday(t)

Spec == Init /\ [][Next]_vars
-----------------------------------------------------------------------------
(* Properties.                                                             *)

\* The links of the list answer each other in both directions, and an alarm
\* outside of it points to itself: insertions and removals by callbacks in the
\* middle of a walk leave it whole, and the walk inside of it.
ListWhole ==
  /\ \A l \in Nodes : previous[next[l]] = l /\ next[previous[l]] = l
  /\ \A a \in Alarms : listed(a) => time[a] # Off
  /\ ticking = "look" => alarm = alt_alarm_list \/ listed(alarm)

\* Ticks until an alarm runs.
ticks_left(a) ==
  IF ~listed(a) THEN Off
  ELSE IF rollover[a] /\ _alt_nticks # 0 THEN time[a] + Span - _alt_nticks
  ELSE time[a] - _alt_nticks

\* Alarms run at their tick, also when the counter rolls over in between.
countdown == INSTANCE Countdown WITH left <- [a \in Alarms |-> ticks_left(a)]
OnTime == countdown!Spec

\* Until the counter rolls over, the time of day is the one that was set and
\* what has passed since: settimeofday and gettimeofday take the same ticks
\* apart.  If the microseconds of the ticks no longer fit in 32 bits when the
\* clock is set, it is off, by less than a second.
DayGoesOn ==
  wall # Off =>
    /\ exact => gettimeofday = wall
    /\ gettimeofday - wall \in 1 - ALT_US .. ALT_US - 1
=============================================================================
