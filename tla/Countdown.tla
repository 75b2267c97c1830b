----------------------------- MODULE Countdown ------------------------------
(***************************************************************************)
(* What the alarms of the HAL promise: an alarm started with n runs at the *)
(* (n+1)th tick from then, neither earlier nor later, then again and again *)
(* after as many ticks as its callback returns, until that is 0 or the     *)
(* alarm is stopped.  No tick passes over an alarm that is due.            *)
(***************************************************************************)
EXTENDS Integers

CONSTANTS Alarms, Off, Delays, Periods

VARIABLE left   \* ticks to come, or Off

Init == left = [a \in Alarms |-> Off]

Set(a, value) == left' = [left EXCEPT ![a] = value]

Start(a, n) == left[a] = Off /\ Set(a, n + 1)

Stop(a) == Set(a, Off)

\* The callback of a due alarm returns.
Run(a, period) == left[a] = 0 /\ Set(a, IF period = 0 THEN Off ELSE period)

Tick ==
  /\ \A a \in Alarms : left[a] # 0
  /\ left' = [a \in Alarms |-> IF left[a] = Off THEN Off ELSE left[a] - 1]

Next ==
  \/ Tick
  \/ \E a \in Alarms :
       Stop(a) \/ (\E n \in Delays : Start(a, n)) \/ (\E n \in Periods : Run(a, n))

Spec == Init /\ [][Next]_left
=============================================================================
