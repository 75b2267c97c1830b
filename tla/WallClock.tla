----------------------------- MODULE WallClock -----------------------------
(***************************************************************************)
(* What the clock of lab2.2 promises: a count of the seconds of the day    *)
(* that runs from the value it is given to the value it is to stop at, one *)
(* second after the other and over midnight, and waits there.              *)
(*                                                                         *)
(* Software may change both values at any moment.                          *)
(***************************************************************************)
EXTENDS Naturals

CONSTANT Day

VARIABLES
  mode,     \* "idle", "setting" or "running"
  seconds,  \* since midnight
  start,    \* what software has asked for
  stop

vars == <<mode, seconds, start, stop>>

Init == mode = "idle" /\ seconds = 0 /\ start = 0 /\ stop = 0

Idle == mode = "idle" /\ seconds' = 0

Setting ==
  /\ mode = "setting" /\ seconds' = start
  /\ mode' \in {"idle", "running"}

Running ==
  /\ mode = "running"
  /\ seconds' = IF seconds = stop THEN seconds ELSE (seconds + 1) % Day
  /\ mode' \in {"idle", "running"}

Between == UNCHANGED <<mode, seconds>>

Reset == mode' = "idle" /\ seconds' = 0

Next ==
  /\ Idle \/ Setting \/ Running \/ Between \/ Reset
  /\ mode' \in {"idle", "setting", "running"}
  /\ start' \in 0 .. Day - 1 /\ stop' \in 0 .. Day - 1

Spec == Init /\ [][Next]_vars
=============================================================================
