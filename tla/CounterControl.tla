--------------------------- MODULE CounterControl ---------------------------
(***************************************************************************)
(* lab2.2/hw/hdl/LED/counter_control.vhd: the time of day.  Everything it  *)
(* does it does in the cycles in which the divider enables it, so that the *)
(* levels of count_en and set_value are looked at once a second.           *)
(***************************************************************************)
EXTENDS Naturals

CONSTANTS LastSec, LastMin, LastHr   \* 59, 59 and 23 in the source

VARIABLES
  state,                     \* INIT, COUNT or SET; STOP is declared and never reached
  cnt_sec, cnt_min, cnt_hr   \* six bits each

vars == <<state, cnt_sec, cnt_min, cnt_hr>>

-----------------------------------------------------------------------------
Init == state = "INIT" /\ cnt_sec = 0 /\ cnt_min = 0 /\ cnt_hr = 0
Zero == cnt_sec' = 0 /\ cnt_min' = 0 /\ cnt_hr' = 0
Reset == state' = "INIT" /\ Zero

\* Mutant: counting goes before setting.
next_state_count_first(count_en, set_value) ==
  CASE state = "INIT" -> IF count_en THEN "COUNT"
                         ELSE IF set_value THEN "SET" ELSE "INIT"
    [] state \in {"COUNT", "SET"} -> IF count_en THEN "COUNT" ELSE "INIT"

\* set_value is looked at in INIT only.
next_state(count_en, set_value) ==
  CASE state = "INIT" -> IF set_value THEN "SET"
                         ELSE IF count_en THEN "COUNT" ELSE "INIT"
    [] state \in {"COUNT", "SET"} -> IF count_en THEN "COUNT" ELSE "INIT"

Load(time_in) ==
  cnt_sec' = time_in.sec /\ cnt_min' = time_in.min /\ cnt_hr' = time_in.hr

\* Each field is compared with its last value, not with any beyond it, and
\* adds up in six bits.
up(field) == (field + 1) % 64

\* Mutant: midnight is forgotten.
TickEndless ==
  /\ cnt_sec' = IF cnt_sec = LastSec THEN 0 ELSE up(cnt_sec)
  /\ cnt_min' = IF cnt_sec # LastSec THEN cnt_min
                ELSE IF cnt_min = LastMin THEN 0 ELSE up(cnt_min)
  /\ cnt_hr' = IF cnt_sec # LastSec \/ cnt_min # LastMin THEN cnt_hr ELSE up(cnt_hr)

Tick ==
  /\ cnt_sec' = IF cnt_sec = LastSec THEN 0 ELSE up(cnt_sec)
  /\ cnt_min' = IF cnt_sec # LastSec THEN cnt_min
                ELSE IF cnt_min = LastMin THEN 0 ELSE up(cnt_min)
  /\ cnt_hr' = IF cnt_sec # LastSec \/ cnt_min # LastMin THEN cnt_hr
               ELSE IF cnt_hr = LastHr THEN 0 ELSE up(cnt_hr)

\* The time stands still as long as it equals the threshold.
Count(threshold) ==
  IF <<cnt_sec, cnt_min, cnt_hr>> = <<threshold.sec, threshold.min, threshold.hr>>
    THEN UNCHANGED <<cnt_sec, cnt_min, cnt_hr>>
    ELSE Tick

ClockEdge(clk_en, count_en, set_value, time_in, threshold) ==
  IF clk_en
    THEN /\ state' = next_state(count_en, set_value)
         /\ \/ state = "INIT" /\ Zero
            \/ state = "SET" /\ Load(time_in)
            \/ state = "COUNT" /\ Count(threshold)
    ELSE UNCHANGED vars
=============================================================================
