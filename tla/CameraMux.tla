------------------------------ MODULE CameraMux ------------------------------
(***************************************************************************)
(* Lab4/hw/hdl/CameraMux.vhd: it tells the four colours of the sensor's    *)
(* Bayer pattern apart by counting pixels and lines, and sends each pixel  *)
(* to the store of its colour.                                             *)
(***************************************************************************)
EXTENDS Naturals

VARIABLES
  state_current,  \* the colour of the last pixel, or IDLE, or WAITDATA
  cnt_row         \* 0: the next line is green and red, 1: blue and green

vars == <<state_current, cnt_row>>

pixel_states == {"G1", "R", "G2", "B"}

\* The other colour of the same line.
neighbour == [G1 |-> "R", R |-> "G1", B |-> "G2", G2 |-> "B"]
first_of_line == IF cnt_row = 0 THEN "G1" ELSE "B"

\* Mutant: a line always begins with a green pixel of the first line.
enable_out_first(lvalid) ==
  CASE ~lvalid \/ state_current = "IDLE" -> "none"
    [] lvalid /\ state_current = "WAITDATA" -> "G1"
    [] lvalid /\ state_current \in pixel_states -> neighbour[state_current]

\* The store the pixel of this cycle is written to, one hot in the source.
\* The enable input has no part in it.
enable_out(lvalid) ==
  CASE ~lvalid \/ state_current = "IDLE" -> "none"
    [] lvalid /\ state_current = "WAITDATA" -> first_of_line
    [] lvalid /\ state_current \in pixel_states -> neighbour[state_current]
-----------------------------------------------------------------------------
Init == state_current = "IDLE" /\ cnt_row = 0

Reset == state_current' = "IDLE" /\ cnt_row' = 0

\* The mode is only entered in a frame, but in any part of it.
Idle(enable_in, fvalid) ==
  /\ state_current = "IDLE"
  /\ state_current' = IF fvalid /\ enable_in THEN "WAITDATA" ELSE "IDLE"

WaitData(enable_in, fvalid, lvalid) ==
  /\ state_current = "WAITDATA"
  /\ state_current' = CASE ~enable_in -> "IDLE"
                        [] enable_in /\ lvalid -> first_of_line
                        [] enable_in /\ ~lvalid /\ ~fvalid -> "IDLE"
                        [] OTHER -> "WAITDATA"

Pixel(enable_in, lvalid) ==
  /\ state_current \in pixel_states
  /\ state_current' = CASE ~enable_in -> "IDLE"
                        [] enable_in /\ lvalid -> neighbour[state_current]
                        [] OTHER -> "WAITDATA"

\* Mutants: the counter only goes back in IDLE; it is lost between two lines.
row_setting_sticky ==
  cnt_row' = CASE state_current' \in {"G1", "R"} -> 1
               [] state_current' = "IDLE" -> 0
               [] OTHER -> cnt_row
row_setting_forgetful ==
  cnt_row' = IF state_current' \in {"G1", "R"} THEN 1 ELSE 0

\* The line counter is a latch that follows the state.
row_setting ==
  cnt_row' = CASE state_current' \in {"G1", "R"} -> 1
               [] state_current' \in {"B", "G2", "IDLE"} -> 0
               [] OTHER -> cnt_row

ClockEdge(enable_in, fvalid, lvalid) ==
  /\ \/ Idle(enable_in, fvalid)
     \/ WaitData(enable_in, fvalid, lvalid)
     \/ Pixel(enable_in, lvalid)
  /\ row_setting
=============================================================================
