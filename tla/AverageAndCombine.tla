------------------------- MODULE AverageAndCombine -------------------------
(***************************************************************************)
(* Lab4/hw/hdl/AverageAndCombine.vhd: when a blue pixel arrives it takes   *)
(* the green and the red pixel of the line above, and one cycle later the  *)
(* second green pixel, and writes the four as one word.                    *)
(*                                                                         *)
(* A word keeps the four pixels it is made of; the arithmetic that packs   *)
(* them (the mean of the greens, eight bits a colour) is left out.         *)
(***************************************************************************)
EXTENDS Naturals

CONSTANT NoPixel   \* what a cleared register holds

VARIABLES
  state_c,     \* IDLE, WAITDATA or READDATA
  data_b_reg   \* the blue pixel, kept while the others are awaited

vars == <<state_c, data_b_reg>>

read_r_late(enable) == state_c = "READDATA" /\ enable   \* mutant

read_r(enable) == state_c = "WAITDATA" /\ enable

\* A word that finds the pixel FIFO full is dropped.
wrfifo(start, full_pixel) == state_c = "READDATA" /\ start /\ ~full_pixel

wrdata(data_r, data_g1, data_g2) ==
  [g1 |-> data_g1, r |-> data_r, b |-> data_b_reg, g2 |-> data_g2]
-----------------------------------------------------------------------------
Init == state_c = "IDLE" /\ data_b_reg = NoPixel

Reset == state_c' = "IDLE" /\ data_b_reg' = NoPixel

\* Mutant: the blue pixel that comes while a word is written is missed.
state_setting_slow(start, enable) ==
  state_c' =
    CASE state_c = "IDLE" -> IF start THEN "WAITDATA" ELSE "IDLE"
      [] state_c = "WAITDATA" -> IF enable THEN "READDATA"
                                 ELSE IF start THEN "WAITDATA" ELSE "IDLE"
      [] state_c = "READDATA" -> "IDLE"

state_setting(start, enable) ==
  state_c' =
    CASE state_c = "IDLE" -> IF start THEN "WAITDATA" ELSE "IDLE"
      [] state_c = "WAITDATA" -> IF enable THEN "READDATA"
                                 ELSE IF start THEN "WAITDATA" ELSE "IDLE"
      [] state_c = "READDATA" -> IF start THEN "WAITDATA" ELSE "IDLE"

\* A latch, open in WAITDATA and closed in READDATA.
data_setting(data_b) ==
  data_b_reg' = CASE state_c = "IDLE" -> NoPixel
                  [] state_c = "WAITDATA" -> data_b
                  [] state_c = "READDATA" -> data_b_reg

ClockEdge(start, enable, data_b) ==
  state_setting(start, enable) /\ data_setting(data_b)
=============================================================================
