----------------------------- MODULE ClkDivider -----------------------------
(***************************************************************************)
(* lab2.2/hw/hdl/LED/clk_divider.vhd: an enable of one cycle every divider *)
(* cycles of clk.                                                          *)
(***************************************************************************)
EXTENDS Naturals

CONSTANT divider   \* 50,000,000 for a second, 5,000 for the display

VARIABLES
  cnt_reg,
  clk_en    \* the output, a register

vars == <<cnt_reg, clk_en>>

Reset == cnt_reg' = 0 /\ clk_en' = FALSE
Init == cnt_reg = 0 /\ clk_en = FALSE

ClockEdge ==
  /\ cnt_reg' = IF cnt_reg = divider - 1 THEN 0 ELSE cnt_reg + 1
  /\ clk_en' = (cnt_reg = divider - 1)
=============================================================================
