--------------------------- MODULE DisplayControl ---------------------------
(***************************************************************************)
(* lab2.2/hw/hdl/LED/display_control.vhd with bin_to_bcd.vhd: six digits   *)
(* share one set of segments; each is lit for SwitchLast enables of the    *)
(* divider, and between two of them the segments are reset for one.        *)
(*                                                                         *)
(* decode_seg.vhd, a table from digits to segments, is left out.           *)
(***************************************************************************)
EXTENDS Naturals

CONSTANT SwitchLast   \* 9 in the source

VARIABLES
  switch_flag,  \* enables since this digit had its turn
  cnt_digit,    \* whose turn it is: 0 is the low digit of the seconds
  Reset_Led,    \* the segments are reset
  nSelDig,      \* the digit that is selected, NoDigit if none is
  bcd           \* what it shows

NoDigit == 6   \* all six lines high

vars == <<switch_flag, cnt_digit, Reset_Led, nSelDig, bcd>>
-----------------------------------------------------------------------------
(* Binary to decimal by shifting the six bits in from above (bin_to_bcd):  *)
(* a decimal digit above 4 gets 3 before it is doubled.                    *)
adjust_late(digit) == (IF digit > 5 THEN digit + 3 ELSE digit) % 16   \* mutant
adjust(digit) == (IF digit > 4 THEN digit + 3 ELSE digit) % 16
bit(bin, i) == (bin \div 2^i) % 2

bin_to_bcd(bin) ==
  LET bcd_cnt[i \in 0 .. 6] ==
        IF i = 0 THEN 0
        ELSE LET before == bcd_cnt[i - 1]
             IN (2 * (16 * adjust(before \div 16) + adjust(before % 16))
                 + bit(bin, 6 - i)) % 256
  IN [high |-> bcd_cnt[6] \div 16, low |-> bcd_cnt[6] % 16]

\* A constant, so that TLC computes the table once.
bcd_of == [bin \in 0 .. 63 |-> bin_to_bcd(bin)]

\* The digit on the given position of a time.
digit_of(time, position) ==
  LET field == CASE position \in {0, 1} -> time.sec
                 [] position \in {2, 3} -> time.min
                 [] position \in {4, 5} -> time.hr
  IN IF position % 2 = 0 THEN bcd_of[field].low ELSE bcd_of[field].high
-----------------------------------------------------------------------------
Init ==
  /\ switch_flag = 0 /\ cnt_digit = 0
  /\ Reset_Led = TRUE /\ nSelDig = NoDigit /\ bcd = 15

Reset ==
  /\ switch_flag' = 0 /\ cnt_digit' = 0
  /\ Reset_Led' = TRUE /\ nSelDig' = NoDigit /\ bcd' = 15

\* Mutant: the last digit keeps its turn.
switch_digit_last ==
  IF switch_flag = SwitchLast
    THEN switch_flag' = 0 /\ cnt_digit' = IF cnt_digit = 5 THEN 5 ELSE cnt_digit + 1
    ELSE switch_flag' = switch_flag + 1 /\ UNCHANGED cnt_digit

switch_digit ==
  IF switch_flag = SwitchLast
    THEN switch_flag' = 0 /\ cnt_digit' = IF cnt_digit = 5 THEN 0 ELSE cnt_digit + 1
    ELSE switch_flag' = switch_flag + 1 /\ UNCHANGED cnt_digit

\* Mutant: one digit follows the other without a reset of the segments.
display_unblanked(time) ==
  Reset_Led' = FALSE /\ nSelDig' = cnt_digit /\ bcd' = digit_of(time, cnt_digit)

display(time) ==
  IF switch_flag = SwitchLast
    THEN Reset_Led' = TRUE /\ UNCHANGED <<nSelDig, bcd>>
    ELSE Reset_Led' = FALSE /\ nSelDig' = cnt_digit /\ bcd' = digit_of(time, cnt_digit)

ClockEdge(clk_en, time) ==
  IF clk_en THEN switch_digit /\ display(time) ELSE UNCHANGED vars
=============================================================================
