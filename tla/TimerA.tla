------------------------------- MODULE TimerA -------------------------------
(***************************************************************************)
(* Timer_A of the MSP432, as Exercise 7 of Lab1/Lab_1/main.c uses it: up   *)
(* mode on ACLK, output unit 1 in mode 6 (toggle/set), and the flag of     *)
(* compare block 2.                                                        *)
(***************************************************************************)
EXTENDS Naturals

VARIABLES
  R,        \* the count
  CCR1,     \* where the output is toggled
  OUT1,     \* the output, pin P2.4
  CCIFG2    \* the count has reached CCR2

vars == <<R, CCR1, OUT1, CCIFG2>>

\* One tick of ACLK: the output is set at CCR0 and toggled at CCR1, and a flag
\* stays up until it is read.
Count(CCR0, CCR2) ==
  LET next == IF R >= CCR0 THEN 0 ELSE R + 1
  IN /\ R' = next
     /\ OUT1' = (next = CCR0 \/ (OUT1 <=> next # CCR1))
     /\ CCIFG2' = (CCIFG2 \/ next = CCR2)
     /\ UNCHANGED CCR1

\* A write takes effect at once.  Whether the value the count has at that
\* moment still is a match is not defined.
WriteCCR1(value) ==
  /\ CCR1' = value
  /\ OUT1' \in IF value = R THEN BOOLEAN ELSE {OUT1}
  /\ UNCHANGED <<R, CCIFG2>>

\* Reading IV returns the interrupt and takes its flag down.
ReadIV == CCIFG2' = FALSE /\ UNCHANGED <<R, CCR1, OUT1>>
=============================================================================
