----------------------------- MODULE Exercises ------------------------------
(***************************************************************************)
(* Exercises 1 to 4 of Lab1/Lab_1/main.c, one of them per behaviour: a     *)
(* pulse made by a loop, a light that goes round, a delay made with the    *)
(* timer in up mode, and a pulse the timer makes in up/down mode.          *)
(*                                                                         *)
(* Ratios are in thousandths, delays in hundredths of a second, and time   *)
(* is counted in iterations of the loops or in ticks of ACLK.              *)
(***************************************************************************)
EXTENDS Naturals

CONSTANTS
  Ratios,        \* of PwmGenerator and TimerPWM
  period,        \* of TimerPWM, in ms
  Delays,        \* of TimerDelay
  MaxLate,       \* bound: ticks the program spends from a flag to the next wait
  Slot, Word     \* of StrobeGpio: 10000 and 2^32 in the code

ASSUME RatiosAssumption == Ratios \subseteq 1 .. 999
ASSUME SlotAssumption == Slot \in Nat \ {0} /\ Word \in Nat /\ 4 * Slot < Word

\* Half a period of less than four seconds fits into the 16 bits of the timer.
ASSUME PeriodAssumption == period \in 0 .. 3999

uint16(n) == n % 65536
period_tick == uint16(((period * 32768) \div 1000) \div 2)
delay_tick(delay_setting) == uint16((delay_setting * 32768) \div 100)

\* A delay of two seconds no longer fits into uint16_t.
ASSUME DelaysAssumption == Delays \subseteq 1 .. 199

\* The program is back at its next delay within a hundredth of a second, so
\* that the timer, which counts on, meets neither the end of this delay nor
\* that of the next, which may be a hundredth longer.
ASSUME LateAssumption == MaxLate \in Nat /\ MaxLate + 1 < delay_tick(1)

VARIABLES
  exercise, ratio,
  i, OUT,              \* the counter of a loop, and the bits of the port
  R, down, CCR0, CCR1, CCIFG,   \* the timer
  pc, delay_setting,   \* the program, and the argument of TimerDelay
  elapsed, late,       \* history: ticks since R was cleared, and since the flag
  lit, length,         \* history: iterations or ticks of this round, with each bit and in all
  whole,               \* history: this round began with its first step, all set up
  last                 \* history: the last whole round, or NoRound

loopVars == <<i, OUT>>
timerVars == <<R, down, CCR0, CCR1, CCIFG>>
delayVars == <<delay_setting, elapsed, late>>
roundVars == <<lit, length, whole, last>>
vars == <<exercise, ratio, loopVars, timerVars, pc, delayVars, roundVars>>

Bits == {0, 1, 2, 4}
NoRound == [lit |-> [b \in Bits |-> 0], length |-> 0]

\* Mutant: half the period is forgotten.
TimerPWM_whole(r) == uint16((r * period * 32768) \div 1000000)
TimerPWM(r) == uint16(((r * period * 32768) \div 1000000) \div 2)

\* A comparison at neither end of the count.
fits(r) == TimerPWM(r) \in 1 .. period_tick - 1

Init ==
  /\ exercise \in 1 .. 4
  /\ ratio \in (IF exercise = 4 THEN {r \in Ratios : fits(r)} ELSE Ratios)
  /\ i \in (IF exercise = 2 THEN 0 .. Word - 1 ELSE {0})   \* not initialised
  /\ OUT \in (IF exercise = 4 THEN {{}, {4}} ELSE {{0}})
  /\ R = 0 /\ down = FALSE /\ CCR0 = (IF exercise = 4 THEN period_tick ELSE 0)
  /\ CCR1 = 0 /\ CCIFG = FALSE
  /\ pc = (IF exercise \in {1, 2} THEN "run" ELSE "begin") /\ delay_setting = 0 /\ elapsed = 0 /\ late = 0
  /\ lit = NoRound.lit /\ length = 0 /\ whole = (exercise = 1) /\ last = NoRound

\* History: a round is over; what comes next is the first step of another.
Round(ends) ==
  LET now == [lit |-> [b \in Bits |-> IF b \in OUT' THEN lit[b] + 1 ELSE lit[b]],
              length |-> length + 1]
      next == IF ends THEN NoRound ELSE now
  IN /\ lit' = next.lit /\ length' = next.length
     /\ whole' = (pc = "run" /\ (whole \/ ends))
     /\ last' = IF ends /\ whole THEN now ELSE last

-----------------------------------------------------------------------------
(* Exercise 1: ratio * 1000 is the ratio in thousandths.                   *)
PwmGenerator ==
  LET n == uint16(i + 1)
  IN /\ i' = IF n = 1000 THEN 0 ELSE n
     /\ OUT' = IF n \in {1000, ratio} THEN {0} \ OUT ELSE OUT
     /\ Round(n = 1000)
     /\ UNCHANGED <<timerVars, pc, delayVars>>

(* Exercise 2.                                                             *)
StrobeGpio ==
  LET n == (i + 1) % Word
  IN /\ i' = IF n = 4 * Slot THEN 0 ELSE n
     /\ OUT' = CASE n <= Slot -> {0}
                 [] n \in Slot + 1 .. 2 * Slot -> {1}
                 [] n \in 2 * Slot + 1 .. 3 * Slot -> {2}
                 [] OTHER -> OUT
     /\ Round(n = 4 * Slot)
     /\ UNCHANGED <<timerVars, pc, delayVars>>

-----------------------------------------------------------------------------
(* Exercise 3.                                                             *)

\* Up mode; a timer whose CCR0 is 0 stands still.
CountUp ==
  /\ (pc = "wait" /\ ~CCIFG) \/ late < MaxLate
  /\ late' = IF pc = "wait" /\ ~CCIFG THEN 0 ELSE late + 1
  /\ R' = IF R >= CCR0 THEN 0 ELSE R + 1
  /\ CCIFG' = (CCIFG \/ (R' = CCR0 /\ CCR0 > 0))
  /\ elapsed' = IF pc = "wait" THEN elapsed + 1 ELSE elapsed
  /\ UNCHANGED <<down, CCR0, CCR1, loopVars, pc, delay_setting, roundVars>>

SetCCR0 ==
  /\ pc = "begin" /\ pc' = "clear"
  /\ delay_setting' \in Delays /\ CCR0' = delay_tick(delay_setting')
  /\ UNCHANGED <<R, down, CCR1, CCIFG, elapsed, late, loopVars, roundVars>>

ClearR ==
  /\ pc = "clear" /\ pc' = "wait"
  /\ R' = 0 /\ elapsed' = 0 /\ late' = 0
  /\ UNCHANGED <<down, CCR0, CCR1, CCIFG, delay_setting, loopVars, roundVars>>

LeaveLoop ==
  /\ pc = "wait" /\ CCIFG /\ pc' = "flag"
  /\ UNCHANGED <<timerVars, delayVars, loopVars, roundVars>>

\* Mutant: the flag is left to the next delay.
ClearFlag_not ==
  /\ pc = "flag" /\ pc' = "begin"
  /\ UNCHANGED <<timerVars, delayVars, loopVars, roundVars>>

ClearFlag ==
  /\ pc = "flag" /\ pc' = "begin"
  /\ CCIFG' = FALSE
  /\ UNCHANGED <<R, down, CCR0, CCR1, delayVars, loopVars, roundVars>>

TimerDelay == SetCCR0 \/ ClearR \/ LeaveLoop \/ ClearFlag

-----------------------------------------------------------------------------
(* Exercise 4: the timer runs from Exercise4TimerInitialize on.            *)

SetCCR1 ==
  /\ pc = "begin" /\ pc' = "run"
  /\ CCR1' = TimerPWM(ratio)
  /\ UNCHANGED <<R, down, CCR0, CCIFG, delayVars, loopVars, roundVars>>

\* Up/down mode; the output is toggled at CCR1 and reset at CCR0.
CountUpDown ==
  /\ R' = IF down THEN R - 1 ELSE R + 1
  /\ down' = (IF down THEN R' # 0 ELSE R' = CCR0)
  /\ OUT' = CASE R' = CCR0 -> {}
              [] R' = CCR1 /\ CCR1 # CCR0 -> {4} \ OUT
              [] OTHER -> OUT
  /\ Round(R' = CCR0)
  /\ UNCHANGED <<CCR0, CCR1, CCIFG, i, pc, delayVars>>

Next ==
  /\ \/ exercise = 1 /\ PwmGenerator
     \/ exercise = 2 /\ StrobeGpio
     \/ exercise = 3 /\ (TimerDelay \/ CountUp)
     \/ exercise = 4 /\ (SetCCR1 \/ CountUpDown)
  /\ UNCHANGED <<exercise, ratio>>

Spec == Init /\ [][Next]_vars
-----------------------------------------------------------------------------
(* Properties.                                                             *)

\* Once set up, every round has its pattern: a pulse is up for its ratio of
\* the period, to two ticks, and each light is on for its slot, the last one
\* for two, wherever loop, timer and output were when they were set up.
PatternHeld ==
  last # NoRound =>
    CASE exercise = 1 -> last = [lit |-> [NoRound.lit EXCEPT ![0] = ratio], length |-> 1000]
      [] exercise = 2 -> /\ last.length = 4 * Slot
                         /\ \A b \in 0 .. 2 : last.lit[b] = IF b = 2 THEN 2 * Slot ELSE Slot
      [] exercise = 4 -> /\ 1000 * last.lit[4] < ratio * last.length + 2000
                         /\ ratio * last.length < 1000 * last.lit[4] + 2000

\* A delay lasts as long as it was asked for, up to the time the program
\* takes to notice: no flag is left from the delay before, or from what the
\* timer does after it.
DelayLasts ==
  pc = "flag" =>
    LET asked == (delay_setting * 32768) \div 100 IN elapsed \in asked .. asked + MaxLate
=============================================================================
