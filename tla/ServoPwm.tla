------------------------------ MODULE ServoPwm ------------------------------
(***************************************************************************)
(* Exercise 7 of Lab1/Lab_1/main.c: a servo follows a joystick.  The timer *)
(* makes one pulse per period; in the pause after it, the timer interrupt  *)
(* starts a conversion of the joystick, and the interrupt of the converter *)
(* writes the length of the next pulse.                                    *)
(*                                                                         *)
(* A tick of ACLK drives the timer and the converter.  The handlers run in *)
(* between, within Latency ticks, and the timer's preempts the other.      *)
(***************************************************************************)
EXTENDS Naturals

CONSTANTS
  period,       \* of the pulses, in ms: the argument in main
  Sticks,       \* positions of the joystick, as results of the converter
  Conversions,  \* ticks a conversion takes
  Latency       \* bound: ticks between an interrupt and the end of its handler

VARIABLES
  R, CCR1, OUT1, CCIFG2,   \* the timer
  busy,        \* ticks the conversion still takes, 0 when there is none
  MEM0, IFG0,  \* the converter's result and its flag
  ADCResult,   \* the local variable of ADC14_IRQHandler
  handling,    \* ADC14_IRQHandler is under way
  P6,          \* bit 6 of port 6
  stick,       \* the joystick
  late,        \* ticks an interrupt has waited
  pulse,       \* history: CCR1 when the last pulse began, or NoPulse
  before       \* history: P6 when the last pulse began

timerVars == <<R, CCR1, OUT1, CCIFG2>>
adcVars == <<busy, MEM0, IFG0>>
history == <<pulse, before>>
vars == <<timerVars, adcVars, ADCResult, handling, P6, stick, late, history>>

TA0 == INSTANCE TimerA

-----------------------------------------------------------------------------
(* Arithmetic of the program, in uint16_t where it is stored.              *)
uint16(n) == n % 65536

FullScale == 16383   \* 0x3FFF

CCR0 == uint16((period * 32768) \div 1000)

\* Mutants: the order a C programmer gets 0 from, and no early sampling.
CCR2_at_zero == uint16((period * (3 \div 4) * 32768) \div 1000)
CCR2_at_end == uint16((period * 32768) \div 1000)
CCR2 == uint16((((period * 3) \div 4) * 32768) \div 1000)

\* The pulse for a result: from 1/20 to 2/20 of the period.
pwm_tick_from_zero(result) == (CCR0 * result) \div (20 * FullScale)   \* mutant
pwm_tick(result) == (CCR0 * (FullScale + result)) \div (20 * FullScale)

NoPulse == CCR0 + 1   \* longer than any

ASSUME PeriodAssumption == period \in Nat /\ CCR0 > 0
ASSUME SticksAssumption == Sticks \subseteq 0 .. FullScale
ASSUME TicksAssumption == Conversions \subseteq Nat \ {0} /\ Latency \in Nat
-----------------------------------------------------------------------------
\* Where Exercise7Initialization leaves the registers.  The timer counts from
\* the write of CCR0 on, while CCR1 and CCR2 are still 0, so the output and the
\* flag of CCR2 may already be up; port 6 is never initialised.
Init ==
  /\ R = 0 /\ CCR1 = 0 /\ OUT1 \in BOOLEAN /\ CCIFG2 \in BOOLEAN
  /\ busy = 0 /\ MEM0 = 0 /\ IFG0 = FALSE
  /\ ADCResult = 0 /\ handling = FALSE
  /\ P6 \in BOOLEAN /\ late = 0
  /\ stick \in Sticks
  /\ pulse = NoPulse /\ before = P6

waiting == CCIFG2 \/ IFG0 \/ handling

\* Mutant: the interrupt of the converter is not enabled.
Convert_silently ==
  /\ busy' = IF busy = 0 THEN 0 ELSE busy - 1
  /\ MEM0' = IF busy = 1 THEN stick ELSE MEM0
  /\ UNCHANGED IFG0

Convert ==
  /\ busy' = IF busy = 0 THEN 0 ELSE busy - 1
  /\ MEM0' = IF busy = 1 THEN stick ELSE MEM0
  /\ IFG0' = (IFG0 \/ busy = 1)

Tick ==
  /\ waiting => late < Latency
  /\ late' = IF waiting THEN late + 1 ELSE 0
  /\ TA0!Count(CCR0, CCR2)
  /\ Convert
  /\ LET begins == R' = CCR0
     IN /\ pulse' = IF begins THEN CCR1 ELSE pulse
        /\ before' = IF begins THEN P6 ELSE before
  /\ UNCHANGED <<ADCResult, handling, P6, stick>>

Move ==
  /\ stick' \in Sticks \ {stick}
  /\ UNCHANGED <<timerVars, adcVars, ADCResult, handling, P6, late, history>>

\* Mutant: the flag is tested, and reading it is forgotten.
TA0_N_IRQHandler_unread ==
  /\ CCIFG2
  /\ UNCHANGED timerVars
  /\ IF busy = 0 THEN busy' \in Conversions ELSE UNCHANGED busy
  /\ P6' = ~P6
  /\ late' = 0
  /\ UNCHANGED <<MEM0, IFG0, ADCResult, handling, stick, history>>

\* IV can only be 4: no other interrupt of the timer is enabled.  A start
\* while a conversion is under way is ignored.
TA0_N_IRQHandler ==
  /\ CCIFG2
  /\ TA0!ReadIV
  /\ IF busy = 0 THEN busy' \in Conversions ELSE UNCHANGED busy
  /\ P6' = ~P6
  /\ late' = 0
  /\ UNCHANGED <<MEM0, IFG0, ADCResult, handling, stick, history>>

\* Reading the result takes the flag down.
ADC14_read ==
  /\ IFG0 /\ ~CCIFG2 /\ ~handling
  /\ ADCResult' = MEM0 /\ IFG0' = FALSE /\ handling' = TRUE
  /\ UNCHANGED <<timerVars, busy, MEM0, P6, stick, late, history>>

ADC14_write ==
  /\ handling /\ ~CCIFG2
  /\ TA0!WriteCCR1(uint16(pwm_tick(ADCResult)))
  /\ handling' = FALSE /\ late' = 0
  /\ UNCHANGED <<adcVars, ADCResult, P6, stick, history>>

ADC14_IRQHandler == ADC14_read \/ ADC14_write

Next == Tick \/ Move \/ TA0_N_IRQHandler \/ ADC14_IRQHandler

Spec == Init /\ [][Next]_vars

\* Time goes on, and an interrupt that waits is served.
FairSpec ==
  Spec /\ WF_vars(Tick) /\ WF_vars(TA0_N_IRQHandler) /\ WF_vars(ADC14_IRQHandler)
-----------------------------------------------------------------------------
(* Properties.                                                             *)

\* The types; a pulse is never programmed outside the range of the servo.
TypeOK ==
  /\ R \in 0 .. CCR0
  /\ CCR1 \in {0} \union (CCR0 \div 20 .. CCR0 \div 10)
  /\ OUT1 \in BOOLEAN /\ CCIFG2 \in BOOLEAN /\ IFG0 \in BOOLEAN
  /\ MEM0 \in 0 .. FullScale /\ ADCResult \in 0 .. FullScale
  /\ busy \in Nat /\ late \in 0 .. Latency
  /\ handling \in BOOLEAN /\ P6 \in BOOLEAN

\* From the first pulse on the output is up for exactly the ticks that were
\* programmed when the pulse began: no write of CCR1 falls into a pulse, where
\* it would leave the toggled output upside down for a whole period.
PulseUnbroken == pulse # NoPulse => (OUT1 <=> R < pulse \/ R = CCR0)

\* Each pulse is that of the last conversion: the result is read, computed
\* and written before the pulse begins, however late the handlers are.
PulseIsFresh == R = CCR0 => pulse = pwm_tick(MEM0)

\* One conversion is started between two pulses, never none and never two.
SampledBetweenPulses ==
  [][R' # R /\ R' = CCR0 /\ pulse # NoPulse => P6' # before]_vars

\* A joystick that is held still is followed.
FollowsStick ==
  \A v \in Sticks : <>[](stick = v) => <>[](pulse = pwm_tick(v))
=============================================================================
