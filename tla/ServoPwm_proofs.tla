--------------------------- MODULE ServoPwm_proofs ---------------------------
(***************************************************************************)
(* Proofs about the servo of ServoPwm, for every period, joystick,         *)
(* conversion time and latency of the interrupts that leave the handlers   *)
(* the time they need.                                                     *)
(***************************************************************************)
EXTENDS ServoPwm, Integers, TLAPS

\* The sample is taken after the longest pulse, and conversion and handlers
\* are done before the next one; nothing left over from the start of the timer
\* reaches the first sample.
InTime(longest) ==
  /\ \A c \in Conversions : c <= longest
  /\ CCR0 \div 10 < CCR2
  /\ longest + 2 * Latency < CCR2
  /\ CCR2 + longest + 2 * Latency < CCR0

-----------------------------------------------------------------------------
(* The inductive invariant, part by part.                                  *)

Typing ==
  /\ TypeOK /\ stick \in Sticks
  /\ pulse \in Nat /\ before \in BOOLEAN

quiet == busy = 0 /\ ~CCIFG2 /\ ~IFG0 /\ ~handling

\* The stages of the work that begins at tick from: the flag waits, the
\* converter is at it, its interrupt waits or is served.
Flagged(from) ==
  CCIFG2 /\ ~IFG0 /\ ~handling /\ busy = 0 /\ R = from + late
Converting(from, longest) ==
  ~CCIFG2 /\ ~IFG0 /\ ~handling /\ busy > 0 /\ R + busy <= from + Latency + longest
Serving(from, longest) ==
  /\ ~CCIFG2 /\ (IFG0 <=> ~handling) /\ busy = 0
  /\ R <= from + Latency + longest + late
  /\ handling => ADCResult = MEM0
Working(from, longest) ==
  Flagged(from) \/ Converting(from, longest) \/ Serving(from, longest)

\* In a period: before the sample nothing moves, and what was left over from
\* the start is gone; after it the work goes through its stages to the end.
Stages(longest) ==
  /\ R < CCR2 => quiet \/ (pulse = NoPulse /\ Working(0, longest))
  /\ R >= CCR2 => Working(CCR2, longest) \/ (quiet /\ CCR1 = pwm_tick(MEM0))

\* The pulse on the pin.
Shape ==
  /\ R = CCR0 => pulse # NoPulse
  /\ pulse # NoPulse =>
       /\ pulse <= CCR0 \div 10
       /\ R < CCR2 \/ R = CCR0 => CCR1 = pulse
       /\ OUT1 <=> R < pulse \/ R = CCR0

\* Port 6 has moved once since the pulse began when the sample is under way.
Toggled ==
  pulse # NoPulse =>
    (P6 <=> IF R < CCR2 \/ R = CCR0 \/ CCIFG2 THEN before ELSE ~before)

Servo(longest) == Typing /\ Stages(longest) /\ Shape /\ Toggled

-----------------------------------------------------------------------------
(* Arithmetic.                                                             *)

LEMMA Uint16 ==
  ASSUME NEW n \in Nat
  PROVE  uint16(n) \in Nat /\ uint16(n) < 65536 /\ (n < 65536 => uint16(n) = n)
  BY DEF uint16

LEMMA Periods ==
  CCR0 \in Nat /\ 0 < CCR0 /\ CCR0 < 65536 /\ CCR2 \in Nat /\ CCR2 < 65536
  <1>1. (period * 32768) \div 1000 \in Nat
    BY PeriodAssumption
  <1>2. (((period * 3) \div 4) * 32768) \div 1000 \in Nat
    BY PeriodAssumption
  <1>3. CCR0 \in Nat /\ CCR0 < 65536
    BY <1>1, Uint16 DEF CCR0
  <1>4. CCR2 \in Nat /\ CCR2 < 65536
    BY <1>2, Uint16 DEF CCR2
  <1> QED
    BY <1>3, <1>4, PeriodAssumption

LEMMA Quotient ==
  ASSUME NEW c \in Nat, NEW v \in Nat, v <= 16383
  PROVE  /\ (c * (16383 + v)) \div 327660 >= c \div 20
         /\ (c * (16383 + v)) \div 327660 <= c \div 10
         /\ (c * (16383 + v)) \div 327660 \in Nat
  <1> DEFINE x == c * (16383 + v)
  <1>1. x \in Nat /\ x >= c * 16383 /\ x <= c * 32766
    <2>1. x = c * 16383 + c * v /\ c * v \in Nat
      OBVIOUS
    <2>2. c * 16383 = c * v + c * (16383 - v) /\ c * (16383 - v) \in Nat
      OBVIOUS
    <2> QED
      BY <2>1, <2>2
  <1> HIDE DEF x
  <1>2. x \div 327660 >= c \div 20 /\ x \div 327660 <= c \div 10
        /\ x \div 327660 \in Nat
    BY <1>1
  <1> QED
    BY <1>2 DEF x

LEMMA PulseRange ==
  ASSUME NEW v \in 0 .. FullScale
  PROVE  /\ pwm_tick(v) \in CCR0 \div 20 .. CCR0 \div 10
         /\ uint16(pwm_tick(v)) = pwm_tick(v)
  <1>1. v \in Nat /\ v <= 16383
    BY DEF FullScale
  <1>2. /\ pwm_tick(v) \in Nat
        /\ pwm_tick(v) >= CCR0 \div 20 /\ pwm_tick(v) <= CCR0 \div 10
    <2>1. 20 * FullScale = 327660 /\ FullScale = 16383
      BY DEF FullScale
    <2>2. pwm_tick(v) = (CCR0 * (16383 + v)) \div 327660
      BY <2>1 DEF pwm_tick
    <2> QED
      BY <1>1, <2>2, Periods, Quotient
  <1>3. CCR0 \div 20 \in Nat /\ CCR0 \div 10 \in Nat /\ CCR0 \div 10 < 65536
    BY Periods
  <1> QED
    BY <1>2, <1>3, Uint16

-----------------------------------------------------------------------------
(* Types.                                                                  *)

LEMMA TypingInit == Init => Typing
  <1> SUFFICES ASSUME Init PROVE Typing
    OBVIOUS
  <1>1. 0 \in 0 .. CCR0 /\ 0 \in 0 .. FullScale /\ 0 \in 0 .. Latency
        /\ NoPulse \in Nat
    BY Periods, TicksAssumption DEF FullScale, NoPulse
  <1>2. OUT1 \in BOOLEAN /\ CCIFG2 \in BOOLEAN /\ IFG0 \in BOOLEAN
        /\ handling \in BOOLEAN /\ P6 \in BOOLEAN /\ before \in BOOLEAN
    BY Zenon DEF Init
  <1> QED
    BY <1>1, <1>2 DEF Init, Typing, TypeOK

LEMMA TypingStep == Typing /\ [Next]_vars => Typing'
  <1> SUFFICES ASSUME Typing, [Next]_vars PROVE Typing'
    OBVIOUS
  <1> USE DEF Typing, TypeOK
  <1>1. CASE Tick
    <2>1. /\ R' = IF R >= CCR0 THEN 0 ELSE R + 1
          /\ CCR1' = CCR1 /\ OUT1' \in BOOLEAN /\ CCIFG2' \in BOOLEAN
      BY <1>1 DEF Tick, TA0!Count
    <2>2. busy' \in Nat /\ MEM0' \in 0 .. FullScale /\ IFG0' \in BOOLEAN
      BY <1>1, SticksAssumption DEF Tick, Convert
    <2>3. late' \in 0 .. Latency
      BY <1>1, TicksAssumption DEF Tick, waiting
    <2>4. pulse' \in Nat
      BY <1>1, Periods DEF Tick
    <2>5. before' \in BOOLEAN
      BY <1>1 DEF Tick
    <2>6. UNCHANGED <<ADCResult, handling, P6, stick>>
      BY <1>1 DEF Tick
    <2> QED
      BY <2>1, <2>2, <2>3, <2>4, <2>5, <2>6, Periods
  <1>2. CASE Move
    BY <1>2 DEF Move, timerVars, adcVars, history
  <1>3. CASE TA0_N_IRQHandler
    <2>1. busy' \in Nat /\ late' \in 0 .. Latency
      <3>1. (busy' \in Conversions \/ busy' = busy) /\ late' = 0
        BY <1>3, Zenon DEF TA0_N_IRQHandler
      <3>2. busy' \in Nat
        BY <3>1, TicksAssumption
      <3>3. 0 \in 0 .. Latency
        BY TicksAssumption
      <3> QED
        BY <3>1, <3>2, <3>3
    <2>2. P6' \in BOOLEAN
      BY <1>3, Zenon DEF TA0_N_IRQHandler
    <2>3. CCIFG2' \in BOOLEAN /\ UNCHANGED <<R, CCR1, OUT1>>
      BY <1>3 DEF TA0_N_IRQHandler, TA0!ReadIV
    <2> QED
      BY <1>3, <2>1, <2>2, <2>3 DEF TA0_N_IRQHandler, history
  <1>4. CASE ADC14_read
    BY <1>4 DEF ADC14_read, timerVars, history
  <1>5. CASE ADC14_write
    <2>1. CCR1' \in CCR0 \div 20 .. CCR0 \div 10
      BY <1>5, PulseRange DEF ADC14_write, TA0!WriteCCR1
    <2>2. OUT1' \in BOOLEAN /\ UNCHANGED <<R, CCIFG2>>
      BY <1>5 DEF ADC14_write, TA0!WriteCCR1
    <2>3. late' \in 0 .. Latency
      BY <1>5, TicksAssumption DEF ADC14_write
    <2>4. handling' \in BOOLEAN
      BY <1>5, Zenon DEF ADC14_write
    <2> QED
      BY <1>5, <2>1, <2>2, <2>3, <2>4 DEF ADC14_write, adcVars, history
  <1>6. CASE UNCHANGED vars
    BY <1>6 DEF vars, timerVars, adcVars, history
  <1> QED
    BY <1>1, <1>2, <1>3, <1>4, <1>5, <1>6 DEF Next, ADC14_IRQHandler

\* The registers stay in range, and every pulse that is programmed is one the
\* servo understands, for every period and whatever the handlers' latency.
THEOREM PulseInRange == Spec => []TypeOK
  <1>1. Typing => TypeOK
    BY DEF Typing
  <1> QED
    BY <1>1, TypingInit, TypingStep, PTL DEF Spec

-----------------------------------------------------------------------------
(* What one step does to the numbers and to the signals.                   *)

LEMMA TickEffect ==
  ASSUME Typing, Tick
  PROVE  /\ R' = IF R = CCR0 THEN 0 ELSE R + 1
         /\ CCR1' = CCR1 /\ ADCResult' = ADCResult
         /\ pulse' = IF R' = CCR0 THEN CCR1 ELSE pulse
         /\ busy' = IF busy = 0 THEN 0 ELSE busy - 1
         /\ busy # 1 => MEM0' = MEM0
         /\ waiting => late < Latency /\ late' = late + 1
         /\ ~waiting => late' = 0
         /\ OUT1' <=> R' = CCR0 \/ (OUT1 <=> R' # CCR1)
         /\ CCIFG2' <=> CCIFG2 \/ R' = CCR2
         /\ IFG0' <=> IFG0 \/ busy = 1
         /\ handling' <=> handling
         /\ P6' <=> P6
         /\ R' = CCR0 => (before' <=> P6)
         /\ R' # CCR0 => (before' <=> before)
  <1>1. /\ R' = IF R = CCR0 THEN 0 ELSE R + 1
        /\ CCR1' = CCR1 /\ ADCResult' = ADCResult
    BY Periods DEF Tick, TA0!Count, Typing, TypeOK
  <1>2. /\ pulse' = IF R' = CCR0 THEN CCR1 ELSE pulse
        /\ busy' = IF busy = 0 THEN 0 ELSE busy - 1
        /\ busy # 1 => MEM0' = MEM0
    BY DEF Tick, Convert
  <1>3. /\ waiting => late < Latency /\ late' = late + 1
        /\ ~waiting => late' = 0
    BY DEF Tick
  <1>4. /\ OUT1' <=> R' = CCR0 \/ (OUT1 <=> R' # CCR1)
        /\ CCIFG2' <=> CCIFG2 \/ R' = CCR2
    BY Zenon DEF Tick, TA0!Count
  <1>5. (IFG0' <=> IFG0 \/ busy = 1) /\ (handling' <=> handling) /\ (P6' <=> P6)
    BY Zenon DEF Tick, Convert
  <1>6. /\ R' = CCR0 => (before' <=> P6)
        /\ R' # CCR0 => (before' <=> before)
    BY Zenon DEF Tick
  <1> QED
    BY <1>1, <1>2, <1>3, <1>4, <1>5, <1>6, Zenon

\* The work that began at tick from has not got past what it may take: the
\* count can still move.
LEMMA WorkBound ==
  ASSUME Typing, Tick, NEW longest \in Nat, NEW from \in Nat,
         Working(from, longest)
  PROVE  R + 1 <= from + longest + 2 * Latency
  <1> USE TicksAssumption
  <1>1. R \in Nat /\ busy \in Nat /\ late \in Nat /\ Latency \in Nat
    BY DEF Typing, TypeOK
  <1>2. waiting => late < Latency
    BY TickEffect, Zenon
  <1>3. CASE Flagged(from)
    <2>1. waiting /\ R = from + late
      BY <1>3, Zenon DEF Flagged, waiting
    <2> QED
      BY <1>1, <1>2, <2>1
  <1>4. CASE Converting(from, longest)
    <2>1. busy > 0 /\ R + busy <= from + Latency + longest
      BY <1>4, Zenon DEF Converting
    <2> QED
      BY <1>1, <2>1
  <1>5. CASE Serving(from, longest)
    <2>1. waiting /\ R <= from + Latency + longest + late
      BY <1>5, Zenon DEF Serving, waiting
    <2> QED
      BY <1>1, <1>2, <2>1
  <1> QED
    BY <1>3, <1>4, <1>5, Zenon DEF Working

\* A tick at which no sample is due starts no other work and brings the work
\* under way on.
LEMMA WorkTick ==
  ASSUME Typing, Tick, NEW longest \in Nat, NEW from \in Nat,
         Working(from, longest), R < CCR0, R + 1 # CCR2
  PROVE  Working(from, longest)'
  <1> USE TicksAssumption
  <1>1. R \in Nat /\ busy \in Nat /\ late \in Nat /\ Latency \in Nat
    BY DEF Typing, TypeOK
  <1>2. R' = R + 1
    BY <1>1, TickEffect
  <1>3. CCIFG2' <=> CCIFG2
    BY <1>2, TickEffect, Zenon
  <1>4. CASE Flagged(from)
    <2>1. waiting /\ busy = 0 /\ CCIFG2 /\ ~IFG0 /\ ~handling /\ R = from + late
      BY <1>4, Zenon DEF Flagged, waiting
    <2>2. late' = late + 1
      BY <2>1, TickEffect, Zenon
    <2>3. busy' = 0 /\ busy # 1
      BY <2>1, TickEffect
    <2>4. CCIFG2' /\ ~IFG0' /\ ~handling'
      BY <1>3, <2>1, <2>3, TickEffect, Zenon
    <2>5. R' = from + late'
      BY <1>1, <1>2, <2>1, <2>2
    <2> QED
      BY <2>3, <2>4, <2>5, Zenon DEF Working, Flagged
  <1>5. CASE Converting(from, longest)
    <2>1. /\ ~CCIFG2 /\ ~IFG0 /\ ~handling /\ ~waiting
          /\ busy > 0 /\ R + busy <= from + Latency + longest
      BY <1>5, Zenon DEF Converting, waiting
    <2>2. late' = 0 /\ busy' = busy - 1
      BY <1>1, <2>1, TickEffect
    <2>3. ~CCIFG2' /\ ~handling' /\ (IFG0' <=> busy = 1)
      BY <1>3, <2>1, TickEffect, Zenon
    <2>4. CASE busy = 1
      <3>1. busy' = 0 /\ R' <= from + Latency + longest + late'
        BY <1>1, <1>2, <2>1, <2>2, <2>4
      <3> QED
        BY <2>3, <2>4, <3>1, Zenon DEF Working, Serving
    <2>5. CASE busy # 1
      <3>1. busy' > 0 /\ R' + busy' <= from + Latency + longest
        BY <1>1, <1>2, <2>1, <2>2, <2>5
      <3> QED
        BY <2>3, <2>5, <3>1, Zenon DEF Working, Converting
    <2> QED
      BY <2>4, <2>5
  <1>6. CASE Serving(from, longest)
    <2>1. /\ ~CCIFG2 /\ (IFG0 <=> ~handling) /\ busy = 0 /\ waiting
          /\ R <= from + Latency + longest + late
          /\ handling => ADCResult = MEM0
      BY <1>6, Zenon DEF Serving, waiting
    <2>2. late' = late + 1
      BY <2>1, TickEffect, Zenon
    <2>3. busy' = 0 /\ busy # 1
      BY <2>1, TickEffect
    <2>4. ADCResult' = ADCResult /\ MEM0' = MEM0
      BY <2>3, TickEffect
    <2>5. ~CCIFG2' /\ (IFG0' <=> ~handling') /\ (handling' <=> handling)
      BY <1>3, <2>1, <2>3, TickEffect, Zenon
    <2>6. R' <= from + Latency + longest + late'
      BY <1>1, <1>2, <2>1, <2>2
    <2> QED
      BY <2>1, <2>3, <2>4, <2>5, <2>6, Zenon DEF Working, Serving
  <1> QED
    BY <1>4, <1>5, <1>6, Zenon DEF Working

\* The handlers take the work from stage to stage, and the last ends it.
LEMMA WorkServed ==
  ASSUME Typing, NEW longest \in Nat, InTime(longest), NEW from \in Nat,
         Working(from, longest)
  PROVE  /\ TA0_N_IRQHandler \/ ADC14_read => Working(from, longest)'
         /\ ADC14_write => quiet' /\ CCR1' = pwm_tick(MEM0)'
  <1> USE TicksAssumption
  <1>1. R \in Nat /\ busy \in Nat /\ late \in Nat /\ late <= Latency /\ Latency \in Nat
    BY DEF Typing, TypeOK
  <1>2. ASSUME TA0_N_IRQHandler PROVE Working(from, longest)'
    <2>1. CCIFG2 /\ ~CCIFG2' /\ R' = R /\ UNCHANGED <<IFG0, handling>>
      BY <1>2, Zenon DEF TA0_N_IRQHandler, TA0!ReadIV
    <2>2. busy = 0 /\ ~IFG0 /\ ~handling /\ R = from + late
      BY <2>1, Zenon DEF Working, Flagged, Converting, Serving
    <2>3. PICK c \in Conversions : busy' = c
      BY <1>2, <2>2 DEF TA0_N_IRQHandler
    <2>4. c \in Nat /\ c > 0 /\ c <= longest
      BY DEF InTime
    <2>5. R' = from + late
      BY <2>1, <2>2, Zenon
    <2>6. from + late + c <= from + Latency + longest
      BY <1>1, <2>4
    <2>7. ~IFG0' /\ ~handling'
      BY <2>1, <2>2, Zenon
    <2> QED
      BY <2>1, <2>3, <2>4, <2>5, <2>6, <2>7, Zenon DEF Working, Converting
  <1>3. ASSUME ADC14_read PROVE Working(from, longest)'
    <2>1. /\ IFG0 /\ ~IFG0' /\ handling' /\ ADCResult' = MEM0
          /\ UNCHANGED <<R, CCIFG2, busy, MEM0, late>>
      BY <1>3, Zenon DEF ADC14_read, timerVars
    <2>2. Serving(from, longest)
      BY <2>1, Zenon DEF Working, Flagged, Converting
    <2>3. ~CCIFG2' /\ busy' = 0 /\ R' <= from + Latency + longest + late'
      BY <2>1, <2>2 DEF Serving
    <2> QED
      BY <2>1, <2>3, Zenon DEF Working, Serving
  <1>4. ASSUME ADC14_write PROVE quiet' /\ CCR1' = pwm_tick(MEM0)'
    <2>1. /\ handling /\ ~handling' /\ CCR1' = uint16(pwm_tick(ADCResult))
          /\ UNCHANGED <<CCIFG2, busy, MEM0, IFG0>>
      BY <1>4, Zenon DEF ADC14_write, TA0!WriteCCR1, adcVars
    <2>2. ~CCIFG2 /\ ~IFG0 /\ busy = 0 /\ ADCResult = MEM0
      BY <2>1, Zenon DEF Working, Flagged, Converting, Serving
    <2>3. CCR1' = pwm_tick(MEM0)
      BY <2>1, <2>2, PulseRange DEF Typing, TypeOK
    <2>4. pwm_tick(MEM0)' = pwm_tick(MEM0)
      BY <2>1 DEF pwm_tick, CCR0, uint16, FullScale
    <2>5. quiet'
      BY <2>1, <2>2, Zenon DEF quiet
    <2> QED
      BY <2>3, <2>4, <2>5
  <1> QED
    BY <1>2, <1>3, <1>4, Zenon
-----------------------------------------------------------------------------
(* The invariant.                                                          *)

LEMMA Numbers ==
  ASSUME NEW longest \in Nat, InTime(longest), Typing
  PROVE  /\ R \in Nat /\ R <= CCR0 /\ CCR0 \in Nat /\ CCR2 \in Nat /\ Latency \in Nat
         /\ 0 < CCR2 /\ CCR2 < CCR0 /\ CCR0 \div 10 \in Nat
         /\ CCR0 \div 10 < CCR2 /\ CCR0 \div 10 < NoPulse
         /\ CCR1 \in Nat /\ CCR1 <= CCR0 \div 10 /\ pulse \in Nat
         /\ NoPulse \in Nat
  <1>1. CCR0 \in Nat /\ CCR2 \in Nat /\ Latency \in Nat /\ CCR0 \div 10 \in Nat
        /\ CCR0 \div 20 \in Nat /\ CCR0 \div 10 <= CCR0
    BY Periods, TicksAssumption
  <1>2. R \in Nat /\ R <= CCR0 /\ pulse \in Nat
        /\ CCR1 \in Nat /\ CCR1 <= CCR0 \div 10
    BY <1>1 DEF Typing, TypeOK
  <1>3. 0 < CCR2 /\ CCR2 < CCR0 /\ CCR0 \div 10 < CCR2
    BY <1>1 DEF InTime
  <1> QED
    BY <1>1, <1>2, <1>3 DEF NoPulse

\* The work is done when the next pulse is near.
LEMMA WorkEnds ==
  ASSUME NEW longest \in Nat, InTime(longest), Typing, Stages(longest),
         R >= CCR2, R = CCR0 \/ (Tick /\ R + 1 = CCR0)
  PROVE  quiet /\ CCR1 = pwm_tick(MEM0)
  <1>1. ASSUME Working(CCR2, longest) PROVE FALSE
    <2>1. CCR2 + longest + 2 * Latency < CCR0
      BY DEF InTime
    <2>2. CASE R = CCR0
      <3>1. R <= CCR2 + longest + 2 * Latency
        <4>1. late \in Nat /\ late <= Latency /\ busy \in Nat
          BY Numbers DEF Typing, TypeOK
        <4>2. CASE Flagged(CCR2)
          BY <4>1, <4>2, Numbers DEF Flagged
        <4>3. CASE Converting(CCR2, longest)
          <5>1. R + busy <= CCR2 + Latency + longest
            BY <4>3 DEF Converting
          <5> QED
            BY <4>1, <5>1, Numbers
        <4>4. CASE Serving(CCR2, longest)
          <5>1. R <= CCR2 + Latency + longest + late
            BY <4>4 DEF Serving
          <5> QED
            BY <4>1, <5>1, Numbers
        <4> QED
          BY <1>1, <4>2, <4>3, <4>4, Zenon DEF Working
      <3> QED
        BY <2>1, <2>2, <3>1, Numbers
    <2>3. CASE Tick /\ R + 1 = CCR0
      <3>1. R + 1 <= CCR2 + longest + 2 * Latency
        BY <1>1, <2>3, Numbers, WorkBound
      <3> QED
        BY <2>1, <2>3, <3>1, Numbers
    <2> QED
      BY <2>2, <2>3
  <1> QED
    BY <1>1, Zenon DEF Stages

LEMMA ServoInit ==
  ASSUME NEW longest \in Nat, InTime(longest), Init
  PROVE  Servo(longest)
  <1>1. Typing
    BY TypingInit
  <1>2. R = 0 /\ late = 0 /\ busy = 0 /\ ~IFG0 /\ ~handling /\ pulse = NoPulse
    BY Zenon DEF Init
  <1>3. R < CCR2 /\ ~(R >= CCR2) /\ R # CCR0 /\ R = 0 + late
    BY <1>1, <1>2, Numbers
  <1>4. quiet \/ Working(0, longest)
    BY <1>2, <1>3, Zenon DEF quiet, Working, Flagged
  <1>5. Stages(longest)
    BY <1>2, <1>3, <1>4, Zenon DEF Stages
  <1> QED
    BY <1>1, <1>2, <1>3, <1>5, Zenon DEF Servo, Shape, Toggled

LEMMA StagesTick ==
  ASSUME NEW longest \in Nat, InTime(longest), Servo(longest), Tick
  PROVE  Stages(longest)'
  <1>1. Typing /\ Stages(longest) /\ Shape
    BY DEF Servo
  <1>2. CCR0' = CCR0 /\ CCR2' = CCR2 /\ NoPulse' = NoPulse
    BY DEF CCR0, CCR2, NoPulse, uint16
  <1>3. ASSUME quiet, R' # CCR2 PROVE quiet'
    <2>1. busy = 0 /\ ~CCIFG2 /\ ~IFG0 /\ ~handling
      BY <1>3 DEF quiet
    <2>2. busy' = 0 /\ busy # 1
      BY <1>1, <2>1, TickEffect
    <2> QED
      BY <1>1, <1>3, <2>1, <2>2, TickEffect, Zenon DEF quiet
  <1>4. CASE R < CCR2 /\ R + 1 # CCR2
    <2>1. R' = R + 1 /\ R' < CCR2 /\ ~(R' >= CCR2) /\ R' # CCR0 /\ R' # CCR2
          /\ R < CCR0
      BY <1>1, <1>4, TickEffect, Numbers
    <2>2. pulse' = pulse
      BY <1>1, <2>1, TickEffect
    <2>3. CASE quiet
      BY <1>2, <1>3, <2>1, <2>3, Zenon DEF Stages
    <2>4. CASE pulse = NoPulse /\ Working(0, longest)
      <3>1. Working(0, longest)'
        BY <1>1, <1>4, <2>1, <2>4, WorkTick
      <3> QED
        BY <1>2, <2>1, <2>2, <2>4, <3>1, Zenon DEF Stages
    <2> QED
      BY <1>1, <1>4, <2>3, <2>4, Zenon DEF Stages
  <1>5. CASE R < CCR2 /\ R + 1 = CCR2
    <2>1. R' = CCR2 /\ ~(R' < CCR2)
      BY <1>1, <1>5, TickEffect, Numbers
    <2>2. ~Working(0, longest)
      <3>1. SUFFICES ASSUME Working(0, longest) PROVE FALSE
        OBVIOUS
      <3>2. R + 1 <= 0 + longest + 2 * Latency
        BY <1>1, <3>1, WorkBound
      <3>3. longest + 2 * Latency < CCR2
        BY DEF InTime
      <3> QED
        BY <1>1, <1>5, <3>2, <3>3, Numbers
    <2>3. busy = 0 /\ ~CCIFG2 /\ ~IFG0 /\ ~handling /\ ~waiting
      BY <1>1, <1>5, <2>2, Zenon DEF Stages, quiet, waiting
    <2>4. busy' = 0 /\ busy # 1 /\ late' = 0
      BY <1>1, <2>3, TickEffect
    <2>5. R' = CCR2 + late'
      BY <1>1, <2>1, <2>4, Numbers
    <2>6. CCIFG2' /\ ~IFG0' /\ ~handling'
      BY <1>1, <2>1, <2>3, <2>4, TickEffect, Zenon
    <2>7. Working(CCR2, longest)'
      BY <1>2, <2>4, <2>5, <2>6, Zenon DEF Working, Flagged
    <2> QED
      BY <1>2, <2>1, <2>7, Zenon DEF Stages
  <1>6. CASE R >= CCR2 /\ R = CCR0
    <2>1. quiet
      BY <1>1, <1>6, WorkEnds
    <2>2. R' = 0 /\ R' < CCR2 /\ ~(R' >= CCR2) /\ R' # CCR2
      BY <1>1, <1>6, TickEffect, Numbers
    <2>3. quiet'
      BY <1>3, <2>1, <2>2
    <2> QED
      BY <1>2, <2>2, <2>3, Zenon DEF Stages
  <1>7. CASE R >= CCR2 /\ R # CCR0
    <2>1. R < CCR0 /\ R + 1 # CCR2 /\ R' # CCR2 /\ ~(R' < CCR2)
      BY <1>1, <1>7, TickEffect, Numbers
    <2>2. CASE Working(CCR2, longest)
      <3>1. Working(CCR2, longest)'
        BY <1>1, <2>1, <2>2, WorkTick, Numbers
      <3> QED
        BY <1>2, <2>1, <3>1, Zenon DEF Stages
    <2>3. CASE quiet /\ CCR1 = pwm_tick(MEM0)
      <3>1. quiet'
        BY <1>3, <2>1, <2>3
      <3>2. busy # 1
        BY <2>3 DEF quiet
      <3>3. CCR1' = CCR1 /\ MEM0' = MEM0
        BY <1>1, <3>2, TickEffect
      <3>4. pwm_tick(MEM0)' = pwm_tick(MEM0)
        BY <3>3 DEF pwm_tick, CCR0, uint16, FullScale
      <3> QED
        BY <1>2, <2>1, <2>3, <3>1, <3>3, <3>4, Zenon DEF Stages
    <2> QED
      BY <1>1, <1>7, <2>2, <2>3, Zenon DEF Stages
  <1>8. R < CCR2 \/ R >= CCR2
    BY <1>1, Numbers
  <1> QED
    BY <1>4, <1>5, <1>6, <1>7, <1>8

LEMMA ShapeTick ==
  ASSUME NEW longest \in Nat, InTime(longest), Servo(longest), Tick
  PROVE  Shape'
  <1>1. Typing /\ Stages(longest) /\ Shape
    BY DEF Servo
  <1>2. CCR0' = CCR0 /\ CCR2' = CCR2 /\ NoPulse' = NoPulse
    BY DEF CCR0, CCR2, NoPulse, uint16
  <1>3. CASE R' = CCR0
    <2>1. pulse' = CCR1 /\ CCR1' = CCR1
      BY <1>1, <1>3, TickEffect
    <2>2. pulse' <= CCR0 \div 10 /\ pulse' # NoPulse
      BY <1>1, <2>1, Numbers
    <2>3. OUT1'
      BY <1>1, <1>3, TickEffect, Zenon
    <2>4. (CCR0 \div 10)' = CCR0 \div 10
      BY <1>2
    <2> QED
      BY <1>2, <1>3, <2>1, <2>2, <2>3, <2>4, Zenon DEF Shape
  <1>4. CASE R' # CCR0
    <2>1. pulse' = pulse /\ CCR1' = CCR1
      BY <1>1, <1>4, TickEffect
    <2>2. OUT1' <=> (OUT1 <=> R' # CCR1)
      BY <1>1, <1>4, TickEffect, Zenon
    <2> SUFFICES ASSUME pulse # NoPulse
                 PROVE  /\ pulse <= CCR0 \div 10
                        /\ R' < CCR2 => CCR1 = pulse
                        /\ OUT1' <=> R' < pulse
      BY <1>2, <1>4, <2>1 DEF Shape
    <2>3. /\ pulse <= CCR0 \div 10
          /\ R < CCR2 \/ R = CCR0 => CCR1 = pulse
          /\ OUT1 <=> R < pulse \/ R = CCR0
      BY <1>1, Zenon DEF Shape
    <2>4. R' < CCR2 => CCR1 = pulse
      BY <1>1, <2>3, TickEffect, Numbers
    <2>5. (R < pulse \/ R = CCR0) /\ R' # CCR1 => R' < pulse
      <3>1. CASE R < CCR2 \/ R = CCR0
        BY <1>1, <1>4, <2>3, <3>1, TickEffect, Numbers
      <3>2. CASE ~(R < CCR2 \/ R = CCR0)
        BY <1>1, <2>3, <3>2, Numbers
      <3> QED
        BY <3>1, <3>2
    <2>6. ~(R < pulse \/ R = CCR0) => R' # CCR1 /\ ~(R' < pulse)
      BY <1>1, <2>3, TickEffect, Numbers
    <2>7. (R < pulse \/ R = CCR0) /\ R' = CCR1 => ~(R' < pulse)
      BY <1>1, <2>3, TickEffect, Numbers
    <2> QED
      BY <2>2, <2>3, <2>4, <2>5, <2>6, <2>7, Zenon
  <1> QED
    BY <1>3, <1>4

LEMMA ToggledTick ==
  ASSUME NEW longest \in Nat, InTime(longest), Servo(longest), Tick
  PROVE  Toggled'
  <1>1. Typing /\ Toggled
    BY DEF Servo
  <1>2. CCR0' = CCR0 /\ CCR2' = CCR2 /\ NoPulse' = NoPulse
    BY DEF CCR0, CCR2, NoPulse, uint16
  <1>3. P6' <=> P6
    BY <1>1, TickEffect, Zenon
  <1>4. CASE R' = CCR0
    <2>1. before' <=> P6
      BY <1>1, <1>4, TickEffect, Zenon
    <2> QED
      BY <1>2, <1>3, <1>4, <2>1, Zenon DEF Toggled
  <1>5. CASE R' # CCR0
    <2>1. pulse' = pulse
      BY <1>1, <1>5, TickEffect
    <2>2. (before' <=> before) /\ (CCIFG2' <=> CCIFG2 \/ R' = CCR2)
      BY <1>1, <1>5, TickEffect, Zenon
    <2>3. R < CCR2 \/ R = CCR0 => R' < CCR2 \/ R' = CCR2
      BY <1>1, TickEffect, Numbers
    <2>4. ~(R < CCR2 \/ R = CCR0) => ~(R' < CCR2) /\ R' # CCR2
      BY <1>1, TickEffect, Numbers
    <2>5. CCIFG2 => CCIFG2'
      BY <2>2, Zenon
    <2>6. (R < CCR2 \/ R = CCR0 \/ CCIFG2)
            <=> (R' < CCR2 \/ R' = CCR0 \/ CCIFG2')
      BY <1>5, <2>2, <2>3, <2>4, Zenon
    <2> QED
      BY <1>1, <1>2, <1>3, <2>1, <2>2, <2>6, Zenon DEF Toggled
  <1> QED
    BY <1>4, <1>5

\* The handlers run in the pause after a pulse.
LEMMA ServoHandlers ==
  ASSUME NEW longest \in Nat, InTime(longest), Servo(longest), Typing',
         TA0_N_IRQHandler \/ ADC14_IRQHandler
  PROVE  Servo(longest)'
  <1>1. Typing /\ Stages(longest) /\ Shape /\ Toggled
    BY DEF Servo
  <1>2. CCR0' = CCR0 /\ CCR2' = CCR2 /\ NoPulse' = NoPulse
    BY DEF CCR0, CCR2, NoPulse, uint16
  <1>3. R' = R /\ UNCHANGED <<pulse, before>>
    BY Zenon DEF TA0_N_IRQHandler, ADC14_IRQHandler, ADC14_read, ADC14_write,
                 TA0!ReadIV, TA0!WriteCCR1, timerVars, history
  <1>4. ~quiet
    BY Zenon DEF TA0_N_IRQHandler, ADC14_IRQHandler, ADC14_read, ADC14_write, quiet
  <1>5. PICK from \in {0, CCR2} :
          /\ Working(from, longest)
          /\ from = 0 => R < CCR2 /\ pulse = NoPulse
          /\ from = CCR2 => R >= CCR2
    <2>1. CASE R < CCR2
      <3>1. Working(0, longest) /\ pulse = NoPulse
        BY <1>1, <1>4, <2>1, Zenon DEF Stages
      <3>2. 0 # CCR2
        BY <1>1, Numbers
      <3> QED
        BY <2>1, <3>1, <3>2, Zenon
    <2>2. CASE R >= CCR2
      <3>1. Working(CCR2, longest)
        BY <1>1, <1>4, <2>2, Zenon DEF Stages
      <3>2. 0 # CCR2
        BY <1>1, Numbers
      <3> QED
        BY <2>2, <3>1, <3>2, Zenon
    <2> QED
      BY <1>1, <2>1, <2>2, Numbers
  <1>6. from \in Nat
    BY <1>1, <1>5, Numbers
  <1>7. R # CCR0
    BY <1>1, <1>4, Numbers, WorkEnds
  <1>8. R < CCR2 => ~(R >= CCR2)
    BY <1>1, Numbers
  <1>9. pulse # NoPulse => R >= CCR2 /\ ~(R < CCR2)
    BY <1>1, <1>5, Numbers
  <1>10. CASE TA0_N_IRQHandler
    <2>1. CCIFG2 /\ ~CCIFG2' /\ (P6' <=> ~P6) /\ UNCHANGED <<CCR1, OUT1>>
      BY <1>10, Zenon DEF TA0_N_IRQHandler, TA0!ReadIV
    <2>2. Working(from, longest)'
      BY <1>1, <1>5, <1>6, <1>10, WorkServed
    <2>3. Stages(longest)'
      BY <1>2, <1>3, <1>5, <1>8, <2>2 DEF Stages
    <2>4. Shape'
      BY <1>1, <1>2, <1>3, <2>1, Zenon DEF Shape
    <2>5. Toggled'
      BY <1>1, <1>2, <1>3, <1>7, <1>9, <2>1, Zenon DEF Toggled
    <2> QED
      BY <2>3, <2>4, <2>5 DEF Servo
  <1>11. CASE ADC14_read
    <2>1. UNCHANGED <<CCR1, OUT1, CCIFG2, P6>>
      BY <1>11, Zenon DEF ADC14_read, timerVars
    <2>2. Working(from, longest)'
      BY <1>1, <1>5, <1>6, <1>11, WorkServed
    <2>3. Stages(longest)'
      BY <1>2, <1>3, <1>5, <1>8, <2>2 DEF Stages
    <2>4. Shape'
      BY <1>1, <1>2, <1>3, <2>1, Zenon DEF Shape
    <2>5. Toggled'
      BY <1>1, <1>2, <1>3, <2>1, Zenon DEF Toggled
    <2> QED
      BY <2>3, <2>4, <2>5 DEF Servo
  <1>12. CASE ADC14_write
    <2>1. UNCHANGED <<CCIFG2, P6>>
      BY <1>12, Zenon DEF ADC14_write, TA0!WriteCCR1
    <2>2. quiet' /\ CCR1' = pwm_tick(MEM0)'
      BY <1>1, <1>5, <1>6, <1>12, WorkServed
    <2>3. Stages(longest)'
      BY <2>2, Zenon DEF Stages
    <2>4. ASSUME pulse # NoPulse PROVE OUT1' <=> OUT1
      <3>1. uint16(pwm_tick(ADCResult)) # R
        <4>1. uint16(pwm_tick(ADCResult)) \in Nat
              /\ uint16(pwm_tick(ADCResult)) <= CCR0 \div 10
          BY <1>1, PulseRange, Numbers, Periods DEF Typing, TypeOK
        <4> QED
          BY <1>1, <1>9, <2>4, <4>1, Numbers
      <3> QED
        BY <1>12, <3>1, Zenon DEF ADC14_write, TA0!WriteCCR1
    <2>5. (CCR0 \div 10)' = CCR0 \div 10
      BY <1>2
    <2>6. Shape'
      BY <1>1, <1>2, <1>3, <1>7, <1>9, <2>4, <2>5, Zenon DEF Shape
    <2>7. Toggled'
      BY <1>1, <1>2, <1>3, <2>1, Zenon DEF Toggled
    <2> QED
      BY <2>3, <2>6, <2>7 DEF Servo
  <1> QED
    BY <1>10, <1>11, <1>12 DEF ADC14_IRQHandler

LEMMA ServoStep ==
  ASSUME NEW longest \in Nat, InTime(longest), Servo(longest), [Next]_vars
  PROVE  Servo(longest)'
  <1>1. Typing'
    BY TypingStep DEF Servo
  <1>2. CASE Tick
    BY <1>1, <1>2, StagesTick, ShapeTick, ToggledTick DEF Servo
  <1>3. CASE TA0_N_IRQHandler \/ ADC14_IRQHandler
    BY <1>1, <1>3, ServoHandlers
  <1>4. CASE UNCHANGED <<timerVars, adcVars, ADCResult, handling, P6, late, history>>
    <2>1. UNCHANGED <<R, CCR1, OUT1, CCIFG2, busy, MEM0, IFG0, ADCResult,
                      handling, P6, late, pulse, before>>
      BY <1>4 DEF timerVars, adcVars, history
    <2>2. Stages(longest)'
      BY <2>1 DEF Servo, Stages, Working, Flagged, Converting, Serving, quiet,
                  pwm_tick, CCR0, CCR2, uint16, NoPulse, FullScale
    <2>3. Shape' /\ Toggled'
      BY <2>1 DEF Servo, Shape, Toggled, CCR0, CCR2, uint16, NoPulse
    <2> QED
      BY <1>1, <2>2, <2>3 DEF Servo
  <1> QED
    BY <1>2, <1>3, <1>4 DEF Next, Move, vars

-----------------------------------------------------------------------------
(* What the invariant says.                                                *)

LEMMA ServoAlways ==
  ASSUME NEW longest \in Nat, InTime(longest)
  PROVE  Spec => []Servo(longest)
  <1>1. Init => Servo(longest)
    BY ServoInit
  <1>2. Servo(longest) /\ [Next]_vars => Servo(longest)'
    BY ServoStep
  <1> QED
    BY <1>1, <1>2, PTL DEF Spec

\* When the handlers have the time they need, every pulse on the pin has the
\* length that was programmed when it began.
THEOREM PulsesAreUnbroken ==
  ASSUME NEW longest \in Nat, InTime(longest)
  PROVE  Spec => []PulseUnbroken
  <1>1. Servo(longest) => PulseUnbroken
    BY Zenon DEF Servo, Shape, PulseUnbroken
  <1> QED
    BY <1>1, ServoAlways, PTL

\* When the handlers have the time they need, every pulse is the one for the
\* conversion made just before it.
THEOREM PulsesAreFresh ==
  ASSUME NEW longest \in Nat, InTime(longest)
  PROVE  Spec => []PulseIsFresh
  <1>1. Servo(longest) => PulseIsFresh
    <2> SUFFICES ASSUME Servo(longest), R = CCR0 PROVE pulse = pwm_tick(MEM0)
      BY DEF PulseIsFresh
    <2>1. Typing /\ Stages(longest) /\ Shape
      BY DEF Servo
    <2>2. R >= CCR2
      BY <2>1, Numbers
    <2>3. CCR1 = pwm_tick(MEM0)
      BY <2>1, <2>2, WorkEnds
    <2> QED
      BY <2>1, <2>3 DEF Shape
  <1> QED
    BY <1>1, ServoAlways, PTL

\* When the handlers have the time they need, one conversion is started
\* between two pulses.
THEOREM OneSamplePerPulse ==
  ASSUME NEW longest \in Nat, InTime(longest)
  PROVE  Spec => SampledBetweenPulses
  <1>1. ASSUME Servo(longest), [Next]_vars
        PROVE  [R' # R /\ R' = CCR0 /\ pulse # NoPulse => P6' # before]_vars
    <2> SUFFICES ASSUME Next, R' # R, R' = CCR0, pulse # NoPulse
                 PROVE  P6' # before
      BY <1>1
    <2>1. Tick
      BY Zenon DEF Next, Move, TA0_N_IRQHandler, ADC14_IRQHandler, ADC14_read,
                   ADC14_write, TA0!ReadIV, TA0!WriteCCR1, timerVars
    <2>2. Typing /\ Stages(longest) /\ Toggled
      BY <1>1 DEF Servo
    <2>3. R + 1 = CCR0 /\ R >= CCR2 /\ ~(R < CCR2) /\ R # CCR0
      BY <2>1, <2>2, TickEffect, Numbers
    <2>4. ~CCIFG2
      BY <2>1, <2>2, <2>3, WorkEnds DEF quiet
    <2>5. P6 <=> ~before
      BY <2>2, <2>3, <2>4, Zenon DEF Toggled
    <2>6. P6' <=> P6
      BY <2>1, <2>2, TickEffect, Zenon
    <2> QED
      BY <2>5, <2>6, Zenon
  <1> QED
    BY <1>1, ServoAlways, PTL DEF Spec, SampledBetweenPulses
=============================================================================
