-------------------------- MODULE Exercises_proofs --------------------------
(***************************************************************************)
(* Proofs about exercises 1 to 4 of Lab1: each whole round has its         *)
(* pattern, for every ratio, period and slot, and each delay its length.   *)
(***************************************************************************)
EXTENDS Exercises, TLAPS

-----------------------------------------------------------------------------
(* Ticks.                                                                  *)

asked(d) == (d * 32768) \div 100

LEMMA Fits ==
  ASSUME NEW n \in Nat, n < 65536
  PROVE  uint16(n) = n
  BY DEF uint16

LEMMA TicksFit ==
  ASSUME NEW d \in 1 .. 199
  PROVE  delay_tick(d) = asked(d) /\ asked(d) \in Nat /\ asked(d) >= delay_tick(1)
  <1>1. d * 32768 \in Nat /\ d * 32768 <= 6520832 /\ d * 32768 >= 32768
    OBVIOUS
  <1>2. \A n \in Nat : n <= 6520832 /\ n >= 32768 => n \div 100 \in Nat /\ n \div 100 <= 65208 /\ n \div 100 >= 327
    OBVIOUS
  <1>3. asked(d) \in Nat /\ asked(d) <= 65208 /\ asked(d) >= 327
    BY <1>1, <1>2 DEF asked
  <1>4. delay_tick(1) = 327
    BY DEF delay_tick, uint16
  <1> QED
    BY <1>3, <1>4, Fits DEF delay_tick, asked

\* Two delays are at least the shortest one apart.
LEMMA TicksApart ==
  ASSUME NEW d \in 1 .. 199, NEW e \in 1 .. 199
  PROVE  d < e => asked(d) + delay_tick(1) <= asked(e)
  <1>1. delay_tick(1) = 327
    BY DEF delay_tick, uint16
  <1>2. d < e => asked(d) + 327 <= asked(e)
    BY DEF asked
  <1> QED
    BY <1>1, <1>2

-----------------------------------------------------------------------------
(* Exercise 3.                                                             *)

\* Since the flag the timer has come round, or is still where it was raised.
SinceFlag == R \in Nat /\ late \in 0 .. MaxLate /\ (R <= late \/ (late = 0 /\ R = CCR0))

\* The timer is within this delay, after the flag of it, on its way to the
\* next delay; or CCR0 is that of the next already, and the count may still be
\* above the end of a shorter one before.
Delaying ==
  /\ pc \in {"begin", "clear", "wait", "flag"} /\ CCIFG \in BOOLEAN
  /\ IF pc = "begin" THEN CCR0 = 0 \/ \E d \in Delays : CCR0 = asked(d)
     ELSE delay_setting \in Delays /\ CCR0 = asked(delay_setting)
  /\ pc = "begin" => ~CCIFG /\ SinceFlag
  /\ pc = "clear" =>
       /\ ~CCIFG /\ R \in Nat /\ late \in 0 .. MaxLate
       /\ \/ R <= late
          \/ \E d \in Delays : R = asked(d) + late /\ (late = 0 \/ d < delay_setting)
  /\ pc = "wait" /\ ~CCIFG => late = 0 /\ R = elapsed /\ R \in 0 .. CCR0 - 1
  /\ pc = "wait" /\ CCIFG => SinceFlag /\ elapsed = CCR0 + late
  /\ pc = "flag" => CCIFG /\ SinceFlag /\ elapsed \in CCR0 .. CCR0 + MaxLate

LEMMA Settings ==
  /\ MaxLate \in Nat /\ delay_tick(1) \in Nat
  /\ \A d \in Delays : /\ d \in 1 .. 199 /\ delay_tick(d) = asked(d)
                       /\ asked(d) \in Nat /\ MaxLate + 1 < asked(d)
  /\ \A d, e \in Delays : d < e => asked(d) + MaxLate + 1 < asked(e)
  /\ \A d, e \in Delays : asked(d) < asked(e) => d < e
  <1>1. MaxLate \in Nat /\ MaxLate + 1 < delay_tick(1) /\ delay_tick(1) \in Nat
    BY LateAssumption DEF delay_tick, uint16
  <1>2. ASSUME NEW d \in Delays
        PROVE  /\ d \in 1 .. 199 /\ delay_tick(d) = asked(d)
               /\ asked(d) \in Nat /\ MaxLate + 1 < asked(d)
    <2>1. d \in 1 .. 199
      BY DelaysAssumption
    <2> QED
      BY <1>1, <2>1, TicksFit
  <1>3. ASSUME NEW d \in Delays, NEW e \in Delays
        PROVE  /\ d < e => asked(d) + MaxLate + 1 < asked(e)
               /\ asked(d) < asked(e) => d < e
    <2>1. d \in 1 .. 199 /\ e \in 1 .. 199 /\ asked(d) \in Nat /\ asked(e) \in Nat
      BY <1>2
    <2>2. d < e => asked(d) + delay_tick(1) <= asked(e)
      BY <2>1, TicksApart
    <2>3. e < d => asked(e) + delay_tick(1) <= asked(d)
      BY <2>1, TicksApart
    <2> QED
      BY <1>1, <2>1, <2>2, <2>3
  <1> QED
    BY <1>1, <1>2, <1>3

\* A tick after the flag, which raises no other.
LEMMA LateTick ==
  ASSUME SinceFlag, CountUp, late < MaxLate, late' = late + 1,
         CCR0 = 0 \/ \E d \in Delays : CCR0 = asked(d)
  PROVE  SinceFlag' /\ (CCIFG' <=> CCIFG)
  <1>1. CCR0 = 0 \/ (CCR0 \in Nat /\ MaxLate + 1 < CCR0)
    BY Settings
  <1>2. R' = (IF R >= CCR0 THEN 0 ELSE R + 1) /\ CCIFG' = (CCIFG \/ (R' = CCR0 /\ CCR0 > 0)) /\ CCR0' = CCR0
    BY DEF CountUp
  <1>3. R' \in Nat /\ R' <= late' /\ late' \in 0 .. MaxLate /\ (CCR0 = 0 \/ R' < CCR0)
    BY <1>1, <1>2, Settings DEF SinceFlag
  <1>4. ~(R' = CCR0 /\ CCR0 > 0)
    BY <1>1, <1>2, <1>3
  <1> QED
    BY <1>2, <1>3, <1>4 DEF SinceFlag

LEMMA CountUpKept ==
  ASSUME Delaying, CountUp
  PROVE  Delaying'
  <1> USE Settings
  <1>1. UNCHANGED <<CCR0, pc, delay_setting>>
    BY DEF CountUp
  <1>2. CCIFG' \in BOOLEAN
    BY DEF CountUp, Delaying
  <1>3. CASE pc = "begin"
    <2>1. SinceFlag' /\ ~CCIFG'
      BY <1>3, LateTick DEF CountUp, Delaying
    <2> QED
      BY <1>1, <1>2, <1>3, <2>1 DEF Delaying
  <1>4. CASE pc = "clear"
    <2>1. /\ late < MaxLate /\ late' = late + 1 /\ late \in 0 .. MaxLate
          /\ R' = (IF R >= CCR0 THEN 0 ELSE R + 1) /\ CCIFG' = (R' = CCR0 /\ CCR0 > 0)
          /\ R \in Nat /\ delay_setting \in Delays /\ CCR0 = asked(delay_setting)
      BY <1>4 DEF CountUp, Delaying
    <2>2. CCR0 \in Nat /\ MaxLate + 1 < CCR0
      BY <2>1
    <2>3. CASE R <= late \/ R >= CCR0
      <3>1. R' <= late' /\ R' < CCR0 /\ R' \in Nat /\ late' \in 0 .. MaxLate
        BY <2>1, <2>2, <2>3
      <3> QED
        BY <1>1, <1>2, <1>4, <2>1, <2>2, <3>1 DEF Delaying
    <2>4. CASE R > late /\ R < CCR0
      <3>1. PICK d \in Delays : R = asked(d) + late /\ (late = 0 \/ d < delay_setting)
        BY <1>4, <2>1, <2>4 DEF Delaying
      <3>2. d < delay_setting
        <4>1. asked(d) < asked(delay_setting)
          BY <2>1, <2>4, <3>1
        <4> QED
          BY <2>1, <4>1
      <3>3. asked(d) + MaxLate + 1 < CCR0
        BY <2>1, <3>2
      <3>4. R' = asked(d) + late' /\ R' \in Nat /\ late' \in 0 .. MaxLate /\ R' # CCR0
        BY <2>1, <2>2, <2>4, <3>1, <3>3
      <3> QED
        BY <1>1, <1>2, <1>4, <2>1, <3>2, <3>4 DEF Delaying
    <2> QED
      BY <2>1, <2>2, <2>3, <2>4
  <1>5. CASE pc = "wait" /\ ~CCIFG
    <2>1. /\ delay_setting \in Delays /\ CCR0 = asked(delay_setting) /\ CCR0 \in Nat
          /\ late = 0 /\ R = elapsed /\ R \in 0 .. CCR0 - 1
      BY <1>5 DEF Delaying
    <2>2. R' = R + 1 /\ elapsed' = elapsed + 1 /\ late' = 0 /\ (CCIFG' <=> R' = CCR0)
      <3>1. CCR0 > 0 /\ ~(R >= CCR0)
        BY <2>1
      <3>2. R' = R + 1 /\ elapsed' = elapsed + 1 /\ late' = 0
        BY <1>5, <3>1 DEF CountUp
      <3>3. CCIFG' = (CCIFG \/ (R' = CCR0 /\ CCR0 > 0))
        BY DEF CountUp
      <3> QED
        BY <1>5, <3>1, <3>2, <3>3
    <2>3. CASE R' = CCR0
      <3>1. SinceFlag' /\ elapsed' = CCR0' + late'
        BY <1>1, <2>1, <2>2, <2>3 DEF SinceFlag
      <3> QED
        BY <1>1, <1>2, <1>5, <2>1, <2>2, <2>3, <3>1 DEF Delaying
    <2>4. CASE R' # CCR0
      <3>1. R' \in 0 .. CCR0' - 1
        BY <1>1, <2>1, <2>2, <2>4
      <3> QED
        BY <1>1, <1>2, <1>5, <2>1, <2>2, <2>4, <3>1 DEF Delaying
    <2> QED
      BY <2>3, <2>4
  <1>6. CASE pc = "wait" /\ CCIFG
    <2>1. /\ delay_setting \in Delays /\ CCR0 = asked(delay_setting) /\ CCR0 \in Nat
          /\ SinceFlag /\ elapsed = CCR0 + late
      BY <1>6 DEF Delaying
    <2>2. late < MaxLate /\ late' = late + 1 /\ elapsed' = elapsed + 1
      BY <1>6 DEF CountUp
    <2>3. SinceFlag' /\ CCIFG'
      BY <1>6, <2>1, <2>2, LateTick
    <2>4. elapsed' = CCR0' + late'
      BY <1>1, <2>1, <2>2 DEF SinceFlag
    <2> QED
      BY <1>1, <1>2, <1>6, <2>1, <2>3, <2>4 DEF Delaying
  <1>7. CASE pc = "flag"
    <2>1. /\ delay_setting \in Delays /\ CCR0 = asked(delay_setting)
          /\ SinceFlag /\ CCIFG /\ elapsed \in CCR0 .. CCR0 + MaxLate
      BY <1>7 DEF Delaying
    <2>2. late < MaxLate /\ late' = late + 1 /\ elapsed' = elapsed
      BY <1>7 DEF CountUp
    <2>3. SinceFlag' /\ CCIFG'
      BY <2>1, <2>2, LateTick
    <2> QED
      BY <1>1, <1>2, <1>7, <2>1, <2>2, <2>3 DEF Delaying
  <1> QED
    BY <1>3, <1>4, <1>5, <1>6, <1>7 DEF Delaying

LEMMA TimerDelayKept ==
  ASSUME Delaying, TimerDelay
  PROVE  Delaying'
  <1> USE Settings
  <1>1. CASE SetCCR0
    <2>1. /\ delay_setting' \in Delays /\ CCR0' = asked(delay_setting')
          /\ UNCHANGED <<R, CCIFG, late>> /\ pc = "begin" /\ pc' = "clear"
      BY <1>1 DEF SetCCR0
    <2>2. /\ CCR0 = 0 \/ \E d \in Delays : CCR0 = asked(d)
          /\ ~CCIFG /\ SinceFlag
      BY <2>1 DEF Delaying
    <2>3. R <= late \/ \E d \in Delays : R = asked(d) + late /\ late = 0
      BY <2>2 DEF SinceFlag
    <2> QED
      BY <2>1, <2>2, <2>3 DEF Delaying, SinceFlag
  <1>2. CASE ClearR
    BY <1>2 DEF ClearR, Delaying
  <1>3. CASE LeaveLoop
    <2>1. /\ UNCHANGED <<R, CCR0, CCIFG, late, elapsed, delay_setting>> /\ pc = "wait" /\ CCIFG /\ pc' = "flag"
      BY <1>3 DEF LeaveLoop, timerVars, delayVars
    <2> QED
      BY <2>1 DEF Delaying, SinceFlag
  <1>4. CASE ClearFlag
    <2>1. /\ UNCHANGED <<R, CCR0, late>> /\ pc = "flag" /\ ~CCIFG' /\ pc' = "begin"
          /\ CCIFG' \in BOOLEAN
      BY <1>4 DEF ClearFlag, delayVars
    <2> QED
      BY <2>1 DEF Delaying, SinceFlag
  <1> QED
    BY <1>1, <1>2, <1>3, <1>4 DEF TimerDelay

LEMMA DelayingLasts ==
  ASSUME Delaying
  PROVE  DelayLasts
  <1>1. SUFFICES ASSUME pc = "flag"
                 PROVE  elapsed \in asked(delay_setting) .. asked(delay_setting) + MaxLate
    BY DEF DelayLasts, asked
  <1> QED
    BY <1>1 DEF Delaying

-----------------------------------------------------------------------------
(* Exercise 1.                                                             *)

\* Steps with a bit set, of this round.
Counts == lit \in [Bits -> Nat] /\ length \in Nat /\ whole \in BOOLEAN

\* Only the first bit is counted.
ups(k) == [b \in Bits |-> IF b = 0 THEN k ELSE 0]

LEMMA UpsOfRound ==
  /\ NoRound.lit = ups(0)
  /\ \A k : [NoRound.lit EXCEPT ![0] = k] = ups(k)
  BY DEF NoRound, ups, Bits

\* The output is up for the first ratio - 1 steps of a round, and for its last.
Pulsing ==
  /\ pc = "run" /\ whole /\ i \in 0 .. 999 /\ length = i /\ Counts
  /\ OUT = IF i < ratio THEN {0} ELSE {}
  /\ lit = ups(IF i < ratio THEN i ELSE ratio - 1)

Pulse == [lit |-> ups(ratio), length |-> 1000]

LEMMA PulsingKept ==
  ASSUME Pulsing, ratio \in 1 .. 999, PwmGenerator, UNCHANGED ratio, last \in {NoRound, Pulse}
  PROVE  Pulsing' /\ last' \in {NoRound, Pulse}
  <1> DEFINE n == i + 1
  <1>1. uint16(i + 1) = n /\ n \in 1 .. 1000
    BY Fits DEF Pulsing
  <1>2. /\ i' = IF n = 1000 THEN 0 ELSE n
        /\ OUT' = IF n \in {1000, ratio} THEN {0} \ OUT ELSE OUT
        /\ Round(n = 1000) /\ pc' = pc
    BY <1>1 DEF PwmGenerator
  <1>3. OUT' = IF n < ratio \/ n = 1000 THEN {0} ELSE {}
    <2>1. {0} \ {0} = {} /\ {0} \ {} = {0}
      OBVIOUS
    <2> QED
      BY <1>1, <1>2, <2>1 DEF Pulsing
  <1> DEFINE now == [b \in Bits |-> IF b \in OUT' THEN lit[b] + 1 ELSE lit[b]]
  <1>4. now = ups(IF n < ratio THEN n ELSE IF n = 1000 THEN ratio ELSE ratio - 1)
    <2>1. \A b \in Bits : lit[b] = IF b = 0 THEN (IF i < ratio THEN i ELSE ratio - 1) ELSE 0
      BY DEF Pulsing, ups
    <2>2. i \in Nat /\ (n < ratio => i < ratio) /\ (n = 1000 => ~(i < ratio)) /\ (~(n < ratio) /\ i < ratio => n = ratio)
      BY <1>1 DEF Pulsing
    <2>3. ASSUME NEW b \in Bits
          PROVE  now[b] = IF b = 0 THEN (IF n < ratio THEN n ELSE IF n = 1000 THEN ratio ELSE ratio - 1) ELSE 0
      <3>1. CASE b # 0
        BY <1>3, <2>1, <3>1
      <3>2. CASE b = 0
        BY <1>3, <2>1, <2>2, <3>2
      <3> QED
        BY <3>1, <3>2
    <2> QED
      BY <2>3 DEF ups
  <1> HIDE DEF now
  <1>5. CASE n = 1000
    <2>1. /\ lit' = NoRound.lit /\ length' = 0 /\ whole' /\ i' = 0
          /\ last' = [lit |-> now, length |-> length + 1]
      BY <1>2, <1>5 DEF Round, NoRound, Pulsing, now
    <2>2. last' = Pulse
      BY <1>4, <1>5, <2>1 DEF Pulse, Pulsing
    <2>3. OUT' = {0} /\ lit' = ups(0) /\ ups(0) \in [Bits -> Nat]
      BY <1>3, <1>5, <2>1, UpsOfRound DEF ups
    <2>4. Counts' /\ pc' = "run" /\ i' \in 0 .. 999 /\ length' = i'
      BY <1>2, <2>1, <2>3 DEF Counts, Round, Pulsing
    <2>5. OUT' = (IF i' < ratio THEN {0} ELSE {}) /\ lit' = ups(IF i' < ratio THEN i' ELSE ratio - 1)
      BY <2>1, <2>3
    <2>6. Pulsing'
      BY <2>1, <2>4, <2>5 DEF Pulsing
    <2> QED
      BY <2>2, <2>6 DEF Pulse
  <1>6. CASE n # 1000
    <2>1. /\ lit' = now /\ length' = n /\ whole' /\ i' = n /\ last' = last
      BY <1>2, <1>6 DEF Round, Pulsing, now
    <2>2. lit' = ups(IF i' < ratio THEN i' ELSE ratio - 1)
      BY <1>4, <1>6, <2>1
    <2>3. lit' \in [Bits -> Nat] /\ i' \in 0 .. 999 /\ whole' \in BOOLEAN
      BY <1>1, <1>2, <1>6, <2>1, <2>2 DEF ups, Round, Pulsing
    <2>4. Counts'
      BY <2>1, <2>3 DEF Counts
    <2>5. pc' = "run" /\ OUT' = (IF i' < ratio THEN {0} ELSE {})
      <3>1. pc' = "run"
        BY <1>2 DEF Pulsing
      <3>2. OUT' = (IF n < ratio THEN {0} ELSE {})
        BY <1>3, <1>6
      <3> QED
        BY <2>1, <3>1, <3>2
    <2>6. Pulsing'
      BY <2>1, <2>2, <2>3, <2>4, <2>5 DEF Pulsing
    <2> QED
      BY <2>1, <2>6 DEF Pulse
  <1> QED
    BY <1>5, <1>6

-----------------------------------------------------------------------------
(* Exercise 2.                                                             *)

\* How many of the steps up to n come after the first m, of at most k.
beyond(n, m, k) == IF n <= m THEN 0 ELSE IF n - m <= k THEN n - m ELSE k

Strobing ==
  /\ pc = "run" /\ i \in 0 .. Word - 1 /\ Counts
  /\ whole => /\ i \in 0 .. 4 * Slot - 1 /\ length = i
              /\ i > 2 * Slot => OUT = {2}
              /\ lit[0] = beyond(i, 0, Slot) /\ lit[1] = beyond(i, Slot, Slot)
              /\ lit[2] = beyond(i, 2 * Slot, 2 * Slot)

Strobe(round) ==
  /\ round.length = 4 * Slot
  /\ \A b \in 0 .. 2 : round.lit[b] = IF b = 2 THEN 2 * Slot ELSE Slot

LEMMA StrobingKept ==
  ASSUME Strobing, StrobeGpio, last = NoRound \/ Strobe(last)
  PROVE  Strobing' /\ (last' = NoRound \/ Strobe(last'))
  <1> DEFINE n == (i + 1) % Word
             now == [b \in Bits |-> IF b \in OUT' THEN lit[b] + 1 ELSE lit[b]]
  <1>1. /\ Slot \in Nat \ {0} /\ Word \in Nat /\ 4 * Slot < Word
        /\ i \in Nat /\ i <= Word - 1 /\ pc = "run"
    BY SlotAssumption DEF Strobing
  <1>2. n \in 0 .. Word - 1 /\ (i + 1 < Word => n = i + 1)
    BY <1>1
  <1>3. /\ i' = IF n = 4 * Slot THEN 0 ELSE n
        /\ OUT' = CASE n <= Slot -> {0}
                    [] n \in Slot + 1 .. 2 * Slot -> {1}
                    [] n \in 2 * Slot + 1 .. 3 * Slot -> {2}
                    [] OTHER -> OUT
        /\ Round(n = 4 * Slot) /\ pc' = pc
    BY DEF StrobeGpio
  <1>4. i' \in 0 .. Word - 1
    BY <1>1, <1>2, <1>3
  <1>5. now \in [Bits -> Nat]
    BY DEF Strobing, Counts
  <1>6. /\ lit' = (IF n = 4 * Slot THEN NoRound.lit ELSE now)
        /\ length' = (IF n = 4 * Slot THEN 0 ELSE length + 1)
        /\ whole' = (whole \/ n = 4 * Slot)
        /\ last' = IF n = 4 * Slot /\ whole THEN [lit |-> now, length |-> length + 1] ELSE last
    BY <1>1, <1>3 DEF Round, NoRound
  <1>7. Counts'
    BY <1>5, <1>6 DEF Counts, Strobing, NoRound
  <1>8. ASSUME whole
        PROVE  /\ n = i + 1 /\ length + 1 = n /\ n \in 1 .. 4 * Slot
               /\ n > 2 * Slot => OUT' = {2}
               /\ now[0] = beyond(n, 0, Slot) /\ now[1] = beyond(n, Slot, Slot)
               /\ now[2] = beyond(n, 2 * Slot, 2 * Slot)
    <2>1. /\ i \in 0 .. 4 * Slot - 1 /\ length = i
          /\ i > 2 * Slot => OUT = {2}
          /\ lit[0] = beyond(i, 0, Slot) /\ lit[1] = beyond(i, Slot, Slot)
          /\ lit[2] = beyond(i, 2 * Slot, 2 * Slot)
      BY <1>8 DEF Strobing
    <2>2. n = i + 1 /\ length + 1 = n /\ n \in 1 .. 4 * Slot
      BY <1>1, <1>2, <2>1
    <2>3. OUT' = IF n <= Slot THEN {0} ELSE IF n <= 2 * Slot THEN {1} ELSE {2}
      BY <1>1, <1>3, <2>1, <2>2
    <2>4. /\ now[0] = (IF n <= Slot THEN lit[0] + 1 ELSE lit[0])
          /\ now[1] = (IF n > Slot /\ n <= 2 * Slot THEN lit[1] + 1 ELSE lit[1])
          /\ now[2] = (IF n > 2 * Slot THEN lit[2] + 1 ELSE lit[2])
      BY <1>1, <2>2, <2>3 DEF Bits
    <2> HIDE DEF n, now
    <2>5. /\ now[0] = beyond(n, 0, Slot) /\ now[1] = beyond(n, Slot, Slot)
          /\ now[2] = beyond(n, 2 * Slot, 2 * Slot)
      BY <1>1, <2>1, <2>2, <2>4 DEF beyond
    <2> QED
      BY <1>1, <2>2, <2>3, <2>5
  <1> HIDE DEF n, now
  <1>9. CASE n = 4 * Slot
    <2>1. /\ i' = 0 /\ length' = 0 /\ lit' = NoRound.lit
      BY <1>3, <1>6, <1>9
    <2>2. lit'[0] = 0 /\ lit'[1] = 0 /\ lit'[2] = 0
      BY <2>1 DEF NoRound, Bits
    <2>3. beyond(0, 0, Slot) = 0 /\ beyond(0, Slot, Slot) = 0 /\ beyond(0, 2 * Slot, 2 * Slot) = 0
      BY <1>1 DEF beyond
    <2>4. Strobing'
      BY <1>1, <1>3, <1>4, <1>7, <2>1, <2>2, <2>3 DEF Strobing
    <2>5. whole => Strobe([lit |-> now, length |-> length + 1])
      <3>1. SUFFICES ASSUME whole
                     PROVE  Strobe([lit |-> now, length |-> length + 1])
        OBVIOUS
      <3>2. now[0] = Slot /\ now[1] = Slot /\ now[2] = 2 * Slot /\ length + 1 = 4 * Slot
        BY <1>1, <1>8, <1>9, <3>1 DEF beyond
      <3> QED
        BY <3>2 DEF Strobe
    <2> QED
      BY <1>6, <1>9, <2>4, <2>5
  <1>10. CASE n # 4 * Slot
    <2>1. i' = n /\ lit' = now /\ length' = length + 1 /\ (whole' <=> whole) /\ last' = last
      BY <1>3, <1>6, <1>10 DEF Strobing, Counts
    <2> QED
      BY <1>1, <1>3, <1>4, <1>7, <1>8, <1>10, <2>1 DEF Strobing
  <1> QED
    BY <1>9, <1>10

-----------------------------------------------------------------------------
(* Exercise 4.                                                             *)

\* From the top the output is up while the timer is at the comparison or below
\* on its way down, and below it on its way up.
UpDown ==
  LET C == TimerPWM(ratio)
      P == period_tick
  IN /\ pc \in {"begin", "run"} /\ Counts
     /\ P \in Nat /\ C \in 1 .. P - 1 /\ CCR0 = P /\ (pc = "run" => CCR1 = C)
     /\ down \in BOOLEAN /\ R \in 0 .. P /\ (IF down THEN R > 0 ELSE R < P)
     /\ whole =>
          /\ pc = "run"
          /\ length = IF down THEN P - R ELSE P + R
          /\ OUT = IF (down /\ R <= C) \/ (~down /\ R < C) THEN {4} ELSE {}
          /\ lit[4] = IF down THEN (IF R <= C THEN C - R + 1 ELSE 0)
                      ELSE IF R < C THEN C + R + 1 ELSE 2 * C

Triangle(round) == round.lit[4] = 2 * TimerPWM(ratio) /\ round.length = 2 * period_tick

LEMMA UpDownKept ==
  ASSUME UpDown, CountUpDown, UNCHANGED ratio, last = NoRound \/ Triangle(last)
  PROVE  UpDown' /\ (last' = NoRound \/ Triangle(last)')
  <1> DEFINE C == TimerPWM(ratio)
             P == period_tick
             now == [b \in Bits |-> IF b \in OUT' THEN lit[b] + 1 ELSE lit[b]]
  <1>1. /\ P \in Nat /\ C \in 1 .. P - 1 /\ CCR0 = P /\ down \in BOOLEAN
        /\ R \in 0 .. P /\ (IF down THEN R > 0 ELSE R < P)
        /\ pc \in {"begin", "run"} /\ (pc = "run" => CCR1 = C)
    BY DEF UpDown
  <1>2. /\ down => R' = R - 1 /\ (down' <=> R' # 0)
        /\ ~down => R' = R + 1 /\ (down' <=> R' = P)
        /\ down' \in BOOLEAN
        /\ OUT' = (CASE R' = P -> {}
                    [] R' = CCR1 /\ CCR1 # P -> {4} \ OUT
                    [] OTHER -> OUT)
        /\ Round(R' = P) /\ UNCHANGED <<CCR0, CCR1, pc>>
    BY <1>1 DEF CountUpDown
  <1>3. /\ P' = P /\ C' = C
    BY DEF period_tick, TimerPWM
  <1>4. now \in [Bits -> Nat]
    BY DEF UpDown, Counts
  <1>5. /\ lit' = (IF R' = P THEN NoRound.lit ELSE now)
        /\ length' = (IF R' = P THEN 0 ELSE length + 1)
        /\ whole' = (pc = "run" /\ (whole \/ R' = P))
        /\ last' = IF R' = P /\ whole THEN [lit |-> now, length |-> length + 1] ELSE last
    BY <1>2 DEF Round, NoRound
  <1>6. Counts'
    BY <1>4, <1>5 DEF Counts, UpDown, NoRound
  <1> HIDE DEF C, P, now
  <1>7. /\ R' \in 0 .. P /\ down' \in BOOLEAN /\ (IF down' THEN R' > 0 ELSE R' < P)
    <2>1. CASE down
      BY <1>1, <1>2, <2>1
    <2>2. CASE ~down
      BY <1>1, <1>2, <2>2
    <2> QED
      BY <1>1, <2>1, <2>2
  <1>8. ASSUME whole
        PROVE  /\ pc = "run" /\ length = (IF down THEN P - R ELSE P + R) /\ CCR1 = C
               /\ OUT = IF (down /\ R <= C) \/ (~down /\ R < C) THEN {4} ELSE {}
               /\ lit[4] = IF down THEN (IF R <= C THEN C - R + 1 ELSE 0)
                           ELSE IF R < C THEN C + R + 1 ELSE 2 * C
               /\ length + 1 = (IF down THEN P - R' ELSE P + R')
               /\ OUT' = IF (down /\ R' <= C) \/ (~down /\ R' < C) THEN {4} ELSE {}
    <2>1. /\ pc = "run" /\ length = (IF down THEN P - R ELSE P + R) /\ CCR1 = C
          /\ OUT = IF (down /\ R <= C) \/ (~down /\ R < C) THEN {4} ELSE {}
          /\ lit[4] = IF down THEN (IF R <= C THEN C - R + 1 ELSE 0)
                      ELSE IF R < C THEN C + R + 1 ELSE 2 * C
      BY <1>1, <1>8 DEF UpDown, C, P
    <2>2. {4} \ {4} = {} /\ {4} \ {} = {4}
      OBVIOUS
    <2>3. /\ R' \in 0 .. P /\ C \in Nat /\ 0 < C /\ C < P /\ R \in Nat
          /\ length + 1 = (IF down THEN P - R' ELSE P + R')
      BY <1>1, <1>2, <1>7, <2>1
    <2>4. OUT' = IF R' = P THEN {} ELSE IF R' = C THEN {4} \ OUT ELSE OUT
      BY <1>2, <2>1, <2>3
    <2>5. CASE down
      <3>1. R' = R - 1 /\ R' # P /\ R \in 0 .. P
        BY <1>1, <1>2, <2>3, <2>5
      <3>2. OUT = IF R <= C THEN {4} ELSE {}
        BY <2>1, <2>5
      <3>3. OUT' = IF R' <= C THEN {4} ELSE {}
        BY <2>2, <2>3, <2>4, <3>1, <3>2
      <3> QED
        BY <2>1, <2>3, <2>5, <3>3
    <2>6. CASE ~down
      <3>1. R' = R + 1
        BY <1>2, <2>6
      <3>2. OUT = IF R < C THEN {4} ELSE {}
        BY <2>1, <2>6
      <3>3. OUT' = IF R' < C THEN {4} ELSE {}
        BY <2>2, <2>3, <2>4, <3>1, <3>2
      <3> QED
        BY <2>1, <2>3, <2>6, <3>3
    <2> QED
      BY <2>5, <2>6
  <1>9. now[4] = IF 4 \in OUT' THEN lit[4] + 1 ELSE lit[4]
    BY DEF now, Bits
  <1>10. CASE R' = P
    <2>1. /\ ~down /\ down' /\ P > 0
      BY <1>1, <1>2, <1>10
    <2>2. lit' = NoRound.lit /\ length' = 0 /\ OUT' = {} /\ lit'[4] = 0
      BY <1>2, <1>5, <1>10 DEF NoRound, Bits
    <2>3. whole => Triangle([lit |-> now, length |-> length + 1])
      <3>1. SUFFICES ASSUME whole
                     PROVE  now[4] = 2 * C /\ length + 1 = 2 * P
        BY DEF Triangle, C, P
      <3> QED
        BY <1>1, <1>2, <1>8, <1>9, <1>10, <2>1, <2>2, <3>1
    <2>4. UpDown'
      BY <1>1, <1>2, <1>3, <1>5, <1>6, <1>7, <1>10, <2>1, <2>2 DEF UpDown, C, P
    <2>5. last' = NoRound \/ Triangle(last)'
      BY <1>3, <1>5, <1>10, <2>3 DEF Triangle, C, P
    <2> QED
      BY <2>4, <2>5
  <1>11. CASE R' # P
    <2>1. lit' = now /\ length' = length + 1 /\ last' = last
      BY <1>5, <1>11
    <2>2. whole' => whole
      BY <1>5, <1>11 DEF UpDown, Counts
    <2>3. ASSUME whole
          PROVE  /\ length' = (IF down' THEN P - R' ELSE P + R')
                 /\ OUT' = (IF (down' /\ R' <= C) \/ (~down' /\ R' < C) THEN {4} ELSE {})
                 /\ lit'[4] = IF down' THEN (IF R' <= C THEN C - R' + 1 ELSE 0)
                              ELSE IF R' < C THEN C + R' + 1 ELSE 2 * C
      <3>1. CASE down /\ R' # 0
        BY <1>1, <1>2, <1>8, <1>9, <1>11, <2>1, <2>3, <3>1
      <3>2. CASE down /\ R' = 0
        BY <1>1, <1>2, <1>8, <1>9, <1>11, <2>1, <2>3, <3>2
      <3>3. CASE ~down
        BY <1>1, <1>2, <1>8, <1>9, <1>11, <2>1, <2>3, <3>3
      <3> QED
        BY <3>1, <3>2, <3>3
    <2>4. UpDown'
      BY <1>1, <1>2, <1>3, <1>6, <1>7, <1>8, <2>2, <2>3 DEF UpDown, C, P
    <2> QED
      BY <1>3, <2>1, <2>4 DEF Triangle, C, P
  <1> QED
    BY <1>10, <1>11

\* Half the ticks of the pulse and of the period lose less than a tick each.
LEMMA RatioHeld ==
  ASSUME NEW r \in 1 .. 999
  PROVE  LET C == TimerPWM(r)
             P == period_tick
         IN 1000 * (2 * C) < r * (2 * P) + 2000 /\ r * (2 * P) < 1000 * (2 * C) + 2000
  <1> DEFINE q == period * 32768
             P == (q \div 1000) \div 2
             A == r * q
             C == (A \div 1000000) \div 2
  <1>1. q \in Nat /\ q <= 131039232 /\ r \in Nat /\ r >= 1 /\ r <= 999
    BY PeriodAssumption, SMT
  <1>2. (r * period * 32768) = A
    BY PeriodAssumption, SMT
  <1> HIDE DEF q
  <1>3. P \in Nat /\ P < 65536 /\ 2000 * P <= q /\ q < 2000 * P + 2000
    <2>1. \A n \in Nat : /\ (n \div 1000) \div 2 \in Nat
                         /\ 2000 * ((n \div 1000) \div 2) <= n
                         /\ n < 2000 * ((n \div 1000) \div 2) + 2000
      BY SMT
    <2> QED
      BY <1>1, <2>1, SMT
  <1>4. A \in Nat /\ A < 1000 * q + 1
    BY <1>1, SMT
  <1>5. 2000 * (r * P) <= A /\ A < 2000 * (r * P) + 2000 * r /\ r * P \in Nat
    <2> HIDE DEF P
    <2>1. PICK k \in Nat : q = 2000 * P + k /\ k < 2000
      <3>1. q - 2000 * P \in Nat /\ q = 2000 * P + (q - 2000 * P) /\ q - 2000 * P < 2000
        BY <1>1, <1>3, SMT
      <3> QED
        BY <3>1, SMT
    <2>2. A = 2000 * (r * P) + r * k
      BY <1>1, <1>3, <2>1, SMT
    <2>3. r * k \in Nat /\ r * k < r * 2000
      BY <1>1, <2>1, SMT
    <2> QED
      BY <1>1, <1>3, <2>2, <2>3, SMT
  <1> HIDE DEF A
  <1>6. C \in Nat /\ 2000000 * C <= A /\ A < 2000000 * C + 2000000
    <2>1. \A n \in Nat : /\ (n \div 1000000) \div 2 \in Nat
                         /\ 2000000 * ((n \div 1000000) \div 2) <= n
                         /\ n < 2000000 * ((n \div 1000000) \div 2) + 2000000
      BY SMT
    <2> QED
      BY <1>4, <2>1, SMT
  <1>7. C < 65536
    BY <1>1, <1>4, <1>6, SMT
  <1>8. TimerPWM(r) = C /\ period_tick = P
    BY <1>2, <1>3, <1>6, <1>7, Fits, SMT DEF TimerPWM, period_tick, q
  <1> HIDE DEF P, C
  <1>9. r * (2 * P) = 2 * (r * P)
    BY <1>1, <1>3, SMT
  <1> DEFINE x == r * P
  <1>10. x \in Nat /\ 2000 * x <= A /\ A < 2000 * x + 2000 * r /\ r * (2 * P) = 2 * x
    BY <1>5, <1>9
  <1> HIDE DEF x
  <1>11. 1000 * (2 * C) < 2 * x + 2000 /\ 2 * x < 1000 * (2 * C) + 2000
    BY <1>1, <1>4, <1>6, <1>10, SMT
  <1> QED
    BY <1>8, <1>10, <1>11

-----------------------------------------------------------------------------
(* All of them.                                                            *)

Showing ==
  /\ exercise \in 1 .. 4 /\ ratio \in 1 .. 999
  /\ exercise = 1 => Pulsing /\ last \in {NoRound, Pulse}
  /\ exercise = 2 => Strobing /\ (last = NoRound \/ Strobe(last))
  /\ exercise = 3 => Delaying /\ last = NoRound
  /\ exercise = 4 => UpDown /\ (last = NoRound \/ Triangle(last))
  /\ exercise # 3 => pc # "flag"

LEMMA ShowingStarts ==
  ASSUME Init
  PROVE  Showing
  <1>1. exercise \in 1 .. 4 /\ ratio \in 1 .. 999 /\ last = NoRound /\ length = 0 /\ lit = NoRound.lit
    BY RatiosAssumption DEF Init
  <1>2. Counts /\ (whole <=> exercise = 1) /\ R = 0 /\ ~down /\ down \in BOOLEAN /\ CCIFG = FALSE /\ late = 0
    BY DEF Init, Counts, NoRound
  <1>3. exercise = 1 => Pulsing
    <2>1. SUFFICES ASSUME exercise = 1
                   PROVE  Pulsing
      OBVIOUS
    <2>2. pc = "run" /\ i = 0 /\ OUT = {0}
      BY <2>1 DEF Init
    <2>3. lit = ups(0)
      BY <1>1, UpsOfRound
    <2> QED
      BY <1>1, <1>2, <2>1, <2>2, <2>3 DEF Pulsing
  <1>4. exercise = 2 => Strobing
    <2>1. SUFFICES ASSUME exercise = 2
                   PROVE  Strobing
      OBVIOUS
    <2>2. pc = "run" /\ i \in 0 .. Word - 1
      BY <2>1 DEF Init
    <2> QED
      BY <1>2, <2>1, <2>2 DEF Strobing
  <1>5. exercise = 3 => Delaying
    <2>1. SUFFICES ASSUME exercise = 3
                   PROVE  Delaying
      OBVIOUS
    <2>2. pc = "begin" /\ CCR0 = 0
      BY <2>1 DEF Init
    <2>3. SinceFlag /\ CCIFG \in BOOLEAN /\ ~CCIFG
      <3>1. R = 0 /\ late = 0 /\ MaxLate \in Nat
        BY <1>2, LateAssumption
      <3>2. CCIFG \in BOOLEAN /\ ~CCIFG
        BY <1>2, Zenon
      <3> QED
        BY <3>1, <3>2 DEF SinceFlag
    <2> QED
      BY <2>2, <2>3 DEF Delaying
  <1>6. exercise = 4 => UpDown
    <2>1. SUFFICES ASSUME exercise = 4
                   PROVE  UpDown
      OBVIOUS
    <2>2. TimerPWM(ratio) \in 1 .. period_tick - 1 /\ pc = "begin" /\ CCR0 = period_tick
      BY <2>1 DEF Init, fits
    <2>3. period_tick \in Nat
      BY PeriodAssumption DEF period_tick, uint16
    <2>4. R \in 0 .. period_tick /\ R < period_tick
      BY <1>2, <2>2, <2>3
    <2> QED
      BY <1>2, <2>1, <2>2, <2>3, <2>4 DEF UpDown
  <1>7. exercise # 3 => pc # "flag"
    BY DEF Init
  <1> QED
    BY <1>1, <1>3, <1>4, <1>5, <1>6, <1>7 DEF Showing

LEMMA ShowingKept ==
  ASSUME Showing, [Next]_vars
  PROVE  Showing'
  <1> USE DEF Showing
  <1>1. CASE UNCHANGED vars
    <2>1. /\ UNCHANGED <<exercise, ratio, pc>> /\ UNCHANGED loopVars /\ UNCHANGED timerVars
          /\ UNCHANGED delayVars /\ UNCHANGED roundVars
      BY <1>1 DEF vars
    <2> QED
      BY <2>1 DEF loopVars, timerVars, delayVars, roundVars, Pulsing, Pulse, Strobing, Strobe, Delaying,
        SinceFlag, UpDown, Triangle, Counts
  <1>2. CASE exercise = 1 /\ PwmGenerator /\ UNCHANGED <<exercise, ratio>>
    <2>1. Pulsing' /\ last' \in {NoRound, Pulse} /\ pc' = pc
      BY <1>2, PulsingKept DEF PwmGenerator
    <2>2. Pulse' = Pulse
      BY <1>2 DEF Pulse, ups
    <2> QED
      BY <1>2, <2>1, <2>2
  <1>3. CASE exercise = 2 /\ StrobeGpio /\ UNCHANGED <<exercise, ratio>>
    BY <1>3, StrobingKept DEF StrobeGpio
  <1>4. CASE exercise = 3 /\ (TimerDelay \/ CountUp) /\ UNCHANGED <<exercise, ratio>>
    <2>1. Delaying'
      BY <1>4, TimerDelayKept, CountUpKept
    <2>2. last' = last
      BY <1>4 DEF TimerDelay, SetCCR0, ClearR, LeaveLoop, ClearFlag, CountUp, roundVars
    <2> QED
      BY <1>4, <2>1, <2>2
  <1>5. CASE exercise = 4 /\ SetCCR1 /\ UNCHANGED <<exercise, ratio>>
    <2>1. /\ UNCHANGED <<R, down, CCR0, OUT, lit, length, whole, last>>
          /\ pc = "begin" /\ pc' = "run" /\ CCR1' = TimerPWM(ratio)
      BY <1>5 DEF SetCCR1, loopVars, roundVars
    <2>2. ~whole
      BY <1>5, <2>1 DEF UpDown
    <2> QED
      BY <1>5, <2>1, <2>2 DEF UpDown, Counts, Triangle
  <1>6. CASE exercise = 4 /\ CountUpDown /\ UNCHANGED <<exercise, ratio>>
    BY <1>6, UpDownKept DEF CountUpDown
  <1> QED
    BY <1>1, <1>2, <1>3, <1>4, <1>5, <1>6 DEF Next

THEOREM ShowingInvariant == Spec => []Showing
  BY ShowingStarts, ShowingKept, PTL DEF Spec

\* A delay lasts as long as it was asked for.
THEOREM DelaysLast == Spec => []DelayLasts
  <1>1. Showing => DelayLasts
    <2>1. SUFFICES ASSUME Showing, pc = "flag"
                   PROVE  DelayLasts
      BY DEF DelayLasts
    <2>2. exercise = 3
      BY <2>1 DEF Showing
    <2> QED
      BY <2>1, <2>2, DelayingLasts DEF Showing
  <1> QED
    BY <1>1, ShowingInvariant, PTL

\* Every whole round has its pattern.
THEOREM PatternsHold == Spec => []PatternHeld
  <1>1. Showing => PatternHeld
    <2>1. SUFFICES ASSUME Showing, last # NoRound
                   PROVE  PatternHeld
      BY DEF PatternHeld
    <2>2. CASE exercise = 1
      BY <2>1, <2>2, UpsOfRound DEF Showing, Pulse, PatternHeld
    <2>3. CASE exercise = 2
      BY <2>1, <2>3 DEF Showing, Strobe, PatternHeld
    <2>4. CASE exercise = 4
      <3>1. last.lit[4] = 2 * TimerPWM(ratio) /\ last.length = 2 * period_tick
        BY <2>1, <2>4 DEF Showing, Triangle
      <3> QED
        BY <2>1, <2>4, <3>1, RatioHeld DEF Showing, PatternHeld
    <2> QED
      BY <2>1, <2>2, <2>3, <2>4 DEF Showing
  <1> QED
    BY <1>1, ShowingInvariant, PTL
=============================================================================
