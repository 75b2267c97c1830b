------------------------ MODULE RealTimeClock_proofs ------------------------
(***************************************************************************)
(* Proofs about the real-time clock: no digit glows with the segments of   *)
(* another, the clock counts from the value it was set to, and its three   *)
(* counters are one count of seconds; for every length of a second, a      *)
(* minute and a day, every divider, and every program that sets the clock  *)
(* before it starts it, to a time of the day.                              *)
(***************************************************************************)
EXTENDS RealTimeClock, TLAPS

-----------------------------------------------------------------------------
(* The display.                                                            *)

\* What is lit is the digit whose turn it is.
LitInTurn == Reset_Led \in BOOLEAN /\ (~Reset_Led => nSelDig = cnt_digit)

LEMMA DisplayEdge ==
  ASSUME LitInTurn, NEW access, Clk(access)
  PROVE  LitInTurn' /\ (nSelDig' # nSelDig => Reset_Led)
  BY DEF LitInTurn, Clk, digits!ClockEdge, digits!switch_digit, digits!display, digits!vars

\* The selection moves only while the segments are reset, or to no digit.
THEOREM SelectionMovesBlank == Spec => BlankBetween
  <1>1. Init => LitInTurn
    BY DEF Init, digits!Init, LitInTurn
  <1>2. LitInTurn /\ [Next]_vars => LitInTurn'
    <2>1. ASSUME LitInTurn, UNCHANGED vars
          PROVE  LitInTurn'
      BY <2>1 DEF LitInTurn, vars, displayVars
    <2>2. ASSUME LitInTurn, Reset
          PROVE  LitInTurn'
      BY <2>2 DEF LitInTurn, Reset, digits!Reset
    <2> QED
      BY <2>1, <2>2, DisplayEdge DEF Next, ClkStep
  <1>3. LitInTurn /\ [Next]_vars => [nSelDig' \notin {nSelDig, digits!NoDigit} => Reset_Led]_vars
    <2>1. ASSUME LitInTurn, Reset
          PROVE  nSelDig' = digits!NoDigit
      BY <2>1 DEF Reset, digits!Reset
    <2> QED
      BY <2>1, DisplayEdge DEF Next, ClkStep
  <1> QED
    BY <1>1, <1>2, <1>3, PTL DEF Spec, BlankBetween

-----------------------------------------------------------------------------
(* The registers.                                                          *)

\* The program has come somewhere, and the registers hold bytes.
Programmed == pc \in 1 .. Len(Program) + 1 /\ iReg \in [registers -> 0 .. 255]

LEMMA Writes ==
  ASSUME NEW access, Host(access), avalon_write(access), Programmed
  PROVE  \/ UNCHANGED <<pc, iReg>>
         \/ /\ pc \in 1 .. Len(Program) /\ pc' = pc + 1
            /\ Program[pc][1] \in registers /\ Program[pc][2] \in 0 .. 255
            /\ iReg' = [iReg EXCEPT ![Program[pc][1]] = Program[pc][2]]
  <1>1. CASE HostWrites(access)
    <2>1. Len(Program) \in Nat /\ pc \in 1 .. Len(Program) /\ pc' = pc + 1
      BY <1>1, ProgramAssumption DEF HostWrites, finished, Programmed
    <2>2. Program[pc] \in registers \X (0 .. 255)
      BY <2>1, ProgramAssumption
    <2>3. Program[pc][1] \in registers /\ Program[pc][2] \in 0 .. 255
      BY <2>2
    <2>4. /\ access.op = "write" /\ access.register = Program[pc][1]
          /\ access.writedata = Program[pc][2]
      BY <1>1 DEF HostWrites, Write
    <2> QED
      BY <2>1, <2>3, <2>4 DEF avalon_write
  <1>2. CASE HostIdle(access)
    BY <1>2 DEF HostIdle, avalon_write, NoWrite
  <1> QED
    BY <1>1, <1>2 DEF Host

LEMMA ProgrammedStep ==
  ASSUME Programmed, NEW access, Clk(access)
  PROVE  Programmed'
  <1>1. Host(access) /\ avalon_write(access)
    BY DEF Clk
  <1>2. Len(Program) \in Nat
    BY ProgramAssumption
  <1>3. CASE UNCHANGED <<pc, iReg>>
    BY <1>3 DEF Programmed
  <1>4. CASE /\ pc \in 1 .. Len(Program) /\ pc' = pc + 1
             /\ Program[pc][1] \in registers /\ Program[pc][2] \in 0 .. 255
             /\ iReg' = [iReg EXCEPT ![Program[pc][1]] = Program[pc][2]]
    <2>1. pc' \in 1 .. Len(Program) + 1
      BY <1>2, <1>4
    <2>2. iReg' \in [registers -> 0 .. 255]
      BY <1>4 DEF Programmed
    <2> QED
      BY <2>1, <2>2 DEF Programmed
  <1> QED
    BY <1>1, <1>3, <1>4, Writes

\* At the beginning, and again after each reset, nothing is written.
LEMMA Unwritten ==
  /\ Init => Programmed /\ ~count_en /\ \A j \in 1 .. pc - 1 : FALSE
  /\ Reset => (Programmed /\ ~count_en /\ \A j \in 1 .. pc - 1 : FALSE)'
  <1>1. Len(Program) \in Nat /\ 1 \in 1 .. Len(Program) + 1 /\ \A j \in 1 .. 1 - 1 : FALSE
    BY ProgramAssumption
  <1>2. 0 \in 0 .. 255 /\ 0 % 2 # 1 /\ "Count" \in registers
    BY DEF registers
  <1>3. ASSUME Init
        PROVE  Programmed /\ ~count_en /\ \A j \in 1 .. pc - 1 : FALSE
    <2>1. pc = 1 /\ iReg = [r \in registers |-> 0]
      BY <1>3 DEF Init
    <2> QED
      BY <1>1, <1>2, <2>1 DEF Programmed, count_en
  <1>4. ASSUME Reset
        PROVE  (Programmed /\ ~count_en /\ \A j \in 1 .. pc - 1 : FALSE)'
    <2>1. pc' = 1 /\ iReg' = [r \in registers |-> 0]
      BY <1>4 DEF Reset
    <2> QED
      BY <1>1, <1>2, <2>1 DEF Programmed, count_en
  <1> QED
    BY <1>3, <1>4

-----------------------------------------------------------------------------
(* Setting before counting.                                                *)

SetFirst ==
  /\ Programmed
  /\ count_en => \E j \in 1 .. pc - 1 : SetsForGood(j)
  /\ (\E j \in 1 .. pc - 1 : SetsForGood(j)) => set_value
  /\ state \in {"INIT", "SET", "COUNT"}
  /\ loaded \in BOOLEAN /\ clk_1hz_en \in BOOLEAN
  /\ state = "COUNT" => loaded

LEMMA SetFirstStep ==
  ASSUME SetBeforeCount, SetFirst, NEW access, Clk(access)
  PROVE  SetFirst'
  <1>1. Programmed'
    BY ProgrammedStep DEF SetFirst
  <1>2. Host(access) /\ avalon_write(access) /\ Programmed /\ Len(Program) \in Nat
    BY ProgramAssumption DEF Clk, SetFirst
  <1>3. (count_en => \E j \in 1 .. pc - 1 : SetsForGood(j))'
    <2>1. CASE UNCHANGED <<pc, iReg>>
      BY <2>1 DEF SetFirst, count_en, SetsForGood
    <2>2. CASE /\ pc \in 1 .. Len(Program) /\ pc' = pc + 1
               /\ iReg' = [iReg EXCEPT ![Program[pc][1]] = Program[pc][2]]
      <3>1. SUFFICES ASSUME count_en'
                     PROVE  \E j \in 1 .. pc : SetsForGood(j)
        BY <2>2 DEF SetsForGood
      <3>2. CASE Program[pc][1] = "Count"
        <4>1. Program[pc][2] % 2 = 1
          BY <1>2, <2>2, <3>1, <3>2 DEF count_en, Programmed, registers
        <4> QED
          BY <2>2, <3>2, <4>1 DEF SetBeforeCount
      <3>3. CASE Program[pc][1] # "Count"
        <4>1. count_en
          BY <1>2, <2>2, <3>1, <3>3 DEF count_en, Programmed, registers
        <4> QED
          BY <2>2, <4>1 DEF SetFirst
      <3> QED
        BY <3>2, <3>3
    <2> QED
      BY <1>2, <2>1, <2>2, Writes
  <1>4. ((\E j \in 1 .. pc - 1 : SetsForGood(j)) => set_value)'
    <2>1. CASE UNCHANGED <<pc, iReg>>
      BY <2>1 DEF SetFirst, set_value, SetsForGood
    <2>2. CASE /\ pc \in 1 .. Len(Program) /\ pc' = pc + 1
               /\ iReg' = [iReg EXCEPT ![Program[pc][1]] = Program[pc][2]]
      <3>1. SUFFICES ASSUME NEW j \in 1 .. pc, SetsForGood(j)
                     PROVE  set_value'
        BY <2>2 DEF SetsForGood
      <3>2. CASE Program[pc][1] = "Set"
        <4>1. Program[pc][2] % 2 = 1
          BY <2>2, <3>1, <3>2 DEF SetsForGood
        <4> QED
          BY <1>2, <2>2, <3>2, <4>1 DEF set_value, Programmed, registers
      <3>3. CASE Program[pc][1] # "Set"
        <4>1. j \in 1 .. pc - 1
          BY <2>2, <3>1, <3>3 DEF SetsForGood
        <4>2. set_value
          BY <3>1, <4>1 DEF SetFirst
        <4> QED
          BY <1>2, <2>2, <3>3, <4>2 DEF set_value, Programmed, registers
      <3> QED
        BY <3>2, <3>3
    <2> QED
      BY <1>2, <2>1, <2>2, Writes
  <1>5. state' \in {"INIT", "SET", "COUNT"} /\ loaded' \in BOOLEAN /\ clk_1hz_en' \in BOOLEAN
    BY DEF SetFirst, Clk, counter!ClockEdge, counter!next_state, counter!vars, Record,
      clk_1hz!ClockEdge
  <1>6. (state = "COUNT" => loaded)'
    <2>1. count_en => set_value
      BY DEF SetFirst
    <2>2. loaded' = IF clk_1hz_en /\ state # "COUNT" THEN state = "SET" ELSE loaded
      BY DEF Clk, Record
    <2>3. IF clk_1hz_en THEN state' = counter!next_state(count_en, set_value) ELSE state' = state
      BY DEF Clk, counter!ClockEdge, counter!vars
    <2> QED
      BY <2>1, <2>2, <2>3 DEF SetFirst, counter!next_state
  <1> QED
    BY <1>1, <1>3, <1>4, <1>5, <1>6 DEF SetFirst

\* A program that sets the clock before it starts it finds it counting on from
\* a value it has loaded, and not from the zero of INIT.
THEOREM SetValueIsCounted ==
  ASSUME SetBeforeCount
  PROVE  Spec => []CountsFromStart
  <1>1. Init => SetFirst
    BY Unwritten DEF Init, SetFirst, counter!Init, clk_1hz!Init
  <1>2. SetFirst /\ [Next]_vars => SetFirst'
    <2>1. ASSUME SetFirst, UNCHANGED vars
          PROVE  SetFirst'
      BY <2>1 DEF SetFirst, vars, dividerVars, counterVars, Programmed, count_en, set_value, SetsForGood
    <2>2. ASSUME SetFirst, Reset
          PROVE  SetFirst'
      BY <2>2, Unwritten DEF Reset, SetFirst, counter!Reset, clk_1hz!Reset
    <2> QED
      BY <2>1, <2>2, SetFirstStep DEF Next, ClkStep
  <1>3. SetFirst => CountsFromStart
    BY DEF SetFirst, CountsFromStart
  <1> QED
    BY <1>1, <1>2, <1>3, PTL DEF Spec

-----------------------------------------------------------------------------
(* Three counters are one count of seconds.                                *)

\* Arithmetic of two digits: a high one and a low one below the base.
LEMMA Times ==
  ASSUME NEW a \in Nat, NEW b \in Nat, NEW base \in Nat \ {0}, a < b
  PROVE  a * base \in Nat /\ b * base \in Nat /\ a * base + base <= b * base
  <1>1. PICK d \in Nat : b = a + 1 + d
    <2>1. b - a - 1 \in Nat /\ b = a + 1 + (b - a - 1)
      OBVIOUS
    <2> QED
      BY <2>1
  <1>2. d * base \in Nat /\ a * base \in Nat
    OBVIOUS
  <1>3. b * base = a * base + base + d * base
    BY <1>1
  <1> QED
    BY <1>2, <1>3

LEMMA Digits ==
  ASSUME NEW a \in Nat, NEW b \in Nat, NEW base \in Nat \ {0},
         NEW x \in 0 .. base - 1, NEW y \in 0 .. base - 1
  PROVE  a * base + x = b * base + y => a = b /\ x = y
  <1>1. a * base \in Nat /\ b * base \in Nat
    OBVIOUS
  <1>2. CASE a < b
    BY <1>1, <1>2, Times
  <1>3. CASE b < a
    BY <1>1, <1>3, Times
  <1> QED
    BY <1>1, <1>2, <1>3

LEMMA Below ==
  ASSUME NEW n \in Nat, NEW a \in 0 .. n - 1, NEW base \in Nat \ {0}, NEW x \in 0 .. base - 1
  PROVE  a * base + x \in 0 .. n * base - 1
  <1>1. a * base \in Nat /\ n * base \in Nat /\ a * base + base <= n * base
    BY Times
  <1> QED
    BY <1>1

LEMMA Wraps ==
  ASSUME NEW n \in Nat, NEW k \in 0 .. n - 1
  PROVE  (k + 1) % n = IF k + 1 = n THEN 0 ELSE k + 1
  OBVIOUS

S == LastSec + 1
M == LastMin + 1
H == LastHr + 1

\* A time of the day.
OfDay(t) == t.sec \in 0 .. LastSec /\ t.min \in 0 .. LastMin /\ t.hr \in 0 .. LastHr

LEMMA Bases == S \in Nat \ {0} /\ M \in Nat \ {0} /\ H \in Nat \ {0}
  BY TimeAssumption DEF S, M, H

\* Seconds since midnight of hours, minutes and seconds.
total(h, m, s) == (h * M + m) * S + s

LEMMA TotalOfDay ==
  ASSUME NEW h \in 0 .. H - 1, NEW m \in 0 .. M - 1, NEW s \in 0 .. S - 1
  PROVE  total(h, m, s) \in 0 .. H * M * S - 1
  <1>1. h * M + m \in 0 .. H * M - 1 /\ H * M \in Nat
    BY Bases, Below
  <1> DEFINE a == h * M + m
             n == H * M
  <1>2. a \in 0 .. n - 1 /\ n \in Nat
    BY <1>1
  <1> HIDE DEF a, n
  <1>3. a * S + s \in 0 .. n * S - 1
    BY <1>2, Bases, Below
  <1> QED
    BY <1>3 DEF total, a, n

\* Different times are different seconds.
LEMMA TotalsDiffer ==
  ASSUME NEW h \in 0 .. H - 1, NEW m \in 0 .. M - 1, NEW s \in 0 .. S - 1,
         NEW h2 \in 0 .. H - 1, NEW m2 \in 0 .. M - 1, NEW s2 \in 0 .. S - 1,
         total(h, m, s) = total(h2, m2, s2)
  PROVE  h = h2 /\ m = m2 /\ s = s2
  <1> DEFINE a == h * M + m
             b == h2 * M + m2
  <1>1. a \in Nat /\ b \in Nat
    BY Bases
  <1>2. a * S + s = b * S + s2
    BY DEF total
  <1> HIDE DEF a, b
  <1>3. a = b /\ s = s2
    BY <1>1, <1>2, Bases, Digits
  <1>4. h * M + m = h2 * M + m2
    BY <1>3 DEF a, b
  <1>5. h \in Nat /\ h2 \in Nat
    OBVIOUS
  <1> QED
    BY <1>3, <1>4, <1>5, Bases, Digits

\* One second more, with the carries to the minutes and the hours.
LEMMA TotalCarries ==
  ASSUME NEW h \in 0 .. H - 1, NEW m \in 0 .. M - 1, NEW s \in 0 .. S - 1
  PROVE  LET h2 == IF s # S - 1 \/ m # M - 1 THEN h ELSE IF h = H - 1 THEN 0 ELSE h + 1
             m2 == IF s # S - 1 THEN m ELSE IF m = M - 1 THEN 0 ELSE m + 1
             s2 == IF s = S - 1 THEN 0 ELSE s + 1
         IN total(h2, m2, s2) = (total(h, m, s) + 1) % (H * M * S)
  <1> DEFINE n == total(h, m, s)
             day == H * M * S
  <1>1. n \in 0 .. day - 1 /\ day \in Nat
    BY TotalOfDay, Bases
  <1>2. (n + 1) % day = IF n + 1 = day THEN 0 ELSE n + 1
    <2> HIDE DEF n, day
    <2> QED
      BY <1>1, Wraps
  <1>3. CASE s # S - 1
    <2>1. total(h, m, s + 1) = n + 1
      BY Bases DEF total
    <2>2. s + 1 \in 0 .. S - 1
      BY <1>3, Bases
    <2>3. n + 1 # day
      BY <1>1, <2>1, <2>2, TotalOfDay
    <2> QED
      BY <1>2, <1>3, <2>1, <2>3
  <1>4. CASE s = S - 1 /\ m # M - 1
    <2>1. total(h, m + 1, 0) = n + 1
      BY <1>4, Bases DEF total
    <2>2. m + 1 \in 0 .. M - 1 /\ 0 \in 0 .. S - 1
      BY <1>4, Bases
    <2>3. n + 1 # day
      BY <1>1, <2>1, <2>2, TotalOfDay
    <2> QED
      BY <1>2, <1>4, <2>1, <2>3
  <1>5. CASE s = S - 1 /\ m = M - 1 /\ h # H - 1
    <2>1. total(h + 1, 0, 0) = n + 1
      BY <1>5, Bases DEF total
    <2>2. h + 1 \in 0 .. H - 1 /\ 0 \in 0 .. S - 1 /\ 0 \in 0 .. M - 1
      BY <1>5, Bases
    <2>3. n + 1 # day
      BY <1>1, <2>1, <2>2, TotalOfDay
    <2> QED
      BY <1>2, <1>5, <2>1, <2>3
  <1>6. CASE s = S - 1 /\ m = M - 1 /\ h = H - 1
    <2>1. total(0, 0, 0) = 0
      BY Bases DEF total
    <2>2. n + 1 = day
      BY <1>6, Bases DEF total
    <2> QED
      BY <1>2, <1>6, <2>1, <2>2
  <1> QED
    BY <1>3, <1>4, <1>5, <1>6

-----------------------------------------------------------------------------
(* The clock keeps the time of the day.                                    *)

KeepsTime ==
  /\ Programmed
  /\ \A r \in fields : field(r) \in 0 .. last(r)
  /\ state \in {"INIT", "SET", "COUNT"}
  /\ OfDay(time)

LEMMA FieldsKept ==
  ASSUME WritesOfDay, KeepsTime, NEW access, Clk(access)
  PROVE  Programmed' /\ \A r \in fields : (field(r) \in 0 .. last(r))'
  <1>1. Programmed'
    BY ProgrammedStep DEF KeepsTime
  <1>2. Host(access) /\ avalon_write(access) /\ Programmed
    BY DEF Clk, KeepsTime
  <1>3. CASE UNCHANGED <<pc, iReg>>
    BY <1>1, <1>3 DEF KeepsTime, field
  <1>4. CASE /\ pc \in 1 .. Len(Program)
             /\ Program[pc][1] \in registers /\ Program[pc][2] \in 0 .. 255
             /\ iReg' = [iReg EXCEPT ![Program[pc][1]] = Program[pc][2]]
    <2>1. ASSUME NEW r \in fields
          PROVE  iReg'[r] % 64 \in 0 .. last(r)
      <3>1. r \in registers
        BY DEF registers, fields
      <3>2. CASE r = Program[pc][1]
        <4>1. iReg'[r] = Program[pc][2]
          BY <1>2, <1>4, <3>1, <3>2 DEF Programmed
        <4>2. Program[pc][2] % 64 <= last(r)
          BY <1>4, <3>2 DEF WritesOfDay
        <4>3. \A n \in 0 .. 255 : \A m \in Nat : n % 64 <= m => n % 64 \in 0 .. m
          OBVIOUS
        <4>4. last(r) \in Nat
          BY TimeAssumption DEF last, fields
        <4> QED
          BY <1>4, <4>1, <4>2, <4>3, <4>4
      <3>3. CASE r # Program[pc][1]
        <4>1. iReg'[r] = iReg[r]
          BY <1>2, <1>4, <3>1, <3>3 DEF Programmed
        <4> QED
          BY <4>1 DEF KeepsTime, field
      <3> QED
        BY <3>2, <3>3
    <2> QED
      BY <1>1, <2>1 DEF field
  <1> QED
    BY <1>2, <1>3, <1>4, Writes

\* Start and stop are times of the day, and the clock is at one.
LEMMA TimesOfDay ==
  ASSUME KeepsTime
  PROVE  OfDay(time_in) /\ OfDay(threshold) /\ OfDay(time)
  <1>1. /\ field("Second") \in 0 .. LastSec /\ field("ThreshSec") \in 0 .. LastSec
        /\ field("Minute") \in 0 .. LastMin /\ field("ThreshMin") \in 0 .. LastMin
        /\ field("Hour") \in 0 .. LastHr /\ field("ThreshHour") \in 0 .. LastHr
    BY DEF KeepsTime, fields, last
  <1> QED
    BY <1>1 DEF KeepsTime, OfDay, time_in, threshold

\* What the counter does in a cycle in which it is enabled.
Loads == state = "SET" /\ cnt_sec' = time_in.sec /\ cnt_min' = time_in.min /\ cnt_hr' = time_in.hr
Clears == state = "INIT" /\ counter!Zero
Stops ==
  /\ state = "COUNT" /\ cnt_sec = threshold.sec /\ cnt_min = threshold.min /\ cnt_hr = threshold.hr
  /\ UNCHANGED <<cnt_sec, cnt_min, cnt_hr>>
Ticks ==
  /\ state = "COUNT" /\ counter!Tick
  /\ ~(cnt_sec = threshold.sec /\ cnt_min = threshold.min /\ cnt_hr = threshold.hr)

LEMMA CounterEdge ==
  ASSUME KeepsTime, NEW access, Clk(access)
  PROVE  \/ UNCHANGED <<state, cnt_sec, cnt_min, cnt_hr>>
         \/ /\ Loads \/ Clears \/ Stops \/ Ticks
            /\ state' \in {"INIT", "SET", "COUNT"}
            /\ state # "INIT" => state' \in {"INIT", "COUNT"}
  BY DEF KeepsTime, Clk, counter!ClockEdge, counter!vars, counter!next_state, counter!Load,
    counter!Count, Loads, Clears, Stops, Ticks

\* Seconds since midnight of a time.
LEMMA SecondsTotal ==
  ASSUME NEW h, NEW m, NEW s
  PROVE  seconds_of([sec |-> s, min |-> m, hr |-> h]) = total(h, m, s)
  BY DEF seconds_of, total, S, M

LEMMA SecondsOfDay ==
  ASSUME NEW h \in 0 .. LastHr, NEW m \in 0 .. LastMin, NEW s \in 0 .. LastSec
  PROVE  total(h, m, s) \in 0 .. H * M * S - 1
  <1>1. LastSec = S - 1 /\ LastMin = M - 1 /\ LastHr = H - 1
    BY TimeAssumption DEF S, M, H
  <1> QED
    BY <1>1, TotalOfDay

LEMMA TickIsASecond ==
  ASSUME OfDay(time), counter!Tick
  PROVE  OfDay(time)' /\ seconds_of(time)' = (seconds_of(time) + 1) % (H * M * S)
  <1>1. /\ cnt_sec \in 0 .. S - 1 /\ cnt_min \in 0 .. M - 1 /\ cnt_hr \in 0 .. H - 1
        /\ S - 1 = LastSec /\ M - 1 = LastMin /\ H - 1 = LastHr
    BY TimeAssumption DEF OfDay, time, S, M, H
  <1>2. /\ cnt_sec # LastSec => counter!up(cnt_sec) = cnt_sec + 1
        /\ cnt_min # LastMin => counter!up(cnt_min) = cnt_min + 1
        /\ cnt_hr # LastHr => counter!up(cnt_hr) = cnt_hr + 1
    BY <1>1, TimeAssumption DEF counter!up
  <1>3. /\ cnt_sec' = IF cnt_sec = S - 1 THEN 0 ELSE cnt_sec + 1
        /\ cnt_min' = IF cnt_sec # S - 1 THEN cnt_min ELSE IF cnt_min = M - 1 THEN 0 ELSE cnt_min + 1
        /\ cnt_hr' = IF cnt_sec # S - 1 \/ cnt_min # M - 1 THEN cnt_hr
                     ELSE IF cnt_hr = H - 1 THEN 0 ELSE cnt_hr + 1
    BY <1>1, <1>2 DEF counter!Tick
  <1>4. OfDay(time)'
    BY <1>1, <1>3, TimeAssumption DEF OfDay, time
  <1>5. total(cnt_hr', cnt_min', cnt_sec') = (total(cnt_hr, cnt_min, cnt_sec) + 1) % (H * M * S)
    BY <1>1, <1>3, TotalCarries
  <1>6. /\ seconds_of(time) = total(cnt_hr, cnt_min, cnt_sec)
        /\ seconds_of(time)' = total(cnt_hr', cnt_min', cnt_sec')
    BY SecondsTotal DEF time
  <1> QED
    BY <1>4, <1>5, <1>6

LEMMA KeepsTimeStep ==
  ASSUME WritesOfDay, KeepsTime, NEW access, Clk(access)
  PROVE  KeepsTime'
  <1>1. OfDay(time)'
    <2>1. CASE Ticks
      BY <2>1, TimesOfDay, TickIsASecond DEF Ticks
    <2>2. CASE Loads
      BY <2>2, TimesOfDay DEF Loads, OfDay, time
    <2>3. CASE Clears
      BY <2>3, TimeAssumption DEF Clears, counter!Zero, OfDay, time
    <2>4. CASE UNCHANGED <<cnt_sec, cnt_min, cnt_hr>>
      BY <2>4, TimesOfDay DEF OfDay, time
    <2> QED
      BY <2>1, <2>2, <2>3, <2>4, CounterEdge DEF Stops
  <1>2. state' \in {"INIT", "SET", "COUNT"}
    BY CounterEdge DEF KeepsTime
  <1> QED
    BY <1>1, <1>2, FieldsKept DEF KeepsTime

LEMMA KeepsTimeStarts ==
  /\ Init => KeepsTime
  /\ Reset => KeepsTime'
  <1>1. 0 % 64 = 0 /\ \A r \in fields : 0 \in 0 .. last(r)
    BY TimeAssumption DEF last, fields
  <1>2. 0 \in 0 .. LastSec /\ 0 \in 0 .. LastMin /\ 0 \in 0 .. LastHr
    BY TimeAssumption
  <1>3. \A r \in fields : r \in registers
    BY DEF fields, registers
  <1>4. Init => KeepsTime
    <2>1. SUFFICES ASSUME Init
                   PROVE  KeepsTime
      OBVIOUS
    <2>2. \A r \in fields : field(r) = 0
      BY <1>1, <1>3, <2>1 DEF Init, field
    <2> QED
      BY <1>1, <1>2, <2>1, <2>2, Unwritten DEF KeepsTime, Init, counter!Init, OfDay, time
  <1>5. Reset => KeepsTime'
    <2>1. SUFFICES ASSUME Reset
                   PROVE  KeepsTime'
      OBVIOUS
    <2>2. \A r \in fields : field(r)' = 0
      BY <1>1, <1>3, <2>1 DEF Reset, field
    <2> QED
      BY <1>1, <1>2, <2>1, <2>2, Unwritten DEF KeepsTime, Reset, counter!Reset, counter!Zero, OfDay, time
  <1> QED
    BY <1>4, <1>5

\* What software asks for is a second of the day.
LEMMA AskedOfDay ==
  ASSUME KeepsTime'
  PROVE  /\ seconds_of(time_in)' \in 0 .. H * M * S - 1
         /\ seconds_of(threshold)' \in 0 .. H * M * S - 1
  <1>1. /\ field("Second")' \in 0 .. LastSec /\ field("ThreshSec")' \in 0 .. LastSec
        /\ field("Minute")' \in 0 .. LastMin /\ field("ThreshMin")' \in 0 .. LastMin
        /\ field("Hour")' \in 0 .. LastHr /\ field("ThreshHour")' \in 0 .. LastHr
    BY DEF KeepsTime, fields, last
  <1>2. /\ seconds_of(time_in)' = total(field("Hour")', field("Minute")', field("Second")')
        /\ seconds_of(threshold)' = total(field("ThreshHour")', field("ThreshMin")', field("ThreshSec")')
    BY SecondsTotal DEF time_in, threshold
  <1> QED
    BY <1>1, <1>2, SecondsOfDay

\* The time that is reached is the second that is reached.
LEMMA AtStop ==
  ASSUME KeepsTime
  PROVE  seconds_of(time) = seconds_of(threshold) <=>
           cnt_sec = threshold.sec /\ cnt_min = threshold.min /\ cnt_hr = threshold.hr
  <1>1. OfDay(time) /\ OfDay(threshold)
    BY TimesOfDay
  <1>2. /\ cnt_sec \in 0 .. S - 1 /\ cnt_min \in 0 .. M - 1 /\ cnt_hr \in 0 .. H - 1
        /\ threshold.sec \in 0 .. S - 1 /\ threshold.min \in 0 .. M - 1 /\ threshold.hr \in 0 .. H - 1
    BY <1>1, TimeAssumption DEF OfDay, time, S, M, H
  <1>3. /\ seconds_of(time) = total(cnt_hr, cnt_min, cnt_sec)
        /\ seconds_of(threshold) = total(threshold.hr, threshold.min, threshold.sec)
    BY SecondsTotal DEF time, threshold
  <1> QED
    BY <1>2, <1>3, TotalsDiffer

LEMMA NoTime == seconds_of([sec |-> 0, min |-> 0, hr |-> 0]) = 0
  BY Bases, SecondsTotal DEF total

LEMMA ClockStep ==
  ASSUME KeepsTime, KeepsTime', NEW access, Clk(access)
  PROVE  clock!Next
  <1>1. (LastHr + 1) * (LastMin + 1) * (LastSec + 1) = H * M * S
    BY DEF H, M, S
  <1>2. CASE UNCHANGED <<state, cnt_sec, cnt_min, cnt_hr>>
    BY <1>1, <1>2, AskedOfDay DEF KeepsTime, clock!Next, clock!Between, time
  <1>3. CASE Clears /\ state' \in {"INIT", "SET", "COUNT"}
    <2>1. seconds_of(time)' = 0
      BY <1>3, NoTime DEF Clears, counter!Zero, time
    <2> QED
      BY <1>1, <1>3, <2>1, AskedOfDay DEF Clears, clock!Next, clock!Idle
  <1>4. CASE Loads /\ state' \in {"INIT", "COUNT"}
    <2>1. seconds_of(time)' = seconds_of(time_in)
      BY <1>4 DEF Loads, time, time_in
    <2> QED
      BY <1>1, <1>4, <2>1, AskedOfDay DEF Loads, clock!Next, clock!Setting
  <1>5. CASE (Stops \/ Ticks) /\ state' \in {"INIT", "COUNT"}
    <2>1. /\ state = "COUNT"
          /\ seconds_of(time)' = IF seconds_of(time) = seconds_of(threshold) THEN seconds_of(time)
                                 ELSE (seconds_of(time) + 1) % (H * M * S)
      <3>1. CASE Stops
        <4>1. seconds_of(time) = seconds_of(threshold)
          BY <3>1, AtStop DEF Stops
        <4>2. seconds_of(time)' = seconds_of(time)
          BY <3>1 DEF Stops, time
        <4> QED
          BY <3>1, <4>1, <4>2 DEF Stops
      <3>2. CASE Ticks
        <4>1. seconds_of(time) # seconds_of(threshold)
          BY <3>2, AtStop DEF Ticks
        <4> QED
          BY <3>2, <4>1, TimesOfDay, TickIsASecond DEF Ticks
      <3> QED
        BY <1>5, <3>1, <3>2
    <2> QED
      BY <1>1, <1>5, <2>1, AskedOfDay DEF clock!Next, clock!Running
  <1> QED
    BY <1>2, <1>3, <1>4, <1>5, CounterEdge DEF Loads, Clears, Stops, Ticks

\* The three counters and their carries are one count of seconds, from the
\* start to the stop value.
THEOREM CountersKeepTime ==
  ASSUME WritesOfDay
  PROVE  Spec => ImplementsWallClock
  <1>1. Init => KeepsTime /\ clock!Init
    <2>1. SUFFICES ASSUME Init
                   PROVE  clock!Init
      BY KeepsTimeStarts
    <2>2. \A r \in fields : field(r) = 0
      BY <2>1 DEF Init, field, fields, registers
    <2>3. /\ time = [sec |-> 0, min |-> 0, hr |-> 0] /\ time_in = [sec |-> 0, min |-> 0, hr |-> 0]
          /\ threshold = [sec |-> 0, min |-> 0, hr |-> 0]
      BY <2>1, <2>2 DEF Init, counter!Init, time, time_in, threshold, fields
    <2> QED
      BY <2>1, <2>3, NoTime DEF Init, counter!Init, clock!Init
  <1>2. KeepsTime /\ [Next]_vars => KeepsTime'
    <2>1. ASSUME KeepsTime, UNCHANGED vars
          PROVE  KeepsTime'
      BY <2>1 DEF KeepsTime, vars, counterVars, Programmed, field, OfDay, time
    <2> QED
      BY <2>1, KeepsTimeStarts, KeepsTimeStep DEF Next, ClkStep
  <1>3. KeepsTime /\ KeepsTime' /\ [Next]_vars => [clock!Next]_(clock!vars)
    <2> SUFFICES ASSUME KeepsTime, KeepsTime', [Next]_vars
                 PROVE  [clock!Next]_(clock!vars)
      OBVIOUS
    <2>1. CASE UNCHANGED vars
      <3>1. UNCHANGED <<state, cnt_sec, cnt_min, cnt_hr, iReg>>
        BY <2>1 DEF vars, counterVars
      <3>2. (time' = time) /\ (time_in' = time_in) /\ (threshold' = threshold)
        BY <3>1 DEF time, time_in, threshold, field
      <3> QED
        BY <3>1, <3>2 DEF clock!vars
    <2>2. CASE Reset
      <3>1. seconds_of(time)' = 0 /\ state' = "INIT"
        BY <2>2, NoTime DEF Reset, counter!Reset, counter!Zero, time
      <3>2. (LastHr + 1) * (LastMin + 1) * (LastSec + 1) = H * M * S
        BY DEF H, M, S
      <3> QED
        BY <3>1, <3>2, AskedOfDay DEF clock!Next, clock!Reset
    <2>3. CASE ClkStep
      BY <2>3, ClockStep DEF ClkStep
    <2> QED
      BY <2>1, <2>2, <2>3 DEF Next
  <1> QED
    BY <1>1, <1>2, <1>3, PTL DEF Spec, ImplementsWallClock, clock!Spec
=============================================================================
