--------------------------- MODULE RealTimeClock ---------------------------
(***************************************************************************)
(* lab2.2/hw/hdl/LED/RealTimeClock.vhd: the registers, the two dividers,   *)
(* the counter and the display, closed by a program that writes the        *)
(* registers one after the other, as lab2.2/sw/nios/rtc/hello_world.c      *)
(* does, with any number of cycles before each write.                      *)
(*                                                                         *)
(* One edge of clk is one step.  The read port, which shows two of the     *)
(* registers software has written, is left out.                            *)
(***************************************************************************)
EXTENDS Naturals, Sequences

CONSTANTS
  LastSec, LastMin, LastHr, SwitchLast,
  HzDivider, DigitDivider,   \* the generics of the two dividers
  Program,                   \* the writes: register and data
  MaxResets                  \* bound: pulses of nReset

ASSUME TimeAssumption ==
  LastSec \in 1 .. 63 /\ LastMin \in 1 .. 63 /\ LastHr \in 1 .. 63
ASSUME DividerAssumption ==
  HzDivider \in Nat \ {0} /\ DigitDivider \in Nat \ {0} /\ SwitchLast \in Nat \ {0}

registers == {"Count", "Set", "Second", "Minute", "Hour",
              "ThreshSec", "ThreshMin", "ThreshHour"}

ASSUME ProgramAssumption == Program \in Seq(registers \X (0 .. 255))

VARIABLES
  hz_cnt, clk_1hz_en, khz_cnt, clk_1khz_en,   \* the dividers
  state, cnt_sec, cnt_min, cnt_hr,            \* counter_control
  switch_flag, cnt_digit, Reset_Led, nSelDig, bcd,   \* display_control
  iReg,      \* the registers iRegCount, iRegSet, ...
  pc,        \* the next write of the program
  loaded,    \* history: the counter took the start value, and was not zeroed since
  resets     \* history: pulses of nReset

dividerVars == <<hz_cnt, clk_1hz_en, khz_cnt, clk_1khz_en>>
counterVars == <<state, cnt_sec, cnt_min, cnt_hr>>
displayVars == <<switch_flag, cnt_digit, Reset_Led, nSelDig, bcd>>
vars == <<dividerVars, counterVars, displayVars, iReg, pc, loaded, resets>>

clk_1hz == INSTANCE ClkDivider
             WITH divider <- HzDivider, cnt_reg <- hz_cnt, clk_en <- clk_1hz_en
clk_1khz == INSTANCE ClkDivider
             WITH divider <- DigitDivider, cnt_reg <- khz_cnt, clk_en <- clk_1khz_en
counter == INSTANCE CounterControl
digits == INSTANCE DisplayControl
-----------------------------------------------------------------------------
(* Six of the eight bits of a register reach the counter, one of the       *)
(* control registers.                                                      *)
count_en == iReg["Count"] % 2 = 1
set_value == iReg["Set"] % 2 = 1
field(register) == iReg[register] % 64
time_in == [sec |-> field("Second"), min |-> field("Minute"), hr |-> field("Hour")]
threshold == [sec |-> field("ThreshSec"), min |-> field("ThreshMin"),
              hr |-> field("ThreshHour")]
time == [sec |-> cnt_sec, min |-> cnt_min, hr |-> cnt_hr]

NoWrite == [op |-> "none"]
Write(register, data) == [op |-> "write", register |-> register, writedata |-> data]

avalon_write(access) ==
  iReg' = IF access.op = "write"
            THEN [iReg EXCEPT ![access.register] = access.writedata]
            ELSE iReg
-----------------------------------------------------------------------------
Init ==
  /\ clk_1hz!Init /\ clk_1khz!Init /\ counter!Init /\ digits!Init
  /\ iReg = [r \in registers |-> 0]
  /\ pc = 1 /\ loaded = FALSE /\ resets = 0

finished == pc = Len(Program) + 1

HostWrites(access) ==
  /\ ~finished
  /\ access = Write(Program[pc][1], Program[pc][2])
  /\ pc' = pc + 1

HostIdle(access) ==
  /\ access = NoWrite /\ UNCHANGED pc

Host(access) == HostWrites(access) \/ HostIdle(access)

accesses == {NoWrite} \union {Write(Program[i][1], Program[i][2]) : i \in DOMAIN Program}

Record == loaded' = IF clk_1hz_en /\ state # "COUNT" THEN state = "SET" ELSE loaded

Clk(access) ==
  /\ Host(access)
  /\ clk_1hz!ClockEdge /\ clk_1khz!ClockEdge
  /\ counter!ClockEdge(clk_1hz_en, count_en, set_value, time_in, threshold)
  /\ digits!ClockEdge(clk_1khz_en, time)
  /\ avalon_write(access)
  /\ Record
  /\ UNCHANGED resets

ClkStep == \E access \in accesses : Clk(access)

\* nReset restarts the clock and the program.
Reset ==
  /\ resets < MaxResets
  /\ clk_1hz!Reset /\ clk_1khz!Reset /\ counter!Reset /\ digits!Reset
  /\ iReg' = [r \in registers |-> 0]
  /\ pc' = 1 /\ loaded' = FALSE /\ resets' = resets + 1

Next == ClkStep \/ Reset

Spec == Init /\ [][Next]_vars

\* The clock runs, and the program gets to its next write.
FairSpec == Spec /\ WF_vars(ClkStep) /\ WF_vars(ClkStep /\ pc' = pc + 1)
-----------------------------------------------------------------------------
(* Properties.                                                             *)

\* With its j-th write the program has set the clock for good.
SetsForGood(j) ==
  /\ Program[j][1] = "Set" /\ Program[j][2] % 2 = 1
  /\ \A k \in j + 1 .. Len(Program) : Program[k][1] = "Set" => Program[k][2] % 2 = 1

\* The rule for programs: the clock is set before it is started.
SetBeforeCount ==
  \A i \in 1 .. Len(Program) :
    Program[i][1] = "Count" /\ Program[i][2] % 2 = 1 =>
      \E j \in 1 .. i - 1 : SetsForGood(j)

\* The last value of the field a register holds.
last(register) ==
  CASE register \in {"Second", "ThreshSec"} -> LastSec
    [] register \in {"Minute", "ThreshMin"} -> LastMin
    [] register \in {"Hour", "ThreshHour"} -> LastHr

fields == {"Second", "ThreshSec", "Minute", "ThreshMin", "Hour", "ThreshHour"}

\* The rule for programs: the values they write are of the day.
WritesOfDay ==
  \A i \in 1 .. Len(Program) :
    Program[i][1] \in fields => Program[i][2] % 64 <= last(Program[i][1])

\* The three counters and their carries are one count of seconds, which runs
\* from the start to the stop value, whenever software writes the registers.
seconds_of(t) == (t.hr * (LastMin + 1) + t.min) * (LastSec + 1) + t.sec
clock ==
  INSTANCE WallClock WITH
    Day <- (LastHr + 1) * (LastMin + 1) * (LastSec + 1),
    mode <- CASE state = "INIT" -> "idle" [] state = "SET" -> "setting"
              [] state = "COUNT" -> "running",
    seconds <- seconds_of(time),
    start <- seconds_of(time_in),
    stop <- seconds_of(threshold)
ImplementsWallClock == clock!Spec

\* A program that sets the clock before it starts it finds it counting on from
\* a value it has loaded, and not from the zero of INIT, although both bits are
\* looked at only once a second.
CountsFromStart == finished /\ state = "COUNT" => loaded

\* The decimal digits of a field, by division.
decimal(t, position) ==
  LET value == CASE position \in {0, 1} -> t.sec
                 [] position \in {2, 3} -> t.min
                 [] position \in {4, 5} -> t.hr
  IN IF position % 2 = 0 THEN value % 10 ELSE value \div 10

\* Whichever digit has its turn, the shifts and corrections of bin_to_bcd find
\* it for each value a field of six bits can have, those beyond a day included.
DigitsAreDecimal ==
  \A value \in 0 .. 63 :
    LET shown == [hr |-> value, min |-> value, sec |-> value]
    IN digits!digit_of(shown, cnt_digit) = decimal(shown, cnt_digit)

\* In the end the display shows the stop value: every digit is lit again and
\* again, and whatever is lit is a digit of that value in its place.  The clock
\* has got there and waits, and no digit of an earlier time is left.
SettlesOnStop ==
  /\ \A d \in 0 .. 5 : []<>(~Reset_Led /\ nSelDig = d)
  /\ <>[](Reset_Led \/ bcd = decimal(threshold, nSelDig))

\* The selection moves only while the segments are reset, so no digit glows
\* with the segments of another.
BlankBetween == [][nSelDig' \notin {nSelDig, digits!NoDigit} => Reset_Led]_vars
=============================================================================
