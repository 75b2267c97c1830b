----------------------------- MODULE CmosSensor -----------------------------
(***************************************************************************)
(* The image sensor as Lab4 simulates it, the generator of                 *)
(* testbench/cmos_sensor_output_generator.vhd: frames of lines of pixels,  *)
(* with blanks of configurable length between them.                        *)
(*                                                                         *)
(* The four blank counters of the source are one here: each is set to 1    *)
(* when its blank begins and is looked at only during that blank.          *)
(***************************************************************************)
EXTENDS Naturals

CONSTANT ConfigRange   \* 2^CONFIG_REG_WIDTH, where the registers wrap

VARIABLES
  reg_state,
  config,         \* the configuration registers, one field each
  reg_start,      \* one-cycle commands
  reg_stop,
  width_counter,  \* column of the pixel on the bus, from 1
  height_counter, \* its row, from 1
  blank_counter   \* cycles spent in the current blank

vars == <<reg_state, config, reg_start, reg_stop,
          width_counter, height_counter, blank_counter>>

registers == {"frame_width", "frame_height", "frame_frame_blank",
              "frame_line_blank", "line_line_blank", "line_frame_blank"}

\* The least values the constants package gives, which reset installs.
MinimumConfig ==
  [r \in registers |->
     IF r \in {"frame_line_blank", "line_frame_blank"} THEN 0 ELSE 1]

NoCommand == [op |-> "none"]
Configure(r, v) == [op |-> "config", register |-> r, wrdata |-> v]
Start == [op |-> "start"]
Stop == [op |-> "stop"]
-----------------------------------------------------------------------------
(* Outputs.                                                                *)

frame_valid == reg_state \notin {"IDLE", "FRAME_FRAME_BLANK"}
line_valid == reg_state = "VALID"
status_idle == reg_state = "IDLE"
-----------------------------------------------------------------------------
Init ==
  /\ reg_state = "IDLE"
  /\ config = MinimumConfig
  /\ reg_start = FALSE /\ reg_stop = FALSE
  /\ width_counter = 0 /\ height_counter = 0 /\ blank_counter = 0

\* nreset, asynchronous.
Reset ==
  /\ reg_state' = "IDLE"
  /\ config' = MinimumConfig
  /\ reg_start' = FALSE /\ reg_stop' = FALSE
  /\ width_counter' = 0 /\ height_counter' = 0 /\ blank_counter' = 0

\* The configuration may only change, and a start is only taken, in IDLE; a
\* stop only outside of it.
MM_WRITE(command) ==
  /\ reg_start' = (command.op = "start" /\ reg_state = "IDLE")
  /\ reg_stop' = (command.op = "stop" /\ reg_state # "IDLE")
  /\ config' =
       IF command.op = "config" /\ reg_state = "IDLE"
         THEN [config EXCEPT ![command.register] = command.wrdata]
         ELSE config

up(counter) == (counter + 1) % ConfigRange

EnterBlank(blank) ==
  /\ reg_state' = blank /\ blank_counter' = 1
  /\ UNCHANGED <<width_counter, height_counter>>

EnterLine(row) ==
  /\ reg_state' = "VALID" /\ width_counter' = 1 /\ height_counter' = row

EnterFrame ==
  IF config["frame_line_blank"] > 0
    THEN EnterBlank("FRAME_LINE_BLANK")
    ELSE EnterLine(1) /\ UNCHANGED blank_counter

Stay == UNCHANGED <<reg_state, width_counter, height_counter, blank_counter>>

Idle ==
  /\ reg_state = "IDLE"
  /\ IF reg_start THEN EnterFrame ELSE Stay

\* A command to stop is obeyed wherever the sensor is in its frame; the
\* counter of that place still runs on.
Stopped ==
  /\ reg_state # "IDLE" /\ reg_stop
  /\ reg_state' = "IDLE"
  /\ IF reg_state = "VALID"
       THEN width_counter' = up(width_counter) /\ UNCHANGED blank_counter
       ELSE blank_counter' = up(blank_counter) /\ UNCHANGED width_counter
  /\ UNCHANGED height_counter

\* A blank of the given name is over, or goes on.
Blank(name, register, Leave) ==
  /\ reg_state = name /\ ~reg_stop
  /\ IF blank_counter = config[register]
       THEN Leave
       ELSE /\ blank_counter' = up(blank_counter)
            /\ UNCHANGED <<reg_state, width_counter, height_counter>>

Blanks ==
  \/ Blank("FRAME_FRAME_BLANK", "frame_frame_blank", EnterFrame)
  \/ Blank("FRAME_LINE_BLANK", "frame_line_blank",
           EnterLine(1) /\ blank_counter' = up(blank_counter))
  \/ Blank("LINE_LINE_BLANK", "line_line_blank",
           EnterLine(up(height_counter)) /\ blank_counter' = up(blank_counter))
  \/ Blank("LINE_FRAME_BLANK", "line_frame_blank", EnterBlank("FRAME_FRAME_BLANK"))

EndOfLine ==
  IF height_counter < config["frame_height"]
    THEN reg_state' = "LINE_LINE_BLANK" /\ blank_counter' = 1
    ELSE IF height_counter = config["frame_height"]
      THEN /\ reg_state' = IF config["line_frame_blank"] > 0
                             THEN "LINE_FRAME_BLANK" ELSE "FRAME_FRAME_BLANK"
           /\ blank_counter' = 1
      ELSE UNCHANGED <<reg_state, blank_counter>>

Valid ==
  /\ reg_state = "VALID" /\ ~reg_stop
  /\ width_counter' = up(width_counter)
  /\ UNCHANGED height_counter
  /\ IF width_counter = config["frame_width"]
       THEN EndOfLine
       ELSE UNCHANGED <<reg_state, blank_counter>>

NEXT_STATE_LOGIC == Idle \/ Stopped \/ Blanks \/ Valid

ClockEdge(command) == MM_WRITE(command) /\ NEXT_STATE_LOGIC
=============================================================================
