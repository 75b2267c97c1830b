-------------------------------- MODULE Dma --------------------------------
(***************************************************************************)
(* The Avalon-MM write master of Lab4/hw/hdl/dma.vhd: it moves words from  *)
(* the pixel FIFO to memory in bursts until the programmed number of       *)
(* pixels has been sent.                                                   *)
(*                                                                         *)
(* A rising edge of clk is one action (ClockEdge), split by the state the  *)
(* machine is in; the combinational outputs are operators of the registers *)
(* and of the inputs of the current cycle.  Inputs and outputs that are    *)
(* one bit wide in the source are BOOLEAN here.                            *)
(***************************************************************************)
EXTENDS Naturals

CONSTANTS
  BurstLength,  \* the generic of the entity; a burst carries one beat more
  AddrSpace     \* number of byte addresses, 2^32 in the source

VARIABLES
  current_state,  \* state_type
  base_addr,      \* address announced with the burst
  cnt_burst,      \* beats sent in this burst
  cnt_pixel,      \* beats sent in this task
  reg_pixelnum    \* beats the task asks for

vars == <<current_state, base_addr, cnt_burst, cnt_pixel, reg_pixelnum>>

state_type == {"IDLE", "WAITBURST", "BURST", "TASKEND"}

BurstBeats == BurstLength + 1

\* 32 bit addition: the step is smaller than the address space.
Wrap(a) == IF a >= AddrSpace THEN a - AddrSpace ELSE a
-----------------------------------------------------------------------------
(* Combinational outputs (output_process).                                 *)

EnoughButOne(size_in) == size_in >= BurstLength - 1   \* mutant
EnoughAny(size_in) == size_in > 0                    \* mutant
EnoughAndOne(size_in) == size_in > BurstBeats         \* mutant
BurstFinishEarly == cnt_burst = BurstLength - 1       \* mutant

Enough(size_in) == size_in >= BurstLength
BurstFinish == cnt_burst = BurstLength
TaskFinish == cnt_pixel = reg_pixelnum

\* WAITBURST already drives the first write strobe of the burst; BURST
\* drives it only in the cycles in which the bus is ready.
AM_write_out(size_in, waitrequest) ==
  \/ current_state = "WAITBURST" /\ Enough(size_in)
  \/ current_state = "BURST" /\ ~waitrequest

DataAckStalled(waitrequest) == current_state = "BURST"   \* mutant
DataAck_out(waitrequest) == current_state = "BURST" /\ ~waitrequest

\* Mutant: the flag at the end of every burst.
burst_end_flag == current_state = "TASKEND"
task_end_flag_out == current_state \in {"BURST", "TASKEND"} /\ TaskFinish
-----------------------------------------------------------------------------
Init ==
  /\ current_state = "IDLE"
  /\ base_addr = 0
  /\ cnt_burst = 0
  /\ cnt_pixel = 0
  /\ reg_pixelnum = 0

\* nrst is asynchronous and clears every register.
Reset ==
  /\ current_state' = "IDLE"
  /\ base_addr' = 0
  /\ cnt_burst' = 0
  /\ cnt_pixel' = 0
  /\ reg_pixelnum' = 0

\* The task is latched from the slave on the edge that leaves IDLE.
Idle(enable, addr, num) ==
  /\ current_state = "IDLE"
  /\ cnt_burst' = 0
  /\ cnt_pixel' = 0
  /\ \/ /\ enable
        /\ current_state' = "WAITBURST"
        /\ base_addr' = addr
        /\ reg_pixelnum' = num
     \/ /\ ~enable
        /\ current_state' = "IDLE"
        /\ base_addr' = 0
        /\ reg_pixelnum' = 0

WaitBurst(enable, size_in) ==
  /\ current_state = "WAITBURST"
  /\ current_state' = CASE ~enable -> "IDLE"
                        [] enable /\ Enough(size_in) -> "BURST"
                        [] OTHER -> "WAITBURST"
  /\ cnt_burst' = 0
  /\ UNCHANGED <<base_addr, cnt_pixel, reg_pixelnum>>

\* The state is left when a counter has its final value, whether or not the
\* bus takes a beat in that cycle; a beat that is taken is counted.
Burst(waitrequest) ==
  /\ current_state = "BURST"
  /\ current_state' = IF BurstFinish \/ TaskFinish THEN "TASKEND" ELSE "BURST"
  /\ IF waitrequest
       THEN UNCHANGED <<cnt_burst, cnt_pixel>>
       ELSE cnt_burst' = cnt_burst + 1 /\ cnt_pixel' = cnt_pixel + 1
  /\ UNCHANGED <<base_addr, reg_pixelnum>>

\* Mutant: the step of a burst without its last beat.
TaskEndShort ==
  /\ current_state = "TASKEND"
  /\ current_state' = IF TaskFinish THEN "IDLE" ELSE "WAITBURST"
  /\ base_addr' = Wrap(base_addr + 4 * BurstLength)
  /\ UNCHANGED <<cnt_burst, cnt_pixel, reg_pixelnum>>

TaskEnd ==
  /\ current_state = "TASKEND"
  /\ current_state' = IF TaskFinish THEN "IDLE" ELSE "WAITBURST"
  /\ base_addr' = Wrap(base_addr + 4 * BurstBeats)
  /\ UNCHANGED <<cnt_burst, cnt_pixel, reg_pixelnum>>

ClockEdge(enable, addr, num, size_in, waitrequest) ==
  \/ Idle(enable, addr, num)
  \/ WaitBurst(enable, size_in)
  \/ Burst(waitrequest)
  \/ TaskEnd
-----------------------------------------------------------------------------
(* Types of the registers.                                                 *)
TypeOK ==
  /\ current_state \in state_type
  /\ base_addr \in 0 .. AddrSpace - 1
  /\ cnt_burst \in Nat
  /\ cnt_pixel \in Nat
  /\ reg_pixelnum \in Nat
=============================================================================
