------------------------- MODULE AvalonSlaveCamera -------------------------
(***************************************************************************)
(* The register file of Lab4/hw/hdl/AvalonSlaveCamera.vhd, through which   *)
(* software programs the DMA and the camera controller and learns that a   *)
(* task is finished.                                                       *)
(*                                                                         *)
(* One action per rising edge of clk (ClockEdge).  A bus access is a       *)
(* record with the register number and, for a write, the data; the start   *)
(* register is the set of its bits that are 1, of which the design uses    *)
(* bit 0 (camera controller) and bit 4 (DMA and multiplexer).              *)
(***************************************************************************)
EXTENDS Naturals

VARIABLES
  start_reg,           \* register 0, the bits that are set
  dma_len_reg,         \* register 1
  dma_dest_address,    \* register 2
  clear_task_flag,     \* register 3
  task_finished_flag,  \* register 4, read only
  camera_trigger_reg,  \* register 5
  readdata             \* registered answer of the last read

vars == <<start_reg, dma_len_reg, dma_dest_address, clear_task_flag,
          task_finished_flag, camera_trigger_reg, readdata>>

NoAccess == [op |-> "none"]
Write(a, d) == [op |-> "write", address |-> a, writedata |-> d]
Read(a) == [op |-> "read", address |-> a]

writes(access, a) == access.op = "write" /\ access.address = a
-----------------------------------------------------------------------------
(* Combinational outputs (output_setting).                                 *)

start_dma_out == ~task_finished_flag /\ 4 \in start_reg
start_camera_controller_out == ~task_finished_flag /\ 0 \in start_reg
dma_len_out == dma_len_reg
dma_dest_out == dma_dest_address
-----------------------------------------------------------------------------
Init ==
  /\ start_reg = {}
  /\ dma_len_reg = 0
  /\ dma_dest_address = 0
  /\ clear_task_flag = FALSE
  /\ task_finished_flag = FALSE
  /\ camera_trigger_reg = FALSE
  /\ readdata = 0

\* nrst clears every register except camera_trigger_reg.
Reset ==
  /\ start_reg' = {}
  /\ dma_len_reg' = 0
  /\ dma_dest_address' = 0
  /\ clear_task_flag' = FALSE
  /\ task_finished_flag' = FALSE
  /\ readdata' = 0
  /\ UNCHANGED camera_trigger_reg

\* Mutant: the acknowledgement does not clear the registers.
avalon_write_only(access, task_finish_ack) ==
  LET written(a, old) == IF writes(access, a) THEN access.writedata ELSE old
  IN /\ start_reg' = written(0, start_reg)
     /\ dma_len_reg' = written(1, dma_len_reg)
     /\ dma_dest_address' = written(2, dma_dest_address)
     /\ clear_task_flag' = written(3, clear_task_flag /\ task_finished_flag)
     /\ camera_trigger_reg' = written(5, camera_trigger_reg)

\* A write has priority over the clearing by task_finish_ack, whatever
\* register it addresses.
avalon_write(access, task_finish_ack) ==
  LET acked == access.op # "write" /\ task_finish_ack
      written(a, old) == IF writes(access, a) THEN access.writedata ELSE old
  IN /\ start_reg' = IF acked THEN {} ELSE written(0, start_reg)
     /\ dma_len_reg' = IF acked THEN 0 ELSE written(1, dma_len_reg)
     /\ dma_dest_address' = IF acked THEN 0 ELSE written(2, dma_dest_address)
     /\ clear_task_flag' =
          (~acked /\ written(3, clear_task_flag /\ task_finished_flag))
     /\ camera_trigger_reg' = written(5, camera_trigger_reg)

bit(b) == IF b THEN 1 ELSE 0

\* Register 6 shows the multiplexer output; register 7 keeps the old answer.
avalon_read(access, pixel_counter) ==
  readdata' =
    IF access.op # "read" THEN readdata
    ELSE CASE access.address = 0 -> start_reg
           [] access.address = 1 -> dma_len_reg
           [] access.address = 2 -> dma_dest_address
           [] access.address = 3 -> bit(clear_task_flag)
           [] access.address = 4 -> bit(task_finished_flag)
           [] access.address = 5 -> bit(camera_trigger_reg)
           [] access.address = 6 -> pixel_counter
           [] OTHER -> readdata

\* Mutant: the flag is never cleared.
task_flag_sticky(task_finish_ack) ==
  task_finished_flag' = (task_finish_ack \/ task_finished_flag)

task_flag_setting(task_finish_ack) ==
  task_finished_flag' =
    (task_finish_ack \/ (task_finished_flag /\ ~clear_task_flag))

ClockEdge(access, task_finish_ack, pixel_counter) ==
  /\ avalon_write(access, task_finish_ack)
  /\ avalon_read(access, pixel_counter)
  /\ task_flag_setting(task_finish_ack)
-----------------------------------------------------------------------------
(* Types of the registers the datapath uses.                               *)
TypeOK ==
  /\ start_reg \subseteq {0, 4}
  /\ dma_len_reg \in Nat
  /\ dma_dest_address \in Nat
  /\ clear_task_flag \in BOOLEAN
  /\ task_finished_flag \in BOOLEAN
  /\ camera_trigger_reg \in BOOLEAN
=============================================================================
