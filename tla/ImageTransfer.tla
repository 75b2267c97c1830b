--------------------------- MODULE ImageTransfer ---------------------------
(***************************************************************************)
(* The system-clock half of Lab4/hw/hdl/camera_top.vhd: the DMA, the       *)
(* register file and the pixel FIFO, closed by the Avalon bus with its     *)
(* memory, by the software that programs the transfers, and by the camera  *)
(* that fills the FIFO.                                                    *)
(*                                                                         *)
(* One edge of clk is one step in which every clocked part moves at once   *)
(* on the values of the signals before the edge.  The camera stores words  *)
(* on a clock of its own, so its steps fall anywhere between the edges.    *)
(***************************************************************************)
EXTENDS Naturals

CONSTANTS
  BurstLength, AddrSpace, Depth,
  NoWord,        \* the output of an empty FIFO, which is not defined
  Buffers,       \* what software asks for: records of dest and num
  MaxWords,      \* bound: words the camera stores
  MaxTasks,      \* bound: tasks software starts
  MaxResets,     \* bound: pulses of nrst
  StallsIssue,   \* the bus refuses the strobe driven in WAITBURST
  ReadyAtEnd,    \* the bus accepts in the last cycle of a burst
  MayAbort,      \* software may give a task up
  TriggerAt      \* where in its program software writes the camera trigger

ASSUME BurstLengthAssumption == BurstLength \in 1 .. 320
ASSUME AddrSpaceAssumption ==
  AddrSpace \in Nat /\ AddrSpace > 4 * (BurstLength + 1)
ASSUME DepthAssumption == Depth \in Nat \ {0}
ASSUME BuffersAssumption ==
  \A b \in Buffers : /\ b.dest \in Nat /\ b.num \in Nat \ {0}
                     /\ b.dest + 4 * b.num <= AddrSpace
ASSUME NoWordAssumption == NoWord \notin Nat
ASSUME BoundsAssumption ==
  MaxWords \in Nat /\ MaxTasks \in Nat /\ MaxResets \in Nat
Steps == {"len", "dest", "start", "poll", "check", "drain", "clear"}
ASSUME SwitchesAssumption ==
  /\ StallsIssue \in BOOLEAN /\ ReadyAtEnd \in BOOLEAN
  /\ MayAbort \in BOOLEAN /\ TriggerAt \subseteq Steps

VARIABLES
  current_state, base_addr, cnt_burst, cnt_pixel, reg_pixelnum,
  start_reg, dma_len_reg, dma_dest_address, clear_task_flag,
  task_finished_flag, camera_trigger_reg, readdata,
  wr, rd, seen,
  bus_left,   \* beats the slave still expects of the open burst
  bus_addr,   \* where it puts the next one
  mem,        \* memory, defined where a word was ever written
  pc,         \* next register access of the software
  buffer,     \* the buffer the software is programming
  task,       \* history: dest, num and first word of the task the DMA took
  tasks,      \* history: tasks started
  resets      \* history: pulses of nrst

dmaVars == <<current_state, base_addr, cnt_burst, cnt_pixel, reg_pixelnum>>
slaveVars == <<start_reg, dma_len_reg, dma_dest_address, clear_task_flag,
               task_finished_flag, camera_trigger_reg, readdata>>
fifoVars == <<wr, rd, seen>>
busVars == <<bus_left, bus_addr, mem>>
hostVars == <<pc, buffer, tasks>>
vars == <<dmaVars, slaveVars, fifoVars, busVars, hostVars, task, resets>>

dma == INSTANCE Dma
slave == INSTANCE AvalonSlaveCamera
fifo == INSTANCE PixelFifo
bus == INSTANCE AvalonBus

-----------------------------------------------------------------------------
(* Signals between the parts, in the cycle that ends with the next edge.   *)

enable == slave!start_dma_out
AM_write(waitrequest) == dma!AM_write_out(fifo!rdusedw, waitrequest)
DataAck(waitrequest) == dma!DataAck_out(waitrequest)
flag_task_end == dma!task_end_flag_out

\* The word at the head of the FIFO, in show-ahead mode.
data_pixel == IF fifo!rdempty THEN NoWord ELSE rd

\* The cycle in which the strobe of WAITBURST is driven, and the cycle
\* after which BURST is left.
Issuing == current_state = "WAITBURST" /\ dma!Enough(fifo!rdusedw)
LastCycle == current_state = "BURST" /\ (dma!BurstFinish \/ dma!TaskFinish)

\* What the bus may answer in this cycle.
waitrequests ==
  {w \in BOOLEAN : /\ StallsIssue /\ Issuing => w
                   /\ ReadyAtEnd /\ LastCycle => ~w}
-----------------------------------------------------------------------------
Init ==
  /\ dma!Init /\ slave!Init /\ fifo!Init
  /\ bus!Init
  /\ pc = "len" /\ buffer \in Buffers
  /\ task = [dest |-> 0, num |-> 0, first |-> 0]
  /\ tasks = 0 /\ resets = 0

(* The accesses of the software, in the order of test_CameraTop.vhd: each  *)
(* is one cycle long, and any number of idle cycles may lie between them.  *)
HostIdle(access) == access = slave!NoAccess /\ UNCHANGED hostVars

HostWrites(access, here, address, data, next) ==
  /\ pc = here
  /\ access = slave!Write(address, data)
  /\ pc' = next

HostProgram(access) ==
  \/ HostWrites(access, "len", 1, buffer.num, "dest") /\ UNCHANGED <<buffer, tasks>>
  \/ HostWrites(access, "dest", 2, buffer.dest, "start") /\ UNCHANGED <<buffer, tasks>>
  \/ /\ tasks < MaxTasks
     /\ HostWrites(access, "start", 0, {0, 4}, "poll")
     /\ tasks' = tasks + 1
     /\ UNCHANGED buffer

HostPoll(access) ==
  \/ /\ pc = "poll" /\ access = slave!Read(4) /\ pc' = "check"
     /\ UNCHANGED <<buffer, tasks>>
  \/ /\ pc = "check" /\ access = slave!NoAccess
     /\ pc' = IF readdata = 1 THEN "clear" ELSE "poll"
     /\ UNCHANGED <<buffer, tasks>>
  \/ /\ HostWrites(access, "clear", 3, TRUE, "len")
     /\ buffer' \in Buffers /\ UNCHANGED tasks

\* A task is given up by clearing the start register.  No register tells
\* when the DMA has come to rest, so software waits for longer than a burst
\* takes before it goes on, and clears the flag the last burst may have set.
HostAbort(access) ==
  \/ /\ MayAbort
     /\ HostWrites(access, "poll", 0, {}, "drain")
     /\ UNCHANGED <<buffer, tasks>>
  \/ /\ pc = "drain" /\ current_state = "IDLE"
     /\ access = slave!NoAccess /\ pc' = "clear"
     /\ UNCHANGED <<buffer, tasks>>

HostTrigger(access) ==
  /\ pc \in TriggerAt
  /\ access = slave!Write(5, TRUE)
  /\ UNCHANGED hostVars

Host(access) ==
  \/ HostIdle(access) \/ HostProgram(access) \/ HostPoll(access)
  \/ HostAbort(access) \/ HostTrigger(access)

accesses ==
  {slave!NoAccess, slave!Read(4), slave!Write(0, {0, 4}), slave!Write(0, {}),
   slave!Write(3, TRUE), slave!Write(5, TRUE),
   slave!Write(1, buffer.num), slave!Write(2, buffer.dest)}

(* History: the task is what the DMA latches on leaving IDLE.              *)
Record ==
  task' = IF current_state = "IDLE" /\ enable
            THEN [dest |-> slave!dma_dest_out, num |-> slave!dma_len_out,
                  first |-> rd]
            ELSE task

Clk(access, waitrequest) ==
  /\ Host(access)
  /\ dma!ClockEdge(enable, slave!dma_dest_out, slave!dma_len_out,
                   fifo!rdusedw, waitrequest)
  /\ slave!ClockEdge(access, flag_task_end, 0)
  /\ fifo!ReadEdge(DataAck(waitrequest))
  /\ UNCHANGED wr
  /\ bus!ClockEdge(AM_write(waitrequest), waitrequest, base_addr,
                   dma!BurstBeats, data_pixel)
  /\ Record
  /\ UNCHANGED resets

ClkStep == \E access \in accesses, w \in waitrequests : Clk(access, w)

Camera ==
  /\ wr < MaxWords
  /\ ~fifo!wrfull
  /\ fifo!WriteEdge(TRUE) /\ UNCHANGED <<rd, seen>>
  /\ UNCHANGED <<dmaVars, slaveVars, busVars, hostVars, task, resets>>

\* A pulse of nrst restarts the whole design and the software with it.
Reset ==
  /\ resets < MaxResets
  /\ dma!Reset /\ slave!Reset /\ fifo!Clear
  /\ bus!Reset
  /\ pc' = "len" /\ buffer' \in Buffers /\ UNCHANGED tasks
  /\ resets' = resets + 1
  /\ UNCHANGED task

Next == ClkStep \/ Camera \/ Reset

Spec == Init /\ [][Next]_vars
FairSpec ==
  /\ Spec
  /\ WF_vars(Camera)
  /\ WF_vars(ClkStep)
  /\ WF_vars(ClkStep /\ pc' # pc)
  /\ SF_vars(ClkStep /\ seen' = wr)
  /\ SF_vars(ClkStep /\ cnt_pixel' > cnt_pixel)
-----------------------------------------------------------------------------
(* Properties.                                                             *)

\* The types of the registers of all parts, and of the bus and the software.
TypeOK ==
  /\ dma!TypeOK /\ slave!TypeOK /\ fifo!TypeOK
  /\ bus!TypeOK /\ bus_left <= BurstLength
  /\ \A a \in DOMAIN mem : (mem[a] \in Nat \/ mem[a] = NoWord)
  /\ pc \in Steps
  /\ buffer \in Buffers
  /\ task \in [dest : Nat, num : Nat, first : Nat]
  /\ tasks \in Nat /\ resets \in Nat

\* WAITBURST starts a burst with one word less than the burst has beats
\* (dma.vhd:71), so of all its beats only the last can find the FIFO empty,
\* however long the bus stalls and however late the write pointer is seen.
UnderflowOnlyOnLastBeat ==
  current_state = "BURST" => fifo!rdusedw + cnt_burst >= BurstLength

\* A burst that was opened on the bus gets exactly the beats announced in
\* AM_BurstCount_out before the DMA leaves BURST (dma.vhd:78).
BurstWhole == current_state # "BURST" => bus_left = 0

word(i) == mem[task.dest + 4 * i]
written(i) == task.dest + 4 * i \in DOMAIN mem

\* Word i of the task's buffer is word i of the stream since the task began,
\* unless a gap in the last beat of a burst shifted what follows it.
InPlace(n) ==
  \A i \in 0 .. n - 1 :
    /\ written(i)
    /\ \/ word(i) = task.first + i
       \/ \E j \in 0 .. i : word(j) = NoWord /\ j % dma!BurstBeats = BurstLength

\* Every pixel counted by cnt_pixel is in memory, at the address its position
\* in the stream gives it: bursts neither overlap nor leave holes, whatever
\* base_addr, cnt_burst and the bus's own address counter go through.
Placement == current_state # "IDLE" => InPlace(cnt_pixel)

\* When software can read the finished flag, the whole buffer is in memory.
FinishMeansComplete == task_finished_flag => InPlace(task.num)

\* A beat only ever lands in the buffer of the task being copied.
NoStray ==
  [][\A a \in DOMAIN mem' :
       (a \notin DOMAIN mem \/ mem'[a] # mem[a]) =>
         \E i \in 0 .. task.num - 1 : a = task.dest + 4 * i]_vars

\* From the moment software has seen the flag until it has written the start
\* register again the DMA stays idle: the registers it latches are not
\* changed under it, and no task runs that nobody asked for.
QuietWhileProgrammed ==
  pc \in {"clear", "len", "dest", "start"} => current_state = "IDLE"

\* The flag is up only when the DMA is back in IDLE: it is raised by the very
\* edge that ends the task, so clearing it can never restart a live task.
FinishedMeansIdle == task_finished_flag => current_state = "IDLE"

\* The task the DMA reports as finished is the one software programmed last.
FinishedIsProgrammed ==
  pc = "clear" => task.dest = buffer.dest /\ task.num = buffer.num

\* A started task is eventually reported as finished.
StartedFinishes == pc = "poll" ~> task_finished_flag

\* The contract the DMA implements: where the next word of the task goes and
\* how many there are to come.
copying == current_state # "IDLE"
next_addr ==
  CASE ~copying -> 0
    [] current_state = "WAITBURST" -> base_addr
    [] OTHER -> dma!Wrap(base_addr + 4 * cnt_burst)
words_left == IF copying THEN reg_pixelnum - cnt_pixel ELSE 0
contract ==
  INSTANCE FrameCopy WITH
    BurstBeats <- dma!BurstBeats,
    busy <- copying,
    addr <- next_addr,
    left <- words_left,
    taken <- rd,
    finished <- task_finished_flag
ImplementsFrameCopy == contract!Spec
=============================================================================
