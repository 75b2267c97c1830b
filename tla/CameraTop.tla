----------------------------- MODULE CameraTop -----------------------------
(***************************************************************************)
(* The whole of Lab4/hw/hdl/camera_top.vhd on one clock, as                *)
(* testbench/test_CameraTop.vhd runs it: the simulated sensor, the camera  *)
(* controller, the pixel FIFO, the DMA and its registers, the bus, and     *)
(* software that takes one picture after another.                          *)
(*                                                                         *)
(* ImageTransfer lets the camera and CameraCapture lets the DMA do what    *)
(* they like; here each has the pace the other gives it.                   *)
(***************************************************************************)
EXTENDS PixelPath

CONSTANTS
  BurstLength, AddrSpace, Depth, NoWord,
  Setting,      \* the configuration of the sensor, a record by register
  Buffers,      \* addresses the pictures go to
  SyncStages,   \* edges until the read side of the FIFO sees a stored word
  MaxStall,     \* bound: cycles in a row the bus refuses a ready master
  MaxPictures,  \* bound: pictures started
  MaxResets     \* bound: pulses of nrst

\* The task is one frame: a word for each of its blocks.
BlocksPerRow == Setting["frame_width"] \div 2
Words == BlocksPerRow * (Setting["frame_height"] \div 2)

ASSUME BurstLengthAssumption == BurstLength \in 1 .. 320
ASSUME AddrSpaceAssumption == AddrSpace \in Nat
ASSUME DepthAssumption == Depth \in Nat /\ Depth > BurstLength
ASSUME BuffersAssumption ==
  \A b \in Buffers : b \in Nat /\ b + 4 * Words <= AddrSpace
ASSUME BoundsAssumption ==
  /\ SyncStages \in Nat \ {0} /\ MaxStall \in Nat
  /\ MaxPictures \in Nat /\ MaxResets \in Nat

VARIABLES
  wr, rd, seen,
  sync,         \* the write pointer on its way to the read side
  current_state, base_addr, cnt_burst, cnt_pixel, reg_pixelnum,
  start_reg, dma_len_reg, dma_dest_address, clear_task_flag,
  task_finished_flag, camera_trigger_reg, readdata,
  bus_left, bus_addr, mem,
  stall,        \* cycles the bus has just refused
  pc,           \* what software does next
  buffer,       \* where the picture it takes goes to
  pictures,     \* history: pictures started
  stream,       \* history: the words stored, in order
  done,         \* history: buffers with a finished picture
  resets        \* history: pulses of nrst

fifoVars == <<wr, rd, seen, sync>>
dmaVars == <<current_state, base_addr, cnt_burst, cnt_pixel, reg_pixelnum>>
slaveVars == <<start_reg, dma_len_reg, dma_dest_address, clear_task_flag,
               task_finished_flag, camera_trigger_reg, readdata>>
busVars == <<bus_left, bus_addr, mem, stall>>
hostVars == <<pc, buffer, pictures>>
historyVars == <<frame, stream, done, resets>>
vars == <<sensorVars, controllerVars, fifoVars, dmaVars, slaveVars, busVars,
          hostVars, historyVars>>

fifo == INSTANCE PixelFifo
dma == INSTANCE Dma
slave == INSTANCE AvalonSlaveCamera
bus == INSTANCE AvalonBus
-----------------------------------------------------------------------------
(* Signals between the parts, in the cycle that ends with the next edge.   *)

start_dma == slave!start_dma_out
start_camera == slave!start_camera_controller_out

wrfifo == controller!wrfifo(start_camera, fifo!wrfull)
data_pixel == IF fifo!rdempty THEN NoWord ELSE stream[rd + 1]

AM_write(waitrequest) == dma!AM_write_out(fifo!rdusedw, waitrequest)
DataAck(waitrequest) == dma!DataAck_out(waitrequest)

\* The bus refuses the strobe of WAITBURST and is ready in the last cycle of
\* a burst, which the DMA needs; in between it may refuse MaxStall times.
Issuing == current_state = "WAITBURST" /\ dma!Enough(fifo!rdusedw)
LastCycle == current_state = "BURST" /\ (dma!BurstFinish \/ dma!TaskFinish)
waitrequests ==
  {w \in BOOLEAN : /\ Issuing => w
                   /\ LastCycle => ~w
                   /\ current_state = "BURST" /\ w => stall < MaxStall}
-----------------------------------------------------------------------------
Init ==
  /\ sensor!Init /\ controller!Init /\ fifo!Init /\ dma!Init /\ slave!Init
  /\ bus!Init
  /\ sync = [i \in 1 .. SyncStages |-> 0]
  /\ stall = 0
  /\ pc = "len" /\ buffer \in Buffers /\ pictures = 0
  /\ frame = 0 /\ stream = << >> /\ done = {} /\ resets = 0

(* Software, in the order of test_CameraTop.vhd: it programs and starts    *)
(* the DMA and the controller, then configures and starts the sensor; when *)
(* the finished flag is up it stops the sensor and takes the next picture. *)
(* Any number of cycles may pass before each step.                         *)
Access(access, here, wanted, next) == pc = here /\ access = wanted /\ pc' = next

HostSlave(access) ==
  \/ Access(access, "len", slave!Write(1, Words), "dest") /\ UNCHANGED <<buffer, pictures>>
  \/ Access(access, "dest", slave!Write(2, buffer), "start") /\ UNCHANGED <<buffer, pictures>>
  \/ /\ pictures < MaxPictures
     /\ Access(access, "start", slave!Write(0, {0, 4}), "sensor")
     /\ pictures' = pictures + 1 /\ UNCHANGED buffer
  \/ Access(access, "poll", slave!Read(4), "check") /\ UNCHANGED <<buffer, pictures>>
  \/ Access(access, "clear", slave!Write(3, TRUE), "len")
       /\ buffer' \in Buffers /\ UNCHANGED pictures

HostSensor(command) ==
  \/ /\ pc = "sensor" /\ config # Setting /\ UNCHANGED hostVars
     /\ \E r \in sensor!registers :
          /\ config[r] # Setting[r]
          /\ command = sensor!Configure(r, Setting[r])
  \/ /\ pc = "sensor" /\ config = Setting /\ command = sensor!Start
     /\ pc' = "poll" /\ UNCHANGED <<buffer, pictures>>
  \/ /\ pc = "halt" /\ command = sensor!Stop
     /\ pc' = "clear" /\ UNCHANGED <<buffer, pictures>>

HostCheck ==
  /\ pc = "check" /\ pc' = (IF readdata = 1 THEN "halt" ELSE "poll")
  /\ UNCHANGED <<buffer, pictures>>

Host(access, command) ==
  \/ HostSlave(access) /\ command = sensor!NoCommand
  \/ HostSensor(command) /\ access = slave!NoAccess
  \/ /\ access = slave!NoAccess /\ command = sensor!NoCommand
     /\ HostCheck \/ UNCHANGED hostVars

accesses ==
  {slave!NoAccess, slave!Read(4), slave!Write(0, {0, 4}), slave!Write(3, TRUE),
   slave!Write(1, Words), slave!Write(2, buffer)}
commands ==
  {sensor!NoCommand, sensor!Start, sensor!Stop} \union
  {sensor!Configure(r, Setting[r]) : r \in sensor!registers}

(* Both sides of the pixel FIFO move, on the same edge; the write pointer  *)
(* reaches the read side through the stages of the synchroniser.           *)
PixelFifoEdge(rdreq) ==
  /\ fifo!WriteEdge(wrfifo)
  /\ fifo!ReadEdge(rdreq)
  /\ seen' = Head(sync)
  /\ sync' = Append(Tail(sync), wr)

(* History: a picture begins when its task is started, and it is done when *)
(* the flag goes up.                                                       *)
Record ==
  /\ CountFrames
  /\ stream' = IF wr' > wr THEN Append(stream, controller!wrdata(lvalid, data)) ELSE stream
  /\ done' = IF pictures' > pictures THEN done \ {buffer}
             ELSE IF task_finished_flag' /\ ~task_finished_flag THEN done \union {buffer}
             ELSE done

Clk(access, command, waitrequest) ==
  /\ Host(access, command)
  /\ sensor!ClockEdge(command)
  /\ ControllerEdge(start_camera, start_dma)
  /\ PixelFifoEdge(DataAck(waitrequest))
  /\ dma!ClockEdge(start_dma, slave!dma_dest_out, slave!dma_len_out,
                   fifo!rdusedw, waitrequest)
  /\ slave!ClockEdge(access, dma!task_end_flag_out, 0)
  /\ bus!ClockEdge(AM_write(waitrequest), waitrequest, base_addr,
                   dma!BurstBeats, data_pixel)
  /\ stall' = IF current_state = "BURST" /\ waitrequest THEN stall + 1 ELSE 0
  /\ Record
  /\ UNCHANGED resets

ClkStep ==
  \E access \in accesses, command \in commands, w \in waitrequests :
    Clk(access, command, w)

\* nrst restarts design, sensor and software, which takes its picture again;
\* a word not yet seen is lost.
Reset ==
  /\ resets < MaxResets
  /\ sensor!Reset /\ controller!Reset /\ fifo!Clear /\ dma!Reset /\ slave!Reset
  /\ bus!Reset
  /\ sync' = [i \in 1 .. SyncStages |-> wr]
  /\ stall' = 0
  /\ pc' = "len"
  /\ resets' = resets + 1
  /\ done' = {}
  /\ UNCHANGED <<buffer, pictures, frame, stream>>

Next == ClkStep \/ Reset

Spec == Init /\ [][Next]_vars

\* The clock runs, and software gets to its next step.
FairSpec ==
  /\ Spec
  /\ WF_vars(ClkStep)
  /\ WF_vars(ClkStep /\ (pc' # pc \/ config' # config))
-----------------------------------------------------------------------------
(* What the properties need of setting, bus and buffers, and no part of    *)
(* the code checks.                                                        *)

\* Frames of whole blocks, lines that fit into the colour FIFOs, blanks that
\* are not left out, and nothing a register cannot hold.
SettingAllowed ==
  /\ Setting \in [sensor!registers -> 0 .. ConfigRange - 1]
  /\ \A size \in {Setting["frame_width"], Setting["frame_height"]} :
       size % 2 = 0 /\ size > 0
  /\ BlocksPerRow <= ColourDepth
  /\ \A blank \in {"frame_frame_blank", "frame_line_blank", "line_line_blank"} :
       Setting[blank] > 0

\* Cycles a burst takes at most, with the one it is asked for in and the one
\* it is over in, and the words of two lines, a row of blocks.
BurstCost == BurstLength * (MaxStall + 1) + 3
RowCost(bursts) == bursts * BurstCost + SyncStages + 1

\* A row is a number of whole bursts; it has room in the pixel FIFO, and is in
\* memory before the first word of the next row comes, or the next frame.
InPace ==
  /\ BlocksPerRow <= Depth
  /\ \E bursts \in 1 .. BlocksPerRow :
       /\ BlocksPerRow = bursts * dma!BurstBeats
       /\ RowCost(bursts) <= Setting["frame_width"] + 2 * Setting["line_line_blank"] + 2
       /\ RowCost(bursts) <= Setting["line_frame_blank"] + Setting["frame_frame_blank"]

\* No two buffers overlap.
BuffersApart ==
  \A a, b \in Buffers : a # b => a + 4 * Words <= b \/ b + 4 * Words <= a
-----------------------------------------------------------------------------
(* Properties.                                                             *)

\* Block i of frame f, counted along the rows of blocks.
Block(f, i) ==
  BlockAt(f, 2 * (i \div BlocksPerRow) + 2, 2 * (i % BlocksPerRow) + 2)

\* A finished picture is in memory, block by block in the order of the image
\* and all of one frame, and stays so while the next ones are taken.
PictureWhole ==
  \A b \in done : \E f \in 0 .. FrameTags - 1 : \A i \in 0 .. Words - 1 :
    b + 4 * i \in DOMAIN mem /\ mem[b + 4 * i] = Block(f, i)

\* At the pace of the camera the DMA never takes a beat from an empty FIFO:
\* it starts a burst one word early, and that word is seen in time.
NeverDry == current_state = "BURST" /\ fifo!rdempty => 
  \A w \in waitrequests : ~DataAck(w)

\* At the pace of the DMA no word finds the FIFO full.
NothingDropped == fifo!wrfull => ~controller!wrfifo(start_camera, FALSE)

\* A picture that was started is finished: sensor, controller and DMA do not
\* end up waiting for each other.
PictureFinishes ==
  pc = "poll" ~> task_finished_flag \/ pc = "len"
=============================================================================
