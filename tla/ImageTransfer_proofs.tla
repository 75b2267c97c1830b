------------------------ MODULE ImageTransfer_proofs ------------------------
(***************************************************************************)
(* Proofs about ImageTransfer, for every burst length, FIFO depth, buffer  *)
(* and bus: types and supply, the handshakes, the copying, and that the    *)
(* design implements FrameCopy.                                            *)
(***************************************************************************)
EXTENDS ImageTransfer, Integers, TLAPS

USE DEF dma!state_type

-----------------------------------------------------------------------------
(* Types.                                                                  *)

\* What the bus, the DMA and its registers rely on: addresses stay below the
\* end of memory although they are written by software and added up.
Typing == TypeOK /\ dma_dest_address \in 0 .. AddrSpace - 1

LEMMA BufferTypes ==
  ASSUME NEW b \in Buffers
  PROVE b.dest \in 0 .. AddrSpace - 1 /\ b.num \in Nat
  BY BuffersAssumption, AddrSpaceAssumption, BurstLengthAssumption

LEMMA TypingInit == Init => Typing
  <1> SUFFICES ASSUME Init PROVE Typing
    OBVIOUS
  <1>1. 0 \in 0 .. AddrSpace - 1
    BY AddrSpaceAssumption, BurstLengthAssumption
  <1>2. dma!TypeOK
    BY <1>1 DEF Init, dma!Init, dma!TypeOK
  <1>3. slave!TypeOK /\ dma_dest_address \in 0 .. AddrSpace - 1
    BY <1>1 DEF Init, slave!Init, slave!TypeOK
  <1>4. fifo!TypeOK
    BY DepthAssumption DEF Init, fifo!Init, fifo!TypeOK
  <1>5. bus!TypeOK /\ bus_left <= BurstLength /\ DOMAIN mem = {}
    BY <1>1, BurstLengthAssumption DEF Init, bus!Init, bus!TypeOK
  <1>6. /\ pc \in Steps /\ buffer \in Buffers
        /\ task \in [dest : Nat, num : Nat, first : Nat]
        /\ tasks \in Nat /\ resets \in Nat
    BY DEF Init, Steps
  <1> QED
    BY <1>2, <1>3, <1>4, <1>5, <1>6 DEF Typing, TypeOK

\* A clock edge of the DMA keeps its types, with any size and any bus.
LEMMA DmaTypes ==
  ASSUME dma!TypeOK, NEW STATE on, NEW STATE at, NEW STATE num, NEW STATE size,
         NEW STATE w, at \in 0 .. AddrSpace - 1, num \in Nat,
         dma!ClockEdge(on, at, num, size, w)
  PROVE dma!TypeOK'
  <1> USE DEF dma!TypeOK
  <1>1. CASE dma!Idle(on, at, num)
    BY <1>1, AddrSpaceAssumption, BurstLengthAssumption DEF dma!Idle
  <1>2. CASE dma!WaitBurst(on, size)
    <2>1. current_state' \in dma!state_type
      BY <1>2, Zenon DEF dma!WaitBurst
    <2> QED
      BY <1>2, <2>1 DEF dma!WaitBurst
  <1>3. CASE dma!Burst(w)
    BY <1>3 DEF dma!Burst
  <1>4. CASE dma!TaskEnd
    BY <1>4, AddrSpaceAssumption, BurstLengthAssumption
    DEF dma!TaskEnd, dma!Wrap, dma!BurstBeats
  <1> QED
    BY <1>1, <1>2, <1>3, <1>4 DEF dma!ClockEdge

\* A clock edge of the registers keeps their types, for every access that
\* software makes.
LEMMA SlaveTypes ==
  ASSUME Typing, NEW access \in accesses, NEW STATE ack, NEW STATE count,
         slave!ClockEdge(access, ack, count)
  PROVE slave!TypeOK' /\ dma_dest_address' \in 0 .. AddrSpace - 1
  <1>1. buffer.dest \in 0 .. AddrSpace - 1 /\ buffer.num \in Nat
    BY BufferTypes DEF Typing, TypeOK
  <1>2. 0 \in 0 .. AddrSpace - 1
    BY AddrSpaceAssumption, BurstLengthAssumption
  <1>3. start_reg' \subseteq {0, 4}
    <2>1. slave!writes(access, 0) => access.writedata \subseteq {0, 4}
      <3>1. slave!writes(access, 0) =>
              access = slave!Write(0, {0, 4}) \/ access = slave!Write(0, {})
        BY DEF slave!writes, accesses, slave!Write, slave!Read, slave!NoAccess
      <3> QED
        BY <3>1 DEF slave!Write
    <2> QED
      BY <2>1 DEF slave!ClockEdge, slave!avalon_write, Typing, TypeOK, slave!TypeOK
  <1>4. dma_len_reg' \in Nat
    BY <1>1
    DEF slave!ClockEdge, slave!avalon_write, slave!writes, accesses, Typing,
        TypeOK, slave!TypeOK, slave!Write, slave!Read, slave!NoAccess
  <1>5. dma_dest_address' \in 0 .. AddrSpace - 1
    BY <1>1, <1>2
    DEF slave!ClockEdge, slave!avalon_write, slave!writes, accesses, Typing,
        slave!Write, slave!Read, slave!NoAccess
  <1>6. clear_task_flag' \in BOOLEAN /\ task_finished_flag' \in BOOLEAN
    BY DEF slave!ClockEdge, slave!avalon_write, slave!task_flag_setting
  <1>7. camera_trigger_reg' \in BOOLEAN
    <2>1. slave!writes(access, 5) => access.writedata \in BOOLEAN
      <3>1. slave!writes(access, 5) => access = slave!Write(5, TRUE)
        BY DEF slave!writes, accesses, slave!Write, slave!Read, slave!NoAccess
      <3>2. slave!Write(5, TRUE).writedata \in BOOLEAN
        BY Zenon DEF slave!Write
      <3> QED
        BY <3>1, <3>2
    <2> QED
      BY <2>1 DEF slave!ClockEdge, slave!avalon_write, Typing, TypeOK, slave!TypeOK
  <1> QED
    BY <1>3, <1>4, <1>5, <1>6, <1>7 DEF slave!TypeOK

\* An edge of the bus keeps its types and never expects more beats than a
\* burst has left after its first.
LEMMA BusTypes ==
  ASSUME Typing, NEW STATE write, NEW STATE w, NEW STATE beat,
         beat \in Nat \/ beat = NoWord,
         bus!ClockEdge(write, w, base_addr, dma!BurstBeats, beat)
  PROVE /\ bus!TypeOK' /\ bus_left' <= BurstLength
        /\ \A a \in DOMAIN mem' : (mem'[a] \in Nat \/ mem'[a] = NoWord)
  <1> USE DEF Typing, TypeOK, bus!TypeOK
  <1>1. CASE write /\ ~w
    <2>1. bus!Accept(base_addr, dma!BurstBeats, beat)
      BY <1>1 DEF bus!ClockEdge
    <2> DEFINE at == IF bus_left = 0 THEN base_addr ELSE bus_addr
    <2>2. at \in 0 .. AddrSpace - 1
      BY DEF dma!TypeOK
    <2>3. mem' = [a \in DOMAIN mem \union {at} |-> IF a = at THEN beat ELSE mem[a]]
      BY <2>1 DEF bus!Accept
    <2>4. bus_addr' \in 0 .. AddrSpace - 1
      BY <2>1, <2>2, AddrSpaceAssumption, BurstLengthAssumption DEF bus!Accept
    <2>5. bus_left' \in Nat /\ bus_left' <= BurstLength
      BY <2>1, BurstLengthAssumption DEF bus!Accept, dma!BurstBeats
    <2> HIDE DEF at
    <2> QED
      BY <2>2, <2>3, <2>4, <2>5
  <1>2. CASE ~(write /\ ~w)
    BY <1>2 DEF bus!ClockEdge, bus!vars
  <1> QED
    BY <1>1, <1>2

LEMMA HostTypes ==
  ASSUME Typing, NEW access \in accesses, Host(access)
  PROVE pc' \in Steps /\ buffer' \in Buffers /\ tasks' \in Nat
  <1> USE DEF Typing, TypeOK
  <1>1. CASE HostIdle(access)
    BY <1>1 DEF HostIdle, hostVars
  <1>2. CASE HostProgram(access)
    BY <1>2 DEF HostProgram, HostWrites, Steps
  <1>3. CASE HostPoll(access)
    BY <1>3 DEF HostPoll, HostWrites, Steps
  <1>4. CASE HostAbort(access)
    BY <1>4 DEF HostAbort, HostWrites, Steps
  <1>5. CASE HostTrigger(access)
    BY <1>5 DEF HostTrigger, hostVars
  <1> QED
    BY <1>1, <1>2, <1>3, <1>4, <1>5 DEF Host

LEMMA TypingStep == Typing /\ [Next]_vars => Typing'
  <1> SUFFICES ASSUME Typing, [Next]_vars PROVE Typing'
    OBVIOUS
  <1>1. CASE ClkStep
    <2>1. PICK access \in accesses, w \in waitrequests : Clk(access, w)
      BY <1>1 DEF ClkStep
    <2> DEFINE ack == DataAck(w)
    <2> DEFINE write == AM_write(w)
    <2>2. slave!dma_dest_out \in 0 .. AddrSpace - 1 /\ slave!dma_len_out \in Nat
      BY DEF Typing, TypeOK, slave!TypeOK, slave!dma_dest_out, slave!dma_len_out
    <2>3. dma!TypeOK'
      BY <2>1, <2>2, DmaTypes DEF Clk, Typing, TypeOK
    <2>4. slave!TypeOK' /\ dma_dest_address' \in 0 .. AddrSpace - 1
      BY <2>1, SlaveTypes DEF Clk
    <2>5. fifo!ReadEdge(ack) /\ wr' = wr
      BY <2>1 DEF Clk
    <2>6. fifo!TypeOK'
      BY <2>5, DepthAssumption
      DEF Typing, TypeOK, fifo!TypeOK, fifo!ReadEdge, fifo!rdempty
    <2>7. data_pixel \in Nat \/ data_pixel = NoWord
      BY DEF data_pixel, Typing, TypeOK, fifo!TypeOK
    <2>8. bus!ClockEdge(write, w, base_addr, dma!BurstBeats, data_pixel)
      BY <2>1 DEF Clk
    <2>9. /\ bus!TypeOK' /\ bus_left' <= BurstLength
          /\ \A a \in DOMAIN mem' : (mem'[a] \in Nat \/ mem'[a] = NoWord)
      BY <2>7, <2>8, BusTypes
    <2>10. pc' \in Steps /\ buffer' \in Buffers /\ tasks' \in Nat
      BY <2>1, HostTypes DEF Clk
    <2>11. task' \in [dest : Nat, num : Nat, first : Nat]
      BY <2>1, <2>2 DEF Clk, Record, Typing, TypeOK, fifo!TypeOK
    <2>12. resets' \in Nat
      BY <2>1 DEF Clk, Typing, TypeOK
    <2> QED
      BY <2>3, <2>4, <2>6, <2>9, <2>10, <2>11, <2>12 DEF Typing, TypeOK
  <1>2. CASE Camera
    <2>1. fifo!TypeOK'
      BY <1>2, DepthAssumption
      DEF Camera, fifo!WriteEdge, fifo!wrfull, Typing, TypeOK, fifo!TypeOK
    <2> QED
      BY <1>2, <2>1
      DEF Camera, Typing, TypeOK, dmaVars, slaveVars, busVars, hostVars,
          dma!TypeOK, slave!TypeOK, bus!TypeOK
  <1>3. CASE Reset
    <2>1. 0 \in 0 .. AddrSpace - 1
      BY AddrSpaceAssumption, BurstLengthAssumption
    <2>2. dma!TypeOK'
      BY <1>3, <2>1 DEF Reset, dma!Reset, dma!TypeOK
    <2>3. slave!TypeOK' /\ dma_dest_address' \in 0 .. AddrSpace - 1
      BY <1>3, <2>1 DEF Reset, slave!Reset, Typing, TypeOK, slave!TypeOK
    <2>4. fifo!TypeOK'
      BY <1>3, DepthAssumption DEF Reset, fifo!Clear, Typing, TypeOK, fifo!TypeOK
    <2>5. /\ bus!TypeOK' /\ bus_left' <= BurstLength
          /\ \A a \in DOMAIN mem' : (mem'[a] \in Nat \/ mem'[a] = NoWord)
      BY <1>3, BurstLengthAssumption DEF Reset, bus!Reset, Typing, TypeOK, bus!TypeOK
    <2>6. /\ pc' \in Steps /\ buffer' \in Buffers /\ tasks' \in Nat
          /\ task' \in [dest : Nat, num : Nat, first : Nat] /\ resets' \in Nat
      BY <1>3 DEF Reset, Steps, Typing, TypeOK
    <2> QED
      BY <2>2, <2>3, <2>4, <2>5, <2>6 DEF Typing, TypeOK
  <1>4. CASE UNCHANGED vars
    BY <1>4
    DEF vars, Typing, TypeOK, dmaVars, slaveVars, fifoVars, busVars, hostVars,
        dma!TypeOK, slave!TypeOK, fifo!TypeOK, bus!TypeOK
  <1> QED
    BY <1>1, <1>2, <1>3, <1>4 DEF Next

\* No register, pointer or address of the system clock's side leaves its
\* range, and the FIFO never holds more words than it has room for.
THEOREM TypeCorrect == Spec => []TypeOK
  <1>1. Typing => TypeOK
    BY DEF Typing
  <1> QED
    BY <1>1, TypingInit, TypingStep, PTL DEF Spec

-----------------------------------------------------------------------------
(* Underflow.                                                              *)

\* The counters a burst and the FIFO keep of each other.
BurstSupplied ==
  /\ wr \in Nat /\ rd \in Nat /\ seen \in Nat
  /\ rd <= seen /\ seen <= wr
  /\ cnt_burst \in Nat
  /\ current_state = "BURST" =>
       /\ cnt_burst <= BurstLength
       /\ seen - rd + cnt_burst >= BurstLength

\* The FIFO never loses words while a burst runs: a step of the read side
\* takes at most one, and only brings more.
LEMMA ReadEdgeBounds ==
  ASSUME BurstSupplied, NEW STATE rdreq, fifo!ReadEdge(rdreq)
  PROVE  /\ seen' \in Nat /\ seen <= seen' /\ seen' <= wr
         /\ rd' = rd \/ (rd' = rd + 1 /\ rd < seen)
  <1>1. seen' \in seen .. wr
    BY DEF fifo!ReadEdge
  <1>2. rd' = rd \/ (rd' = rd + 1 /\ rd # seen)
    BY DEF fifo!ReadEdge, fifo!rdempty
  <1> QED
    BY <1>1, <1>2 DEF BurstSupplied

LEMMA BurstSuppliedInit == Init => BurstSupplied
  BY BurstLengthAssumption DEF Init, dma!Init, fifo!Init, BurstSupplied

LEMMA BurstSuppliedStep == BurstSupplied /\ [Next]_vars => BurstSupplied'
  <1> SUFFICES ASSUME BurstSupplied, [Next]_vars PROVE BurstSupplied'
    OBVIOUS
  <1> USE BurstLengthAssumption
  <1>1. CASE ClkStep
    <2>1. PICK access \in accesses, w \in waitrequests : Clk(access, w)
      BY <1>1 DEF ClkStep
    <2> DEFINE ack == DataAck(w)
    <2>2. fifo!ReadEdge(ack) /\ wr' = wr
      BY <2>1 DEF Clk
    <2>3. current_state # "BURST" \/ w => rd' = rd
      BY <2>2 DEF fifo!ReadEdge, DataAck, dma!DataAck_out
    <2>5. /\ wr' = wr
          /\ seen' \in Nat /\ seen <= seen' /\ seen' <= wr
          /\ rd' = rd \/ (rd' = rd + 1 /\ rd < seen)
      BY <2>2, ReadEdgeBounds
    <2>6. dma!ClockEdge(enable, slave!dma_dest_out, slave!dma_len_out,
                        fifo!rdusedw, w)
      BY <2>1 DEF Clk
    <2>7. CASE dma!Idle(enable, slave!dma_dest_out, slave!dma_len_out)
      BY <2>5, <2>7 DEF dma!Idle, BurstSupplied
    <2>8. CASE dma!WaitBurst(enable, fifo!rdusedw)
      BY <2>3, <2>5, <2>8
      DEF dma!WaitBurst, dma!Enough, fifo!rdusedw, BurstSupplied
    <2>9. CASE dma!Burst(w)
      BY <2>3, <2>5, <2>9 DEF dma!Burst, dma!BurstFinish, BurstSupplied
    <2>10. CASE dma!TaskEnd
      BY <2>5, <2>10 DEF dma!TaskEnd, BurstSupplied
    <2> QED
      BY <2>6, <2>7, <2>8, <2>9, <2>10 DEF dma!ClockEdge
  <1>2. CASE Camera
    BY <1>2 DEF Camera, fifo!WriteEdge, dmaVars, BurstSupplied
  <1>3. CASE Reset
    BY <1>3 DEF Reset, dma!Reset, fifo!Clear, BurstSupplied
  <1>4. CASE UNCHANGED vars
    BY <1>4 DEF vars, dmaVars, fifoVars, BurstSupplied
  <1> QED
    BY <1>1, <1>2, <1>3, <1>4 DEF Next

\* The threshold of dma.vhd:71 is one short of a burst, and that costs at
\* most the burst's last word, whatever the bus and the camera do.
THEOREM NoUnderflowBeforeLastBeat == Spec => []UnderflowOnlyOnLastBeat
  <1>1. BurstSupplied => UnderflowOnlyOnLastBeat
    BY DEF BurstSupplied, UnderflowOnlyOnLastBeat, fifo!rdusedw
  <1> QED
    BY <1>1, BurstSuppliedInit, BurstSuppliedStep, PTL DEF Spec

-----------------------------------------------------------------------------
(***************************************************************************)
(* Proofs about the handshakes of ImageTransfer: software with the         *)
(* register file, the register file with the DMA, and the DMA with the     *)
(* bus, for every burst length, memory, camera and order of the accesses.  *)
(*                                                                         *)
(* They hold under the rules the design needs from its surroundings.       *)
(***************************************************************************)

\* A whole number of bursts.
Whole(n) == \E k \in Nat : n = k * dma!BurstBeats

\* The bus leaves the first strobe of a burst alone and takes its last beat
\* at once, tasks are made of whole bursts, and software leaves the trigger
\* alone while a task may end.
Discipline ==
  /\ StallsIssue /\ ReadyAtEnd
  /\ \A b \in Buffers : Whole(b.num)
  /\ TriggerAt \cap {"poll", "check", "drain"} = {}

-----------------------------------------------------------------------------
(* The inductive invariant, part by part.                                  *)

waiting == pc \in {"poll", "check"}
started == 4 \in start_reg

\* Where the DMA is in its task and in its burst, and what the bus still
\* expects of it.
Bursts ==
  /\ current_state \in {"IDLE", "WAITBURST", "TASKEND"} => bus_left = 0
  /\ current_state = "WAITBURST" =>
       cnt_pixel < reg_pixelnum /\ Whole(reg_pixelnum - cnt_pixel)
  /\ current_state = "BURST" =>
       /\ cnt_burst <= BurstLength
       /\ bus_left = (IF cnt_burst = 0 THEN 0 ELSE dma!BurstBeats - cnt_burst)
       /\ cnt_pixel < reg_pixelnum
       /\ Whole(reg_pixelnum - cnt_pixel + cnt_burst)
  /\ current_state = "TASKEND" =>
       cnt_pixel <= reg_pixelnum /\ Whole(reg_pixelnum - cnt_pixel)

\* The start bit is up only while software waits for the task it has
\* programmed, and the registers then hold that task.
Programmed ==
  /\ started => waiting /\ dma_len_reg = buffer.num /\ dma_dest_address = buffer.dest
  /\ pc \in {"dest", "start"} => dma_len_reg = buffer.num
  /\ pc = "start" => dma_dest_address = buffer.dest

\* Whatever tells software that a task is over, it is: the start bit is down
\* and the DMA rests.
Over ==
  \/ task_finished_flag
  \/ pc = "check" /\ readdata = 1
  \/ pc \in {"clear", "len", "dest", "start"}
Rests == Over => ~started /\ current_state = "IDLE"

\* The flag is down again before the next task can be started.
Cleared ==
  /\ pc = "len" => ~task_finished_flag \/ clear_task_flag
  /\ pc \in {"dest", "start"} => ~task_finished_flag

\* Once started, the task the DMA latched is the one software programmed.
Taken ==
  pc \in {"poll", "check", "drain", "clear"} =>
    \/ task.dest = buffer.dest /\ task.num = buffer.num
    \/ started /\ current_state = "IDLE"

Handshake == Typing /\ Bursts /\ Programmed /\ Rests /\ Cleared /\ Taken

-----------------------------------------------------------------------------
(* Whole numbers of bursts.                                                *)

LEMMA WholeStep ==
  ASSUME NEW n \in Int, Whole(n), n > 0
  PROVE n >= dma!BurstBeats /\ Whole(n - dma!BurstBeats)
  <1>1. PICK k \in Nat : n = k * dma!BurstBeats
    BY DEF Whole
  <1>2. dma!BurstBeats \in Nat /\ dma!BurstBeats > 0
    BY BurstLengthAssumption DEF dma!BurstBeats
  <1>3. k # 0
    BY <1>1, <1>2
  <1>4. k - 1 \in Nat /\ n - dma!BurstBeats = (k - 1) * dma!BurstBeats
    BY <1>1, <1>2, <1>3
  <1>5. (k - 1) * dma!BurstBeats >= 0
    BY <1>2, <1>4
  <1> QED
    BY <1>2, <1>4, <1>5 DEF Whole

-----------------------------------------------------------------------------
(* One edge of the register file.                                          *)

\* What an access does to the registers, in a cycle with or without the
\* acknowledgement of a finished task.
LEMMA AccessEffect ==
  ASSUME NEW access \in accesses, NEW STATE ack, ack \in BOOLEAN,
         task_finished_flag \in BOOLEAN, clear_task_flag \in BOOLEAN,
         slave!ClockEdge(access, ack, 0)
  PROVE
    /\ access \in {slave!NoAccess, slave!Read(4)} =>
         /\ ack => start_reg' = {}
         /\ ~ack => /\ start_reg' = start_reg /\ dma_len_reg' = dma_len_reg
                    /\ dma_dest_address' = dma_dest_address
    /\ access \notin {slave!NoAccess, slave!Read(4)} =>
         /\ start_reg' = (IF slave!writes(access, 0) THEN access.writedata ELSE start_reg)
         /\ dma_len_reg' = (IF slave!writes(access, 1) THEN access.writedata ELSE dma_len_reg)
         /\ dma_dest_address' =
              (IF slave!writes(access, 2) THEN access.writedata ELSE dma_dest_address)
    /\ access = slave!Write(3, TRUE) => clear_task_flag'
    /\ access = slave!Read(4) => readdata' = slave!bit(task_finished_flag)
    /\ access # slave!Read(4) => readdata' = readdata
    /\ task_finished_flag' <=> ack \/ (task_finished_flag /\ ~clear_task_flag)
  <1> USE DEF slave!ClockEdge
  <1>1. \/ access \in {slave!NoAccess, slave!Read(4)} /\ access.op # "write"
        \/ access \notin {slave!NoAccess, slave!Read(4)} /\ access.op = "write"
    BY DEF accesses, slave!NoAccess, slave!Read, slave!Write
  <1>2. access \in {slave!NoAccess, slave!Read(4)} =>
         /\ ack => start_reg' = {}
         /\ ~ack => /\ start_reg' = start_reg /\ dma_len_reg' = dma_len_reg
                    /\ dma_dest_address' = dma_dest_address
    BY <1>1 DEF slave!avalon_write, slave!writes
  <1>3. access \notin {slave!NoAccess, slave!Read(4)} =>
         /\ start_reg' = (IF slave!writes(access, 0) THEN access.writedata ELSE start_reg)
         /\ dma_len_reg' = (IF slave!writes(access, 1) THEN access.writedata ELSE dma_len_reg)
         /\ dma_dest_address' =
              (IF slave!writes(access, 2) THEN access.writedata ELSE dma_dest_address)
    BY <1>1 DEF slave!avalon_write
  <1>4. access = slave!Write(3, TRUE) => clear_task_flag'
    <2>1. slave!Write(3, TRUE).op = "write" /\ slave!Write(3, TRUE).address = 3
          /\ slave!Write(3, TRUE).writedata
      BY Zenon DEF slave!Write
    <2> QED
      BY <2>1, Zenon DEF slave!avalon_write, slave!writes
  <1>5. access = slave!Read(4) => readdata' = slave!bit(task_finished_flag)
    BY DEF slave!avalon_read, slave!Read
  <1>6. access # slave!Read(4) => readdata' = readdata
    BY DEF slave!avalon_read, accesses, slave!Read, slave!Write, slave!NoAccess
  <1>7. task_finished_flag' <=> ack \/ (task_finished_flag /\ ~clear_task_flag)
    BY Zenon DEF slave!task_flag_setting
  <1> QED
    BY <1>2, <1>3, <1>4, <1>5, <1>6, <1>7

-----------------------------------------------------------------------------
(* One edge of the DMA and the bus.                                        *)

\* A beat that is taken uses up one of those the bus expects; without a
\* strobe, or while the bus stalls, it expects what it did.
LEMMA BeatEffect ==
  ASSUME Typing, NEW STATE write, NEW STATE w, NEW STATE beat,
         bus!ClockEdge(write, w, base_addr, dma!BurstBeats, beat)
  PROVE /\ ~write \/ w => bus_left' = bus_left
        /\ write /\ ~w =>
             bus_left' = (IF bus_left = 0 THEN dma!BurstBeats ELSE bus_left) - 1
  <1>1. ~write \/ w => bus_left' = bus_left
    BY DEF bus!ClockEdge, bus!vars
  <1>2. write /\ ~w =>
          bus_left' = (IF bus_left = 0 THEN dma!BurstBeats ELSE bus_left) - 1
    BY DEF bus!ClockEdge, bus!Accept
  <1> QED
    BY <1>1, <1>2

LEMMA BurstsStep ==
  ASSUME Discipline, Handshake, NEW access \in accesses, NEW w \in waitrequests,
         Clk(access, w)
  PROVE Bursts'
  <1> DEFINE write == AM_write(w)
  <1> DEFINE beat == data_pixel
  <1> USE BurstLengthAssumption
  <1>1. Typing /\ Bursts /\ Programmed /\ Rests
    BY DEF Handshake
  <1>2. /\ bus_left \in Nat /\ cnt_burst \in Nat /\ cnt_pixel \in Nat
        /\ reg_pixelnum \in Nat
    BY <1>1 DEF Typing, TypeOK, dma!TypeOK, bus!TypeOK
  <1>3. dma!ClockEdge(enable, slave!dma_dest_out, slave!dma_len_out,
                      fifo!rdusedw, w)
    BY DEF Clk
  <1>4. /\ ~write \/ w => bus_left' = bus_left
        /\ write /\ ~w =>
             bus_left' = (IF bus_left = 0 THEN dma!BurstBeats ELSE bus_left) - 1
    <2>1. bus!ClockEdge(write, w, base_addr, dma!BurstBeats, beat)
      BY DEF Clk
    <2> HIDE DEF write, beat
    <2> QED
      BY <1>1, <2>1, BeatEffect
  <1>5. CASE dma!Idle(enable, slave!dma_dest_out, slave!dma_len_out)
    <2>1. ~write
      BY <1>5 DEF dma!Idle, AM_write, dma!AM_write_out
    <2>2. bus_left' = 0
      BY <1>1, <1>4, <1>5, <2>1 DEF dma!Idle, Bursts
    <2>3. CASE enable
      <3>1. reg_pixelnum' = buffer.num /\ cnt_pixel' = 0 /\ current_state' = "WAITBURST"
        BY <1>1, <1>5, <2>3
        DEF dma!Idle, enable, slave!start_dma_out, slave!dma_len_out, Programmed, started
      <3>2. buffer \in Buffers /\ buffer.num \in Nat \ {0}
        BY <1>1, BuffersAssumption DEF Typing, TypeOK
      <3>3. Whole(buffer.num - 0)
        BY <3>2 DEF Discipline
      <3> QED
        BY <2>2, <3>1, <3>2, <3>3 DEF Bursts
    <2>4. CASE ~enable
      BY <1>5, <2>2, <2>4 DEF dma!Idle, Bursts
    <2> QED
      BY <2>3, <2>4
  <1>6. CASE dma!WaitBurst(enable, fifo!rdusedw)
    <2>1. bus_left' = 0
      <3>1. dma!Enough(fifo!rdusedw) => w
        BY <1>6 DEF waitrequests, Issuing, Discipline, dma!WaitBurst
      <3>2. ~dma!Enough(fifo!rdusedw) => ~write
        BY <1>6 DEF AM_write, dma!AM_write_out, dma!WaitBurst
      <3> QED
        BY <1>1, <1>4, <1>6, <3>1, <3>2 DEF dma!WaitBurst, Bursts
    <2>2. current_state' \in {"IDLE", "BURST", "WAITBURST"}
      BY <1>6, Zenon DEF dma!WaitBurst
    <2>3. /\ cnt_burst' = 0 /\ cnt_pixel' = cnt_pixel /\ reg_pixelnum' = reg_pixelnum
          /\ current_state = "WAITBURST"
      BY <1>6 DEF dma!WaitBurst
    <2>4. cnt_pixel < reg_pixelnum /\ Whole(reg_pixelnum - cnt_pixel)
      BY <1>1, <2>3 DEF Bursts
    <2>5. reg_pixelnum - cnt_pixel + 0 = reg_pixelnum - cnt_pixel
      BY <1>2
    <2> QED
      BY <1>2, <2>1, <2>2, <2>3, <2>4, <2>5 DEF Bursts
  <1>7. CASE dma!Burst(w)
    <2>1. /\ current_state = "BURST" /\ cnt_burst <= BurstLength
          /\ bus_left = (IF cnt_burst = 0 THEN 0 ELSE dma!BurstBeats - cnt_burst)
          /\ cnt_pixel < reg_pixelnum
          /\ Whole(reg_pixelnum - cnt_pixel + cnt_burst)
          /\ reg_pixelnum' = reg_pixelnum
      BY <1>1, <1>7 DEF dma!Burst, Bursts
    <2>2. ~dma!TaskFinish
      BY <1>2, <2>1 DEF dma!TaskFinish
    <2>3. CASE w
      <3>1. ~dma!BurstFinish
        BY <2>1, <2>3 DEF waitrequests, LastCycle, Discipline
      <3>2. /\ current_state' = "BURST" /\ cnt_burst' = cnt_burst
            /\ cnt_pixel' = cnt_pixel /\ bus_left' = bus_left
        BY <1>4, <1>7, <2>2, <2>3, <3>1 DEF dma!Burst
      <3> QED
        BY <2>1, <3>2 DEF Bursts
    <2>4. CASE ~w
      <3>1. write
        BY <2>1, <2>4 DEF AM_write, dma!AM_write_out
      <3>2. cnt_burst' = cnt_burst + 1 /\ cnt_pixel' = cnt_pixel + 1
        BY <1>7, <2>4 DEF dma!Burst
      <3>3. bus_left' = BurstLength - cnt_burst
        BY <1>2, <1>4, <2>1, <2>4, <3>1 DEF dma!BurstBeats
      <3> DEFINE rest == reg_pixelnum - cnt_pixel + cnt_burst
      <3>4. rest >= dma!BurstBeats /\ Whole(rest - dma!BurstBeats)
        <4>1. rest \in Int /\ rest > 0 /\ Whole(rest)
          BY <1>2, <2>1
        <4> HIDE DEF rest
        <4> QED
          BY <4>1, WholeStep
      <3>5. CASE dma!BurstFinish
        <4>1. current_state' = "TASKEND"
          BY <1>7, <3>5 DEF dma!Burst
        <4>2. rest - dma!BurstBeats = reg_pixelnum' - cnt_pixel'
          BY <1>2, <2>1, <3>2, <3>5 DEF dma!BurstFinish, dma!BurstBeats
        <4>3. Whole(reg_pixelnum' - cnt_pixel')
          BY <3>4, <4>2
        <4>4. bus_left' = 0 /\ cnt_pixel' <= reg_pixelnum'
          BY <1>2, <2>1, <3>2, <3>3, <3>5 DEF dma!BurstFinish
        <4> QED
          BY <4>1, <4>3, <4>4 DEF Bursts
      <3>6. CASE ~dma!BurstFinish
        <4>1. current_state' = "BURST"
          BY <1>7, <2>2, <3>6 DEF dma!Burst
        <4>2. cnt_burst' <= BurstLength /\ cnt_burst' # 0
          BY <1>2, <2>1, <3>2, <3>6 DEF dma!BurstFinish
        <4>3. bus_left' = dma!BurstBeats - cnt_burst'
          BY <1>2, <3>2, <3>3 DEF dma!BurstBeats
        <4>4. cnt_pixel' < reg_pixelnum'
          BY <1>2, <2>1, <3>2, <3>4, <4>2 DEF dma!BurstBeats
        <4>5. reg_pixelnum' - cnt_pixel' + cnt_burst' = rest
          BY <1>2, <2>1, <3>2
        <4>6. Whole(reg_pixelnum' - cnt_pixel' + cnt_burst')
          BY <2>1, <4>5
        <4> HIDE DEF rest
        <4> QED
          BY <4>1, <4>2, <4>3, <4>4, <4>6 DEF Bursts
      <3> QED
        BY <3>5, <3>6
    <2> QED
      BY <2>3, <2>4
  <1>8. CASE dma!TaskEnd
    <2>1. ~write
      BY <1>8 DEF dma!TaskEnd, AM_write, dma!AM_write_out
    <2>2. bus_left' = 0
      BY <1>1, <1>4, <1>8, <2>1 DEF dma!TaskEnd, Bursts
    <2>3. cnt_pixel <= reg_pixelnum /\ Whole(reg_pixelnum - cnt_pixel)
      BY <1>1, <1>8 DEF dma!TaskEnd, Bursts
    <2> QED
      BY <1>2, <1>8, <2>2, <2>3 DEF dma!TaskEnd, dma!TaskFinish, Bursts
  <1> QED
    BY <1>3, <1>5, <1>6, <1>7, <1>8 DEF dma!ClockEdge

-----------------------------------------------------------------------------
(* One edge of the software.                                               *)

\* In a cycle without a write the registers keep the task, unless the DMA
\* acknowledges it.
Kept ==
  /\ flag_task_end => start_reg' = {}
  /\ ~flag_task_end => /\ start_reg' = start_reg /\ dma_len_reg' = dma_len_reg
                       /\ dma_dest_address' = dma_dest_address

\* The steps of the software, by what they leave in the registers.
Waits == pc' = pc /\ buffer' = buffer /\ Kept /\ readdata' = readdata
Polls ==
  /\ pc = "poll" /\ pc' = "check" /\ buffer' = buffer /\ Kept
  /\ readdata' = slave!bit(task_finished_flag)
Checks ==
  /\ pc = "check" /\ pc' = (IF readdata = 1 THEN "clear" ELSE "poll")
  /\ buffer' = buffer /\ Kept
Drains ==
  /\ pc = "drain" /\ current_state = "IDLE" /\ pc' = "clear"
  /\ buffer' = buffer /\ Kept
Aborts == pc = "poll" /\ pc' = "drain" /\ buffer' = buffer /\ start_reg' = {}
WritesLen ==
  /\ pc = "len" /\ pc' = "dest" /\ buffer' = buffer
  /\ dma_len_reg' = buffer.num /\ start_reg' = start_reg
WritesDest ==
  /\ pc = "dest" /\ pc' = "start" /\ buffer' = buffer
  /\ dma_dest_address' = buffer.dest
  /\ dma_len_reg' = dma_len_reg /\ start_reg' = start_reg
Starts ==
  /\ pc = "start" /\ pc' = "poll" /\ buffer' = buffer /\ start_reg' = {0, 4}
  /\ dma_len_reg' = dma_len_reg /\ dma_dest_address' = dma_dest_address
Clears == pc = "clear" /\ pc' = "len" /\ start_reg' = start_reg /\ clear_task_flag'
Triggers ==
  /\ pc \in {"len", "dest", "start", "clear"} /\ pc' = pc /\ buffer' = buffer
  /\ start_reg' = start_reg /\ dma_len_reg' = dma_len_reg
  /\ dma_dest_address' = dma_dest_address

LEMMA HostSteps ==
  ASSUME Discipline, Typing, NEW access \in accesses, NEW w \in waitrequests,
         Clk(access, w)
  PROVE
    /\ \/ Waits \/ Polls \/ Checks \/ Drains \/ Aborts \/ WritesLen
       \/ WritesDest \/ Starts \/ Clears \/ Triggers
    /\ task_finished_flag' <=>
         flag_task_end \/ (task_finished_flag /\ ~clear_task_flag)
  <1> DEFINE ack == flag_task_end
  <1>1. slave!ClockEdge(access, ack, 0) /\ Host(access)
    BY DEF Clk
  <1>2. ack \in BOOLEAN
    BY DEF flag_task_end, dma!task_end_flag_out, dma!TaskFinish
  <1>3. task_finished_flag \in BOOLEAN /\ clear_task_flag \in BOOLEAN
    BY DEF Typing, TypeOK, slave!TypeOK
  <1>4. /\ access \in {slave!NoAccess, slave!Read(4)} =>
             /\ ack => start_reg' = {}
             /\ ~ack => /\ start_reg' = start_reg /\ dma_len_reg' = dma_len_reg
                        /\ dma_dest_address' = dma_dest_address
        /\ access \notin {slave!NoAccess, slave!Read(4)} =>
             /\ start_reg' = (IF slave!writes(access, 0) THEN access.writedata ELSE start_reg)
             /\ dma_len_reg' = (IF slave!writes(access, 1) THEN access.writedata ELSE dma_len_reg)
             /\ dma_dest_address' =
                  (IF slave!writes(access, 2) THEN access.writedata ELSE dma_dest_address)
        /\ access = slave!Write(3, TRUE) => clear_task_flag'
        /\ access = slave!Read(4) => readdata' = slave!bit(task_finished_flag)
        /\ access # slave!Read(4) => readdata' = readdata
        /\ task_finished_flag' <=> ack \/ (task_finished_flag /\ ~clear_task_flag)
    <2> HIDE DEF ack
    <2> QED
      BY <1>1, <1>2, <1>3, AccessEffect, Zenon
  <1>5. access \in {slave!NoAccess, slave!Read(4)} => Kept
    BY <1>4 DEF Kept
  <1>6. ASSUME NEW a, NEW d, access = slave!Write(a, d)
        PROVE access \notin {slave!NoAccess, slave!Read(4)} /\ access # slave!Read(4)
              /\ access.writedata = d /\ \A b : slave!writes(access, b) <=> a = b
    BY <1>6 DEF slave!Write, slave!Read, slave!NoAccess, slave!writes
  <1>7. slave!NoAccess # slave!Read(4)
    BY DEF slave!NoAccess, slave!Read
  <1>8. CASE HostIdle(access)
    <2>1. Waits
      BY <1>4, <1>5, <1>7, <1>8 DEF HostIdle, hostVars, Waits
    <2> QED
      BY <1>4, <2>1
  <1>9. CASE HostProgram(access)
    <2>1. CASE access = slave!Write(1, buffer.num) /\ pc = "len" /\ pc' = "dest"
               /\ buffer' = buffer
      <3>1. WritesLen
        BY <1>4, <1>6, <2>1 DEF WritesLen
      <3> QED
        BY <1>4, <3>1
    <2>2. CASE access = slave!Write(2, buffer.dest) /\ pc = "dest" /\ pc' = "start"
               /\ buffer' = buffer
      <3>1. WritesDest
        BY <1>4, <1>6, <2>2 DEF WritesDest
      <3> QED
        BY <1>4, <3>1
    <2>3. CASE access = slave!Write(0, {0, 4}) /\ pc = "start" /\ pc' = "poll"
               /\ buffer' = buffer
      <3>1. Starts
        BY <1>4, <1>6, <2>3 DEF Starts
      <3> QED
        BY <1>4, <3>1
    <2> QED
      BY <1>9, <2>1, <2>2, <2>3 DEF HostProgram, HostWrites
  <1>10. CASE HostPoll(access)
    <2>1. CASE access = slave!Read(4) /\ pc = "poll" /\ pc' = "check" /\ buffer' = buffer
      <3>1. Polls
        BY <1>4, <1>5, <2>1 DEF Polls
      <3> QED
        BY <1>4, <3>1
    <2>2. CASE access = slave!NoAccess /\ pc = "check" /\ buffer' = buffer
               /\ pc' = (IF readdata = 1 THEN "clear" ELSE "poll")
      <3>1. Checks
        BY <1>5, <2>2 DEF Checks
      <3> QED
        BY <1>4, <3>1
    <2>3. CASE access = slave!Write(3, TRUE) /\ pc = "clear" /\ pc' = "len"
      <3>1. access \notin {slave!NoAccess, slave!Read(4)} /\ ~slave!writes(access, 0)
        BY <2>3 DEF slave!Write, slave!Read, slave!NoAccess, slave!writes
      <3>2. start_reg' = start_reg
        BY <1>4, <3>1
      <3>3. Clears
        BY <1>4, <2>3, <3>2, Zenon DEF Clears
      <3> QED
        BY <1>4, <3>3
    <2> QED
      BY <1>10, <2>1, <2>2, <2>3 DEF HostPoll, HostWrites
  <1>11. CASE HostAbort(access)
    <2>1. CASE access = slave!Write(0, {}) /\ pc = "poll" /\ pc' = "drain" /\ buffer' = buffer
      <3>1. Aborts
        BY <1>4, <1>6, <2>1 DEF Aborts
      <3> QED
        BY <1>4, <3>1
    <2>2. CASE access = slave!NoAccess /\ pc = "drain" /\ current_state = "IDLE"
               /\ pc' = "clear" /\ buffer' = buffer
      <3>1. Drains
        BY <1>5, <2>2 DEF Drains
      <3> QED
        BY <1>4, <3>1
    <2> QED
      BY <1>11, <2>1, <2>2 DEF HostAbort, HostWrites
  <1>12. CASE HostTrigger(access)
    <2>1. access = slave!Write(5, TRUE) /\ pc' = pc /\ buffer' = buffer
          /\ pc \in {"len", "dest", "start", "clear"}
      BY <1>12, SwitchesAssumption DEF HostTrigger, hostVars, Discipline, Steps
    <2>2. access \notin {slave!NoAccess, slave!Read(4)} /\ ~slave!writes(access, 0)
          /\ ~slave!writes(access, 1) /\ ~slave!writes(access, 2)
      BY <2>1 DEF slave!Write, slave!Read, slave!NoAccess, slave!writes
    <2>3. start_reg' = start_reg /\ dma_len_reg' = dma_len_reg
          /\ dma_dest_address' = dma_dest_address
      BY <1>4, <2>2
    <2>4. Triggers
      BY <2>1, <2>3 DEF Triggers
    <2> QED
      BY <1>4, <2>4
  <1> QED
    BY <1>1, <1>8, <1>9, <1>10, <1>11, <1>12 DEF Host

-----------------------------------------------------------------------------
(* The parts of the invariant that relate software, registers and DMA.     *)

\* The acknowledgement comes with the edge that ends the task, and a DMA that
\* rests leaves IDLE only with the start bit up.
LEMMA DmaSteps ==
  ASSUME Typing, Bursts, NEW access \in accesses, NEW w \in waitrequests,
         Clk(access, w)
  PROVE /\ flag_task_end => current_state = "TASKEND" /\ current_state' = "IDLE"
        /\ current_state = "IDLE" /\ ~enable => current_state' = "IDLE" /\ task' = task
        /\ current_state = "IDLE" /\ enable =>
             task'.dest = dma_dest_address /\ task'.num = dma_len_reg
        /\ current_state # "IDLE" => task' = task
  <1>1. dma!ClockEdge(enable, slave!dma_dest_out, slave!dma_len_out,
                      fifo!rdusedw, w) /\ Record
    BY DEF Clk
  <1>2. flag_task_end => current_state = "TASKEND" /\ current_state' = "IDLE"
    <2>1. cnt_pixel \in Nat /\ reg_pixelnum \in Nat
      BY DEF Typing, TypeOK, dma!TypeOK
    <2>2. flag_task_end => current_state = "TASKEND" /\ dma!TaskFinish
      BY <2>1 DEF Bursts, flag_task_end, dma!task_end_flag_out, dma!TaskFinish
    <2>3. flag_task_end => dma!TaskEnd
      BY <1>1, <2>2 DEF dma!ClockEdge, dma!Idle, dma!WaitBurst, dma!Burst
    <2> QED
      BY <2>2, <2>3 DEF dma!TaskEnd
  <1>3. current_state = "IDLE" =>
          dma!Idle(enable, slave!dma_dest_out, slave!dma_len_out)
    BY <1>1 DEF dma!ClockEdge, dma!WaitBurst, dma!Burst, dma!TaskEnd
  <1>4. current_state = "IDLE" /\ ~enable => current_state' = "IDLE" /\ task' = task
    BY <1>1, <1>3 DEF dma!Idle, Record
  <1>5. current_state = "IDLE" /\ enable =>
          task'.dest = dma_dest_address /\ task'.num = dma_len_reg
    BY <1>1 DEF Record, slave!dma_dest_out, slave!dma_len_out
  <1>6. current_state # "IDLE" => task' = task
    BY <1>1 DEF Record
  <1> QED
    BY <1>2, <1>4, <1>5, <1>6

LEMMA ProgrammedStep ==
  ASSUME Discipline, Handshake, NEW access \in accesses, NEW w \in waitrequests,
         Clk(access, w)
  PROVE Programmed'
  <1>1. Typing /\ Bursts /\ Programmed /\ Rests
    BY DEF Handshake
  <1>2. Waits \/ Polls \/ Checks \/ Drains \/ Aborts \/ WritesLen
        \/ WritesDest \/ Starts \/ Clears \/ Triggers
    BY <1>1, HostSteps
  <1>3. flag_task_end => current_state = "TASKEND"
    BY <1>1, DmaSteps
  <1>4. ~waiting => ~started
    BY <1>1 DEF Programmed
  <1>5. pc \in {"clear", "len", "dest", "start"} => ~flag_task_end
    BY <1>1, <1>3 DEF Rests, Over
  <1>6. pc = "check" /\ readdata = 1 => ~started /\ ~flag_task_end
    BY <1>1, <1>3 DEF Rests, Over
  <1> USE DEF Programmed, started, waiting
  <1>7. CASE Waits
    BY <1>1, <1>5, <1>7 DEF Waits, Kept
  <1>8. CASE Polls
    BY <1>1, <1>8 DEF Polls, Kept
  <1>9. CASE Checks
    BY <1>1, <1>6, <1>9 DEF Checks, Kept
  <1>10. CASE Drains
    BY <1>1, <1>4, <1>10 DEF Drains, Kept
  <1>11. CASE Aborts
    BY <1>11 DEF Aborts
  <1>12. CASE WritesLen
    BY <1>4, <1>12 DEF WritesLen
  <1>13. CASE WritesDest
    BY <1>1, <1>4, <1>13 DEF WritesDest
  <1>14. CASE Starts
    BY <1>1, <1>14 DEF Starts
  <1>15. CASE Clears
    BY <1>4, <1>15 DEF Clears
  <1>16. CASE Triggers
    BY <1>1, <1>16 DEF Triggers
  <1> QED
    BY <1>2, <1>7, <1>8, <1>9, <1>10, <1>11, <1>12, <1>13, <1>14, <1>15, <1>16

LEMMA RestsStep ==
  ASSUME Discipline, Handshake, NEW access \in accesses, NEW w \in waitrequests,
         Clk(access, w)
  PROVE Rests'
  <1> DEFINE resting == ~started /\ current_state = "IDLE"
  <1>1. Typing /\ Bursts /\ Programmed /\ Rests /\ Cleared
    BY DEF Handshake
  <1>2. /\ Waits \/ Polls \/ Checks \/ Drains \/ Aborts \/ WritesLen
           \/ WritesDest \/ Starts \/ Clears \/ Triggers
        /\ task_finished_flag' => flag_task_end \/ task_finished_flag
    BY <1>1, HostSteps
  <1>3. /\ flag_task_end => current_state = "TASKEND" /\ current_state' = "IDLE"
        /\ current_state = "IDLE" /\ ~enable => current_state' = "IDLE"
    BY <1>1, DmaSteps
  \* A DMA that rests goes on resting unless software starts it.
  <1>4. resting /\ ~Starts => resting'
    <2>1. resting => ~enable /\ ~flag_task_end
      BY <1>3 DEF enable, slave!start_dma_out, started
    <2>2. resting /\ ~Starts => start_reg' = start_reg \/ start_reg' = {}
      BY <1>2, <2>1 DEF Waits, Polls, Checks, Drains, Aborts, WritesLen,
                        WritesDest, Clears, Triggers, Kept
    <2> QED
      BY <1>3, <2>1, <2>2 DEF started
  \* So does the one whose task ends with this edge.
  <1>5. flag_task_end => resting'
    <2>1. ASSUME flag_task_end PROVE start_reg' = {}
      <3>1. pc \in {"poll", "check", "drain"}
        <4>1. ~Over
          BY <1>1, <1>3, <2>1 DEF Rests
        <4>2. pc \in Steps
          BY <1>1 DEF Typing, TypeOK
        <4> QED
          BY <4>1, <4>2 DEF Over, Steps
      <3> QED
        BY <1>2, <2>1, <3>1 DEF Waits, Polls, Checks, Drains, Aborts, WritesLen,
                        WritesDest, Starts, Clears, Triggers, Kept
    <2> QED
      BY <1>3, <2>1 DEF started
  \* The flag is down when software starts the DMA.
  <1>6. CASE Starts
    <2>1. ~task_finished_flag /\ Over
      BY <1>1, <1>6 DEF Starts, Cleared, Over
    <2>2. ~flag_task_end
      BY <1>1, <1>3, <2>1 DEF Rests
    <2>3. ~task_finished_flag' /\ pc' = "poll"
      BY <1>2, <1>6, <2>1, <2>2 DEF Starts
    <2> QED
      BY <2>3 DEF Rests, Over
  <1>7. CASE ~Starts
    <2>1. Over => resting'
      BY <1>1, <1>4, <1>7 DEF Rests
    <2>2. ASSUME ~flag_task_end, Over' PROVE Over \/ Drains
      <3>1. CASE task_finished_flag'
        BY <1>2, <2>2, <3>1 DEF Over
      <3>2. CASE pc' = "check" /\ readdata' = 1
        BY <1>2, <1>7, <3>2 DEF Waits, Polls, Checks, Drains, Aborts, WritesLen,
             WritesDest, Clears, Triggers, Over, slave!bit
      <3>3. CASE pc' \in {"clear", "len", "dest", "start"}
        BY <1>2, <1>7, <3>3 DEF Waits, Polls, Checks, Drains, Aborts, WritesLen,
             WritesDest, Clears, Triggers, Over
      <3> QED
        BY <2>2, <3>1, <3>2, <3>3 DEF Over
    <2>3. Drains => resting
      BY <1>1 DEF Drains, Programmed, waiting
    <2>4. Over' => resting'
      BY <1>4, <1>5, <1>7, <2>1, <2>2, <2>3
    <2> QED
      BY <2>4 DEF Rests
  <1> QED
    BY <1>6, <1>7

LEMMA ClearedStep ==
  ASSUME Discipline, Handshake, NEW access \in accesses, NEW w \in waitrequests,
         Clk(access, w)
  PROVE Cleared'
  <1>1. Typing /\ Bursts /\ Rests /\ Cleared
    BY DEF Handshake
  <1>2. /\ Waits \/ Polls \/ Checks \/ Drains \/ Aborts \/ WritesLen
           \/ WritesDest \/ Starts \/ Clears \/ Triggers
        /\ task_finished_flag' <=>
             flag_task_end \/ (task_finished_flag /\ ~clear_task_flag)
    BY <1>1, HostSteps
  <1>3. pc \in {"clear", "len", "dest", "start"} => ~flag_task_end
    BY <1>1, DmaSteps DEF Rests, Over
  <1>4. pc \in {"len", "dest", "start"} => ~task_finished_flag'
    BY <1>1, <1>2, <1>3 DEF Cleared
  <1>5. pc' \in {"len", "dest", "start"} =>
          Clears \/ (pc \in {"len", "dest", "start"} /\ ~Clears)
    BY <1>2 DEF Waits, Polls, Checks, Drains, Aborts, WritesLen,
                WritesDest, Starts, Clears, Triggers
  <1>6. CASE Clears
    <2>1. clear_task_flag' /\ pc' = "len"
      BY <1>6, Zenon DEF Clears
    <2>2. pc' \notin {"dest", "start"}
      BY <2>1
    <2> QED
      BY <2>1, <2>2, Zenon DEF Cleared
  <1>7. CASE ~Clears
    <2>1. pc' \in {"len", "dest", "start"} => ~task_finished_flag'
      BY <1>4, <1>5, <1>7
    <2> QED
      BY <2>1, Zenon DEF Cleared
  <1> QED
    BY <1>6, <1>7

LEMMA TakenStep ==
  ASSUME Discipline, Handshake, NEW access \in accesses, NEW w \in waitrequests,
         Clk(access, w)
  PROVE Taken'
  <1> DEFINE holds == task.dest = buffer.dest /\ task.num = buffer.num
  <1>1. Typing /\ Bursts /\ Programmed /\ Rests /\ Taken
    BY DEF Handshake
  <1>2. Waits \/ Polls \/ Checks \/ Drains \/ Aborts \/ WritesLen
        \/ WritesDest \/ Starts \/ Clears \/ Triggers
    BY <1>1, HostSteps
  <1>3. /\ current_state = "IDLE" /\ ~enable => current_state' = "IDLE" /\ task' = task
        /\ current_state = "IDLE" /\ enable =>
             task'.dest = dma_dest_address /\ task'.num = dma_len_reg
        /\ current_state # "IDLE" => task' = task
    BY <1>1, DmaSteps
  <1>4. enable <=> started
    <2>1. started => ~task_finished_flag
      BY <1>1 DEF Rests, Over
    <2> QED
      BY <2>1 DEF enable, slave!start_dma_out, started
  \* The edge that takes the task takes what software programmed.
  <1>5. pc \in {"poll", "check", "drain", "clear"} =>
          task'.dest = buffer.dest /\ task'.num = buffer.num
    <2>1. CASE current_state = "IDLE" /\ enable
      BY <1>1, <1>3, <1>4, <2>1 DEF Programmed
    <2>2. CASE ~(current_state = "IDLE" /\ enable)
      BY <1>1, <1>3, <1>4, <2>2 DEF Taken
    <2> QED
      BY <2>1, <2>2
  <1>6. CASE Starts
    <2>1. ~started /\ current_state = "IDLE"
      BY <1>1, <1>6 DEF Starts, Rests, Over
    <2>2. current_state' = "IDLE" /\ started'
      BY <1>3, <1>4, <1>6, <2>1 DEF Starts, started
    <2> QED
      BY <2>2 DEF Taken
  <1>7. CASE ~Starts /\ pc' \in {"poll", "check", "drain", "clear"}
    <2>1. pc \in {"poll", "check", "drain", "clear"} /\ buffer' = buffer
      BY <1>2, <1>7 DEF Waits, Polls, Checks, Drains, Aborts, WritesLen,
                        WritesDest, Clears, Triggers
    <2> QED
      BY <1>5, <2>1 DEF Taken
  <1>8. CASE pc' \notin {"poll", "check", "drain", "clear"}
    BY <1>8 DEF Taken
  <1> QED
    BY <1>6, <1>7, <1>8

-----------------------------------------------------------------------------
(* The invariant and what follows from it.                                 *)

LEMMA HandshakeInit == Init => Handshake
  <1> SUFFICES ASSUME Init PROVE Handshake
    OBVIOUS
  <1>1. Typing
    BY TypingInit
  <1>2. Bursts
    BY DEF Init, dma!Init, bus!Init, Bursts
  <1>3. Programmed /\ Rests /\ Taken
    BY DEF Init, dma!Init, slave!Init, Programmed, started, Rests, Taken
  <1>4. ~task_finished_flag
    BY DEF Init, slave!Init
  <1>5. Cleared
    BY <1>4, Zenon DEF Cleared
  <1> QED
    BY <1>1, <1>2, <1>3, <1>5 DEF Handshake

LEMMA HandshakeStep ==
  ASSUME Discipline
  PROVE  Handshake /\ [Next]_vars => Handshake'
  <1> SUFFICES ASSUME Handshake, [Next]_vars PROVE Handshake'
    OBVIOUS
  <1>1. Typing'
    BY TypingStep DEF Handshake
  <1>2. CASE ClkStep
    <2>1. PICK access \in accesses, w \in waitrequests : Clk(access, w)
      BY <1>2 DEF ClkStep
    <2> QED
      BY <1>1, <2>1, BurstsStep, ProgrammedStep, RestsStep, ClearedStep, TakenStep
      DEF Handshake
  <1>3. CASE Camera \/ UNCHANGED vars
    <2>1. UNCHANGED <<current_state, cnt_burst, cnt_pixel, reg_pixelnum, bus_left, task>>
      BY <1>3 DEF Camera, vars, dmaVars, busVars
    <2>2. /\ UNCHANGED <<start_reg, dma_len_reg, dma_dest_address, readdata>>
          /\ UNCHANGED <<pc, buffer>>
      BY <1>3 DEF Camera, vars, slaveVars, hostVars
    <2>3. UNCHANGED task_finished_flag /\ UNCHANGED clear_task_flag
      BY <1>3, Zenon DEF Camera, vars, slaveVars
    <2>4. Bursts'
      BY <2>1 DEF Handshake, Bursts
    <2>5. Programmed'
      BY <2>2 DEF Handshake, Programmed, started, waiting
    <2>6. Rests'
      BY <2>1, <2>2, <2>3 DEF Handshake, Rests, Over, started
    <2>7. Cleared'
      BY <2>2, <2>3, Zenon DEF Handshake, Cleared
    <2>8. Taken'
      BY <2>1, <2>2 DEF Handshake, Taken, started
    <2> QED
      BY <1>1, <2>4, <2>5, <2>6, <2>7, <2>8 DEF Handshake
  <1>4. CASE Reset
    <2>1. Bursts'
      BY <1>4 DEF Reset, dma!Reset, bus!Reset, Bursts
    <2>2. Programmed' /\ Rests' /\ Taken'
      BY <1>4 DEF Reset, dma!Reset, slave!Reset, Programmed, started, Rests, Taken
    <2>3. ~task_finished_flag'
      BY <1>4 DEF Reset, slave!Reset
    <2>4. Cleared'
      BY <2>3, Zenon DEF Cleared
    <2> QED
      BY <1>1, <2>1, <2>2, <2>4 DEF Handshake
  <1> QED
    BY <1>2, <1>3, <1>4 DEF Next

\* Every burst the DMA opens on the bus gets all the beats it announced, for
\* every length of the bursts and every pattern of stalls inside them.
THEOREM BurstsAreWhole ==
  ASSUME Discipline
  PROVE  Spec => []BurstWhole
  <1>1. Handshake => BurstWhole
    BY DEF Handshake, Typing, TypeOK, dma!TypeOK, dma!state_type, Bursts, BurstWhole
  <1>2. Handshake /\ [Next]_vars => Handshake'
    BY HandshakeStep
  <1> QED
    BY <1>1, <1>2, HandshakeInit, PTL DEF Spec

\* From the poll that finds the flag up to the next start the DMA rests, so
\* software programs registers nobody reads.
THEOREM DmaRestsWhileProgrammed ==
  ASSUME Discipline
  PROVE  Spec => []QuietWhileProgrammed
  <1>1. Handshake => QuietWhileProgrammed
    BY DEF Handshake, Rests, Over, QuietWhileProgrammed
  <1>2. Handshake /\ [Next]_vars => Handshake'
    BY HandshakeStep
  <1> QED
    BY <1>1, <1>2, HandshakeInit, PTL DEF Spec

\* The finished flag is never up while a task runs, whatever the order of
\* acknowledgement, abort and clear.
THEOREM FlagMeansIdle ==
  ASSUME Discipline
  PROVE  Spec => []FinishedMeansIdle
  <1>1. Handshake => FinishedMeansIdle
    BY DEF Handshake, Rests, Over, FinishedMeansIdle
  <1>2. Handshake /\ [Next]_vars => Handshake'
    BY HandshakeStep
  <1> QED
    BY <1>1, <1>2, HandshakeInit, PTL DEF Spec

\* When software clears the flag, the task that raised it is the one software
\* programmed last: no finish is taken for another's.
THEOREM FinishIsOfTheTask ==
  ASSUME Discipline
  PROVE  Spec => []FinishedIsProgrammed
  <1>1. Handshake => FinishedIsProgrammed
    BY DEF Handshake, Rests, Over, Taken, FinishedIsProgrammed
  <1>2. Handshake /\ [Next]_vars => Handshake'
    BY HandshakeStep
  <1> QED
    BY <1>1, <1>2, HandshakeInit, PTL DEF Spec

-----------------------------------------------------------------------------
(***************************************************************************)
(* Proofs that the DMA of ImageTransfer copies: every word of a task is in *)
(* memory in its place, nothing else is written, and the flag says so, for *)
(* every burst length, memory and camera, under the rules of Discipline.   *)
(***************************************************************************)

\* Where word i of the task goes.
place(i) == task.dest + 4 * i

\* A burst ran dry on the last beat of a burst among the first n words.
Gap(n) ==
  \E j \in 0 .. n - 1 : word(j) = NoWord /\ j % dma!BurstBeats = BurstLength

-----------------------------------------------------------------------------
(* The inductive invariant, part by part.                                  *)

\* The registers of the DMA hold the task that was recorded, and it lies in
\* memory.
Latched ==
  /\ task.num = reg_pixelnum
  /\ task.dest + 4 * task.num <= AddrSpace

\* The address of the burst, and the one the bus has counted up to.
Addressed ==
  /\ current_state = "WAITBURST" =>
       base_addr = place(cnt_pixel) /\ Whole(cnt_pixel)
  /\ current_state = "BURST" =>
       /\ cnt_burst <= cnt_pixel
       /\ Whole(cnt_pixel - cnt_burst)
       /\ base_addr = place(cnt_pixel - cnt_burst)
       /\ bus_left # 0 => bus_addr = place(cnt_pixel)
  /\ current_state = "TASKEND" =>
       /\ cnt_burst = dma!BurstBeats
       /\ dma!BurstBeats <= cnt_pixel /\ Whole(cnt_pixel)
       /\ base_addr = place(cnt_pixel - dma!BurstBeats)

\* The words written are those of the stream, one after the other.
Streamed == rd = task.first + cnt_pixel \/ Gap(cnt_pixel)

Copied == current_state # "IDLE" => Latched /\ Addressed /\ Streamed /\ InPlace(cnt_pixel)

Copying == Handshake /\ BurstSupplied /\ Copied /\ FinishMeansComplete

-----------------------------------------------------------------------------
(* Arithmetic.                                                             *)

LEMMA BeatsPositive == dma!BurstBeats \in Nat /\ dma!BurstBeats > 0
  BY BurstLengthAssumption DEF dma!BurstBeats

LEMMA LastOfBurst ==
  ASSUME NEW n \in Nat, Whole(n)
  PROVE  (n + BurstLength) % dma!BurstBeats = BurstLength
  <1>1. PICK k \in Nat : n = k * dma!BurstBeats
    BY DEF Whole
  <1> DEFINE b == dma!BurstBeats
  <1> DEFINE q == (n + BurstLength) \div b
  <1> DEFINE r == (n + BurstLength) % b
  <1>2. b \in Nat /\ b > 0 /\ BurstLength \in Nat /\ BurstLength = b - 1
    BY BurstLengthAssumption DEF dma!BurstBeats
  <1>3. q \in Int /\ r \in 0 .. b - 1 /\ n + BurstLength = b * q + r
    BY <1>2, SMT
  <1> HIDE DEF b, q, r
  <1>4. b * (k - q) = r - BurstLength
    BY <1>1, <1>2, <1>3 DEF b
  <1>5. k - q <= 0
    BY <1>2, <1>3, <1>4
  <1>6. k - q >= 0
    BY <1>2, <1>3, <1>4
  <1>7. k - q = 0
    BY <1>3, <1>5, <1>6
  <1> QED
    BY <1>2, <1>3, <1>4, <1>7 DEF b, r

-----------------------------------------------------------------------------
(* The edges of clk, by what they do to a copy.                            *)

Untouched == mem' = mem /\ rd' = rd

Launches ==
  /\ current_state = "IDLE" /\ current_state' = "WAITBURST"
  /\ task' = [dest |-> buffer.dest, num |-> buffer.num, first |-> rd]
  /\ base_addr' = buffer.dest /\ reg_pixelnum' = buffer.num /\ cnt_pixel' = 0
  /\ Untouched
Idles ==
  /\ current_state = "IDLE" /\ current_state' = "IDLE"
  /\ task' = task /\ Untouched
Opens ==
  /\ current_state = "WAITBURST" /\ current_state' \in {"IDLE", "WAITBURST", "BURST"}
  /\ cnt_burst' = 0
  /\ UNCHANGED <<base_addr, cnt_pixel, reg_pixelnum, task>> /\ Untouched
Stalls ==
  /\ current_state = "BURST" /\ current_state' = "BURST"
  /\ UNCHANGED <<base_addr, cnt_burst, cnt_pixel, reg_pixelnum, task>>
  /\ UNCHANGED <<bus_left, bus_addr>> /\ Untouched
Beats ==
  /\ current_state = "BURST"
  /\ current_state' = (IF cnt_burst = BurstLength THEN "TASKEND" ELSE "BURST")
  /\ cnt_burst' = cnt_burst + 1 /\ cnt_pixel' = cnt_pixel + 1
  /\ UNCHANGED <<base_addr, reg_pixelnum, task>>
  /\ bus!Accept(base_addr, dma!BurstBeats, data_pixel)
  /\ rd' = (IF seen = rd THEN rd ELSE rd + 1)
Ends ==
  /\ current_state = "TASKEND"
  /\ current_state' = (IF cnt_pixel = reg_pixelnum THEN "IDLE" ELSE "WAITBURST")
  /\ base_addr' = dma!Wrap(base_addr + 4 * dma!BurstBeats)
  /\ UNCHANGED <<cnt_pixel, reg_pixelnum, task>> /\ Untouched

LEMMA CopySteps ==
  ASSUME Discipline, Handshake, NEW access \in accesses, NEW w \in waitrequests,
         Clk(access, w)
  PROVE  Launches \/ Idles \/ Opens \/ Stalls \/ Beats \/ Ends
  <1> DEFINE write == AM_write(w)
  <1> DEFINE ack == DataAck(w)
  <1>1. Bursts /\ Programmed /\ cnt_pixel \in Nat /\ reg_pixelnum \in Nat
    BY DEF Handshake, Typing, TypeOK, dma!TypeOK
  <1>2. dma!ClockEdge(enable, slave!dma_dest_out, slave!dma_len_out,
                      fifo!rdusedw, w)
    BY DEF Clk
  <1>3. fifo!ReadEdge(ack) /\ Record
    BY DEF Clk
  <1>4. bus!ClockEdge(write, w, base_addr, dma!BurstBeats, data_pixel)
    BY DEF Clk
  <1>5. ~write \/ w => mem' = mem /\ UNCHANGED <<bus_left, bus_addr>>
    <2> HIDE DEF write
    <2> QED
      BY <1>4 DEF bus!ClockEdge, bus!vars
  <1>6. ~ack => rd' = rd
    <2> HIDE DEF ack
    <2> QED
      BY <1>3 DEF fifo!ReadEdge
  <1>7. current_state # "IDLE" => task' = task
    BY <1>3 DEF Record
  <1>8. CASE dma!Idle(enable, slave!dma_dest_out, slave!dma_len_out)
    <2>1. ~write /\ ~ack
      BY <1>8 DEF dma!Idle, AM_write, dma!AM_write_out, DataAck, dma!DataAck_out
    <2>2. Untouched
      BY <1>5, <1>6, <2>1 DEF Untouched
    <2>3. CASE enable
      <3>1. dma_len_reg = buffer.num /\ dma_dest_address = buffer.dest
        BY <1>1, <2>3 DEF enable, slave!start_dma_out, Programmed, started
      <3>2. Launches
        BY <1>3, <1>8, <2>2, <2>3, <3>1
        DEF Launches, dma!Idle, Record, slave!dma_dest_out, slave!dma_len_out
      <3> QED
        BY <3>2
    <2>4. CASE ~enable
      <3>1. Idles
        BY <1>3, <1>8, <2>2, <2>4 DEF Idles, dma!Idle, Record
      <3> QED
        BY <3>1
    <2> QED
      BY <2>3, <2>4
  <1>9. CASE dma!WaitBurst(enable, fifo!rdusedw)
    <2>1. current_state = "WAITBURST"
      BY <1>9 DEF dma!WaitBurst
    <2>2. ~write \/ w
      BY <2>1
      DEF waitrequests, Issuing, Discipline, AM_write, dma!AM_write_out
    <2>3. ~ack
      BY <2>1 DEF DataAck, dma!DataAck_out
    <2>4. Untouched
      BY <1>5, <1>6, <2>2, <2>3 DEF Untouched
    <2>5. current_state' \in {"IDLE", "BURST", "WAITBURST"}
      BY <1>9, Zenon DEF dma!WaitBurst
    <2>6. Opens
      BY <1>7, <1>9, <2>1, <2>4, <2>5 DEF dma!WaitBurst, Opens
    <2> QED
      BY <2>6
  <1>10. CASE dma!Burst(w)
    <2>1. current_state = "BURST" /\ cnt_pixel < reg_pixelnum
      BY <1>1, <1>10 DEF dma!Burst, Bursts
    <2>2. ~dma!TaskFinish
      BY <1>1, <2>1 DEF dma!TaskFinish
    <2>3. CASE w
      <3>1. ~dma!BurstFinish
        BY <2>1, <2>3 DEF waitrequests, LastCycle, Discipline
      <3>2. ~ack
        BY <2>3 DEF DataAck, dma!DataAck_out
      <3>3. Untouched /\ UNCHANGED <<bus_left, bus_addr>>
        BY <1>5, <1>6, <2>3, <3>2 DEF Untouched
      <3>4. Stalls
        BY <1>7, <1>10, <2>1, <2>2, <2>3, <3>1, <3>3 DEF dma!Burst, Stalls
      <3> QED
        BY <3>4
    <2>4. CASE ~w
      <3>1. write /\ ack
        BY <2>1, <2>4 DEF AM_write, dma!AM_write_out, DataAck, dma!DataAck_out
      <3>2. bus!Accept(base_addr, dma!BurstBeats, data_pixel)
        <4> HIDE DEF write
        <4> QED
          BY <1>4, <2>4, <3>1 DEF bus!ClockEdge
      <3>3. rd' = (IF seen = rd THEN rd ELSE rd + 1)
        <4> HIDE DEF ack
        <4> QED
          BY <1>3, <3>1 DEF fifo!ReadEdge, fifo!rdempty
      <3>4. Beats
        BY <1>7, <1>10, <2>1, <2>2, <2>4, <3>2, <3>3
        DEF dma!Burst, dma!BurstFinish, Beats
      <3> QED
        BY <3>4
    <2> QED
      BY <2>3, <2>4
  <1>11. CASE dma!TaskEnd
    <2>1. ~write /\ ~ack
      BY <1>11 DEF dma!TaskEnd, AM_write, dma!AM_write_out, DataAck, dma!DataAck_out
    <2>2. Untouched
      BY <1>5, <1>6, <2>1 DEF Untouched
    <2>3. Ends
      BY <1>7, <1>11, <2>2 DEF dma!TaskEnd, dma!TaskFinish, Ends
    <2> QED
      BY <2>3
  <1> QED
    BY <1>2, <1>8, <1>9, <1>10, <1>11 DEF dma!ClockEdge

-----------------------------------------------------------------------------
(* A copy that is left alone, and a beat.                                  *)

LEMMA CopyKept ==
  ASSUME task' = task, mem' = mem, NEW n \in Nat
  PROVE  (InPlace(n) => InPlace(n)') /\ (Gap(n) => Gap(n)')
  BY DEF InPlace, Gap, word, written, dma!BurstBeats

LEMMA BeatLands ==
  ASSUME Discipline, Handshake, Handshake', BurstSupplied, Copied, Beats
  PROVE  /\ Addressed' /\ Streamed' /\ InPlace(cnt_pixel)'
         /\ mem' = [a \in DOMAIN mem \union {place(cnt_pixel)} |->
                      IF a = place(cnt_pixel) THEN data_pixel ELSE mem[a]]
  <1> USE BurstLengthAssumption, AddrSpaceAssumption
  <1> DEFINE n == cnt_pixel
  <1> DEFINE at == place(n)
  <1>1. /\ n \in Nat /\ reg_pixelnum \in Nat /\ cnt_burst \in Nat /\ bus_left \in Nat
        /\ task.dest \in Nat /\ task.num \in Nat /\ task.first \in Nat
    BY DEF Handshake, Typing, TypeOK, dma!TypeOK, bus!TypeOK
  <1>2. /\ current_state = "BURST" /\ cnt_burst <= BurstLength
        /\ bus_left = (IF cnt_burst = 0 THEN 0 ELSE dma!BurstBeats - cnt_burst)
        /\ n < reg_pixelnum
    BY DEF Beats, Handshake, Bursts
  <1>3. /\ cnt_burst <= n /\ Whole(n - cnt_burst)
        /\ base_addr = place(n - cnt_burst) /\ (bus_left # 0 => bus_addr = at)
    BY <1>2 DEF Copied, Addressed
  <1>4. /\ task.num = reg_pixelnum /\ task.dest + 4 * task.num <= AddrSpace
        /\ Streamed /\ InPlace(n)
    BY <1>2 DEF Copied, Latched
  <1>5. (IF bus_left = 0 THEN base_addr ELSE bus_addr) = at
    BY <1>1, <1>2, <1>3 DEF dma!BurstBeats
  <1>6. mem' = [a \in DOMAIN mem \union {at} |->
                 IF a = at THEN data_pixel ELSE mem[a]]
    BY <1>5 DEF Beats, bus!Accept
  <1>7. n' = n + 1 /\ task' = task /\ cnt_burst' = cnt_burst + 1
    BY DEF Beats
  <1>8. Addressed'
    <2>1. n' - cnt_burst' = n - cnt_burst
      BY <1>1, <1>7
    <2>2. Whole(n' - cnt_burst') /\ base_addr' = task'.dest + 4 * (n' - cnt_burst')
          /\ cnt_burst' <= n'
      BY <1>1, <1>3, <1>7, <2>1 DEF Beats, place
    <2>3. CASE cnt_burst = BurstLength
      <3>1. current_state' = "TASKEND" /\ cnt_burst' = dma!BurstBeats
        BY <1>7, <2>3 DEF Beats, dma!BurstBeats
      <3>2. Whole(n' - dma!BurstBeats)
        BY <2>2, <3>1
      <3>3. Whole(n')
        <4>1. PICK k \in Nat : n' - dma!BurstBeats = k * dma!BurstBeats
          BY <3>2 DEF Whole
        <4>2. n' = (k + 1) * dma!BurstBeats
          BY <1>1, <1>7, <4>1, BeatsPositive
        <4> QED
          BY <4>2 DEF Whole
      <3> QED
        BY <2>2, <3>1, <3>3, <3>2 DEF Addressed, place
    <2>4. CASE cnt_burst # BurstLength
      <3>1. current_state' = "BURST"
        BY <2>4 DEF Beats
      <3>2. n' < reg_pixelnum'
        BY <3>1 DEF Handshake, Bursts
      <3>3. task.dest + 4 * (n + 1) < AddrSpace
        BY <1>1, <1>4, <1>7, <3>2 DEF Beats
      <3>4. bus_addr' = at + 4
        BY <1>1, <1>5, <3>3 DEF Beats, bus!Accept, place
      <3>5. bus_addr' = task'.dest + 4 * n'
        BY <1>1, <1>7, <3>4 DEF place
      <3> QED
        BY <2>2, <3>1, <3>5 DEF Addressed, place
    <2> QED
      BY <2>3, <2>4
  <1>9. \A i \in 0 .. n - 1 : written(i)' /\ word(i)' = word(i)
    <2> SUFFICES ASSUME NEW i \in 0 .. n - 1
                 PROVE  written(i)' /\ word(i)' = word(i)
      OBVIOUS
    <2>1. place(i) \in DOMAIN mem
      BY <1>4 DEF place, InPlace, written
    <2>2. place(i) # at
      BY <1>1 DEF place
    <2> QED
      BY <1>6, <1>7, <2>1, <2>2 DEF place, written, word
  <1>10. place(n) \in DOMAIN mem' /\ mem'[place(n)] = data_pixel
    BY <1>6
  <1>11. Gap(n) => \E j \in 0 .. n - 1 : word(j)' = NoWord /\ j % dma!BurstBeats = BurstLength
    BY <1>9 DEF Gap
  <1>12. seen = rd => data_pixel = NoWord /\ n % dma!BurstBeats = BurstLength
    <2> SUFFICES ASSUME seen = rd
                 PROVE  data_pixel = NoWord /\ n % dma!BurstBeats = BurstLength
      OBVIOUS
    <2>1. data_pixel = NoWord
      BY DEF data_pixel, fifo!rdempty
    <2>2. cnt_burst = BurstLength
      BY <1>1, <1>2 DEF BurstSupplied
    <2>3. n - BurstLength \in Nat /\ Whole(n - BurstLength)
      BY <1>1, <1>3, <2>2
    <2>4. ((n - BurstLength) + BurstLength) % dma!BurstBeats = BurstLength
      BY <2>3, LastOfBurst
    <2> QED
      BY <1>1, <2>1, <2>4
  <1>13. seen # rd => data_pixel = rd /\ rd' = rd + 1
    BY DEF data_pixel, fifo!rdempty, Beats
  <1>14. Streamed'
    <2>1. CASE Gap(n) \/ seen = rd
      <3>1. \E j \in 0 .. n : word(j)' = NoWord /\ j % dma!BurstBeats = BurstLength
        BY <1>1, <1>7, <1>10, <1>11, <1>12, <2>1 DEF word, place
      <3>2. Gap(n)'
        BY <1>1, <1>7, <3>1 DEF Gap
      <3> QED
        BY <3>2 DEF Streamed
    <2>2. CASE ~Gap(n) /\ seen # rd
      BY <1>1, <1>4, <1>7, <1>13, <2>2 DEF Streamed
    <2> QED
      BY <2>1, <2>2
  <1>15. InPlace(n)'
    <2>1. \A i \in 0 .. n :
            /\ written(i)'
            /\ \/ word(i)' = task'.first + i
               \/ \E j \in 0 .. i : word(j)' = NoWord /\ j % dma!BurstBeats = BurstLength
      <3> SUFFICES ASSUME NEW i \in 0 .. n
                   PROVE  /\ written(i)'
                          /\ \/ word(i)' = task'.first + i
                             \/ \E j \in 0 .. i : /\ word(j)' = NoWord
                                                  /\ j % dma!BurstBeats = BurstLength
        OBVIOUS
      <3>1. CASE i < n
        <4>1. i \in 0 .. n - 1 /\ \A j \in 0 .. i : j \in 0 .. n - 1
          BY <1>1, <3>1
        <4> QED
          BY <1>4, <1>7, <1>9, <4>1 DEF InPlace
      <3>2. CASE i = n
        <4>1. written(i)' /\ word(i)' = data_pixel
          BY <1>7, <1>10, <3>2 DEF written, word, place
        <4>2. CASE seen = rd
          BY <1>1, <1>12, <3>2, <4>1, <4>2
        <4>3. CASE Gap(n)
          BY <1>1, <1>11, <3>2, <4>1, <4>3
        <4>4. CASE seen # rd /\ ~Gap(n)
          BY <1>4, <1>7, <1>13, <3>2, <4>1, <4>4 DEF Streamed
        <4> QED
          BY <4>2, <4>3, <4>4
      <3> QED
        BY <1>1, <3>1, <3>2
    <2> QED
      BY <1>1, <1>7, <2>1 DEF InPlace
  <1> QED
    BY <1>6, <1>8, <1>14, <1>15

-----------------------------------------------------------------------------
(* The invariant is inductive.                                             *)

LEMMA CopyingInit == Init => Copying
  <1> SUFFICES ASSUME Init PROVE Copying
    OBVIOUS
  <1>1. ~task_finished_flag
    BY DEF Init, slave!Init
  <1>2. FinishMeansComplete
    BY <1>1, Zenon DEF FinishMeansComplete
  <1>3. Copied
    BY DEF Init, dma!Init, Copied
  <1> QED
    BY <1>2, <1>3, HandshakeInit, BurstSuppliedInit DEF Copying

LEMMA CopiedStep ==
  ASSUME Discipline, Handshake, Handshake', BurstSupplied, Copied,
         NEW access \in accesses, NEW w \in waitrequests, Clk(access, w)
  PROVE  Copied'
  <1> USE BurstLengthAssumption, AddrSpaceAssumption
  <1>1. /\ cnt_pixel \in Nat /\ reg_pixelnum \in Nat
        /\ task.dest \in Nat /\ task.num \in Nat /\ rd \in Nat
    BY DEF Handshake, Typing, TypeOK, dma!TypeOK, fifo!TypeOK
  <1>2. CASE Launches
    <2>1. buffer.dest \in Nat /\ buffer.dest + 4 * buffer.num <= AddrSpace
      BY BuffersAssumption DEF Handshake, Typing, TypeOK
    <2>2. Whole(0)
      BY BeatsPositive DEF Whole
    <2>3. Latched' /\ Addressed'
      BY <1>2, <2>1, <2>2 DEF Launches, Latched, Addressed, place
    <2>4. Streamed' /\ InPlace(cnt_pixel)'
      BY <1>1, <1>2 DEF Launches, Untouched, Streamed, InPlace
    <2> QED
      BY <2>3, <2>4 DEF Copied
  <1>3. CASE Idles
    BY <1>3 DEF Idles, Copied
  <1>4. CASE Opens
    <2>1. Latched /\ Addressed /\ Streamed /\ InPlace(cnt_pixel)
      BY <1>4 DEF Opens, Copied
    <2>2. InPlace(cnt_pixel)'
      BY <1>4, <2>1 DEF Opens, Untouched, InPlace, word, written
    <2>3. Streamed'
      BY <1>4, <2>1 DEF Opens, Untouched, Streamed, Gap, word
    <2>4. Latched'
      BY <1>4, <2>1 DEF Opens, Latched
    <2>5. current_state' = "BURST" => bus_left' = 0
      BY <1>4 DEF Opens, Handshake, Bursts
    <2>6. Addressed'
      BY <1>1, <1>4, <2>1, <2>5 DEF Opens, Addressed, place
    <2> QED
      BY <2>2, <2>3, <2>4, <2>6 DEF Copied
  <1>5. CASE Stalls
    <2>1. Latched /\ Addressed /\ Streamed /\ InPlace(cnt_pixel)
      BY <1>5 DEF Stalls, Copied
    <2>2. InPlace(cnt_pixel)'
      BY <1>5, <2>1 DEF Stalls, Untouched, InPlace, word, written
    <2>3. Streamed'
      BY <1>5, <2>1 DEF Stalls, Untouched, Streamed, Gap, word
    <2>4. Latched' /\ Addressed'
      BY <1>5, <2>1 DEF Stalls, Latched, Addressed, place
    <2> QED
      BY <2>2, <2>3, <2>4 DEF Copied
  <1>6. CASE Beats
    <2>1. Latched
      BY <1>6 DEF Beats, Copied
    <2>2. Latched'
      BY <1>6, <2>1 DEF Beats, Latched
    <2> QED
      BY <1>6, <2>2, BeatLands DEF Copied
  <1>7. CASE Ends
    <2>1. Latched /\ Addressed /\ Streamed /\ InPlace(cnt_pixel)
      BY <1>7 DEF Ends, Copied
    <2>2. InPlace(cnt_pixel)'
      BY <1>7, <2>1 DEF Ends, Untouched, InPlace, word, written
    <2>3. Streamed'
      BY <1>7, <2>1 DEF Ends, Untouched, Streamed, Gap, word
    <2>4. Latched'
      BY <1>7, <2>1 DEF Ends, Latched
    <2>5. current_state' # "IDLE" => Addressed'
      <3> SUFFICES ASSUME current_state' # "IDLE" PROVE Addressed'
        OBVIOUS
      <3>1. current_state' = "WAITBURST" /\ cnt_pixel # reg_pixelnum
        BY <1>7 DEF Ends
      <3>2. cnt_pixel <= reg_pixelnum
        BY <1>7 DEF Ends, Handshake, Bursts
      <3>3. /\ dma!BurstBeats <= cnt_pixel /\ Whole(cnt_pixel)
            /\ base_addr = task.dest + 4 * (cnt_pixel - dma!BurstBeats)
        BY <1>7, <2>1 DEF Ends, Addressed, place
      <3>4. base_addr + 4 * dma!BurstBeats = place(cnt_pixel)
        BY <1>1, <3>3, BeatsPositive DEF place
      <3>5. place(cnt_pixel) < AddrSpace
        BY <1>1, <2>1, <3>1, <3>2 DEF Latched, place
      <3>6. base_addr' = place(cnt_pixel)
        BY <1>1, <1>7, <3>4, <3>5 DEF Ends, dma!Wrap, place
      <3> QED
        BY <1>7, <3>1, <3>3, <3>6 DEF Ends, Addressed, place
    <2> QED
      BY <2>2, <2>3, <2>4, <2>5 DEF Copied
  <1> QED
    BY <1>2, <1>3, <1>4, <1>5, <1>6, <1>7, CopySteps

\* The flag rises on the edge that ends the task and stays up only while the
\* DMA rests.
LEMMA FinishStep ==
  ASSUME Discipline, Handshake, Copied, FinishMeansComplete,
         NEW access \in accesses, NEW w \in waitrequests, Clk(access, w)
  PROVE  FinishMeansComplete'
  <1> SUFFICES ASSUME task_finished_flag' PROVE InPlace(task.num)'
    BY Zenon DEF FinishMeansComplete
  <1>1. task_finished_flag' => flag_task_end \/ task_finished_flag
    <2>1. Typing
      BY DEF Handshake
    <2>2. task_finished_flag' <=>
            flag_task_end \/ (task_finished_flag /\ ~clear_task_flag)
      BY <2>1, HostSteps
    <2> QED
      BY <2>2, Zenon
  <1>2. CASE flag_task_end
    <2>1. cnt_pixel = reg_pixelnum /\ current_state \in {"BURST", "TASKEND"}
      BY <1>2 DEF flag_task_end, dma!task_end_flag_out, dma!TaskFinish
    <2>2. current_state = "BURST" => cnt_pixel # reg_pixelnum
      BY DEF Handshake, Bursts, Typing, TypeOK, dma!TypeOK
    <2>3. cnt_pixel = reg_pixelnum /\ current_state = "TASKEND"
      BY <2>1, <2>2
    <2>4. task.num = cnt_pixel /\ InPlace(cnt_pixel)
      BY <2>3 DEF Copied, Latched
    <2>5. task' = task /\ mem' = mem
      BY <2>3, CopySteps
      DEF Launches, Idles, Opens, Stalls, Beats, Ends, Untouched
    <2> QED
      BY <2>4, <2>5 DEF InPlace, word, written
  <1>3. CASE task_finished_flag
    <2>1. InPlace(task.num)
      BY <1>3, Zenon DEF FinishMeansComplete
    <2>2. ~started /\ current_state = "IDLE"
      BY <1>3 DEF Handshake, Rests, Over
    <2>3. ~enable
      BY <2>2 DEF enable, slave!start_dma_out, started
    <2>4. task' = task
      BY <2>3 DEF Clk, Record
    <2>5. mem' = mem
      BY <2>2, CopySteps
      DEF Launches, Idles, Opens, Stalls, Beats, Ends, Untouched
    <2> QED
      BY <2>1, <2>4, <2>5 DEF InPlace, word, written
  <1> QED
    BY <1>1, <1>2, <1>3, Zenon

LEMMA CopyingStep ==
  ASSUME Discipline
  PROVE  Copying /\ [Next]_vars => Copying'
  <1> SUFFICES ASSUME Copying, [Next]_vars PROVE Copying'
    OBVIOUS
  <1>1. Handshake' /\ BurstSupplied'
    BY HandshakeStep, BurstSuppliedStep DEF Copying
  <1>2. CASE ClkStep
    <2>1. PICK access \in accesses, w \in waitrequests : Clk(access, w)
      BY <1>2 DEF ClkStep
    <2> QED
      BY <1>1, <2>1, CopiedStep, FinishStep DEF Copying
  <1>3. CASE Camera \/ UNCHANGED vars
    <2>1. /\ UNCHANGED <<current_state, base_addr, cnt_burst, cnt_pixel, reg_pixelnum>>
          /\ UNCHANGED <<bus_left, bus_addr, mem, rd, task>>
      BY <1>3 DEF Camera, vars, dmaVars, fifoVars, busVars
    <2>2. UNCHANGED task_finished_flag
      BY <1>3, Zenon DEF Camera, vars, slaveVars
    <2>3. Copied'
      BY <2>1
      DEF Copying, Copied, Latched, Addressed, Streamed, Gap, InPlace, word,
          written, place
    <2>4. InPlace(task.num) => InPlace(task.num)'
      BY <2>1 DEF InPlace, word, written
    <2>5. FinishMeansComplete'
      BY <2>2, <2>4, Zenon DEF Copying, FinishMeansComplete
    <2> QED
      BY <1>1, <2>3, <2>5 DEF Copying
  <1>4. CASE Reset
    <2>1. Copied'
      BY <1>4 DEF Reset, dma!Reset, Copied
    <2>2. ~task_finished_flag'
      BY <1>4 DEF Reset, slave!Reset
    <2>3. FinishMeansComplete'
      BY <2>2, Zenon DEF FinishMeansComplete
    <2> QED
      BY <1>1, <2>1, <2>3 DEF Copying
  <1> QED
    BY <1>2, <1>3, <1>4 DEF Next

-----------------------------------------------------------------------------
\* Every pixel the DMA has counted is in memory where its position in the
\* stream puts it, across bursts, stalls, aborts and resets.
THEOREM EveryWordInPlace ==
  ASSUME Discipline
  PROVE  Spec => []Placement
  <1>1. Copying => Placement
    BY DEF Copying, Copied, Placement
  <1>2. Copying /\ [Next]_vars => Copying'
    BY CopyingStep
  <1> QED
    BY <1>1, <1>2, CopyingInit, PTL DEF Spec

\* The finished flag is never up before the last word of the task has been
\* written, and nothing moves under it while it is up.
THEOREM FlagMeansComplete ==
  ASSUME Discipline
  PROVE  Spec => []FinishMeansComplete
  <1>1. Copying => FinishMeansComplete
    BY DEF Copying
  <1>2. Copying /\ [Next]_vars => Copying'
    BY CopyingStep
  <1> QED
    BY <1>1, <1>2, CopyingInit, PTL DEF Spec

\* No beat of any burst lands outside the buffer of the task being copied.
THEOREM NoBeatStrays ==
  ASSUME Discipline
  PROVE  Spec => NoStray
  <1> DEFINE Confined ==
        \A a \in DOMAIN mem' :
          (a \notin DOMAIN mem \/ mem'[a] # mem[a]) =>
            \E i \in 0 .. task.num - 1 : a = task.dest + 4 * i
  <1>1. Copying /\ [Next]_vars => Copying'
    BY CopyingStep
  <1>2. Copying /\ Copying' /\ [Next]_vars => [Confined]_vars
    <2> SUFFICES ASSUME Copying, Copying', [Next]_vars PROVE Confined
      OBVIOUS
    <2>1. mem' = mem => Confined
      OBVIOUS
    <2>2. CASE ClkStep
      <3>1. PICK access \in accesses, w \in waitrequests : Clk(access, w)
        BY <2>2 DEF ClkStep
      <3>2. CASE Beats
        <4>1. mem' = [a \in DOMAIN mem \union {place(cnt_pixel)} |->
                       IF a = place(cnt_pixel) THEN data_pixel ELSE mem[a]]
          BY <3>2, BeatLands DEF Copying
        <4>2. cnt_pixel \in Nat /\ cnt_pixel < reg_pixelnum /\ task.num = reg_pixelnum
          BY <3>2
          DEF Beats, Copying, Copied, Latched, Handshake, Bursts, Typing,
              TypeOK, dma!TypeOK
        <4>3. cnt_pixel \in 0 .. task.num - 1
          BY <4>2 DEF Copying, Handshake, Typing, TypeOK
        <4> QED
          BY <4>1, <4>3 DEF place
      <3>3. CASE ~Beats
        <4>1. mem' = mem
          BY <3>1, <3>3, CopySteps
          DEF Copying, Launches, Idles, Opens, Stalls, Ends, Untouched
        <4> QED
          BY <2>1, <4>1
      <3> QED
        BY <3>2, <3>3
    <2>3. CASE Camera \/ Reset \/ UNCHANGED vars
      <3>1. mem' = mem
        BY <2>3 DEF Camera, Reset, bus!Reset, vars, busVars
      <3> QED
        BY <2>1, <3>1
    <2> QED
      BY <2>2, <2>3 DEF Next
  <1> QED
    BY <1>1, <1>2, CopyingInit, PTL DEF Spec, NoStray

-----------------------------------------------------------------------------
(***************************************************************************)
(* Proof that ImageTransfer implements FrameCopy, under the rules of       *)
(* Discipline: the first state maps to a first state, and every step of    *)
(* the design to a step of the contract or to none.                        *)
(***************************************************************************)

-----------------------------------------------------------------------------
(* The address the contract shows, in each state of the DMA.               *)

Shown ==
  /\ current_state = "IDLE" => next_addr = 0
  /\ current_state = "WAITBURST" => next_addr = base_addr
  /\ current_state \notin {"IDLE", "WAITBURST"} =>
       next_addr = dma!Wrap(base_addr + 4 * cnt_burst)

LEMMA NextAddr == Shown
  <1>1. current_state = "IDLE" => next_addr = 0
    BY Zenon DEF next_addr, copying
  <1>2. current_state = "WAITBURST" => next_addr = base_addr
    <2>1. "WAITBURST" # "IDLE"
      OBVIOUS
    <2> QED
      BY <2>1, Zenon DEF next_addr, copying
  <1>3. current_state # "IDLE" /\ current_state # "WAITBURST" =>
          next_addr = dma!Wrap(base_addr + 4 * cnt_burst)
    BY Zenon DEF next_addr, copying
  <1> QED
    BY <1>1, <1>2, <1>3 DEF Shown

LEMMA NextAddrAfter == Shown'
  BY NextAddr, PTL

\* In memory, the next word goes to its place.
LEMMA NextPlace ==
  ASSUME Handshake, Copied, current_state = "BURST"
  PROVE  next_addr = place(cnt_pixel) /\ place(cnt_pixel) \in 0 .. AddrSpace - 1
  <1> USE AddrSpaceAssumption, BurstLengthAssumption
  <1>1. /\ cnt_pixel \in Nat /\ cnt_burst \in Nat /\ reg_pixelnum \in Nat
        /\ task.dest \in Nat /\ task.num \in Nat
    BY DEF Handshake, Typing, TypeOK, dma!TypeOK
  <1>2. /\ cnt_pixel < task.num /\ task.dest + 4 * task.num <= AddrSpace
        /\ base_addr = place(cnt_pixel - cnt_burst)
    BY DEF Handshake, Bursts, Copied, Latched, Addressed
  <1>3. base_addr + 4 * cnt_burst = place(cnt_pixel)
    BY <1>1, <1>2 DEF place
  <1>4. place(cnt_pixel) \in 0 .. AddrSpace - 1
    BY <1>1, <1>2 DEF place
  <1>5. next_addr = dma!Wrap(base_addr + 4 * cnt_burst)
    BY NextAddr DEF Shown
  <1> QED
    BY <1>3, <1>4, <1>5 DEF dma!Wrap

-----------------------------------------------------------------------------
(* Remainders of whole numbers of bursts.                                  *)

LEMMA Remainder ==
  ASSUME NEW n \in Int, NEW c \in {0, 1}, Whole(n - c)
  PROVE  n % dma!BurstBeats = c
  <1>1. PICK k \in Nat : n - c = k * dma!BurstBeats
    BY DEF Whole
  <1> DEFINE b == dma!BurstBeats
  <1> DEFINE q == n \div b
  <1> DEFINE r == n % b
  <1>2. b \in Nat /\ b > 1
    BY BurstLengthAssumption DEF dma!BurstBeats
  <1>3. q \in Int /\ r \in 0 .. b - 1 /\ n = b * q + r
    BY <1>2, SMT
  <1> HIDE DEF b, q, r
  <1>4. b * (k - q) = r - c
    BY <1>1, <1>2, <1>3 DEF b
  <1>5. k - q <= 0
    BY <1>2, <1>3, <1>4
  <1>6. k - q >= 0
    BY <1>2, <1>3, <1>4
  <1>7. k - q = 0
    BY <1>3, <1>5, <1>6
  <1> QED
    BY <1>2, <1>3, <1>4, <1>7 DEF b, r

-----------------------------------------------------------------------------
(* What the edges of clk do to the contract.                               *)

\* The flag rises with the end of the task, and falls only while none runs.
LEMMA FlagSteps ==
  ASSUME Discipline, Handshake,
         NEW access \in accesses, NEW w \in waitrequests, Clk(access, w)
  PROVE
    /\ current_state # "IDLE" => ~task_finished_flag
    /\ current_state \in {"WAITBURST", "BURST"} => ~task_finished_flag'
    /\ current_state = "IDLE" => (task_finished_flag' => task_finished_flag)
    /\ current_state = "TASKEND" =>
         (task_finished_flag' <=> cnt_pixel = reg_pixelnum)
  <1>1. current_state # "IDLE" => ~task_finished_flag
    BY DEF Handshake, Rests, Over
  <1>2. task_finished_flag' <=>
          flag_task_end \/ (task_finished_flag /\ ~clear_task_flag)
    <2>1. Typing
      BY DEF Handshake
    <2> QED
      BY <2>1, HostSteps
  <1>3. current_state = "BURST" => cnt_pixel # reg_pixelnum
    BY DEF Handshake, Bursts, Typing, TypeOK, dma!TypeOK
  <1>4. /\ current_state \in {"IDLE", "WAITBURST", "BURST"} => ~flag_task_end
        /\ current_state = "TASKEND" =>
             (flag_task_end <=> cnt_pixel = reg_pixelnum)
    BY <1>3 DEF flag_task_end, dma!task_end_flag_out, dma!TaskFinish
  <1>5. current_state \in {"WAITBURST", "BURST"} => ~task_finished_flag'
    <2>1. current_state \in {"WAITBURST", "BURST"} =>
            current_state # "IDLE" /\ ~flag_task_end
      BY <1>4
    <2> QED
      BY <1>1, <1>2, <2>1, Zenon
  <1>6. current_state = "IDLE" => (task_finished_flag' => task_finished_flag)
    <2>1. current_state = "IDLE" => ~flag_task_end
      BY <1>4
    <2> QED
      BY <1>2, <2>1, Zenon
  <1>7. current_state = "TASKEND" =>
          (task_finished_flag' <=> cnt_pixel = reg_pixelnum)
    <2>1. current_state = "TASKEND" =>
            current_state # "IDLE" /\ (flag_task_end <=> cnt_pixel = reg_pixelnum)
      BY <1>4
    <2> QED
      BY <1>1, <1>2, <2>1, Zenon
  <1> QED
    BY <1>1, <1>5, <1>6, <1>7, Zenon

LEMMA ContractClk ==
  ASSUME Discipline, Copying, Copying',
         NEW access \in accesses, NEW w \in waitrequests, Clk(access, w)
  PROVE  contract!Next \/ UNCHANGED contract!vars
  <1> USE BurstLengthAssumption, AddrSpaceAssumption
  <1>1. Handshake /\ Handshake' /\ BurstSupplied /\ Copied /\ Copied'
    BY DEF Copying
  <1>2. /\ cnt_pixel \in Nat /\ reg_pixelnum \in Nat /\ cnt_burst \in Nat
        /\ base_addr \in 0 .. AddrSpace - 1 /\ rd \in Nat
        /\ base_addr' \in 0 .. AddrSpace - 1 /\ reg_pixelnum' \in Nat
        /\ cnt_pixel' \in Nat /\ task_finished_flag \in BOOLEAN
        /\ task_finished_flag' \in BOOLEAN
    BY <1>1 DEF Handshake, Typing, TypeOK, dma!TypeOK, fifo!TypeOK, slave!TypeOK
  <1>3. /\ current_state # "IDLE" => ~task_finished_flag
        /\ current_state \in {"WAITBURST", "BURST"} => ~task_finished_flag'
        /\ current_state = "IDLE" => (task_finished_flag' => task_finished_flag)
        /\ current_state = "TASKEND" =>
             (task_finished_flag' <=> cnt_pixel = reg_pixelnum)
    BY <1>1, FlagSteps
  <1>4. /\ current_state' = "IDLE" => next_addr' = 0
        /\ current_state' = "WAITBURST" => next_addr' = base_addr'
        /\ current_state' \notin {"IDLE", "WAITBURST"} =>
             next_addr' = dma!Wrap(base_addr' + 4 * cnt_burst')
    BY NextAddrAfter DEF Shown, dma!Wrap
  <1>5. CASE Launches
    <2>1. ~copying /\ copying'
      BY <1>5 DEF Launches, copying
    <2>2. ~task_finished_flag /\ ~task_finished_flag'
      <3>1. enable
        BY <1>5 DEF Launches, Clk, dma!ClockEdge, dma!Idle, dma!WaitBurst, dma!Burst, dma!TaskEnd
      <3>2. current_state = "IDLE"
        BY <1>5 DEF Launches
      <3> QED
        BY <1>3, <3>1, <3>2, Zenon DEF enable, slave!start_dma_out
    <2>3. next_addr' \in Nat
      BY <1>2, <1>4, <1>5 DEF Launches
    <2>4. words_left' \in Nat
      BY <1>2, <1>5, <2>1 DEF Launches, words_left
    <2>5. mem' = mem /\ rd' = rd
      BY <1>5 DEF Launches, Untouched
    <2>6. contract!Launch
      BY <1>2, <2>1, <2>2, <2>3, <2>4, <2>5, Zenon DEF contract!Launch
    <2> QED
      BY <2>6, Zenon DEF contract!Next
  <1>6. CASE Idles
    <2>1. copying' = copying
      BY <1>6 DEF Idles, copying
    <2>2. next_addr' = next_addr /\ words_left' = words_left
      BY <1>4, <1>6, NextAddr DEF Shown, Idles, words_left, copying
    <2>3. mem' = mem /\ rd' = rd
      BY <1>6 DEF Idles, Untouched
    <2>4. task_finished_flag' => task_finished_flag
      BY <1>3, <1>6, Zenon DEF Idles
    <2>5. CASE task_finished_flag => task_finished_flag'
      <3>1. task_finished_flag' = task_finished_flag
        BY <1>2, <2>4, <2>5, Zenon
      <3> QED
        BY <2>1, <2>2, <2>3, <3>1, Zenon DEF contract!vars
    <2>6. CASE task_finished_flag /\ ~task_finished_flag'
      <3>1. task_finished_flag /\ task_finished_flag' = FALSE
        BY <1>2, <2>6, Zenon
      <3>2. contract!Clear
        BY <2>1, <2>2, <2>3, <3>1, Zenon DEF contract!Clear
      <3> QED
        BY <3>2, Zenon DEF contract!Next
    <2> QED
      BY <2>5, <2>6, Zenon
  <1>7. CASE Opens
    <2>1. copying = TRUE /\ mem' = mem /\ rd' = rd
      BY <1>7 DEF Opens, Untouched, copying
    <2>2. task_finished_flag' = task_finished_flag
      <3>1. current_state = "WAITBURST" /\ current_state # "IDLE"
        BY <1>7 DEF Opens
      <3> QED
        BY <1>2, <1>3, <3>1, Zenon
    <2>3. CASE current_state' = "IDLE"
      <3>1. copying' = FALSE /\ next_addr' = 0 /\ words_left' = 0
        BY <1>4, <2>3 DEF copying, words_left
      <3>2. words_left = reg_pixelnum - cnt_pixel /\ Whole(words_left)
        BY <1>1, <1>7, <2>1 DEF words_left, Opens, Handshake, Bursts
      <3>3. words_left % dma!BurstBeats = 0
        <4>1. words_left \in Int /\ Whole(words_left - 0)
          BY <1>2, <3>2
        <4> QED
          BY <4>1, Remainder
      <3>4. contract!Abandon
        BY <2>1, <2>2, <3>1, <3>3, Zenon DEF contract!Abandon, contract!Stop
      <3> QED
        BY <3>4, Zenon DEF contract!Next
    <2>4. CASE current_state' # "IDLE"
      <3>1. copying' = copying
        BY <2>1, <2>4 DEF copying
      <3>2. words_left' = words_left
        BY <1>7, <3>1 DEF Opens, words_left
      <3>3. next_addr' = next_addr
        BY <1>2, <1>4, <1>7, <2>4, NextAddr DEF Shown, Opens, dma!Wrap
      <3> QED
        BY <2>1, <2>2, <3>1, <3>2, <3>3, Zenon DEF contract!vars
    <2> QED
      BY <2>3, <2>4
  <1>8. CASE Stalls
    <2>1. copying' = copying /\ words_left' = words_left /\ mem' = mem /\ rd' = rd
      BY <1>8 DEF Stalls, Untouched, copying, words_left
    <2>2. next_addr' = next_addr
      BY <1>4, <1>8, NextAddr DEF Shown, Stalls, dma!Wrap
    <2>3. task_finished_flag' = task_finished_flag
      <3>1. current_state = "BURST" /\ current_state # "IDLE"
        BY <1>8 DEF Stalls
      <3> QED
        BY <1>2, <1>3, <3>1, Zenon
    <2> QED
      BY <2>1, <2>2, <2>3, Zenon DEF contract!vars
  <1>9. CASE Beats
    <2>1. copying = TRUE /\ copying' = TRUE
      BY <1>9 DEF Beats, copying
    <2>2. /\ words_left \in Int /\ words_left > 0 /\ words_left' = words_left - 1
          /\ words_left = reg_pixelnum - cnt_pixel
      BY <1>1, <1>2, <1>9, <2>1 DEF Beats, words_left, Handshake, Bursts
    <2>3. task_finished_flag' = task_finished_flag
      <3>1. current_state = "BURST" /\ current_state # "IDLE"
        BY <1>9 DEF Beats
      <3> QED
        BY <1>2, <1>3, <3>1, Zenon
    <2>4. next_addr = place(cnt_pixel) /\ next_addr \in 0 .. AddrSpace - 1
      BY <1>1, <1>9, NextPlace DEF Beats
    <2>5. next_addr' = IF next_addr + 4 >= AddrSpace
                         THEN next_addr + 4 - AddrSpace ELSE next_addr + 4
      <3>1. next_addr' = dma!Wrap(base_addr' + 4 * cnt_burst')
        BY <1>4, <1>9 DEF Beats
      <3>2. base_addr' + 4 * cnt_burst' = next_addr + 4
        <4>1. base_addr = place(cnt_pixel - cnt_burst) /\ task.dest \in Nat
          BY <1>1, <1>9 DEF Beats, Copied, Addressed, Handshake, Typing, TypeOK
        <4> QED
          BY <1>2, <1>9, <2>4, <4>1 DEF Beats, place
      <3> QED
        BY <2>4, <3>1, <3>2 DEF dma!Wrap
    <2>6. mem' = [a \in DOMAIN mem \union {next_addr} |->
                    IF a = next_addr THEN data_pixel ELSE mem[a]]
      BY <1>1, <1>9, <2>4, BeatLands
    <2>7. CASE seen # rd
      <3>1. data_pixel = rd /\ rd' = rd + 1
        BY <1>9, <2>7 DEF Beats, data_pixel, fifo!rdempty
      <3>2. contract!Put(rd)
        BY <2>2, <2>5, <2>6, <3>1, Zenon DEF contract!Put
      <3>3. contract!Copy
        BY <2>1, <2>2, <2>3, <3>1, <3>2, Zenon DEF contract!Copy
      <3> QED
        BY <3>3, Zenon DEF contract!Next
    <2>8. CASE seen = rd
      <3>1. data_pixel = NoWord /\ rd' = rd
        BY <1>9, <2>8 DEF Beats, data_pixel, fifo!rdempty
      <3>2. contract!Put(NoWord)
        BY <2>2, <2>5, <2>6, <3>1, Zenon DEF contract!Put
      <3>3. cnt_burst = BurstLength /\ Whole(words_left + cnt_burst)
        BY <1>1, <1>2, <1>9, <2>2, <2>8 DEF Beats, BurstSupplied, Handshake, Bursts
      <3>4. Whole(words_left - 1)
        <4> DEFINE all == words_left + BurstLength
        <4>1. all \in Int /\ all > 0 /\ Whole(all)
          BY <2>2, <3>3
        <4>2. Whole(all - dma!BurstBeats)
          <5> HIDE DEF all
          <5> QED
            BY <4>1, WholeStep
        <4>3. all - dma!BurstBeats = words_left - 1
          BY <2>2 DEF dma!BurstBeats
        <4> HIDE DEF all
        <4> QED
          BY <4>2, <4>3
      <3>5. words_left % dma!BurstBeats = 1
        BY <2>2, <3>4, Remainder
      <3>6. contract!Gap
        BY <2>1, <2>2, <2>3, <3>1, <3>2, <3>5, Zenon DEF contract!Gap
      <3> QED
        BY <3>6, Zenon DEF contract!Next
    <2> QED
      BY <2>7, <2>8
  <1>10. CASE Ends
    <2>1. copying = TRUE /\ mem' = mem /\ rd' = rd
      BY <1>10 DEF Ends, Untouched, copying
    <2>2. words_left = reg_pixelnum - cnt_pixel
      BY <2>1 DEF words_left
    <2>3. CASE cnt_pixel = reg_pixelnum
      <3>1. copying' = FALSE /\ next_addr' = 0 /\ words_left' = 0
        BY <1>4, <1>10, <2>3 DEF Ends, copying, words_left
      <3>2. words_left = 0
        BY <1>2, <2>2, <2>3
      <3>3. task_finished_flag' = TRUE
        BY <1>2, <1>3, <1>10, <2>3, Zenon DEF Ends
      <3>4. contract!Finish
        BY <2>1, <3>1, <3>2, <3>3, Zenon DEF contract!Finish, contract!Stop
      <3> QED
        BY <3>4, Zenon DEF contract!Next
    <2>4. CASE cnt_pixel # reg_pixelnum
      <3>1. current_state' = "WAITBURST"
        BY <1>10, <2>4 DEF Ends
      <3>2. copying' = copying
        BY <2>1, <3>1 DEF copying
      <3>3. words_left' = words_left
        BY <1>10, <3>2 DEF Ends, words_left
      <3>4. next_addr = dma!Wrap(base_addr + 4 * dma!BurstBeats)
        BY <1>1, <1>10, NextAddr DEF Shown, Ends, Copied, Addressed
      <3>5. next_addr' = next_addr
        BY <1>4, <1>10, <3>1, <3>4 DEF Ends
      <3>6. task_finished_flag' = task_finished_flag
        <4>1. current_state = "TASKEND" /\ current_state # "IDLE"
          BY <1>10 DEF Ends
        <4> QED
          BY <1>2, <1>3, <2>4, <4>1, Zenon
      <3> QED
        BY <2>1, <3>2, <3>3, <3>5, <3>6, Zenon DEF contract!vars
    <2> QED
      BY <2>3, <2>4
  <1> QED
    BY <1>1, <1>5, <1>6, <1>7, <1>8, <1>9, <1>10, CopySteps

LEMMA ContractStep ==
  ASSUME Discipline
  PROVE  Copying /\ Copying' /\ [Next]_vars => [contract!Next]_(contract!vars)
  <1> SUFFICES ASSUME Copying, Copying', [Next]_vars
               PROVE  contract!Next \/ UNCHANGED contract!vars
    OBVIOUS
  <1>1. CASE ClkStep
    BY <1>1, ContractClk DEF ClkStep
  <1>2. CASE Camera \/ UNCHANGED vars
    <2>1. /\ UNCHANGED <<current_state, base_addr, cnt_burst, cnt_pixel, reg_pixelnum>>
          /\ UNCHANGED <<mem, rd>>
      BY <1>2 DEF Camera, vars, dmaVars, fifoVars, busVars
    <2>2. UNCHANGED task_finished_flag
      BY <1>2, Zenon DEF Camera, vars, slaveVars
    <2>3. UNCHANGED <<copying, words_left>>
      BY <2>1 DEF copying, words_left
    <2>4. UNCHANGED next_addr
      BY <2>1, Zenon DEF next_addr, copying, dma!Wrap
    <2> QED
      BY <2>1, <2>2, <2>3, <2>4, Zenon DEF contract!vars
  <1>3. CASE Reset
    <2>1. current_state' = "IDLE" /\ mem' = mem /\ rd' = wr
      BY <1>3 DEF Reset, dma!Reset, bus!Reset, fifo!Clear
    <2>2. task_finished_flag' = FALSE
      BY <1>3, Zenon DEF Reset, slave!Reset
    <2>3. rd' \in Nat /\ rd' >= rd
      BY <2>1 DEF Copying, BurstSupplied
    <2>4. copying' = FALSE /\ words_left' = 0
      BY <2>1 DEF copying, words_left
    <2>5. next_addr' = 0
      <3>1. current_state' = "IDLE" => next_addr' = 0
        BY NextAddrAfter DEF Shown
      <3> QED
        BY <2>1, <3>1
    <2>6. contract!Reset
      BY <2>1, <2>2, <2>3, <2>4, <2>5, Zenon DEF contract!Reset, contract!Stop
    <2> QED
      BY <2>6, Zenon DEF contract!Next
  <1> QED
    BY <1>1, <1>2, <1>3 DEF Next

\* The design keeps the contract of FrameCopy: the bursts, the counters, the
\* handshakes, the stalls and the aborts add up to a copy of the next words
\* of the stream, one after the other and none twice, reported when done.
THEOREM TransferImplementsFrameCopy ==
  ASSUME Discipline
  PROVE  Spec => ImplementsFrameCopy
  <1>1. Init => contract!Init
    <2> SUFFICES ASSUME Init PROVE contract!Init
      OBVIOUS
    <2>1. current_state = "IDLE" /\ rd = 0 /\ mem = << >>
      BY DEF Init, dma!Init, fifo!Init, bus!Init
    <2>2. task_finished_flag = FALSE
      BY Zenon DEF Init, slave!Init
    <2>3. copying = FALSE /\ words_left = 0
      BY <2>1 DEF copying, words_left
    <2>4. next_addr = 0
      BY <2>1, NextAddr DEF Shown
    <2> QED
      BY <2>1, <2>2, <2>3, <2>4, Zenon DEF contract!Init
  <1>2. Copying /\ [Next]_vars => Copying'
    BY CopyingStep
  <1>3. Copying /\ Copying' /\ [Next]_vars => [contract!Next]_(contract!vars)
    BY ContractStep
  <1> QED
    BY <1>1, <1>2, <1>3, CopyingInit, PTL
    DEF Spec, ImplementsFrameCopy, contract!Spec
=============================================================================
