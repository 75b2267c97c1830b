------------------------------ MODULE JtagUart ------------------------------
(***************************************************************************)
(* The driver of the JTAG UART: two circular buffers between the program,  *)
(* which calls read, write, close and ioctl, and an interrupt handler that *)
(* moves characters between the buffers and the FIFOs of the device.  The  *)
(* host at the other end may come and go; an alarm counts how long it has  *)
(* been silent.                                                            *)
(*                                                                         *)
(* The program's loops are split where the handler may run: a snapshot of  *)
(* the other side's index, the copy, the update of its own index.  The     *)
(* handler is split where the device may move.  A section with interrupts  *)
(* disabled is one step.  A character is its number in its stream.  The    *)
(* device follows its own source, system_jtag_uart_0.v; the host is free.  *)
(***************************************************************************)
EXTENDS Integers, Sequences

CONSTANTS
  BUF_LEN,          \* of each circular buffer
  FifoDepth,        \* of each FIFO of the device
  WriteThreshold,   \* the device wants more when its FIFO holds no more than this
  ReadThreshold,    \* and has much to give when the other one holds this many
  IntMax,           \* INT_MAX
  DefaultTimeout    \* seconds until the host is taken to be away

ASSUME BufferAssumption == BUF_LEN \in Nat /\ BUF_LEN >= 2
ASSUME FifoAssumption ==
  /\ FifoDepth \in Nat /\ WriteThreshold \in Nat /\ WriteThreshold < FifoDepth
  /\ ReadThreshold \in 1 .. FifoDepth
ASSUME TimeoutAssumption ==
  IntMax \in Nat /\ DefaultTimeout \in Nat /\ 2 <= DefaultTimeout /\ DefaultTimeout < IntMax - 1

VARIABLES
  typed,        \* device: characters the host has sent
  fetched,      \* device: characters taken from its receive FIFO
  output,       \* device: the characters written to its transmit FIFO
  shown,        \* device: how many of them the host has taken
  AC,           \* device: the host was active since this bit was cleared
  pause_irq,    \* device: the host paused, with characters waiting
  rx_buf, rx_in, rx_out, tx_buf, tx_in, tx_out,
  irq_enable,   \* as in the control register
  host_inactive, timeout,
  isr,          \* where the handler is
  control,      \* what it read from the control register
  ravail,       \* more characters were available at its last read
  pc,           \* where the program is in its call
  nonblock, count, seen, n,   \* O_NONBLOCK and the locals of the call
  some,         \* the call has transferred something: ptr # start
  result,       \* of the last call
  written,      \* history: characters the program has put into tx_buf
  input         \* history: the characters the program has got

deviceVars == <<typed, fetched, output, shown, AC, pause_irq>>
rxVars == <<rx_buf, rx_in>>
txVars == <<tx_buf, tx_in>>
timeVars == <<host_inactive, timeout>>
isrVars == <<isr, control, ravail>>
callVars == <<pc, nonblock, count, seen, n, some, result, written, input>>
vars == <<deviceVars, rxVars, rx_out, txVars, tx_out, irq_enable, timeVars, isrVars, callVars>>

next(i) == (i + 1) % BUF_LEN

-----------------------------------------------------------------------------
(* The device.                                                             *)

rx_level == typed - fetched
tx_level == Len(output) - shown

\* A character alone does not interrupt: the device waits for many, or for a pause.
RI == "RE" \in irq_enable /\ (pause_irq \/ rx_level >= ReadThreshold)
WI == "WE" \in irq_enable /\ tx_level <= WriteThreshold
irq == RI \/ WI

Arrives == rx_level < FifoDepth /\ typed' = typed + 1 /\ AC' = TRUE

HostSends == Arrives /\ UNCHANGED <<fetched, output, shown, pause_irq>>

\* Only sending and pausing count as activity.
HostTakes ==
  /\ tx_level > 0
  /\ shown' = shown + 1
  /\ UNCHANGED <<typed, fetched, output, AC, pause_irq>>

HostPauses ==
  /\ AC' = TRUE
  /\ pause_irq' = (pause_irq \/ rx_level > 0)
  /\ UNCHANGED <<typed, fetched, output, shown>>

-----------------------------------------------------------------------------
(* The interrupt handler.                                                  *)

NoControl == [ri |-> FALSE, wi |-> FALSE, space |-> 0]

\* altera_avalon_jtag_uart_irq: one round of its outer loop begins.
IsrPoll ==
  /\ isr = "poll"
  /\ IF ~RI /\ ~WI
       THEN isr' = "off" /\ control' = NoControl /\ ravail' = FALSE
       ELSE /\ isr' = IF RI THEN "receive" ELSE "send"
            /\ control' = [ri |-> RI, wi |-> WI, space |-> FifoDepth - tx_level]
            /\ ravail' = TRUE
  /\ UNCHANGED <<deviceVars, rxVars, rx_out, txVars, tx_out, irq_enable, timeVars, callVars>>

rx_full == next(rx_in) = rx_out

\* A character is read and stored.
IsrReceive ==
  /\ isr = "receive" /\ ~rx_full /\ rx_level > 0
  /\ fetched' = fetched + 1
  /\ rx_buf' = [rx_buf EXCEPT ![rx_in] = fetched + 1]
  /\ rx_in' = next(rx_in)
  /\ ravail' = (rx_level > 1)
  /\ pause_irq' = FALSE
  /\ UNCHANGED <<typed, output, shown, AC, rx_out, txVars, tx_out, irq_enable, timeVars, isr, control, callVars>>

TurnOff(enable) == irq_enable' = irq_enable \ {enable}

\* The buffer is full, and by the last read there is more.
IsrFull ==
  /\ isr = "receive" /\ rx_full
  /\ IF ravail THEN TurnOff("RE") ELSE UNCHANGED irq_enable
  /\ isr' = "send"
  /\ UNCHANGED <<deviceVars, rxVars, rx_out, txVars, tx_out, timeVars, control, ravail, callVars>>

FindsNothing == isr = "receive" /\ ~rx_full /\ rx_level = 0 /\ pause_irq' = FALSE /\ isr' = "send"

IsrNothing ==
  /\ FindsNothing
  /\ UNCHANGED <<typed, fetched, output, shown, AC, irq_enable>>
  /\ UNCHANGED <<rxVars, rx_out, txVars, tx_out, timeVars, control, ravail, callVars>>

\* The read finds nothing in its first clock, and counts what has come in by its second.
IsrLate ==
  /\ FindsNothing /\ Arrives
  /\ TurnOff("RE")
  /\ UNCHANGED <<fetched, output, shown>>
  /\ UNCHANGED <<rxVars, rx_out, txVars, tx_out, timeVars, control, ravail, callVars>>

IsrSend ==
  /\ isr = "send" /\ control.wi /\ control.space > 0 /\ tx_out # tx_in
  /\ output' = Append(output, tx_buf[tx_out])
  /\ tx_out' = next(tx_out)
  /\ control' = [control EXCEPT !.space = @ - 1]
  /\ UNCHANGED <<typed, fetched, shown, AC, pause_irq, rxVars, rx_out, txVars, irq_enable, timeVars, isr, ravail, callVars>>

\* Mutant: the interrupt is turned off although characters are left.
IsrSent_off ==
  /\ isr = "send" /\ ~(control.wi /\ control.space > 0 /\ tx_out # tx_in)
  /\ IF control.wi THEN TurnOff("WE") ELSE UNCHANGED irq_enable
  /\ isr' = "poll"
  /\ UNCHANGED <<deviceVars, rxVars, rx_out, txVars, tx_out, timeVars, control, ravail, callVars>>

\* With space left there is nothing to send: the interrupt is turned off.
IsrSent ==
  /\ isr = "send" /\ ~(control.wi /\ control.space > 0 /\ tx_out # tx_in)
  /\ IF control.wi /\ control.space > 0 THEN TurnOff("WE") ELSE UNCHANGED irq_enable
  /\ isr' = "poll"
  /\ UNCHANGED <<deviceVars, rxVars, rx_out, txVars, tx_out, timeVars, control, ravail, callVars>>

Isr == IsrPoll \/ IsrReceive \/ IsrFull \/ IsrNothing \/ IsrLate \/ IsrSend \/ IsrSent

\* Whether the alarm could be started: there is a system clock.
has_alarm == timeout # IntMax

\* Mutant: the count goes on to the value that stands for never.
Timeout_endless ==
  /\ AC' = FALSE
  /\ host_inactive' = CASE AC -> 0
                        [] ~AC /\ host_inactive < IntMax - 1 -> host_inactive + 1
                        [] OTHER -> host_inactive
  /\ UNCHANGED <<typed, fetched, output, shown, pause_irq, rxVars, rx_out, txVars, tx_out, irq_enable, timeout, isrVars, callVars>>

\* altera_avalon_jtag_uart_timeout, every second.
Timeout ==
  /\ AC' = FALSE
  /\ host_inactive' = CASE AC -> 0
                        [] ~AC /\ host_inactive < IntMax - 2 -> host_inactive + 1
                        [] OTHER -> host_inactive
  /\ UNCHANGED <<typed, fetched, output, shown, pause_irq, rxVars, rx_out, txVars, tx_out, irq_enable, timeout, isrVars, callVars>>

-----------------------------------------------------------------------------
(* The calls.                                                              *)

deviceSide == <<deviceVars, rxVars, tx_out, timeVars, isrVars>>

Call(where, nb, length) ==
  /\ pc = "idle"
  /\ pc' = where /\ nonblock' = nb /\ count' = length
  /\ some' = FALSE /\ result' = "none" /\ seen' = 0 /\ n' = 0
  /\ UNCHANGED <<deviceSide, rx_out, txVars, irq_enable, written, input>>

Return(code) ==
  /\ pc' = "idle" /\ result' = code
  /\ nonblock' = FALSE /\ count' = 0 /\ seen' = 0 /\ n' = 0 /\ some' = FALSE

\* What read and write return when they end.
outcome == CASE some -> "some" [] ~some /\ nonblock -> "EWOULDBLOCK" [] OTHER -> "EIO"

host_away == host_inactive >= timeout

atMost(bound, length) == IF length < bound THEN length ELSE bound

(* altera_avalon_jtag_uart_write                                           *)

\* Mutant: the slot that tells full from empty is used when out is 0.
write_space_all(in, out) == IF in < out THEN out - 1 - in ELSE BUF_LEN - in

\* The free cells up to the end of the buffer, one short of tx_out.
write_space(in, out) ==
  CASE in < out -> out - 1 - in
    [] in >= out /\ out > 0 -> BUF_LEN - in
    [] OTHER -> BUF_LEN - 1 - in

WriteLook ==
  /\ pc = "write"
  /\ LET space == write_space(tx_in, tx_out)
     IN IF count > 0 /\ space > 0
          THEN n' = atMost(space, count) /\ pc' = "write_copy" /\ seen' = 0
          ELSE n' = 0 /\ pc' = "write_kick" /\ seen' = tx_out
  /\ UNCHANGED <<deviceSide, rx_out, txVars, irq_enable, nonblock, count, some, result, written, input>>

WriteCopy ==
  /\ pc = "write_copy"
  /\ tx_buf' = [i \in DOMAIN tx_buf |->
                  IF tx_in <= i /\ i < tx_in + n THEN written + 1 + i - tx_in ELSE tx_buf[i]]
  /\ written' = written + n /\ count' = count - n /\ some' = TRUE
  /\ pc' = "write_post"
  /\ UNCHANGED <<deviceSide, rx_out, tx_in, irq_enable, nonblock, seen, n, result, input>>

WritePost ==
  /\ pc = "write_post"
  /\ tx_in' = (tx_in + n) % BUF_LEN
  /\ n' = 0 /\ pc' = "write"
  /\ UNCHANGED <<deviceSide, rx_out, tx_buf, irq_enable, nonblock, count, seen, some, result, written, input>>

\* Mutant: a write that has put in something is satisfied.
WriteKick_partly ==
  /\ pc = "write_kick"
  /\ irq_enable' = irq_enable \union {"WE"}
  /\ IF count = 0 \/ nonblock \/ some
       THEN Return(outcome)
       ELSE pc' = "write_wait" /\ UNCHANGED <<nonblock, count, seen, n, some, result>>
  /\ UNCHANGED <<deviceSide, rx_out, txVars, written, input>>

WriteKick ==
  /\ pc = "write_kick"
  /\ irq_enable' = irq_enable \union {"WE"}
  /\ IF count = 0 \/ nonblock
       THEN Return(outcome)
       ELSE pc' = "write_wait" /\ UNCHANGED <<nonblock, count, seen, n, some, result>>
  /\ UNCHANGED <<deviceSide, rx_out, txVars, written, input>>

\* The room of the last look is used up: wait until the handler makes some.
WriteWait ==
  /\ pc = "write_wait"
  /\ seen # tx_out \/ host_away
  /\ pc' = "write_waited"
  /\ UNCHANGED <<deviceSide, rx_out, txVars, irq_enable, nonblock, count, seen, n, some, result, written, input>>

\* After the wait any silence of the host ends the call.
WriteWaited ==
  /\ pc = "write_waited"
  /\ IF host_inactive # 0
       THEN Return(outcome)
       ELSE pc' = "write" /\ UNCHANGED <<nonblock, count, seen, n, some, result>>
  /\ UNCHANGED <<deviceSide, rx_out, txVars, irq_enable, written, input>>

(* altera_avalon_jtag_uart_read                                            *)

\* Mutant: an empty buffer is taken for a full one.
read_data_full(in, out) == IF in > out THEN in - out ELSE BUF_LEN - out

\* The characters up to rx_in or to the end of the buffer.
read_data(in, out) == IF in >= out THEN in - out ELSE BUF_LEN - out

ReadLook ==
  /\ pc = "read" /\ read_data(rx_in, rx_out) > 0
  /\ n' = atMost(read_data(rx_in, rx_out), count) /\ pc' = "read_copy"
  /\ UNCHANGED <<deviceSide, rx_out, txVars, irq_enable, nonblock, count, seen, some, result, written, input>>

ReadEmpty ==
  /\ pc = "read" /\ read_data(rx_in, rx_out) = 0
  /\ CASE some -> pc' = "read_enable" /\ UNCHANGED <<nonblock, count, seen, n, some, result>>
       [] ~some /\ nonblock -> Return(outcome)
       [] OTHER -> /\ pc' = "read_wait" /\ seen' = rx_in
                   /\ UNCHANGED <<nonblock, count, n, some, result>>
  /\ UNCHANGED <<deviceSide, rx_out, txVars, irq_enable, written, input>>

ReadCopy ==
  /\ pc = "read_copy"
  /\ input' = [c \in 1 .. Len(input) + n |->
                 IF c <= Len(input) THEN input[c] ELSE rx_buf[rx_out + c - Len(input) - 1]]
  /\ count' = count - n /\ some' = TRUE
  /\ pc' = "read_post"
  /\ UNCHANGED <<deviceSide, rx_out, txVars, irq_enable, nonblock, seen, n, result, written>>

\* Mutant: at the end of the buffer the index is not taken back to its start.
ReadPost_unwrapped ==
  /\ pc = "read_post"
  /\ rx_out' = (rx_out + n) % (BUF_LEN + 1)
  /\ n' = 0
  /\ pc' = IF count > 0 THEN "read" ELSE "read_enable"
  /\ UNCHANGED <<deviceSide, txVars, irq_enable, nonblock, count, seen, some, result, written, input>>

ReadPost ==
  /\ pc = "read_post"
  /\ rx_out' = (rx_out + n) % BUF_LEN
  /\ n' = 0
  /\ pc' = IF count > 0 THEN "read" ELSE "read_enable"
  /\ UNCHANGED <<deviceSide, txVars, irq_enable, nonblock, count, seen, some, result, written, input>>

\* Mutant: the interrupt is not enabled again.
ReadEnable_not ==
  /\ pc = "read_enable"
  /\ Return(outcome)
  /\ UNCHANGED <<deviceSide, rx_out, txVars, irq_enable, written, input>>

ReadEnable ==
  /\ pc = "read_enable"
  /\ irq_enable' = irq_enable \union {"RE"}
  /\ Return(outcome)
  /\ UNCHANGED <<deviceSide, rx_out, txVars, written, input>>

ReadWait ==
  /\ pc = "read_wait"
  /\ seen # rx_in \/ host_away
  /\ IF seen = rx_in
       THEN Return(outcome)
       ELSE pc' = "read" /\ UNCHANGED <<nonblock, count, seen, n, some, result>>
  /\ UNCHANGED <<deviceSide, rx_out, txVars, irq_enable, written, input>>

(* altera_avalon_jtag_uart_close and ioctl                                 *)

Close ==
  /\ pc = "close"
  /\ CASE tx_out = tx_in \/ host_away -> Return("closed")
       [] tx_out # tx_in /\ ~host_away /\ nonblock -> Return("EWOULDBLOCK")
       [] OTHER -> FALSE
  /\ UNCHANGED <<deviceSide, rx_out, txVars, irq_enable, written, input>>

\* TIOCGCONNECTED only looks.
TIOCSTIMEOUT(value) ==
  /\ pc = "idle" /\ has_alarm
  /\ timeout' = IF value >= 2 /\ value < IntMax THEN value ELSE IntMax - 1
  /\ UNCHANGED <<deviceVars, rxVars, rx_out, txVars, tx_out, irq_enable, host_inactive, isrVars, callVars>>

Step ==
  \/ WriteLook \/ WriteCopy \/ WritePost \/ WriteKick \/ WriteWait \/ WriteWaited
  \/ ReadLook \/ ReadEmpty \/ ReadCopy \/ ReadPost \/ ReadEnable \/ ReadWait
  \/ Close
=============================================================================
