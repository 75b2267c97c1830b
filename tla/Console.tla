------------------------------ MODULE Console -------------------------------
(***************************************************************************)
(* The console of the Nios II system of lab2.2: a program that calls the   *)
(* driver of the JTAG UART as it likes, the interrupts of the UART and of  *)
(* a system clock, and a host that types and listens.  The board has no    *)
(* system clock; the driver is written for boards with and without.        *)
(***************************************************************************)
EXTENDS JtagUart

CONSTANTS
  Uart, Timer,      \* the interrupt lines
  Thread, Scan,
  Lengths,          \* of the calls to read and write
  Timeouts,         \* values given to TIOCSTIMEOUT
  SystemClocks,     \* whether there is one: a set of BOOLEAN
  MaxIn, MaxOut     \* bounds: characters typed and written

ASSUME LinesAssumption == Uart \in Nat /\ Timer \in Nat /\ Uart # Timer
ASSUME ThreadAssumption == Thread \notin {Scan, Uart, Timer} /\ Scan \notin {Uart, Timer}
ASSUME LengthsAssumption == Lengths \subseteq Nat \ {0} /\ Timeouts \subseteq Nat
ASSUME ClocksAssumption == SystemClocks \subseteq BOOLEAN
ASSUME BoundsAssumption == MaxIn \in Nat /\ MaxOut \in Nat

VARIABLES
  pie, alt_irq_active, alt_irq, serving,
  status,     \* saved by alt_iic_isr_register
  clock,      \* there is a system clock
  elapsed     \* its interrupt is up

CPU == INSTANCE NiosInterrupts WITH Lines <- {Uart, Timer}

cpuVars == <<pie, alt_irq_active, alt_irq, serving>>
clockVars == <<clock, elapsed>>
uartVars == vars
allVars == <<uartVars, cpuVars, status, clockVars>>
-----------------------------------------------------------------------------
Init ==
  /\ typed = 0 /\ fetched = 0 /\ output = <<>> /\ shown = 0 /\ AC = FALSE /\ pause_irq = FALSE
  /\ rx_buf = [i \in 0 .. BUF_LEN - 1 |-> 0] /\ rx_in = 0 /\ rx_out = 0
  /\ tx_buf = [i \in 0 .. BUF_LEN - 1 |-> 0] /\ tx_in = 0 /\ tx_out = 0
  /\ irq_enable = {} /\ host_inactive = 0 /\ timeout = DefaultTimeout
  /\ isr = "off" /\ control = NoControl /\ ravail = FALSE
  /\ pc = "reset" /\ nonblock = FALSE /\ count = 0 /\ seen = 0 /\ n = 0
  /\ some = FALSE /\ result = "none" /\ written = 0 /\ input = <<>>
  /\ CPU!Init /\ status = FALSE
  /\ clock \in SystemClocks /\ elapsed = FALSE

\* The lines that are up.
up == (IF irq THEN {Uart} ELSE {}) \union (IF elapsed THEN {Timer} ELSE {})

(* Start-up: alt_irq_init, then altera_avalon_jtag_uart_init, which calls  *)
(* alt_iic_isr_register.                                                   *)

callRest == <<nonblock, count, seen, n, some, result, written, input>>
driverRest == <<rxVars, rx_out, txVars, tx_out, timeVars, isrVars, deviceVars>>

Boot(from, to) == pc = from /\ pc' = to /\ serving = Thread /\ UNCHANGED <<callRest, clockVars>>

BootInterrupts ==
  /\ Boot("reset", "enable_device")
  /\ CPU!alt_irq_init
  /\ UNCHANGED <<driverRest, irq_enable, status>>

BootDevice ==
  /\ Boot("enable_device", "register")
  /\ irq_enable' = {"RE"}
  /\ UNCHANGED <<driverRest, cpuVars, status>>

RegisterBegin ==
  /\ Boot("register", "register_handler")
  /\ status' = pie /\ CPU!alt_irq_disable_all
  /\ UNCHANGED <<driverRest, irq_enable, alt_irq_active, alt_irq, serving>>

RegisterHandler ==
  /\ Boot("register_handler", "register_enable")
  /\ alt_irq' = alt_irq \union {Uart}
  /\ UNCHANGED <<driverRest, irq_enable, pie, alt_irq_active, serving, status>>

RegisterEnable ==
  /\ Boot("register_enable", "register_end")
  /\ CPU!alt_irq_enable(Uart)
  /\ UNCHANGED <<driverRest, irq_enable, status>>

RegisterEnd ==
  /\ Boot("register_end", "start_alarm")
  /\ CPU!alt_irq_enable_all(status)
  /\ UNCHANGED <<driverRest, irq_enable, alt_irq_active, alt_irq, serving, status>>

\* With a system clock its interrupt is enabled before; without one
\* alt_alarm_start fails, and the host is taken to be there.
StartAlarm ==
  /\ Boot("start_alarm", "idle")
  /\ timeout' = IF clock THEN timeout ELSE IntMax
  /\ alt_irq_active' = IF clock THEN alt_irq_active \union {Timer} ELSE alt_irq_active
  /\ alt_irq' = IF clock THEN alt_irq \union {Timer} ELSE alt_irq
  /\ UNCHANGED <<deviceVars, rxVars, rx_out, txVars, tx_out, host_inactive, isrVars, irq_enable, pie, serving, status>>

Start ==
  \/ BootInterrupts \/ BootDevice \/ RegisterBegin \/ RegisterHandler
  \/ RegisterEnable \/ RegisterEnd \/ StartAlarm

(* The program.  At its end it spins, with interrupts on.                  *)

Write(nb, length) == written + length <= MaxOut /\ Call("write", nb, length)
Read(nb, length) == Call("read", nb, length)

Ask ==
  \/ \E nb \in BOOLEAN, length \in Lengths : Write(nb, length) \/ Read(nb, length)
  \/ \E nb \in BOOLEAN : Call("close", nb, 0)
  \/ \E value \in Timeouts : TIOCSTIMEOUT(value)

\* _exit
Exit ==
  /\ pc = "idle" /\ pc' = "exited"
  /\ UNCHANGED <<deviceSide, rx_out, txVars, tx_out, irq_enable, callRest>>

Program ==
  /\ serving = Thread
  /\ Ask \/ Step \/ Exit
  /\ UNCHANGED <<cpuVars, status, clockVars>>

(* Interrupts.                                                             *)

Enter == CPU!Exception(up) /\ UNCHANGED <<uartVars, status, clockVars>>
Leave == CPU!Return(up) /\ UNCHANGED <<uartVars, status, clockVars>>

Serve ==
  /\ CPU!Dispatch(up)
  /\ isr' = IF serving' = Uart THEN "poll" ELSE isr
  /\ UNCHANGED <<deviceVars, rxVars, rx_out, txVars, tx_out, irq_enable, timeVars, control, ravail, callVars, status, clockVars>>

ServeUart ==
  /\ serving = Uart /\ Isr /\ typed' <= MaxIn
  /\ IF isr' = "off" THEN CPU!HandlerReturns ELSE UNCHANGED cpuVars
  /\ UNCHANGED <<status, clockVars>>

\* The handler of the clock calls alt_tick, which runs the alarm.
ServeTimer ==
  /\ serving = Timer /\ Timeout
  /\ elapsed' = FALSE /\ CPU!HandlerReturns
  /\ UNCHANGED <<status, clock>>

Interrupts == Enter \/ Leave \/ Serve \/ ServeUart \/ ServeTimer

\* A second has passed.
Second ==
  /\ clock /\ ~elapsed /\ Timer \in alt_irq_active
  /\ elapsed' = TRUE
  /\ UNCHANGED <<uartVars, cpuVars, status, clock>>

Types == typed < MaxIn /\ HostSends
Listens == HostTakes
Pauses == HostPauses

Terminal ==
  /\ Types \/ Listens \/ Pauses
  /\ UNCHANGED <<rxVars, rx_out, txVars, tx_out, irq_enable, timeVars, isrVars, callVars, cpuVars, status, clockVars>>

Next == Start \/ Program \/ Interrupts \/ Second \/ Terminal

Spec == Init /\ [][Next]_allVars

\* The processor goes on, in the program and in its handlers; the host listens
\* and pauses again and again, without which the driver takes it to be away; and
\* the program reads again and again.
FairSpec ==
  /\ Spec
  /\ WF_allVars(Start) /\ WF_allVars(Program /\ pc # "idle") /\ WF_allVars(Interrupts)
  /\ WF_allVars(Listens /\ Terminal) /\ WF_allVars(Pauses /\ Terminal)
  /\ SF_allVars(Program /\ \E length \in Lengths : Read(FALSE, length))
-----------------------------------------------------------------------------
(* Properties.                                                             *)

\* Every index is in its buffer, every count in its range, and the handler never
\* writes more into the device than it has room for.
TypeOK ==
  /\ typed \in Nat /\ fetched \in 0 .. typed /\ rx_level <= FifoDepth
  /\ shown \in 0 .. Len(output) /\ tx_level <= FifoDepth
  /\ output \in Seq(Nat) /\ AC \in BOOLEAN /\ pause_irq \in BOOLEAN
  /\ rx_buf \in [0 .. BUF_LEN - 1 -> Nat] /\ tx_buf \in [0 .. BUF_LEN - 1 -> Nat]
  /\ {rx_in, rx_out, tx_in, tx_out, seen, n} \subseteq 0 .. BUF_LEN - 1
  /\ irq_enable \subseteq {"RE", "WE"}
  /\ host_inactive \in 0 .. IntMax - 2 /\ timeout \in 2 .. IntMax
  /\ isr \in {"off", "poll", "receive", "send"} /\ ravail \in BOOLEAN
  /\ control \in [ri : BOOLEAN, wi : BOOLEAN, space : 0 .. FifoDepth]
  /\ nonblock \in BOOLEAN /\ some \in BOOLEAN /\ count \in Nat
  /\ written \in Nat /\ input \in Seq(Nat)
  /\ alt_irq_active \subseteq {Uart, Timer} /\ alt_irq \subseteq {Uart, Timer}
  /\ serving \in {Thread, Scan, Uart, Timer}

ToHost == INSTANCE CharStream WITH Capacity <- BUF_LEN - 1, put <- written, taken <- output
FromHost == INSTANCE CharStream WITH Capacity <- BUF_LEN - 1 + FifoDepth, put <- typed, taken <- input

\* Every character written comes out of the driver once, in order, whatever the
\* handler and the program are at when they meet.
KeepsOutput == ToHost!Spec

\* Every character typed reaches the program once, in order: none is taken from
\* the device that has no place in the buffer.
KeepsInput == FromHost!Spec

\* No wake-up is lost on the way out: as long as there is anything to send and
\* the program is not about to enable the transmit interrupt, it is enabled.
WriterArmed ==
  serving = Thread /\ tx_in # tx_out =>
    "WE" \in irq_enable \/ pc \in {"write", "write_copy", "write_post", "write_kick"}

\* Nor on the way in: the receive interrupt is only off while there is
\* something to read, or by a read that is about to turn it on.
ReaderArmed ==
  pc \notin {"reset", "enable_device"} =>
    \/ "RE" \in irq_enable
    \/ rx_in # rx_out
    \/ pc \in {"read", "read_enable"} /\ some

\* Neither side waits for an interrupt that the other has left disabled.
Armed == WriterArmed /\ ReaderArmed

writing_stages == {"write", "write_copy", "write_post", "write_kick", "write_wait", "write_waited"}
reading_stages == {"read", "read_copy", "read_post", "read_enable", "read_wait"}

\* A call that may wait ends without what it was asked for only on a silence of
\* the host that the alarm has counted, never on a board without a clock.  A read
\* comes back with nothing, and a close with characters left in the buffer, only
\* after the time set, and not if that means never, however long the silence; a
\* write comes back with a rest after any silence.
ShortOnSilence ==
  [][/\ pc' = "idle" /\ ~nonblock =>
          /\ pc \in writing_stages /\ count > 0 => clock /\ host_inactive > 0
          /\ pc \in reading_stages /\ ~some => clock /\ host_away /\ timeout < IntMax - 1
     /\ pc = "close" /\ result' = "closed" /\ Len(output) # written =>
          clock /\ host_away /\ timeout < IntMax - 1]_allVars

\* All that is written reaches a host that listens, after exit too; a program
\* that goes on reading gets all that is typed; and a write ends.
KeepsMoving ==
  /\ []<>(shown = written)
  /\ []<>(Len(input) = typed \/ pc = "exited")
  /\ pc = "write" ~> pc = "idle"
=============================================================================
