# Verification of the EPFL CS-473 embedded-systems labs

TLA+ models of the designs in this repository, TLC runs that check them on small
instances, and TLAPS proofs of the most important results for every instance.
The repository holds three pieces of work:

* **Lab4** - a camera on an FPGA: VHDL that takes frames from an image sensor, combines
  the pixels of its Bayer pattern into words, and writes pictures to memory by DMA. This is the
  core of the project: three clocked domains' worth of hand-shaking, two of them asynchronous.
* **lab2.2** - a real-time clock on six seven-segment digits: VHDL, a Nios II program that sets it, and the
  board support package `rtc_bsp` the program is linked with. Its console driver, interrupts, alarms and file
  descriptors are the concurrent code of that system, and are modelled too.
* **Lab1** - exercises on an MSP432. As it stands `main` runs exercise 7, a servo that follows a joystick, in two
  interrupt handlers; exercises 1 to 4 are its loops, delays and pulses.

What else there is under `src/` (Quartus databases, Qsys output, a downloaded SD card script) is generated or vendored.

## 1. Inventory

| Part | State | Operations | Properties that make it correct |
|---|---|---|---|
| DMA, `Lab4/hw/hdl/dma.vhd` | state, burst address, beats of the burst and of the task, length | one clock edge in each of IDLE, WAITBURST, BURST, TASKEND; reset | a task copies its words once each, in order, into its own buffer; bursts have the length they announce; the end is reported once and late enough |
| Register file, `AvalonSlaveCamera.vhd` | start, length, address, clear, finished, trigger, read data | write, read, acknowledgement of a task, reset | no write is lost or applied to a running task; a finish is not taken for another's |
| Pixel FIFO, `fifo_dual_clk.vhd` | words, and two pointers seen late | write edge, read edge, clear | no word lost, invented, or read twice |
| Multiplexer, `CameraMux.vhd` | colour of the last pixel, parity of the line | pixel-clock edge, reset | every pixel goes to the store of its colour |
| Average and combine, `AverageAndCombine.vhd` | state, blue pixel | pixel-clock edge, reset | a word is made of the four pixels of one 2x2 block |
| Camera controller, `CameraController.vhd`, `PixelRegister.vhd`, `fifo_single_clk.vhd` | two colour FIFOs, two latches | pixel-clock edge, reset | the FIFOs stay in step with the lines and never overflow |
| Sensor, `testbench/cmos_sensor_output_generator.vhd` | frame generator, six registers | command, pixel-clock edge, reset | environment of the above |
| Software of the camera | its place in the programming sequence | the accesses of `testbench/test_CameraTop.vhd` | environment of the above |
| Clock: counter, `counter_control.vhd`, `clk_divider.vhd` | INIT/COUNT/SET, three fields, a divider | clock edge, reset | one count of seconds from the start to the stop value |
| Clock: display, `display_control.vhd`, `bin_to_bcd.vhd` | whose turn it is, selection, digit, blanking | clock edge, reset | every digit is lit again and again, with its own value |
| Clock: registers, `RealTimeClock.vhd`; program, `hello_world.c` | eight registers; a program counter | write; the next write | the program gets the clock it asked for |
| Servo, exercise 7 of `Lab1/Lab_1/main.c` | timer, compare registers, ADC result, pins | two interrupt handlers, ticks of timer and converter | no pulse is broken by a write; each is that of the last sample; one sample per pulse |
| Exercises 1 to 4 of the same file | a loop's counter, pins, a timer | loops, `TimerDelay`, `TimerPWM` | pulses of the ratio, lights of the slot and delays of the length asked for |
| Exercises 5 and 6 of the same file | - | - | not modelled: the handler of 5 is commented out, 6 keeps no state |
| JTAG UART, `system_jtag_uart_0.v`, and its driver, `rtc_bsp/drivers/src/altera_avalon_jtag_uart_*.c` | two FIFOs, the bits for a pause and for activity of the host; two rings of characters, two interrupt enable bits, a count of seconds of silence | read, write, close, ioctl; interrupt handler, alarm; initialisation | no character lost, repeated or reordered; no interrupt left off that somebody waits for; a call gives up only on a host that is silent |
| Interrupts, `HAL/src/alt_irq_handler.c`, `alt_iic*.c`, `altera_nios2_gen2_irq.c` | processor enable, mask, table of handlers | exception, dispatch, enable and disable, registration | a handler runs when its line is up and enabled, and the program goes on after it |
| System clock, `HAL/src/alt_tick.c`, `alt_alarm_start.c`, `alt_settod.c`, `alt_gettod.c`, `alt_llist.h` | tick counter, list of alarms, offset of the time of day | tick, start and stop of alarms (by callbacks too), set and get the time | alarms run at their tick, over a rollover too; the list stays whole; the day goes on |
| File descriptors, `HAL/src/alt_open.c`, `alt_close.c`, `alt_get_fd.c`, `alt_fd_lock.c`, `alt_io_redirect.c`, ... | pool of descriptors, high water mark, list of devices | open, close, fcntl, lock, unlock, redirection | the pool holds what is open; nobody opens a locked device |
| Start-up, exception and cache code in assembly; profiler, boot log, formatting, heap, delay loop of the HAL | - | - | not modelled, section 6 |

How they interact. Software writes the register file over an Avalon bus; its outputs `start_dma_out`
and `start_camera_controller_out` enable the DMA and, on the *pixel* clock and without a synchroniser,
the multiplexer and the combining unit. Pixels flow from the sensor through the multiplexer into
the colour FIFOs and latches, as words into the pixel FIFO, across the clock boundary to the DMA, and in
bursts over a second Avalon bus to memory. The DMA tells the register file that a task is
finished, which clears the start bits and raises the flag software polls.

The program of lab2.2 writes the clock's registers over its bus and prints through the HAL: `write` finds the
device of its descriptor and calls the driver, which puts characters into a ring; the interrupt handler moves them from there to the
FIFO of the device, and characters the host types the other way. Program and handler share
the rings, the enable bits and nothing else; where there is a system clock its tick runs the alarm that counts the silence of the host,
by which blocked calls give up.

What is hard, and hard to test: two asynchronous clocks; a bus that may stall any cycle; levels and
one-cycle pulses that meet in the same cycle (acknowledgement and write); counters compared
by equality; latches that survive from one frame to the next; resets in the middle
of everything; in the clock, levels that are looked at once a second and values that are
written in three pieces; in the servo, an unbuffered compare register that is written while its counter runs; in the
driver, indices that are read before and used after an interrupt, and an enable bit that each side turns off in the belief
that the other will turn it on; callbacks that change the list that is being walked; counters that roll over. `PROJECT.json` lists each such hazard at its line with the properties that watch it.

## 2. Modules

```
 FrameCopy  (what the DMA promises)        WallClock  (what the clock promises)
     ^ ImplementsFrameCopy                     ^ ImplementsWallClock
 ImageTransfer <- ImageTransfer_proofs     RealTimeClock <- RealTimeClock_proofs
   Dma, AvalonSlaveCamera, PixelFifo,        CounterControl, ClkDivider (twice),
   AvalonBus                                 DisplayControl
 PixelPath = CmosSensor, CameraController (CameraMux, AverageAndCombine)
 CameraCapture = PixelPath, switched              <- Camera_proofs
 CameraTop = PixelPath and the parts of ImageTransfer

 ServoPwm <- ServoPwm_proofs              Exercises <- Exercises_proofs
   TimerA

 CharStream (twice: to and from the host)  Countdown  (what an alarm promises)
     ^ KeepsOutput, KeepsInput                 ^ OnTime
 Console <- Console_proofs                 SystemClock <- SystemClock_proofs
   JtagUart, NiosInterrupts
                                           Files <- Files_proofs
```

A component's module has the signals and variables of its entity as VARIABLES, its combinational
outputs as operators, and one action `ClockEdge` per clock, a disjunction over the states of its machine.
A composing module instantiates the components and makes one step of *all* of them on an edge, on
the values of the signals before it: that is what a synchronous design does, and what makes
"the write in the very cycle of the acknowledgement" a case that is checked rather than overlooked.

| Module | Source | State and actions |
|---|---|---|
| `Dma` | `dma.vhd` | the five registers; `Idle`, `WaitBurst`, `Burst`, `TaskEnd` are the cases of `state_setting` together with `cnt_changing`; `AM_write_out`, `DataAck_out`, `task_end_flag_out` are `output_process` |
| `AvalonSlaveCamera` | `AvalonSlaveCamera.vhd` | the six registers and `readdata`; `avalon_write`, `avalon_read`, `task_flag_setting` are its processes |
| `PixelFifo` | `fifo_dual_clk.vhd` | a word is its position in the stream, so the FIFO is three counters: stored, taken, and stored *as the read side knows it* |
| `AvalonBus` | external | a burst slave as the DMA uses it: the first beat fixes address and length |
| `ImageTransfer` | `camera_top.vhd`, system clock | the above, with software (`Host...`), any bus (`waitrequests`), and a camera that stores words at any moment |
| `FrameCopy` | - | words copied one at a time to consecutive addresses; finished only when all are there |
| `CmosSensor` | `cmos_sensor_output_generator.vhd` | frame generator with six configurable lengths |
| `CameraMux`, `AverageAndCombine`, `CameraController` | same names | their machines, latches and FIFOs |
| `PixelPath` | `camera_top.vhd`, sensor and controller | the wires between the two, and `ControllerEdge`; what drives them is left to the next and to `CameraTop` |
| `CameraCapture` | `camera_top.vhd`, pixel clock | `PixelPath`, with software that configures and switches, and two unsynchronised wires that may be seen a cycle apart |
| `CameraTop` | `camera_top.vhd`, `test_CameraTop.vhd` | everything on one clock, as the test bench runs it, with a bus that stalls a bounded number of cycles |
| `CounterControl`, `ClkDivider`, `DisplayControl` | same names, `bin_to_bcd.vhd` | their processes |
| `RealTimeClock` | `RealTimeClock.vhd`, `hello_world.c` | the above, with the registers and a program of register writes at any pace |
| `WallClock` | - | seconds of the day from a start to a stop value |
| `TimerA` | external | count, output toggled at `CCR1` and set at `CCR0`, flag at `CCR2`; a write of `CCR1` takes effect at once |
| `ServoPwm` | `Lab1/Lab_1/main.c`, exercise 7 | `Tick` is ACLK, for timer and converter; `TA0_N_IRQHandler` is one action; `ADC14_IRQHandler` is two, as the other handler may run between its read of the result and its write of the pulse |
| `Exercises` | `Lab1/Lab_1/main.c`, exercises 1 to 4 | `PwmGenerator` and `StrobeGpio` are one iteration of their loops; `TimerDelay` is four actions, as the timer counts between its statements; `CountUp` and `CountUpDown` are the timer |
| `JtagUart` | `system_jtag_uart_0.v`; the driver's `init`, `read`, `write`, `ioctl`, `fd`, `.h` | the state structure, the locals of a call, the device; `HostSends`, `HostTakes` and `HostPauses` are the other side of it; `Write...`, `Read...`, `Close`, `TIOCSTIMEOUT` are the calls, `Isr...` the handler, `Timeout` the alarm |
| `NiosInterrupts` | `alt_irq_handler.c`, `alt_irq.h`, `alt_legacy_irq.h`, `alt_sys_init.c` | enable bit, mask, handlers registered, and the line that is served; `Dispatch` is the loop from the lowest line up |
| `Console` | the above, `alt_main.c`, `alt_iic_isr_register.c`, `alt_read.c`, `alt_write.c`, `alt_exit.c` | start-up step by step, then a program that calls what it likes, two interrupts, and a host that types, listens and pauses |
| `CharStream` | - | characters that come out once each and in order, with a bounded number on their way |
| `SystemClock` | `alt_tick.c`, `alt_alarm_start.c`, `alt_llist.h`, `alt_settod.c`, `alt_gettod.c` | `TickBegin`, `Look`, `CallbackReturns`, `TickEnds` are the walk of `alt_tick`; while a callback runs, alarms are started and stopped |
| `Countdown` | - | ticks to come of each alarm; a tick never passes over one that is due |
| `Files` | `alt_open.c`, `alt_close.c`, `alt_get_fd.c`, `alt_fd_lock.c` and the files they work with | one action per call, each with its failures; three steps of redirection |

The MC modules hold the sets that the constants of these modules stand for.

Why `ImageTransfer`, `CameraCapture` *and* `CameraTop`: the first two take one clock domain each against
any behaviour of the other, which covers every ratio and phase of the clocks and every speed of camera and DMA;
the third gives each the pace of the other, which is what end-to-end properties
(a whole picture, no overflow, no underflow) depend on.

### Abstractions

* A pixel is its position (frame, row, column) and a word the record of the four pixels it is made of, so a
  misplaced, repeated or mixed pixel is visible whatever its value. The packing arithmetic
  (mean of two greens, eight bits a colour) is left out.
* A one-bit signal is a BOOLEAN; the start register is the set of its bits.
* Combinational processes are taken as the hardware they synthesise to. `output_process` of `dma.vhd` omits
  `cnt_pixel` from its sensitivity list, so a simulator may show `task_end_flag_out` later than the hardware does. The
  latches (line parity, pixel registers, blue pixel) follow their inputs within the cycle; races inside a cycle are not modelled.
* The write pointer of the pixel FIFO reaches the read side after any number of read edges (`ImageTransfer`) or
  after `SyncStages` (`CameraTop`).
* An access of software takes one cycle, with any number of idle cycles before it. Software follows
  `test_CameraTop.vhd`; polling the finished flag and clearing it follow from the register map,
  since the repository holds no Lab4 software. Software that gives a task up waits for the DMA to come to rest (`drain`).
* In `RealTimeClock` the state after power-up is the state after `nReset`.
* In `ServoPwm` time is counted in ticks of ACLK, and the handlers run between ticks, at most `Latency` of them after their interrupt. The `float` of the
  pulse computation is integer division: single precision can differ by one tick, which no property tells apart. The timer counts
  before it is configured to the end, and port 6 is never initialised, so output, flag and pin have any value at first.
* In `Exercises` the exercises share variables but not behaviours: `main` runs one. Time is iterations of a loop or ticks of ACLK.
* The HAL is the single-threaded one that is built: its semaphores are empty macros, so calls do not interleave with each other, only with
  interrupts. The build is `-O0`, so every look at an index in a loop is a read of memory.
* In `JtagUart` a character is its number in its stream. The loops of read and write are split
  where it matters that the handler may run: look at the other side's index, copy, move one's own index, enable the interrupt. A section with interrupts disabled is
  one step. The handler is split at its reads and writes of the device, which moves by itself. `Console` has boards with a system clock and without;
  that of lab2.2 has none, so `alt_alarm_start` fails there and the timeout becomes that for ever.
* The device of `JtagUart` follows `system_jtag_uart_0.v`. It interrupts for writing when its transmit FIFO has drained to a threshold (`fifo_AE`), and for reading only when the receive
  FIFO has filled to one (`fifo_AF`, 56 of 64) or the host has paused with characters waiting (`pause_irq`), which every read of the data takes back: a character alone does not interrupt.
  The activity bit is set by the host sending or pausing, not by its taking characters. A read spans two clocks: whether there was a character is known in the first and how many are left in the second, so the
  handler may be told of a character that it has not got (`IsrLate`). That `fifo_AE` and `fifo_AF` are registered, one clock late, is left out. When the host sends, takes and pauses (`r_val`, `r_ena`, `t_ena`, `t_pause` of the debug link) is up to the host.
* In `SystemClock` the product of `alt_settod.c` is taken modulo the span of the tick counter, both 32 bits wide in the code. The program works on alarms with interrupts disabled, as `alt_alarm_start` does; the list is its links, not a sequence.
* In `Files` names stand for their `alt_dev`. Failures of a file system's or device's own open and close are choices.

### What the code needs from its surroundings

Correct use is narrower than what the code accepts. Each rule is an assumption or a guard of a model, and a limit of what is shown:

* The DMA relies on four rules and enforces none. (1) `StallsIssue`: the bus refuses the strobe driven in WAITBURST. (2) `ReadyAtEnd`: the bus takes
  the last beat of a burst at once. Without these two, `transfer_any_bus` finds broken bursts. (3) Lengths are whole
  numbers of bursts: with any other the flag is raised and the DMA goes on, as the end of the task is compared for equality. (4) `TriggerAt`: software
  writes no other register while a task may end. A write in the very cycle of the acknowledgement takes the other branch of the register file, which keeps the start bit, and the task runs again; the rule excludes
  that cycle, so no property here is about such a second run.
* The sensor is given frames of an even width and height whose lines fit the colour FIFOs, half a line in each (`Settings` in `CameraCapture`). With an odd
  height the last line stays in the colour FIFOs for the next frame.
* The sensor leaves at least one cycle between the start of a frame and that of its first line (`frame_line_blank`): with zero, the least value it declares, the first pixel of a frame is lost.
* A picture from end to end needs a pace that no part of the code checks: `InPace` and `SettingAllowed` in `CameraTop`. A row of blocks is a number of whole bursts and has room in the
  pixel FIFO. A burst of `n` beats costs at most `n - 1` beats with all their stalls and three cycles more (`BurstCost`); a row costs its bursts and what the synchroniser adds (`RowCost`). That must be
  over before the first word of the next row, `frame_width + 2 * line_line_blank + 2` cycles later, and after the last row before the next frame, `line_frame_blank + frame_frame_blank`
  cycles later. The second bound is the tight one: the blanks of one cycle that `test_CameraTop.vhd` sets are too short for it. The next frame then begins before the task is over, the end of the task cuts its first line,
  and the pixels that stay in the colour FIFOs are mixed into the *next* picture; with `Frame(8, 4, 1, 1, 1, 1)` for `TwoBursts`, and without the ASSUME that excludes it, TLC finds `PictureWhole` violated. Buffers do not overlap (`BuffersApart`).
* Software of the clock sets it before it starts it, leaves it set (`SetBeforeCount`), and writes times of the day (`WritesOfDay`): the counter looks at both control bits
  once a second, and no register refuses 60. `hello_world.c` does both.
* `TimerDelay` is asked for less than two seconds, what `uint16_t` holds, and the program is back at its next delay within a hundredth of a second (`LateAssumption`). That it is back
  before the timer has come round is not enough: the timer counts on while the program is away, and if it is already beyond the end of a *shorter* next delay when `CCR0` is
  written, or meets it too soon, that delay is not as long as was asked.
  `TimerPWM` is given ratios whose compare value is at neither end of the count, `PwmGenerator` ratios strictly between 0 and 1.
* A delay of `2^32 - 1` ticks cannot be told from none. An alarm is not started while it is listed; a callback does not start its own alarm, which
  would be removed again when it returns 0, nor stop the one after it, which would leave the walk in an alarm that points to itself.
* The time of day is followed up to the rollover of the tick counter. A program that sets it more than 71 minutes after the start, when the microseconds of the ticks no longer fit
  32 bits, gets a clock that is off by less than a second (`DayGoesOn` has both cases).
* A lock (`TIOCEXCL`) keeps others from *opening* the device and is granted although another descriptor has the device open if that is the one at the high water mark:
  the loop in `alt_fd_lock.c` ends one short of it (`LockKeepsOthersOut` says both).
* A write that blocks may come back with a rest after the first second in which the host was not active, however long the timeout (`ShortOnSilence`).

## 3. Properties and runs

Every property has a mutant of the source's logic in `PROJECT.json` that breaks it.

| Run | Question | Bounds |
|---|---|---|
| `transfer` | Does every word land once, in its place, before the flag rises, on a bus that keeps rules 1-4, with tasks given up and resets? (`BurstWhole`, `Placement`, `FinishMeansComplete`, `QuietWhileProgrammed`, `FinishedIsProgrammed`, `UnderflowOnlyOnLastBeat`, refinement `ImplementsFrameCopy`) | bursts of 4 beats, tasks of whole bursts, `MaxWords` 10, `MaxTasks` 2, `MaxResets` 1, FIFO of 4 |
| `transfer_live` | Does a started task end on *any* bus that is ready again and again? (`StartedFinishes`) | bursts of 2, one task |
| `capture` | Is every word one block, is nothing left between frames, do words keep coming, and how far does a capture or sensor reach that is switched *within* a frame? (`BlockCoherent`, `AlignedBetweenFrames`, `ColourFifosSuffice`, `FrameComplete`, `WordsKeepComing`) | frames 2x4 and 4x4, shortest blanks, frames numbered modulo 2, one cut between resets (`BlockCoherent` speaks of what follows a cut only after the next reset: what a cut leaves in the colour FIFOs is mixed into the next frame until then), resets at any time |
| `top` | Do whole pictures arrive, without overflow or underflow, one after the other, whenever `nrst` is pulsed? (`PictureWhole`, `NeverDry`, `NothingDropped`, `PictureFinishes`) | two pictures of 2 rows of 4 blocks, `MaxStall` 1, `SyncStages` 2, `MaxResets` 1 |
| `rtc` | Does the program get the clock and display it asked for? Is every number of six bits shown by its decimal digits? (`CountsFromStart`, `SettlesOnStop`, `BlankBetween`, `DigitsAreDecimal`, refinement `ImplementsWallClock`) | days of 2x3x12 seconds, one reset; all 64 values of a field for `DigitsAreDecimal` |
| `servo` | Is every pulse whole, in range and that of the last sample, however late the handlers are, and does the servo follow a joystick that is held? (`TypeOK`, `PulseUnbroken`, `PulseIsFresh`, `SampledBetweenPulses`, `FollowsStick`) | the period of `main`, 20 ms or 655 ticks; three positions of the joystick; conversions of 48 to 50 ticks; `Latency` 2 |
| `exercises` | Has every whole round its pattern, and every delay its length, wherever loop, timer and pin are at first? (`PatternHeld`, `DelayLasts`) | six ratios, among them those of `main` and the two next to the ends; a period of 20 ms; delays of 1 and 2 hundredths; `MaxLate` 3; slots of 3 iterations, a word of 16 |
| `console` | On the board of lab2.2, does all that is written reach a host that listens, and all that is typed a program that reads? (`KeepsMoving`) | rings of 3 cells, device FIFOs of 2 that interrupt at 1 and at 2, calls of 1 and 3, `MaxIn` 3, `MaxOut` 4 |
| `console_away` | Are characters kept, and interrupts on, whatever the calls, the host and the clock do? Does only a silence of the host end a call before its time? (`TypeOK`, `Armed`, `ShortOnSilence`, refinements `KeepsOutput`, `KeepsInput`) | as above, with and without a clock, `IntMax` 4, timeouts 0 and 2, `MaxIn` 3, `MaxOut` 3 |
| `clock` | Do alarms run at their tick, while callbacks change their list and the counter rolls over? (`ListWhole`, `DayGoesOn`, refinement `OnTime`) | three alarms, a counter of 2 bits, delays 0 to 2, periods 0, 1 and 3, two ticks a second of 6 microseconds: the product of the third tick does not fit |
| `files` | Does the pool hold what is open and nothing else, is a locked device opened by nobody, and a lock granted to whom? (`PoolIsWhatIsOpen`, `LockKeepsOthersOut`) | 6 descriptors, console, `/dev/null` and one file system |

Why the bounds are enough. A burst of four beats has a first, an inner and a last beat besides the one that is short; two
bursts show the step from one to the next; two tasks and disjoint buffers show what is left over from the one to the other; the FIFO
of four words is the least a burst can start from, so the camera fills it and empties it. Frames of two and four columns have first, inner and last
columns, four rows have both parities twice, and the shortest blanks leave the machines the least time. Numbering frames modulo 2 suffices to tell a pixel from one of the frame before.
A day of 72 seconds has every carry, seconds with a tens digit, and stop values that software passes through
while it writes the three fields. `HzDivider` leaves room for one scan of the six digits, as the real ratio of 10,000 does.
`servo` runs with the program's own numbers: the two ends of the joystick give the longest and the shortest pulse. A handler is over in microseconds, so two ticks of 30 are more
than it takes; the proofs say how much more it could take. `exercises` runs with the program's numbers too, but for `StrobeGpio`, where only the order of the four
bounds and of the word counts. A ring of three cells holds two characters, so a call of one fits and one of three does not; three characters typed are one more than fits and take the index around; indices wrap within either of the two runs,
and the FIFO of two is full, partly filled and empty. An `IntMax` of 4 has a timeout that can be reached, one that means never and the one without a clock. Two
bits of counter roll over within every alarm's life; three alarms are the one that runs, the one after it and one a callback adds or removes between. Three descriptors beyond the
standard streams are two users of a device and one gap between them.

Deadlock is checked in every run but the two of the console: after `_exit`, or when `MaxIn` and `MaxOut` are reached, that system rightly stops.

Fairness. `clk` and `Pclk` run (`WF` of the clock step). Software takes its next step eventually: it polls in a loop. In
`transfer_live`, the camera delivers, the synchroniser eventually shows all that was stored, and the bus is ready again and again (`SF`): a
slave may not stall for ever. In `servo`, ticks and handlers go on, as oscillator and interrupt controller do; the joystick need not move. In `console` the processor goes on, in start-up, in a call and
in a handler (`WF`), the host takes a character that is there (`WF`) and pauses again and again (`WF`), and the program, whenever it can call again and again, at some time calls a blocking read (`SF`): that is what the property is about. The pauses are those of a debug link that polls: without one, characters
below the threshold of the receive FIFO never interrupt, and the driver would take an idle host to be away. No fairness
is assumed of resets, aborts, triggers, captures that are cut, silence, typing, or of the program's other calls.

## 4. Findings

| Run | What it shows |
|---|---|
| `transfer_any_bus` | without rules 1 and 2: a bus that is ready at once takes the strobe of WAITBURST as a beat, and the burst gets one too many; a stall in the last cycle of a burst loses its last beat. `dma.vhd:78` has the comment "burst finish" where the bus still has a burst open |

Comments elsewhere in the repository promise more than the code beside them does. Each of these is modelled as the code has it, with a property that holds and says what can be relied on:

| Comment | Code | What holds |
|---|---|---|
| `alt_fd_lock.c:43`: the lock is granted "if there are no other open file descriptors which reference the same device" | the loop of line 61 leaves out the descriptor at `alt_max_fd` | that one is the only one overlooked, and whoever comes later is kept out: `LockKeepsOthersOut` |
| `alt_settod.c:61`: "an immediate call to gettimeofday() would return the value specified" | the product of line 84 is taken in 32 bits, that of `alt_gettod.c:93` in 64 | exact until the product overflows, then off by less than a second: `DayGoesOn` |
| `altera_avalon_jtag_uart_write.c:214`: "Host not connected", of the error a write returns | line 187 ends the call after one second without activity, whatever the timeout | never on a board without a clock, nor without a silence: `ShortOnSilence` |
| `altera_avalon_jtag_uart_init.c:158`: "If there is still data available here then the buffer is full" | the two halves of one read belong to two clocks of the device, so it need not be full | harmless, the interrupt is turned on again: `Armed`, `KeepsMoving` |

The other limits, those of section 2, are not promised by a comment or test; they are rules there and hazards in `PROJECT.json`.

## 5. Proofs

`ImageTransfer_proofs` proves, for every burst length, address space, FIFO depth, set of buffers and number of tasks,
words and resets allowed by the assumptions of `ImageTransfer`:

* `TypeCorrect`: `Spec => []TypeOK`. The inductive invariant `Typing` adds that the programmed address is an address.
* `NoUnderflowBeforeLastBeat`: `Spec => []UnderflowOnlyOnLastBeat`, with no rule on the bus at all. `BurstSupplied` is inductive: what the FIFO
  shows plus what the burst has sent never falls below `BurstLength`, as every step of the read side takes at most what it counts.
* `BurstsAreWhole`, `DmaRestsWhileProgrammed`, `FlagMeansIdle`, `FinishIsOfTheTask`: under `Discipline` (rules 1-4 above), the four
  handshake properties. None is inductive alone. The invariant `Handshake` joins
  `Bursts` (where the DMA is in its burst, what the bus still expects, and that what is left of the task is whole bursts),
  `Programmed` (the start bit is up only while software waits, over registers that hold its task),
  `Rests` (whatever tells software that the task is over, start bit and DMA are down),
  `Cleared` (the flag is down again before the next start) and `Taken` (the task latched is the task programmed). `HostSteps` reduces the accesses of software to ten
  effects on the registers; one lemma per part then shows that a clock edge preserves it.

* `EveryWordInPlace`, `FlagMeansComplete`, `NoBeatStrays`: under `Discipline`, `Spec => []Placement`, `[]FinishMeansComplete` and `[]NoStray` (no beat lands outside of the buffer of its task). `Placement` speaks of the
  words the DMA has counted, but a beat reaches memory at the address the *bus* counts, with the word the *FIFO* offers. `Copying` ties the three counters together:
  `Handshake` and `BurstSupplied`, `Copied` (the task latched is the one programmed, each word counted is at its place, the bus's next address is that of the next word, and so is the word the FIFO offers), and
  `FinishMeansComplete`. On a clock edge the beat taken is the one word that is added; aborts and resets drop the task with its counters.
* `TransferImplementsFrameCopy`: under `Discipline`, `Spec => ImplementsFrameCopy`. The refinement mapping (`copying`, `next_addr`, `words_left`) reads the contract's variables off the
  DMA's and the bus's. `ContractClk` goes through the edges of the clock: the one on which a task is latched is `Launch`, a beat is `Copy`
(or `Gap`, where the last beat of a burst has no word), an acknowledgement `Finish`, a withdrawn start bit `Abandon`; all others are stutters. `ContractStep` adds camera and reset.

`Camera_proofs` is about the camera. Of `CameraCapture` it proves for every frame size, blank and depth of the colour FIFOs that `Settings` allows, and whenever captures and sensor are switched and the design is reset: `WordsAreBlocks`
(`BlockCoherent`), `NothingLeftOver` (`AlignedBetweenFrames`), `HalfALineSuffices` (`ColourFifosSuffice`) and `OneWordEachBlock` (`FrameComplete`). No two of the machines share a counter: the multiplexer knows the parity of
the line from one bit and the colour of the pixel from its last state, the combining unit only whether a word is to be read. The invariant `Capturing` says where each of them is for each place of the
sensor. `Scanning` keeps the sensor inside of its frame. `InStep` is for frames that are not cut: `OnPixel` gives, for row and column, the states of the three machines and what lies in the colour FIFOs (in an odd
row what has been stored of it, in an even row what is left of the row above) and in the latches; `OffPixel` the same between the lines; `Resting` between frames and in frames nobody captures. `Counted` gives the
number of words. One lemma per colour (`GreenTaken`, `RedTaken`, `BlueTaken`, `SecondGreenTaken`) then follows a pixel, and `LineBeginStep`, `LineGoesOnStep`, `LineEndStep` and `BlankStep` the sensor.
`FollowsStep` sums them up for one edge of a frame that is captured whole, and `CameraTop` uses it as well.

Of `CameraTop` it proves, for every setting of the sensor, burst length, depth of the FIFO, length of the synchroniser, bound on stalls and set of buffers with `SettingAllowed`, `InPace` and `BuffersApart`:
`NoWordDropped` (`NothingDropped`), `DmaNeverDry` (`NeverDry`) and `PicturesWhole` (`PictureWhole`). The run has one such setting of two rows; the theorems have any number of rows and of bursts in a row. The first two properties say
something of two counters and depend on the time every part takes, and the third depends on all of them. The invariant `TopInv` (`TopInvariant`) has these parts:

* `HostPlace`, `SensorPlace`, `ControllerPlace`, `DmaPlace`: where the parts are while a picture is taken, and that otherwise they rest. `DmaPlace` has the words of whole bursts (`begun`).
* `FifoPlace`: the write pointer, its stages in the synchroniser and what the read side knows are one `line` that grows. `Tallied`: what is in the FIFO and what is sent is the `position` of the sensor in its frame.
* `Paced`, the clock of the proof. `Left` counts the cycles to the first word of the next row, or to the next frame; `Work(q)` what the DMA needs for the `q` bursts still open, and `d` more cycles pass until all their words are seen.
  Outside of the rows of blocks `Work(q) + d <= Left`; inside of a row nothing of the rows before is open. So there is room for a row when it begins, and the task is over when its frame is.
* `Spaced` and `Supplied`: `WAITBURST` starts a burst when one of its words is not yet seen. The words of a row are two cycles apart, and the last word of a burst never trails the one before it by more,
  so it is seen one edge later at the latest; a burst that has begun finds all of its words.
* `Gathered`, `Placed`: every word in the stream and every beat in memory is the block of its place, and the address the bus counts is that of the next.

On an edge the sensor goes through one of five phases (`PhaseStep`: a quiet cycle, the first word of a row, a cycle within it, its last word, the beginning of another frame) and the DMA makes one of eight moves (`DmaMoves`). `WorkDone` and
`WorkStep` set the one against the other: each cycle takes one from `Left` and at least one from the work, and `RowOpens` is where the two rules of `InPace` are spent. One lemma per part (`PacedKept`, `SpacedKept`, `SuppliedKept`, `GatheredKept`,
`PlacedKept`, `PictureWholeKept`, ...) then goes over phases and moves. Whole numbers of bursts are handled by `WholeGap` and `WholeSums`: two of them that differ do so by a burst. Power-up and `nrst`
meet in `Fresh`, which implies `TopInv`.

`RealTimeClock_proofs` proves `SelectionMovesBlank` (`BlankBetween`) with no rule at all, from `LitInTurn`: what is lit is the digit whose turn it is. `SetValueIsCounted` (`CountsFromStart`) is for every program with `SetBeforeCount`:
`loaded` is taken back when INIT zeroes the counter, so the property is about the value that is counted from. The invariant `SetFirst` says that when the count bit is up some earlier write has set the clock for good, so the set bit is up as well, and a counter that looks at both takes the start value first.
`CountersKeepTime` (`ImplementsWallClock`) is for every program with `WritesOfDay`, every length of minute, hour and day, and every divider. The refinement mapping is the sum of the three counters
in mixed base; that a tick with its carries adds one (`TotalCarries`), that two times with one sum are one time (`TotalsDiffer`, needed where the counter compares field by field and the contract the sums) and that the sum
of a time of the day is a second of the day (`TotalOfDay`) are the lemmas. `KeepsTime` keeps counters and registers inside of the day.

`Exercises_proofs` proves `DelaysLast` (`DelayLasts`) and `PatternsHold` (`PatternHeld`) for every ratio in thousandths strictly between 0 and 1, every period and delay that fits the timer, and every slot and word. `Showing` has one part per
exercise: `Pulsing`, `Strobing` and `UpDown` say, at each place of the round, what the output is and how long each bit was lit so far in a round that is whole; `Delaying` says where the timer is against the end
of the delay, in the wait and while the program is away. `RatioHeld` does the arithmetic of exercise 4: two integer divisions and the halving leave the pulse within two ticks of the ratio.

`ServoPwm_proofs` proves for every period, joystick and latency that every programmed pulse is in the servo's range (`PulseInRange`), and, if the numbers leave the time
(`InTime(longest)`, where no conversion takes more than `longest` ticks), that `PulsesAreUnbroken`, `PulsesAreFresh` and there is
`OneSamplePerPulse`. `InTime` is what the program counts on and checks nowhere: a tenth of the period is over before the sample at 3/4, and conversion plus
two latencies fit into the last quarter. The invariant `Servo` dates the work: `Stages` says that the work begun at `CCR2` is
waiting, converting or being served, no later in the period than its stage allows, or done; so nothing is under way when a pulse begins. `Shape` then gives the output and `Toggled`
the pin. With the program's 655 and 491 ticks, `InTime(50)` leaves latencies up to 56 ticks, 1.7 ms.

`Console_proofs` proves, for every length of the rings and of the device's FIFOs, every timeout, and with and without a clock: `ConsoleTypes`, `InterruptsAreOn` (`Armed`), `OutputIsKept` and `InputIsKept`
(the two refinements of `CharStream`) and `CallsArePatient` (`ShortOnSilence`). None is inductive: that a character comes out at its place depends on every cell of the ring, on what the program
has copied and not yet posted, and on what the handler has read and not yet stored. The invariant `ConsoleInv` consists of `Outgoing` and `Incoming` (what was put in is what came out and what lies in the ring,
with the two indices), `Cells` (which character each cell between them holds), `Locals` (what a snapshot of the other index still promises: the other side only makes room, or only adds), `Device` and
`Registers` (the handler writes no more than the room it read of), `Processor` (who is served, with interrupts on or off), `WriterOn`, `ReaderArmed` and `Handler` (where the handler turns the receive interrupt off, the device or the ring holds something: what a pause announces is there until it is read). `Counted` adds that only a clock counts silence. Lemmas on ring
arithmetic (`NextIndex`, `Fill`, `Filled`, ...) carry the modulo, so that no step's proof contains one.

`Files_proofs` proves for every size of the pool and every set of file systems that the pool is what is open (`PoolHolds`) and that locks hold, and whom they overlook (`LocksHold`: `LockKeepsOthersOut`). `FilesInv` adds to the properties
`Pool` (types, and which devices are registered when), `Unused` (what nobody holds is as `alt_release_fd` leaves it), `Holdings` (what is held is what was opened, and not above the high water mark: the reason why a search for locks that ends there misses none), `Redirected` (the standard streams, step by step of the start-up) and `Locks` (only the program locks, and only devices). `GivenBack` is the open that fails after it has taken a descriptor: what `alt_release_fd` leaves is what `alt_get_fd` had found, with the high water mark raised. `BelowMark` says that nothing that is open lies above the mark.

`SystemClock_proofs` proves for every set of alarms, width of the counter, delay and period: `ListStaysWhole`, `AlarmsAreOnTime` (the refinement of `Countdown`), and for every tick rate that divides the microseconds
of a second `TheDayGoesOn`. A linked list has no induction here; instead `ClockInv` says that *some* ranking of the nodes exists that grows along `next` from the head (`Ordered`), so the list is one
ring, and that in a walk every alarm that is still due is ranked beyond the place the walk has reached (`Walking`). An insertion goes before all others and a removal leaves the order of the rest, so each
step has a ranking to show. `Times_ahead` says how far the counter is from each alarm, rollover flag and modulo included. `DayInv` does the sum of offset and ticks: equal to the day that was set while the product fits, within a second of it otherwise.

TLC evaluates the assumptions on every run. Every property proved is also checked by a run, and the inductive invariants were
model-checked before they were proved.

Where a theorem has a rule as its hypothesis (`Settings`, `SettingAllowed`, `InPace`, `BuffersApart`, `SetBeforeCount`, `WritesOfDay`), the MC module assumes it of the
values it gives, so TLC confirms that the checked instance is one of those the theorem speaks of.

Only model-checked: all liveness properties, which are outside the prover's reach, as is `ENABLED`; and `bin_to_bcd`, a recursive definition, which TLC compares with the decimal digits of all 64 values (`DigitsAreDecimal`). Every other safety property
a passing run checks has a theorem. Not every theorem is without a rule: section 2 lists what each needs.

## 6. Not modelled, and why

* The packing arithmetic of `AverageAndCombine.vhd`, the digit-to-segment table `decode_seg.vhd`, and read ports that only
  show software what it wrote: no state depends on them.
* Metastability, and glitches within a cycle.
* Older test benches of Lab4, most for ports the entities no longer have; read for the intended use.
* Exercises 5 and 6 of Lab1: the handler of the one is commented out, the other prints what a free-running converter gives.
* `fstat`, `isatty` and `lseek`, which ask a device and change nothing.
* Start-up, exception entry and cache code in assembly: registers are moved, and the instructions it would emulate are not switched on. The profiler `alt_gmon.c` and the
  boot log `alt_log_printf.c`, which this build leaves out; formatting; `alt_sbrk.c`, a pointer; `alt_busy_sleep.c`, a loop; support for flash and DMA devices this system does not have.
  These and header files of register names are the greater part of the board support package, and the reason why the map covers a small part of its lines.
* Board top levels (pin lists), vendored and generated files.

## 7. What could follow

`CameraTop` has one clock for camera and bus, as the test bench has. The bound of `InPace` is stated in cycles of that clock; with a pixel clock of its own, at a ratio, it would have two units, and
`Left` and `Work` would count in different ones. The packing arithmetic of `AverageAndCombine.vhd` could be stated as operators and compared with a reference definition.
