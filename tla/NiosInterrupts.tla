--------------------------- MODULE NiosInterrupts ---------------------------
(***************************************************************************)
(* Interrupts of the Nios II, as the HAL uses them: the enable bit of the  *)
(* processor, the mask of enabled lines, and the table of handlers that    *)
(* alt_irq_handler serves, lowest line first, until nothing is pending.    *)
(***************************************************************************)
EXTENDS Naturals, FiniteSetsExt

CONSTANTS
  Lines,     \* interrupt numbers
  Thread, Scan   \* what the processor is at, besides the handler of a line

VARIABLES
  pie,              \* the enable bit of the status register
  alt_irq_active,   \* the lines enabled, as in ienable
  alt_irq,          \* the lines that have a handler
  serving           \* Thread, Scan, or the line whose handler runs

vars == <<pie, alt_irq_active, alt_irq, serving>>

\* After reset; alt_irq_init enables the processor.
Init == pie = FALSE /\ alt_irq_active = {} /\ alt_irq = {} /\ serving = Thread

alt_irq_init ==
  /\ pie' = TRUE /\ alt_irq_active' = {}
  /\ UNCHANGED <<alt_irq, serving>>

alt_irq_disable_all == pie' = FALSE

\* Restores what alt_irq_disable_all found.
alt_irq_enable_all(context) == pie' = context

alt_irq_enable(id) ==
  /\ alt_irq_enable_all(pie)
  /\ alt_irq_active' = alt_irq_active \union {id}
  /\ UNCHANGED <<alt_irq, serving>>

\* Lines that are up and enabled.
ipending(up) == alt_irq_active \intersect up

Exception(up) ==
  /\ pie /\ serving = Thread /\ ipending(up) # {}
  /\ pie' = FALSE /\ serving' = Scan
  /\ UNCHANGED <<alt_irq_active, alt_irq>>

\* One round of alt_irq_handler, and its end.
Dispatch(up) ==
  /\ serving = Scan /\ ipending(up) # {}
  /\ serving' = Min(ipending(up))
  /\ UNCHANGED <<pie, alt_irq_active, alt_irq>>

HandlerReturns == serving' = Scan /\ UNCHANGED <<pie, alt_irq_active, alt_irq>>

Return(up) ==
  /\ serving = Scan /\ ipending(up) = {}
  /\ pie' = TRUE /\ serving' = Thread
  /\ UNCHANGED <<alt_irq_active, alt_irq>>
=============================================================================
