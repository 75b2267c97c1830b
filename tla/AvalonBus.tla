----------------------------- MODULE AvalonBus -----------------------------
(***************************************************************************)
(* The Avalon-MM slave the DMA of Lab4 writes to, and its memory, as the   *)
(* DMA uses them: a beat is taken in a cycle with write and without        *)
(* waitrequest, the first beat of a burst fixes the address and the number *)
(* of its beats, and the others go to the addresses that follow.           *)
(***************************************************************************)
EXTENDS Naturals

CONSTANT AddrSpace

VARIABLES
  bus_left,   \* beats the slave still expects of the open burst
  bus_addr,   \* where it puts the next one
  mem         \* memory, defined where a word was ever written

vars == <<bus_left, bus_addr, mem>>
-----------------------------------------------------------------------------
Init == bus_left = 0 /\ bus_addr = 0 /\ mem = << >>

Reset == bus_left' = 0 /\ UNCHANGED <<bus_addr, mem>>

Accept(address, burstcount, word) ==
  LET opens == bus_left = 0
      at == IF opens THEN address ELSE bus_addr
      next == at + 4
  IN /\ mem' = [a \in DOMAIN mem \union {at} |->
                  IF a = at THEN word ELSE mem[a]]
     /\ bus_addr' = IF next >= AddrSpace THEN next - AddrSpace ELSE next
     /\ bus_left' = (IF opens THEN burstcount ELSE bus_left) - 1

ClockEdge(write, waitrequest, address, burstcount, word) ==
  IF write /\ ~waitrequest
    THEN Accept(address, burstcount, word)
    ELSE UNCHANGED vars
-----------------------------------------------------------------------------
(* Types of the bus and of the addresses written.                          *)
TypeOK ==
  /\ bus_left \in Nat /\ bus_addr \in 0 .. AddrSpace - 1
  /\ DOMAIN mem \subseteq 0 .. AddrSpace - 1
=============================================================================
