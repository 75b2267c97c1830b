----------------------------- MODULE FrameCopy -----------------------------
(***************************************************************************)
(* What the DMA of Lab4 promises, without bursts, counters or handshakes:  *)
(* a task copies the next words of the camera's stream to consecutive      *)
(* addresses, one at a time and none of them twice, and is reported as     *)
(* finished only when its last word is in memory.                          *)
(*                                                                         *)
(* A stream that runs dry leaves a gap, but only in the last word of a     *)
(* burst, because a burst is started with all its other words at hand.     *)
(***************************************************************************)
EXTENDS Naturals

CONSTANTS BurstBeats, AddrSpace, NoWord

VARIABLES
  busy,      \* a task is under way
  addr,      \* where its next word goes
  left,      \* words it still has to copy
  taken,     \* words taken from the stream
  mem,       \* memory, defined where a word was ever written
  finished   \* the report to software

vars == <<busy, addr, left, taken, mem, finished>>

Init ==
  /\ busy = FALSE /\ addr = 0 /\ left = 0
  /\ taken = 0 /\ mem = << >> /\ finished = FALSE

Stop == busy' = FALSE /\ addr' = 0 /\ left' = 0

Launch ==
  /\ ~busy /\ ~finished
  /\ busy' = TRUE /\ addr' \in Nat /\ left' \in Nat
  /\ UNCHANGED <<taken, mem, finished>>

Put(word) ==
  /\ mem' = [a \in DOMAIN mem \union {addr} |->
               IF a = addr THEN word ELSE mem[a]]
  /\ addr' = IF addr + 4 >= AddrSpace THEN addr + 4 - AddrSpace ELSE addr + 4
  /\ left' = left - 1

Copy ==
  /\ busy /\ left > 0
  /\ Put(taken)
  /\ taken' = taken + 1
  /\ UNCHANGED <<busy, finished>>

Gap ==
  /\ busy /\ left > 0 /\ left % BurstBeats = 1
  /\ Put(NoWord)
  /\ UNCHANGED <<busy, taken, finished>>

Finish ==
  /\ busy /\ left = 0
  /\ Stop /\ finished' = TRUE
  /\ UNCHANGED <<taken, mem>>

\* Software gives a task up: what is left of it is whole bursts.
Abandon ==
  /\ busy /\ left % BurstBeats = 0
  /\ Stop
  /\ UNCHANGED <<taken, mem, finished>>

Clear ==
  /\ finished /\ finished' = FALSE
  /\ UNCHANGED <<busy, addr, left, taken, mem>>

Reset ==
  /\ Stop /\ finished' = FALSE
  /\ taken' \in Nat /\ taken' >= taken
  /\ UNCHANGED mem

Next == Launch \/ Copy \/ Gap \/ Finish \/ Abandon \/ Clear \/ Reset

Spec == Init /\ [][Next]_vars
=============================================================================
