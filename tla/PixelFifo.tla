----------------------------- MODULE PixelFifo -----------------------------
(***************************************************************************)
(* The pixel FIFO between the camera clock and the system clock, the       *)
(* dcfifo instantiated by Lab4/hw/hdl/fifo_dual_clk/fifo_dual_clk.vhd:     *)
(* Depth words, show-ahead output, overflow and underflow checking on, and *)
(* a synchroniser of several stages between the write pointer and the read *)
(* side.                                                                   *)
(*                                                                         *)
(* Words are named by their position in the stream of the words that were  *)
(* ever stored, so the pointers say which words the FIFO holds.  A module  *)
(* that needs their contents keeps the stream itself.                      *)
(***************************************************************************)
EXTENDS Naturals

CONSTANT Depth    \* lpm_numwords, 1024 in the source

VARIABLES
  wr,    \* words stored
  rd,    \* words taken, or discarded by a clear
  seen   \* the write pointer as the read side knows it, rd <= seen <= wr

vars == <<wr, rd, seen>>

wrfull == wr - rd = Depth
rdusedw == seen - rd
rdempty == seen = rd
-----------------------------------------------------------------------------
Init == wr = 0 /\ rd = 0 /\ seen = 0

\* Mutant: only the read side forgets.
ClearSeen == seen' = rd /\ UNCHANGED <<wr, rd>>

\* aclr: what the FIFO holds is lost.
Clear == rd' = wr /\ seen' = wr /\ UNCHANGED wr

\* An edge of wrclk: a write to a full FIFO is ignored.
WriteEdge(wrreq) == wr' = IF wrreq /\ ~wrfull THEN wr + 1 ELSE wr

\* An edge of rdclk: a read of an empty FIFO is ignored, and the
\* synchroniser brings some of the words stored meanwhile.
ReadEdge(rdreq) ==
  /\ rd' = IF rdreq /\ ~rdempty THEN rd + 1 ELSE rd
  /\ seen' \in seen .. wr
-----------------------------------------------------------------------------
(* The pointers are ordered and at most Depth apart.                       *)
TypeOK ==
  /\ wr \in Nat /\ rd \in Nat /\ seen \in Nat
  /\ rd <= seen /\ seen <= wr
  /\ wr - rd <= Depth
=============================================================================
