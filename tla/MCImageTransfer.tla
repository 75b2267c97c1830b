-------------------------- MODULE MCImageTransfer --------------------------
(* Values for model checking ImageTransfer.                                *)
EXTENDS ImageTransfer

\* Two buffers of one and two bursts of two words that share no address.
TwoBuffers == {[dest |-> 8, num |-> 2], [dest |-> 16, num |-> 4]}

\* The same with the bursts of four words of camera_top.vhd.
FourWordBuffers == {[dest |-> 16, num |-> 4], [dest |-> 32, num |-> 8]}
=============================================================================
