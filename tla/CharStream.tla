----------------------------- MODULE CharStream -----------------------------
(***************************************************************************)
(* What each direction of a character device promises: the characters that *)
(* are put in come out once each and in order, and no more than Capacity   *)
(* of them are on their way.  A character is its number in the stream.     *)
(***************************************************************************)
EXTENDS Naturals, Sequences

CONSTANT Capacity

VARIABLES
  put,    \* characters put in so far
  taken   \* the characters taken out so far

vars == <<put, taken>>

Init == put = 0 /\ taken = <<>>

Put ==
  /\ put' \in put .. Len(taken) + Capacity
  /\ UNCHANGED taken

Take ==
  /\ taken' \in {[c \in 1 .. t |-> c] : t \in Len(taken) .. put}
  /\ UNCHANGED put

Next == Put \/ Take

Spec == Init /\ [][Next]_vars
=============================================================================
