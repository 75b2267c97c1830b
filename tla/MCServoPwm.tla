----------------------------- MODULE MCServoPwm -----------------------------
(* Values for model checking ServoPwm.                                     *)
EXTENDS ServoPwm

\* Both ends of the joystick and a place between.
EndsAndBetween == {0, 8191, FullScale}

\* 32 ticks of sampling, 16 of conversion for 14 bits, and two more in which
\* the start may be noticed.
AdcTicks == 48 .. 50
=============================================================================
