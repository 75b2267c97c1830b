--------------------------- MODULE MCSystemClock ----------------------------
(* Values for model checking SystemClock.                                  *)
EXTENDS SystemClock

\* From the next tick to the longest; callbacks end, go on at every
\* tick, or once a round of the counter but one.
SomeDelays == {0, 1, 2}
SomePeriods == {0, 1, 3}

\* No seconds, and some.
SomeTimes == {1, 8}
=============================================================================
