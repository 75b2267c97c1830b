---------------------------- MODULE MCExercises -----------------------------
(* Values for model checking Exercises.                                    *)
EXTENDS Exercises

\* The ratios main has, and those near the ends.
SomeRatios == {1, 10, 600, 800, 990, 999}
=============================================================================
