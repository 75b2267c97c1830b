-------------------------- MODULE MCRealTimeClock --------------------------
(* Values for model checking RealTimeClock.                                *)
EXTENDS RealTimeClock

\* The writes of hello_world.c: start at 1:2:10, stop at 0:1:11, over midnight;
\* the stop values software passes through are 0:0:0 and 0:0:11.
FunctionTest2 ==
  << <<"Second", 10>>, <<"Minute", 2>>, <<"Hour", 1>>, <<"Set", 1>>, <<"Count", 1>>,
     <<"ThreshSec", 11>>, <<"ThreshMin", 1>>, <<"ThreshHour", 0>> >>

\* It keeps the rules the properties are proved under.
ASSUME ProgramKeepsRules == SetBeforeCount /\ WritesOfDay
=============================================================================
