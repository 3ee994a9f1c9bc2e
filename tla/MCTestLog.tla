------------------------------ MODULE MCTestLog ------------------------------
(* The constants of a small suite: a log of three entries, the suite's task  *)
(* and two sub-tasks.                                                       *)
EXTENDS TestLog

CONSTANTS top, s1, s2, noName

MCSubs == {s1, s2}

==============================================================================
