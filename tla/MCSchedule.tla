------------------------------ MODULE MCSchedule ------------------------------
(***************************************************************************)
(* An instance of Schedule: a day of four steps, an expression that is due *)
(* every other step and another one.                                       *)
(***************************************************************************)
EXTENDS Schedule

CONSTANTS P1, M1

Often == [period |-> 2, phase |-> 0]
TwoCrons == {Often, [period |-> 3, phase |-> 1]}

\* A job is early or late by a step.
BothSides == {-1, 1}

\* A window over midnight.
OverMidnight == {[start |-> 3, end |-> 1]}

===============================================================================
