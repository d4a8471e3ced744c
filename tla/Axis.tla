-------------------------------- MODULE Axis --------------------------------
(***************************************************************************)
(* What a stepper axis (src/src/motor.cpp) promises to whoever commands    *)
(* it: every command ends, and what it leaves behind can be told from      *)
(* where the axis stood before.  Nothing is said of the pulses in between. *)
(* The carriage is measured in steps, upwards in direction DIR1.           *)
(***************************************************************************)
EXTENDS Integers

CONSTANTS
    Travel,     \* the carriage moves between 0 and Travel
    Lo, Hi,     \* one switch is closed at or below Lo, the other at or above Hi
    MaxSteps,   \* largest number of steps of a move
    MaxDir      \* largest direction byte of a move

VARIABLES
    carriage,   \* where the carriage is
    pos,        \* where the firmware believes it is
    span        \* what the last calibration returned

vars == <<carriage, pos, span>>

Init == carriage \in 0 .. Travel /\ pos = 0 /\ span = 0

Less(a, b) == IF a < b THEN a ELSE b
More(a, b) == IF a < b THEN b ELSE a

\* A move towards a switch makes its steps, but none beyond where the switch
\* closes; every step is made and counted.
MoveUp(n) ==
    /\ carriage' = IF carriage < Hi THEN Less(carriage + n, Hi) ELSE carriage
    /\ pos' = pos + (carriage' - carriage)

MoveDown(n) ==
    /\ carriage' = IF Lo < carriage THEN More(carriage - n, Lo) ELSE carriage
    /\ pos' = pos + (carriage' - carriage)

\* A direction above the two that have a name leads down from between the
\* switches only, and every step is counted 2 * d - 1 times.
MoveAstray(d, n) ==
    /\ carriage < Hi /\ Lo < carriage
    /\ carriage' = More(carriage - n, Lo)
    /\ pos' = pos + (2 * d - 1) * (carriage' - carriage)

Move ==
    /\ \E n \in 1 .. MaxSteps :
          MoveUp(n) \/ MoveDown(n) \/ \E d \in 2 .. MaxDir : MoveAstray(d, n)
    /\ UNCHANGED span

\* A calibration ends where the lower switch closes, which is position 0.  It
\* returns the steps from where it has turned round, at the upper switch or one
\* step beyond where it began.
Turn == More(Less(carriage + 1, Travel), Hi)

Calibrate ==
    /\ carriage' = Lo /\ pos' = 0
    /\ span' = Turn - Lo

\* A test pulse is counted, also when the carriage stands at its stop.
TestPulse ==
    /\ carriage' = Less(carriage + 1, Travel)
    /\ pos' = pos + 1
    /\ UNCHANGED span

Next == Move \/ Calibrate \/ TestPulse

Spec == Init /\ [][Next]_vars
=============================================================================
