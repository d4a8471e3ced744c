----------------------------- MODULE StepperAxis -----------------------------
(***************************************************************************)
(* A stepper axis, X or Y (src/src/motor.cpp).  Only main touches it: a    *)
(* pulse moves the carriage by one step unless it is at a mechanical stop, *)
(* where the pulse is lost, and the firmware counts every pulse it sends.  *)
(* The carriage is measured in steps; direction DIR1 drives it up, towards *)
(* the end where the status is MOTOR_SW1_ON.                               *)
(*                                                                         *)
(* A move command carries its direction in a byte that nobody validates.   *)
(* Any byte but DIR1 drives the carriage down, and one above DIR2 is       *)
(* counted with more than one step a pulse.                                *)
(***************************************************************************)
EXTENDS Integers

CONSTANTS
    Travel,     \* the carriage moves between 0 and Travel
    Lo, Hi,     \* status MOTOR_SW2_ON at or below Lo, MOTOR_SW1_ON at or above Hi
    MaxSteps,   \* largest nsteps of a move command
    MaxDir,     \* largest direction byte of a move command: 255
    CountMod,   \* 2^16: the step count of a calibration is a uint16_t
    PosBound    \* bound: no further test pulse, nor move in an unnamed
                \* direction, if |pos| is larger

ASSUME StepperAssumption ==
    /\ Travel \in Nat /\ Lo \in Nat /\ Hi \in Nat
    /\ Lo < Hi /\ Hi <= Travel
    /\ MaxSteps \in Nat \ {0} /\ MaxDir \in Nat \ {0}
    /\ CountMod \in Nat /\ Travel - Lo < CountMod
    /\ PosBound \in Nat

VARIABLES
    carriage,   \* where the carriage is
    pos,        \* x_pos or y_pos
    test_dir,   \* x_dir or y_dir, which only the self test uses
    pc,         \* what main is doing with the axis
    dir, left,  \* a move: its direction, the steps it has yet to try
    nsteps,     \* a calibration: the steps counted
    homed,      \* ghost: calibrated
    tested,     \* ghost: a self test has sent pulses since
    drift,      \* ghost: steps counted since that were not made
    span,       \* ghost: what the last calibration returned
    rest        \* ghost: carriage and pos when main was last idle

move == <<dir, left>>
calib == <<nsteps, homed, span>>
error == <<tested, drift>>
vars == <<carriage, pos, test_dir, pc, move, calib, error, rest>>

DIR1 == 0
DIR2 == 1

MOTOR_OK == 3
MOTOR_SW1_ON == 2
MOTOR_SW2_ON == 1

get_state == IF carriage >= Hi THEN MOTOR_SW1_ON
             ELSE IF carriage <= Lo THEN MOTOR_SW2_ON ELSE MOTOR_OK

\* The status the self test consults is initialised and never assigned again.
state == MOTOR_OK

Init ==
    /\ carriage \in 0 .. Travel
    /\ pos = 0
    /\ test_dir = DIR1
    /\ pc = "idle"
    /\ dir = DIR1 /\ left = 0
    /\ nsteps = 0 /\ homed = FALSE /\ span = 0
    /\ tested = FALSE /\ drift = 0
    /\ rest = <<carriage, pos>>

\* When main is idle again, what it has done is done.
Rest == rest' = IF pc' = "idle" THEN <<carriage', pos'>> ELSE rest

-----------------------------------------------------------------------------
\* _motor_x_move, _motor_y_move: the pulse is counted, made or lost.  The
\* direction pin is high for every byte but DIR1.
Pulse(d) ==
    /\ carriage' = IF d = DIR1 THEN IF carriage < Travel THEN carriage + 1 ELSE carriage
                   ELSE IF carriage > 0 THEN carriage - 1 ELSE carriage
    /\ pos' = pos - (2 * d - 1)

MoveStart ==
    /\ pc = "idle"
    /\ pc' = "move"
    /\ dir' \in 0 .. MaxDir
    /\ dir' \in {DIR1, DIR2} \/ pos \in -PosBound .. PosBound
    /\ left' \in 0 .. MaxSteps
    /\ UNCHANGED <<carriage, pos, test_dir, calib, error>>
    /\ Rest

\* Fault: the two switches are taken for each other.
MayStep_Swapped ==
    \/ get_state = MOTOR_OK
    \/ get_state = MOTOR_SW1_ON /\ dir = DIR1
    \/ get_state = MOTOR_SW2_ON /\ dir = DIR2

\* A switch that is closed in the direction of the move refuses the step; in a
\* direction that is neither of the two, either switch does.
MayStep ==
    \/ get_state = MOTOR_OK
    \/ get_state = MOTOR_SW2_ON /\ dir = DIR1
    \/ get_state = MOTOR_SW1_ON /\ dir = DIR2

\* What a pulse in direction d adds to the count beyond the step it makes.
Excess(d) == IF d > DIR2 THEN 2 * (d - DIR2) ELSE 0

\* Fault: the loop runs while steps <= nsteps.
MoveStep_OneMore ==
    /\ pc = "move"
    /\ IF left >= 0 /\ MayStep
       THEN Pulse(dir) /\ left' = left - 1 /\ pc' = pc /\ drift' = drift - Excess(dir)
       ELSE UNCHANGED <<carriage, pos, drift>> /\ left' = 0 /\ pc' = "idle"
    /\ UNCHANGED <<test_dir, dir, calib, tested>>
    /\ Rest

MoveStep ==
    /\ pc = "move"
    /\ IF left > 0 /\ MayStep
       THEN Pulse(dir) /\ left' = left - 1 /\ pc' = pc /\ drift' = drift - Excess(dir)
       ELSE UNCHANGED <<carriage, pos, drift>> /\ left' = 0 /\ pc' = "idle"
    /\ UNCHANGED <<test_dir, dir, calib, tested>>
    /\ Rest

-----------------------------------------------------------------------------
\* The calibration sends its first pulse before it has looked at a switch.
CalibStart ==
    /\ pc = "idle"
    /\ pc' = "seek_sw1"
    /\ Pulse(DIR1)
    /\ nsteps' = 0
    /\ homed' = FALSE
    /\ UNCHANGED <<test_dir, move, span, error>>
    /\ Rest

\* Fault: the search for SW1 looks at the switch and sends no further pulse.
CalibSeekSW1_NoPulse ==
    /\ pc = "seek_sw1"
    /\ pc' = IF get_state # MOTOR_SW1_ON THEN pc ELSE "seek_sw2"
    /\ UNCHANGED <<carriage, pos, test_dir, move, calib, error>>
    /\ Rest

CalibSeekSW1 ==
    /\ pc = "seek_sw1"
    /\ IF get_state # MOTOR_SW1_ON
       THEN Pulse(DIR1) /\ pc' = pc
       ELSE UNCHANGED <<carriage, pos>> /\ pc' = "seek_sw2"
    /\ UNCHANGED <<test_dir, move, calib, error>>
    /\ Rest

CalibSeekSW2 ==
    /\ pc = "seek_sw2"
    /\ get_state # MOTOR_SW2_ON
    /\ Pulse(DIR2)
    /\ nsteps' = (nsteps + 1) % CountMod
    /\ UNCHANGED <<test_dir, pc, move, homed, span, error>>
    /\ Rest

\* Fault: the position is not reset.
CalibEnd_NoReset ==
    /\ pc = "seek_sw2"
    /\ get_state = MOTOR_SW2_ON
    /\ span' = nsteps
    /\ homed' = TRUE /\ tested' = FALSE /\ drift' = 0
    /\ pc' = "idle"
    /\ UNCHANGED <<carriage, pos, test_dir, move, nsteps>>
    /\ Rest

CalibEnd ==
    /\ pc = "seek_sw2"
    /\ get_state = MOTOR_SW2_ON
    /\ pos' = 0
    /\ span' = nsteps
    /\ homed' = TRUE /\ tested' = FALSE /\ drift' = 0
    /\ pc' = "idle"
    /\ UNCHANGED <<carriage, test_dir, move, nsteps>>
    /\ Rest

\* The X or Y part of test_exec: a pulse that no switch is asked about.
TestStep ==
    /\ pc = "idle"
    /\ pos \in -PosBound .. PosBound
    /\ test_dir' = IF state = MOTOR_SW2_ON THEN DIR1
                   ELSE IF state = MOTOR_SW1_ON THEN DIR2 ELSE test_dir
    /\ Pulse(test_dir')
    /\ tested' = TRUE
    /\ drift' = IF carriage = Travel THEN drift + 1 ELSE drift
    /\ UNCHANGED <<pc, move, calib>>
    /\ Rest

Command == MoveStart \/ CalibStart \/ TestStep
Main == MoveStep \/ CalibSeekSW1 \/ CalibSeekSW2 \/ CalibEnd

Next == Command \/ Main

Spec == Init /\ [][Next]_vars

\* main finishes what it has begun; commands are never guaranteed.
FairSpec == Spec /\ WF_vars(Main)

-----------------------------------------------------------------------------
(***************************************************************************)
(* Properties.                                                             *)
(***************************************************************************)

\* Every variable has its type; neither loop counter wraps.
TypeOK ==
    /\ carriage \in 0 .. Travel
    /\ pos \in Int
    /\ test_dir \in {DIR1, DIR2}
    /\ pc \in {"idle", "move", "seek_sw1", "seek_sw2"}
    /\ dir \in 0 .. MaxDir /\ left \in 0 .. MaxSteps
    /\ nsteps \in 0 .. (CountMod - 1) /\ span \in 0 .. (CountMod - 1)
    /\ homed \in BOOLEAN /\ tested \in BOOLEAN /\ drift \in Int
    /\ rest \in (0 .. Travel) \X Int

\* After a calibration, the position the firmware reports is the distance of
\* the carriage from SW2, but for pulses a self test has sent at the upper stop
\* and for what moves in unnamed directions have counted in excess; nothing
\* else ever makes it wrong.  The carriage stays above SW2 and, while no self
\* test runs, below SW1, in the range the calibration returned.
HomedPosition ==
    homed => /\ pos = carriage - Lo + drift
             /\ Lo <= carriage
             /\ tested \/ carriage <= Hi
             /\ Hi - Lo <= span

\* What a pulse in direction d counts for a step the carriage makes.
Weight(d) == IF d = DIR1 THEN 1 ELSE 2 * d - 1

\* A move never drives deeper into a closed switch and never loses a pulse,
\* also when the axis was not calibrated or a self test has run past a switch:
\* it counts every step it makes, as one in a direction that has a name, and
\* makes none at a switch in any other direction.
MovesAreExact ==
    [][pc = "move" =>
        /\ pos' - pos = Weight(dir) * (carriage' - carriage)
        /\ get_state = MOTOR_SW1_ON => carriage' <= carriage
        /\ get_state = MOTOR_SW2_ON => carriage' >= carriage
        /\ get_state # MOTOR_OK /\ dir \notin {DIR1, DIR2} => carriage' = carriage]_vars

\* Seen from one idle moment of main to the next, the axis is that of Axis: a
\* pulse counted but not made, or a step too many at a switch or in a loop, would
\* leave it elsewhere than the command says.
Whole == INSTANCE Axis WITH carriage <- rest[1], pos <- rest[2]

ImplementsAxis == Whole!Spec

\* Every move and every calibration comes to an end.
MainReturns == []<>(pc = "idle")
=============================================================================
