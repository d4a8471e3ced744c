-------------------------------- MODULE ZAxis --------------------------------
(***************************************************************************)
(* The Z axis of the printer: a DC motor whose position is kept by three   *)
(* actors that share unprotected global variables (src/src/motor.cpp):     *)
(*                                                                         *)
(*   main      runs the move, test and calibration routines one statement  *)
(*             at a time and may be interrupted between any two of them;   *)
(*   enc_isr   runs on every edge of the encoder, cuts both outputs and    *)
(*             counts the edge in the direction z_dir names;               *)
(*   pos_func  runs on every tick of the interval timer and drives the     *)
(*             motor towards the target z_pos.                             *)
(*                                                                         *)
(* Both handlers have the default interrupt priority, so neither preempts  *)
(* the other and each is one step; main stands still while an encoder      *)
(* interrupt is pending, but a timer tick pending at the same moment is    *)
(* served first (IRQ_PIT has the lower number).  The fourth actor is the   *)
(* carriage itself, measured in encoder edges from the mechanical stop on  *)
(* the side of switch SW2.                                                 *)
(***************************************************************************)
EXTENDS Integers

CONSTANTS
    Travel,     \* last position the carriage can reach, in encoder edges
    Lo, Hi,     \* SW2 is closed at or below Lo, SW1 at or above Hi
    Coast,      \* most edges the motor runs on after its outputs are cut
    MaxSteps,   \* largest nsteps of a move command
    Paced       \* TRUE: a command reaches the axis only while it is at rest

ASSUME ZAssumption ==
    /\ Travel \in Nat /\ Lo \in Nat /\ Hi \in Nat
    /\ Lo < Hi /\ Hi <= Travel
    /\ Coast \in Nat
    /\ MaxSteps \in Nat \ {0}
    /\ Paced \in BOOLEAN

VARIABLES
    carriage,   \* where the carriage is
    coast,      \* edges it may still run on by itself: > 0 up, < 0 down
    edge,       \* an encoder interrupt is pending
    pls, mns,   \* the two motor outputs: PLS drives down, MNS drives up
    timer,      \* pos_timer_z is running
    z_dir, z_pos, z_max, z_pos_cur,     \* the firmware's globals
    origin,     \* ghost: carriage position at which z_pos_cur was last zeroed
    pc,         \* the statement main executes next
    dir, left   \* motor_z_move: its direction, the steps it has yet to try

plant == <<carriage, coast, edge>>
outputs == <<pls, mns>>
counters == <<z_dir, z_pos, z_max, z_pos_cur, origin>>
vars == <<plant, outputs, timer, counters, pc, dir, left>>

\* DIR_OTHER stands for the direction bytes above DIR2, which a move command may
\* carry, too, and which the code does not tell apart.
DIR1 == 0
DIR2 == 1
DIR_OTHER == 2

Label ==
    {"idle", "check", "step", "clamp_high", "clamp_low",
     "cal_pls_off", "cal_mns_off", "cal_timer_end",
     "cal_dir_down", "cal_seek_sw2", "cal_drive_down", "cal_stop_down",
     "cal_zero", "cal_dir_up", "cal_seek_sw1", "cal_drive_up", "cal_stop_up",
     "cal_read", "cal_timer_begin"}

MOTOR_OK == 3
MOTOR_SW1_ON == 2
MOTOR_SW2_ON == 1

(***************************************************************************)
(* A limit switch reads 1 while it is open.  Note the naming: the status   *)
(* MOTOR_SW1_ON is the one in which the pin called SW2 reads 0.            *)
(***************************************************************************)
ReadSW1 == IF carriage >= Hi THEN 0 ELSE 1
ReadSW2 == IF carriage <= Lo THEN 0 ELSE 1
get_z_state == 2 * ReadSW1 + ReadSW2

\* Fault: the self test reads the switches, and turns z_dir under pos_func.
z_state_Live == get_z_state

\* The status the self test consults is initialised and never assigned again.
z_state == MOTOR_OK

Init ==
    /\ carriage \in 0 .. Travel
    /\ coast = 0
    /\ edge = FALSE
    /\ pls = FALSE /\ mns = FALSE
    /\ timer = FALSE
    /\ z_dir = DIR1
    /\ z_pos = 0 /\ z_max = 0 /\ z_pos_cur = 0
    /\ origin = 0
    /\ pc = "idle"
    /\ dir = DIR1 /\ left = 0

-----------------------------------------------------------------------------
(***************************************************************************)
(* The mechanics.  Edges are farther apart than a handler is long, so no   *)
(* edge comes while one is pending.  With both outputs on, or at the stop, *)
(* a driven motor does not turn.                                           *)
(***************************************************************************)
DriveEdge ==
    /\ ~edge
    /\ \/ /\ pls /\ ~mns /\ carriage > 0
          /\ carriage' = carriage - 1
          /\ coast' = -Coast
       \/ /\ mns /\ ~pls /\ carriage < Travel
          /\ carriage' = carriage + 1
          /\ coast' = Coast
    /\ edge' = TRUE
    /\ UNCHANGED <<outputs, timer, counters, pc, dir, left>>

CoastEdge ==
    /\ ~edge
    /\ \/ /\ coast < 0 /\ carriage > 0
          /\ carriage' = carriage - 1
          /\ coast' = coast + 1
       \/ /\ coast > 0 /\ carriage < Travel
          /\ carriage' = carriage + 1
          /\ coast' = coast - 1
    /\ edge' = TRUE
    /\ UNCHANGED <<outputs, timer, counters, pc, dir, left>>

Settle ==
    /\ coast # 0
    /\ coast' = 0
    /\ UNCHANGED <<carriage, edge, outputs, timer, counters, pc, dir, left>>

-----------------------------------------------------------------------------
(***************************************************************************)
(* The interrupt handlers.                                                 *)
(***************************************************************************)
\* Fault: the outputs stay on after an edge.
enc_isr_NoCut ==
    /\ edge
    /\ edge' = FALSE
    /\ z_pos_cur' = IF z_dir = DIR1 THEN z_pos_cur + 1 ELSE z_pos_cur - 1
    /\ UNCHANGED <<carriage, coast, outputs, timer, z_dir, z_pos, z_max, origin, pc, dir, left>>

enc_isr ==
    /\ edge
    /\ edge' = FALSE
    /\ pls' = FALSE /\ mns' = FALSE
    /\ z_pos_cur' = IF z_dir = DIR1 THEN z_pos_cur + 1 ELSE z_pos_cur - 1
    /\ UNCHANGED <<carriage, coast, timer, z_dir, z_pos, z_max, origin, pc, dir, left>>

\* Fault: the branch that drives up forgets to set the direction.
pos_func_NoDirection ==
    /\ timer
    /\ pls' = (z_pos_cur > z_pos)
    /\ mns' = (z_pos_cur < z_pos)
    /\ z_dir' = IF z_pos_cur > z_pos THEN DIR2 ELSE z_dir
    /\ UNCHANGED <<plant, timer, z_pos, z_max, z_pos_cur, origin, pc, dir, left>>

\* Fault: the branch that drives up is missing.
pos_func_DownOnly ==
    /\ timer
    /\ pls' = (z_pos_cur > z_pos)
    /\ mns' = FALSE
    /\ z_dir' = IF z_pos_cur > z_pos THEN DIR2 ELSE z_dir
    /\ UNCHANGED <<plant, timer, z_pos, z_max, z_pos_cur, origin, pc, dir, left>>

pos_func ==
    /\ timer
    /\ pls' = (z_pos_cur > z_pos)
    /\ mns' = (z_pos_cur < z_pos)
    /\ z_dir' = IF z_pos_cur > z_pos THEN DIR2
                ELSE IF z_pos_cur < z_pos THEN DIR1 ELSE z_dir
    /\ UNCHANGED <<plant, timer, z_pos, z_max, z_pos_cur, origin, pc, dir, left>>

-----------------------------------------------------------------------------
(***************************************************************************)
(* main: the commands that reach the axis.                                 *)
(***************************************************************************)
AtRest == ~pls /\ ~mns /\ ~edge /\ coast = 0 /\ z_pos_cur = z_pos

Accept ==
    /\ pc = "idle"
    /\ Paced => AtRest

\* main executes its next statement and goes on to the one named next.
Statement(here, next) ==
    /\ ~edge
    /\ pc = here
    /\ pc' = next

MoveStart ==
    /\ Accept
    /\ Statement("idle", "check")
    /\ dir' \in {DIR1, DIR2, DIR_OTHER}
    /\ left' \in 0 .. MaxSteps
    /\ UNCHANGED <<plant, outputs, timer, counters>>

\* The Z part of test_exec: one step in the direction the motor last had.
TestStart ==
    /\ Accept
    /\ Statement("idle", "step")
    /\ z_dir' = IF z_state = MOTOR_SW2_ON THEN DIR1
                ELSE IF z_state = MOTOR_SW1_ON THEN DIR2 ELSE z_dir
    /\ dir' = z_dir'
    /\ left' = 0
    /\ UNCHANGED <<plant, outputs, timer, z_pos, z_max, z_pos_cur, origin>>

CalibStart ==
    /\ Accept
    /\ Statement("idle", "cal_pls_off")
    /\ UNCHANGED <<plant, outputs, timer, counters, dir, left>>

\* A switch that is closed in the direction of the move refuses the step; in a
\* direction that is neither of the two, either switch does.
MayStep ==
    \/ get_z_state = MOTOR_OK
    \/ get_z_state = MOTOR_SW2_ON /\ dir = DIR1
    \/ get_z_state = MOTOR_SW1_ON /\ dir = DIR2

\* Fault: the loop runs while steps <= nsteps.
MoveCheck_OneMore ==
    /\ IF left >= 0 /\ MayStep
       THEN Statement("check", "step") /\ left' = left - 1
       ELSE Statement("check", "idle") /\ left' = 0
    /\ UNCHANGED <<plant, outputs, timer, counters, dir>>

MoveCheck ==
    /\ IF left > 0 /\ MayStep
       THEN Statement("check", "step") /\ left' = left - 1
       ELSE Statement("check", "idle") /\ left' = 0
    /\ UNCHANGED <<plant, outputs, timer, counters, dir>>

(***************************************************************************)
(* _motor_z_move writes the new target first and clamps it afterwards, so  *)
(* a tick between these statements sees a target out of range.             *)
(***************************************************************************)
MoveStep ==
    /\ Statement("step", "clamp_high")
    /\ z_pos' = IF dir = DIR1 THEN z_pos - 1 ELSE z_pos + 1
    /\ UNCHANGED <<plant, outputs, timer, z_dir, z_max, z_pos_cur, origin, dir, left>>

\* Fault: the upper limit is not applied.
ClampHigh_None ==
    /\ Statement("clamp_high", "clamp_low")
    /\ UNCHANGED <<plant, outputs, timer, counters, dir, left>>

ClampHigh ==
    /\ Statement("clamp_high", "clamp_low")
    /\ z_pos' = IF z_pos > z_max THEN z_max ELSE z_pos
    /\ UNCHANGED <<plant, outputs, timer, z_dir, z_max, z_pos_cur, origin, dir, left>>

\* Fault: the lower limit is applied to -1 only after it was passed.
ClampLow_OffByOne ==
    /\ Statement("clamp_low", "check")
    /\ z_pos' = IF z_pos < -1 THEN 0 ELSE z_pos
    /\ UNCHANGED <<plant, outputs, timer, z_dir, z_max, z_pos_cur, origin, dir, left>>

ClampLow ==
    /\ Statement("clamp_low", "check")
    /\ z_pos' = IF z_pos < 0 THEN 0 ELSE z_pos
    /\ UNCHANGED <<plant, outputs, timer, z_dir, z_max, z_pos_cur, origin, dir, left>>

-----------------------------------------------------------------------------
(***************************************************************************)
(* main: motor_z_calib, one action per statement that an interrupt can     *)
(* tell from its neighbours.                                               *)
(***************************************************************************)
SetOutput(here, next, p, m) ==
    /\ Statement(here, next)
    /\ pls' = p /\ mns' = m
    /\ UNCHANGED <<plant, timer, counters, dir, left>>

CalibOutputsOff ==
    \/ SetOutput("cal_pls_off", "cal_mns_off", FALSE, mns)
    \/ SetOutput("cal_mns_off", "cal_timer_end", pls, FALSE)

CalibTimerEnd ==
    /\ Statement("cal_timer_end", "cal_dir_down")
    /\ timer' = FALSE
    /\ UNCHANGED <<plant, outputs, counters, dir, left>>

CalibDirDown ==
    /\ Statement("cal_dir_down", "cal_seek_sw2")
    /\ z_dir' = DIR2
    /\ UNCHANGED <<plant, outputs, timer, z_pos, z_max, z_pos_cur, origin, dir, left>>

\* Drive down until SW2 closes, switching the output on again on every pass.
CalibSeekSW2 ==
    /\ IF ReadSW2 = 1 THEN Statement("cal_seek_sw2", "cal_drive_down")
                      ELSE Statement("cal_seek_sw2", "cal_stop_down")
    /\ UNCHANGED <<plant, outputs, timer, counters, dir, left>>

\* Fault: the search for SW2 drives the other output.
CalibDriveDown_WrongPin == SetOutput("cal_drive_down", "cal_seek_sw2", pls, TRUE)

CalibDriveDown == SetOutput("cal_drive_down", "cal_seek_sw2", TRUE, mns)
\* Fault: the output is left on when SW2 has closed.
CalibStopDown_LeftOn == SetOutput("cal_stop_down", "cal_zero", pls, mns)

CalibStopDown == SetOutput("cal_stop_down", "cal_zero", FALSE, mns)

\* Fault: the count is not reset at SW2.
CalibZero_NoReset ==
    /\ Statement("cal_zero", "cal_dir_up")
    /\ origin' = carriage
    /\ UNCHANGED <<plant, outputs, timer, z_dir, z_pos, z_max, z_pos_cur, dir, left>>

CalibZero ==
    /\ Statement("cal_zero", "cal_dir_up")
    /\ z_pos_cur' = 0
    /\ origin' = carriage
    /\ UNCHANGED <<plant, outputs, timer, z_dir, z_pos, z_max, dir, left>>

CalibDirUp ==
    /\ Statement("cal_dir_up", "cal_seek_sw1")
    /\ z_dir' = DIR1
    /\ UNCHANGED <<plant, outputs, timer, z_pos, z_max, z_pos_cur, origin, dir, left>>

CalibSeekSW1 ==
    /\ IF ReadSW1 = 1 THEN Statement("cal_seek_sw1", "cal_drive_up")
                      ELSE Statement("cal_seek_sw1", "cal_stop_up")
    /\ UNCHANGED <<plant, outputs, timer, counters, dir, left>>

CalibDriveUp == SetOutput("cal_drive_up", "cal_seek_sw1", pls, TRUE)
CalibStopUp == SetOutput("cal_stop_up", "cal_read", pls, FALSE)

\* After half a second, time enough for the motor to stop, the count is the span.
CalibRead ==
    /\ coast = 0
    /\ Statement("cal_read", "cal_timer_begin")
    /\ z_max' = z_pos_cur
    /\ z_pos' = z_pos_cur
    /\ UNCHANGED <<plant, outputs, timer, z_dir, z_pos_cur, origin, dir, left>>

CalibTimerBegin ==
    /\ Statement("cal_timer_begin", "idle")
    /\ timer' = TRUE
    /\ UNCHANGED <<plant, outputs, counters, dir, left>>

Command == MoveStart \/ TestStart \/ CalibStart

Main ==
    \/ MoveCheck \/ MoveStep \/ ClampHigh \/ ClampLow
    \/ CalibOutputsOff \/ CalibTimerEnd \/ CalibDirDown
    \/ CalibSeekSW2 \/ CalibDriveDown \/ CalibStopDown
    \/ CalibZero \/ CalibDirUp
    \/ CalibSeekSW1 \/ CalibDriveUp \/ CalibStopUp
    \/ CalibRead \/ CalibTimerBegin

Plant == DriveEdge \/ CoastEdge \/ Settle

Next == Plant \/ enc_isr \/ pos_func \/ Command \/ Main

Spec == Init /\ [][Next]_vars

(***************************************************************************)
(* What the machine guarantees: interrupts are served, main is scheduled   *)
(* between them, the timer ticks, a motor that is driven turns and one     *)
(* that coasts stops.  Commands are never guaranteed.                      *)
(***************************************************************************)
Fairness ==
    /\ WF_vars(enc_isr)
    /\ WF_vars(pos_func)
    /\ WF_vars(Main)
    /\ WF_vars(DriveEdge)
    /\ WF_vars(Settle)

FairSpec == Spec /\ Fairness

-----------------------------------------------------------------------------
(***************************************************************************)
(* Properties.                                                             *)
(***************************************************************************)

\* Every variable has its type; the loop counter of motor_z_move never wraps.
TypeOK ==
    /\ carriage \in 0 .. Travel
    /\ coast \in -Coast .. Coast
    /\ edge \in BOOLEAN /\ timer \in BOOLEAN
    /\ pls \in BOOLEAN /\ mns \in BOOLEAN
    /\ z_dir \in {DIR1, DIR2} /\ dir \in {DIR1, DIR2, DIR_OTHER}
    /\ z_pos \in Int /\ z_pos_cur \in Int /\ z_max \in Int
    /\ origin \in 0 .. Travel
    /\ left \in 0 .. MaxSteps
    /\ pc \in Label

\* The target that _motor_z_move leaves to pos_func is one the calibration
\* allows; inside its three statements it is at most one step out of range.
TargetInRange ==
    /\ pc \notin {"clamp_high", "clamp_low"} => 0 <= z_pos /\ z_pos <= z_max
    /\ -1 <= z_pos /\ z_pos <= z_max + 1

\* Whenever the timer runs, the range motor_z_calib measured reaches from one
\* limit switch to the other, however far the motor coasted past them.
CalibratedRange == timer => origin <= Lo /\ Hi <= origin + z_max

\* The two outputs are never on together: pos_func, enc_isr and the
\* calibration hand the motor to each other with the opposite output off.
OutputsExclusive == ~(pls /\ mns)

\* While pos_func is in charge, an output is on only with the direction in
\* which enc_isr counts the edges it causes, whoever wrote z_dir last.
DriveCounted == timer => (pls => z_dir = DIR2) /\ (mns => z_dir = DIR1)

\* A motor that stops at once is counted right: when no edge is pending,
\* z_pos_cur is the distance of the carriage from where it was zeroed.
Tracks == timer /\ ~edge => z_pos_cur = carriage - origin

\* pos_func does not look at the limit switches, and may see a target that is
\* not clamped yet: it overruns the calibrated range by one edge at most.
OverrunBounded ==
    timer => origin - 1 <= carriage /\ carriage <= origin + z_max + 1

\* A calibration that was started comes to an end.
CalibrationEnds == pc = "cal_pls_off" ~> pc = "idle"

\* "Position timer will take care": while the timer runs, the count is never
\* kept from the target for good.
Converges == []<>(timer => z_pos_cur = z_pos)
=============================================================================
