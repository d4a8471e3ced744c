----------------------------- MODULE ZAxisProofs -----------------------------
(***************************************************************************)
(* Theorems about the Z axis for every stroke, every position of the       *)
(* switches and every coasting distance, when commands come only while the *)
(* axis is at rest (Paced).                                                *)
(***************************************************************************)
EXTENDS ZAxis, TLAPS

(***************************************************************************)
(* The calibration by its phases.  Entering: the axis is at rest, so a     *)
(* tick that still comes finds nothing to do.  Down: the timer is stopped  *)
(* and only PLS is driven.  Up: only MNS is driven and every edge, also    *)
(* one of coasting the wrong way, is counted up.                           *)
(***************************************************************************)
Entering == {"cal_pls_off", "cal_mns_off", "cal_timer_end"}
Down == {"cal_dir_down", "cal_seek_sw2", "cal_drive_down", "cal_stop_down", "cal_zero"}
Up == {"cal_seek_sw1", "cal_drive_up", "cal_stop_up", "cal_read"}
Calibrating == Entering \cup Down \cup Up \cup {"cal_dir_up", "cal_timer_begin"}

\* An edge that was not served yet, as a number.
Pending == IF edge THEN 1 ELSE 0

EnteringInv == pc \in Entering => AtRest

DownInv ==
    pc \in Down =>
        /\ ~timer /\ ~mns /\ coast <= 0
        /\ pc # "cal_dir_down" => z_dir = DIR2
        /\ pc \in {"cal_stop_down", "cal_zero"} => carriage <= Lo
        /\ pc = "cal_zero" => ~pls

TurnInv ==
    pc = "cal_dir_up" =>
        /\ ~timer /\ ~mns /\ ~pls /\ coast <= 0
        /\ z_dir = DIR2
        /\ carriage <= origin /\ origin <= Lo
        /\ z_pos_cur - Pending = carriage - origin

UpInv ==
    pc \in Up =>
        /\ ~timer /\ ~pls
        /\ z_dir = DIR1
        /\ origin <= Lo
        /\ coast < 0 => carriage <= origin
        /\ z_pos_cur + Pending >= carriage - origin
        /\ pc \in {"cal_stop_up", "cal_read"} => carriage >= Hi
        /\ pc = "cal_read" => ~mns

BeginInv ==
    pc = "cal_timer_begin" =>
        /\ ~timer
        /\ origin <= Lo /\ Hi <= origin + z_max

\* Between its two clamps _motor_z_move has already applied the upper limit.
ClampInv == pc = "clamp_low" => z_pos <= z_max

\* The inductive invariant.
ZInv ==
    /\ 0 <= z_max
    /\ TargetInRange /\ ClampInv
    /\ CalibratedRange
    /\ OutputsExclusive
    /\ EnteringInv /\ DownInv /\ TurnInv /\ UpInv /\ BeginInv

-----------------------------------------------------------------------------
\* No step of any actor takes a variable out of its type.
LEMMA TypeStep == TypeOK /\ [Next]_vars => TypeOK'
<1> SUFFICES ASSUME TypeOK, [Next]_vars PROVE TypeOK'
    OBVIOUS
<1> USE ZAssumption DEF TypeOK, DIR1, DIR2, DIR_OTHER, vars, plant, outputs, counters
<1>1. CASE DriveEdge
    BY <1>1 DEF DriveEdge
<1>2. CASE CoastEdge
    BY <1>2 DEF CoastEdge
<1>3. CASE Settle
    BY <1>3 DEF Settle
<1>4. CASE enc_isr
    <2>1. edge' \in BOOLEAN /\ pls' \in BOOLEAN /\ mns' \in BOOLEAN
        BY <1>4, Zenon DEF enc_isr
    <2> QED
        BY <1>4, <2>1 DEF enc_isr
<1>5. CASE pos_func
    BY <1>5 DEF pos_func
<1>6. CASE Command
    BY <1>6 DEF Command, MoveStart, TestStart, CalibStart, Statement, z_state,
        MOTOR_OK, MOTOR_SW1_ON, MOTOR_SW2_ON, Label
<1>7. CASE MoveCheck \/ MoveStep \/ ClampHigh \/ ClampLow
    BY <1>7 DEF MoveCheck, MoveStep, ClampHigh, ClampLow, Statement, Label
<1>8. CASE CalibOutputsOff
    <2>1. CASE SetOutput("cal_pls_off", "cal_mns_off", FALSE, mns)
        <3>1. pls' \in BOOLEAN /\ mns' \in BOOLEAN
            BY <2>1, Zenon DEF SetOutput
        <3> QED
            BY <2>1, <3>1 DEF SetOutput, Statement, Label
    <2>2. CASE SetOutput("cal_mns_off", "cal_timer_end", pls, FALSE)
        <3>1. pls' \in BOOLEAN /\ mns' \in BOOLEAN
            BY <2>2, Zenon DEF SetOutput
        <3> QED
            BY <2>2, <3>1 DEF SetOutput, Statement, Label
    <2> QED
        BY <1>8, <2>1, <2>2 DEF CalibOutputsOff
<1>9. CASE CalibDirDown \/ CalibSeekSW2 \/ CalibDriveDown \/ CalibStopDown \/ CalibZero
    <2>1. CASE CalibDirDown \/ CalibSeekSW2
        BY <2>1 DEF CalibDirDown, CalibSeekSW2, Statement, Label
    <2>2. CASE CalibDriveDown \/ CalibStopDown
        BY <2>2 DEF CalibDriveDown, CalibStopDown, SetOutput, Statement, Label
    <2>3. CASE CalibZero
        BY <2>3 DEF CalibZero, Statement, Label
    <2> QED
        BY <1>9, <2>1, <2>2, <2>3
<1>10. CASE CalibDirUp \/ CalibSeekSW1 \/ CalibDriveUp \/ CalibStopUp \/ CalibRead
    <2>1. CASE CalibDirUp \/ CalibSeekSW1
        BY <2>1 DEF CalibDirUp, CalibSeekSW1, Statement, Label
    <2>2. CASE CalibDriveUp \/ CalibStopUp
        BY <2>2 DEF CalibDriveUp, CalibStopUp, SetOutput, Statement, Label
    <2>3. CASE CalibRead
        BY <2>3 DEF CalibRead, Statement, Label
    <2> QED
        BY <1>10, <2>1, <2>2, <2>3
<1>11. CASE CalibTimerEnd \/ CalibTimerBegin
    <2>1. timer' \in BOOLEAN
        BY <1>11, Zenon DEF CalibTimerEnd, CalibTimerBegin
    <2> QED
        BY <1>11, <2>1 DEF CalibTimerEnd, CalibTimerBegin, Statement, Label
<1>12. CASE UNCHANGED vars
    BY <1>12
<1> QED
    BY <1>1, <1>2, <1>3, <1>4, <1>5, <1>6, <1>7, <1>8, <1>9, <1>10, <1>11, <1>12
    DEF Next, Plant, Main

\* Every variable keeps its type, whatever the commands and however paced.
THEOREM TypeCorrect == Spec => []TypeOK
<1>1. Init => TypeOK
    <2> SUFFICES ASSUME Init PROVE TypeOK
        OBVIOUS
    <2>1. edge \in BOOLEAN /\ timer \in BOOLEAN /\ pls \in BOOLEAN /\ mns \in BOOLEAN
        BY Zenon DEF Init
    <2> QED
        BY <2>1, ZAssumption DEF Init, TypeOK, Label, DIR1, DIR2, DIR_OTHER
<1> QED
    BY <1>1, TypeStep, PTL DEF Spec

-----------------------------------------------------------------------------
\* With commands only at rest, every step keeps the invariant.
LEMMA ZStep == Paced /\ TypeOK /\ ZInv /\ [Next]_vars => ZInv'
<1> SUFFICES ASSUME Paced, TypeOK, ZInv, [Next]_vars PROVE ZInv'
    OBVIOUS
<1> USE ZAssumption DEF TypeOK, ZInv, TargetInRange, ClampInv, CalibratedRange,
        OutputsExclusive, EnteringInv, DownInv, TurnInv, UpInv, BeginInv,
        Entering, Down, Up, Pending, AtRest, DIR1, DIR2, DIR_OTHER, plant, outputs, counters
<1>1. CASE DriveEdge
    BY <1>1 DEF DriveEdge
<1>2. CASE CoastEdge
    BY <1>2 DEF CoastEdge
<1>3. CASE Settle
    BY <1>3 DEF Settle
<1>4. CASE enc_isr
    BY <1>4 DEF enc_isr
<1>5. CASE pos_func
    BY <1>5 DEF pos_func
<1>6. CASE MoveStart
    BY <1>6 DEF MoveStart, Accept, Statement
<1>7. CASE TestStart
    BY <1>7 DEF TestStart, Accept, Statement, z_state, MOTOR_OK, MOTOR_SW1_ON, MOTOR_SW2_ON
<1>8. CASE CalibStart
    BY <1>8 DEF CalibStart, Accept, Statement
<1>9. CASE MoveCheck
    BY <1>9 DEF MoveCheck, Statement
<1>10. CASE MoveStep
    BY <1>10 DEF MoveStep, Statement
<1>11. CASE ClampHigh
    BY <1>11 DEF ClampHigh, Statement
<1>12. CASE ClampLow
    BY <1>12 DEF ClampLow, Statement
<1>13. CASE CalibOutputsOff
    BY <1>13 DEF CalibOutputsOff, SetOutput, Statement
<1>14. CASE CalibTimerEnd
    BY <1>14 DEF CalibTimerEnd, Statement
<1>15. CASE CalibDirDown
    BY <1>15 DEF CalibDirDown, Statement
<1>16. CASE CalibSeekSW2
    BY <1>16 DEF CalibSeekSW2, ReadSW2, Statement
<1>17. CASE CalibDriveDown
    BY <1>17 DEF CalibDriveDown, SetOutput, Statement
<1>18. CASE CalibStopDown
    BY <1>18 DEF CalibStopDown, SetOutput, Statement
<1>19. CASE CalibZero
    <2>1. pc' = "cal_dir_up" /\ origin' = carriage /\ z_pos_cur' = 0 /\ ~edge'
        BY <1>19 DEF CalibZero, Statement
    <2>2. ~timer' /\ ~mns' /\ ~pls' /\ coast' <= 0 /\ z_dir' = DIR2
        BY <1>19 DEF CalibZero, Statement
    <2>3. carriage' = carriage /\ carriage <= Lo
        BY <1>19 DEF CalibZero, Statement
    <2>4. z_pos_cur' - Pending' = carriage' - origin'
        <3>1. Pending' = 0
            BY <2>1, Zenon
        <3>2. carriage' = origin' /\ carriage' \in Int
            BY <2>1, <2>3
        <3> HIDE DEF Pending
        <3> QED
            BY <2>1, <3>1, <3>2
    <2>5. TurnInv'
        BY <2>1, <2>2, <2>3, <2>4
    <2> QED
        BY <1>19, <2>1, <2>2, <2>5 DEF CalibZero
<1>20. CASE CalibDirUp
    BY <1>20 DEF CalibDirUp, Statement
<1>21. CASE CalibSeekSW1
    BY <1>21 DEF CalibSeekSW1, ReadSW1, Statement
<1>22. CASE CalibDriveUp
    BY <1>22 DEF CalibDriveUp, SetOutput, Statement
<1>23. CASE CalibStopUp
    BY <1>23 DEF CalibStopUp, SetOutput, Statement
<1>24. CASE CalibRead
    BY <1>24 DEF CalibRead, Statement
<1>25. CASE CalibTimerBegin
    BY <1>25 DEF CalibTimerBegin, Statement
<1>26. CASE UNCHANGED vars
    BY <1>26 DEF vars
<1> QED
    BY <1>1, <1>2, <1>3, <1>4, <1>5, <1>6, <1>7, <1>8, <1>9, <1>10, <1>11, <1>12, <1>13, <1>14, <1>15, <1>16, <1>17, <1>18, <1>19, <1>20, <1>21, <1>22, <1>23, <1>24, <1>25, <1>26
    DEF Next, Plant, Command, Main

\* The invariant is what the theorems below need of a reachable state.
LEMMA ZInvariant == ASSUME Paced PROVE Spec => []ZInv
<1>1. Init => ZInv
    BY ZAssumption DEF Init, ZInv, TargetInRange, ClampInv, CalibratedRange,
        OutputsExclusive, EnteringInv, DownInv, TurnInv, UpInv, BeginInv,
        Entering, Down, Up
<1>2. TypeOK /\ ZInv /\ [Next]_vars => ZInv'
    BY ZStep
<1> QED
    BY <1>1, <1>2, TypeCorrect, PTL DEF Spec

\* However far the motor coasts, a target left to pos_func is in the calibrated
\* range, and never more than one step outside while it is being clamped.
THEOREM TargetStaysInRange == ASSUME Paced PROVE Spec => []TargetInRange
<1>1. ZInv => TargetInRange
    BY DEF ZInv
<1> QED
    BY <1>1, ZInvariant, PTL

\* However far the motor coasts, the range that motor_z_calib hands to the
\* timer contains the stretch between the two limit switches.
THEOREM CalibrationSpansSwitches == ASSUME Paced PROVE Spec => []CalibratedRange
<1>1. ZInv => CalibratedRange
    BY DEF ZInv
<1> QED
    BY <1>1, ZInvariant, PTL

\* Commands that come at rest never put both outputs on.
THEOREM OutputsNeverBoth == ASSUME Paced PROVE Spec => []OutputsExclusive
<1>1. ZInv => OutputsExclusive
    BY DEF ZInv
<1> QED
    BY <1>1, ZInvariant, PTL

-----------------------------------------------------------------------------
(***************************************************************************)
(* DriveCounted needs no pacing.  What makes it hold is that the           *)
(* calibration gives the motor back with both outputs off, even when a     *)
(* tick switched one on behind its back.                                   *)
(***************************************************************************)
HandOver == {"cal_zero", "cal_dir_up", "cal_seek_sw1", "cal_drive_up", "cal_stop_up",
             "cal_read", "cal_timer_begin"}

DriveInv ==
    /\ DriveCounted
    /\ pc \in HandOver \cup (Down \ {"cal_zero"}) => ~timer
    /\ pc \in HandOver => ~pls
    /\ pc \in {"cal_read", "cal_timer_begin"} => ~mns

\* With commands at any moment, every step keeps DriveInv.
LEMMA DriveStep == TypeOK /\ DriveInv /\ [Next]_vars => DriveInv'
<1> SUFFICES ASSUME TypeOK, DriveInv, [Next]_vars PROVE DriveInv'
    OBVIOUS
<1> USE DEF TypeOK, DriveInv, DriveCounted, HandOver, Down, DIR1, DIR2,
        plant, outputs, counters
<1>1. CASE Plant
    BY <1>1 DEF Plant, DriveEdge, CoastEdge, Settle
<1>2. CASE enc_isr
    BY <1>2 DEF enc_isr
<1>3. CASE pos_func
    BY <1>3 DEF pos_func
<1>4. CASE Command
    BY <1>4 DEF Command, MoveStart, TestStart, CalibStart, Statement,
        z_state, MOTOR_OK, MOTOR_SW1_ON, MOTOR_SW2_ON
<1>5. CASE MoveCheck \/ MoveStep \/ ClampHigh \/ ClampLow
    BY <1>5 DEF MoveCheck, MoveStep, ClampHigh, ClampLow, Statement
<1>6. CASE CalibOutputsOff
    BY <1>6 DEF CalibOutputsOff, SetOutput, Statement
<1>7. CASE CalibTimerEnd \/ CalibDirDown \/ CalibSeekSW2
    BY <1>7 DEF CalibTimerEnd, CalibDirDown, CalibSeekSW2, Statement
<1>8. CASE CalibDriveDown \/ CalibStopDown
    BY <1>8 DEF CalibDriveDown, CalibStopDown, SetOutput, Statement
<1>9. CASE CalibZero \/ CalibDirUp \/ CalibSeekSW1
    BY <1>9 DEF CalibZero, CalibDirUp, CalibSeekSW1, Statement
<1>10. CASE CalibDriveUp \/ CalibStopUp
    BY <1>10 DEF CalibDriveUp, CalibStopUp, SetOutput, Statement
<1>11. CASE CalibRead \/ CalibTimerBegin
    BY <1>11 DEF CalibRead, CalibTimerBegin, Statement
<1>12. CASE UNCHANGED vars
    BY <1>12 DEF vars
<1> QED
    BY <1>1, <1>2, <1>3, <1>4, <1>5, <1>6, <1>7, <1>8, <1>9, <1>10, <1>11, <1>12
    DEF Next, Main

\* DriveInv holds of every reachable state, also of one where a command came early.
LEMMA DriveInvariant == Spec => []DriveInv
<1>1. Init => DriveInv
    BY DEF Init, DriveInv, DriveCounted, HandOver, Down
<1> QED
    BY <1>1, DriveStep, TypeCorrect, PTL DEF Spec

\* Whenever commands come and however far the motor coasts: while the timer
\* runs, an output is on only with the direction its edges are counted in.
THEOREM DriveIsCounted == Spec => []DriveCounted
<1>1. DriveInv => DriveCounted
    BY DEF DriveInv
<1> QED
    BY <1>1, DriveInvariant, PTL

-----------------------------------------------------------------------------
(***************************************************************************)
(* A motor that stops at once (Coast = 0).  The count is then exact: an    *)
(* edge that was not served yet is the only difference between z_pos_cur   *)
(* and the carriage, because nothing turns z_dir between an edge and its   *)
(* interrupt.  That is so because an output, or an edge it has caused, is  *)
(* on the side of the target that the count still has to cross; a command  *)
(* moves the target away from the count and never across it, except at the *)
(* two ends of the range, where it is clamped after the fact.              *)
(***************************************************************************)
\* An edge that was not served yet, in the direction it will be counted in.
Unserved == IF edge THEN (IF z_dir = DIR1 THEN 1 ELSE -1) ELSE 0
Counted == z_pos_cur + Unserved = carriage - origin

GoesUp == mns \/ (edge /\ z_dir = DIR1)
GoesDown == pls \/ (edge /\ z_dir = DIR2)
Moving == pc \in {"check", "step", "clamp_high", "clamp_low"}

ServoInv ==
    timer =>
        /\ Counted
        /\ -1 <= z_pos_cur /\ z_pos_cur <= z_max + 1
        /\ GoesUp => z_pos_cur <= z_pos /\ z_pos_cur <= z_max
        /\ GoesDown => z_pos <= z_pos_cur /\ 0 <= z_pos_cur

\* A move in direction DIR1 takes the target down, so that the axis only
\* goes up to come back from -1.
RetreatInv ==
    timer /\ Moving /\ dir = DIR1 =>
        /\ z_pos <= z_pos_cur \/ z_pos_cur = -1
        /\ GoesUp => z_pos_cur = -1
        /\ GoesDown => z_pos < z_pos_cur \/ z_pos_cur = 0
        /\ z_pos_cur = -1 => z_pos <= 0

\* A move in any other direction, likewise, only goes down to come back from z_max + 1.
AdvanceInv ==
    timer /\ Moving /\ dir # DIR1 =>
        /\ z_pos_cur <= z_pos \/ z_pos_cur = z_max + 1
        /\ GoesDown => z_pos_cur = z_max + 1
        /\ GoesUp => z_pos_cur < z_pos \/ z_pos_cur = z_max
        /\ z_pos_cur = z_max + 1 => z_max <= z_pos

\* The calibration counts from where it has zeroed the count.
MeasureInv ==
    /\ pc = "cal_dir_up" => ~edge /\ z_pos_cur = 0 /\ carriage = origin
    /\ pc \in Up => Counted
    /\ pc = "cal_timer_begin" =>
        /\ ~edge /\ ~pls /\ ~mns
        /\ z_pos = z_pos_cur /\ z_max = z_pos_cur
        /\ Counted

TrackInv ==
    /\ coast = 0
    /\ ServoInv /\ RetreatInv /\ AdvanceInv
    /\ MeasureInv

\* With commands only at rest and no coasting, every step keeps the invariant.
LEMMA TrackStep ==
    Paced /\ Coast = 0 /\ TypeOK /\ ZInv /\ DriveInv /\ TrackInv /\ [Next]_vars => TrackInv'
<1> SUFFICES ASSUME Paced, Coast = 0, TypeOK, ZInv, DriveInv, TrackInv, [Next]_vars
             PROVE  TrackInv'
    OBVIOUS
<1> USE ZAssumption DEF TypeOK, ZInv, TargetInRange, ClampInv, OutputsExclusive,
        EnteringInv, DownInv, TurnInv, UpInv, DriveInv, DriveCounted, HandOver,
        TrackInv, ServoInv, RetreatInv, AdvanceInv, MeasureInv,
        Unserved, Counted, GoesUp, GoesDown, Moving,
        Entering, Down, Up, AtRest, DIR1, DIR2, DIR_OTHER, plant, outputs, counters
<1>1. CASE DriveEdge
    BY <1>1 DEF DriveEdge
<1>2. CASE CoastEdge
    BY <1>2 DEF CoastEdge
<1>3. CASE Settle
    BY <1>3 DEF Settle
<1>4. CASE enc_isr
    BY <1>4 DEF enc_isr
<1>5. CASE pos_func
    BY <1>5 DEF pos_func
<1>6. CASE MoveStart
    BY <1>6 DEF MoveStart, Accept, Statement
<1>7. CASE TestStart
    BY <1>7 DEF TestStart, Accept, Statement, z_state, MOTOR_OK, MOTOR_SW1_ON, MOTOR_SW2_ON
<1>8. CASE CalibStart
    BY <1>8 DEF CalibStart, Accept, Statement
<1>9. CASE MoveCheck
    BY <1>9 DEF MoveCheck, Statement
<1>10. CASE MoveStep
    BY <1>10 DEF MoveStep, Statement
<1>11. CASE ClampHigh
    BY <1>11 DEF ClampHigh, Statement
<1>12. CASE ClampLow
    BY <1>12 DEF ClampLow, Statement
<1>13. CASE CalibOutputsOff
    BY <1>13 DEF CalibOutputsOff, SetOutput, Statement
<1>14. CASE CalibTimerEnd
    BY <1>14 DEF CalibTimerEnd, Statement
<1>15. CASE CalibDirDown
    BY <1>15 DEF CalibDirDown, Statement
<1>16. CASE CalibSeekSW2
    BY <1>16 DEF CalibSeekSW2, ReadSW2, Statement
<1>17. CASE CalibDriveDown
    BY <1>17 DEF CalibDriveDown, SetOutput, Statement
<1>18. CASE CalibStopDown
    BY <1>18 DEF CalibStopDown, SetOutput, Statement
<1>19. CASE CalibZero
    BY <1>19 DEF CalibZero, Statement
<1>20. CASE CalibDirUp
    BY <1>20 DEF CalibDirUp, Statement
<1>21. CASE CalibSeekSW1
    BY <1>21 DEF CalibSeekSW1, ReadSW1, Statement
<1>22. CASE CalibDriveUp
    BY <1>22 DEF CalibDriveUp, SetOutput, Statement
<1>23. CASE CalibStopUp
    BY <1>23 DEF CalibStopUp, SetOutput, Statement
<1>24. CASE CalibRead
    BY <1>24 DEF CalibRead, Statement
<1>25. CASE CalibTimerBegin
    BY <1>25 DEF CalibTimerBegin, Statement
<1>26. CASE UNCHANGED vars
    BY <1>26 DEF vars
<1> QED
    BY <1>1, <1>2, <1>3, <1>4, <1>5, <1>6, <1>7, <1>8, <1>9, <1>10, <1>11, <1>12, <1>13, <1>14, <1>15, <1>16, <1>17, <1>18, <1>19, <1>20, <1>21, <1>22, <1>23, <1>24, <1>25, <1>26
    DEF Next, Plant, Command, Main

\* TrackInv holds of every reachable state of a motor that stops at once.
LEMMA TrackInvariant == ASSUME Paced, Coast = 0 PROVE Spec => []TrackInv
<1>1. Init => TrackInv
    BY ZAssumption DEF Init, TrackInv, ServoInv, RetreatInv, AdvanceInv, MeasureInv, Moving, Up
<1>2. TypeOK /\ ZInv /\ DriveInv /\ TrackInv /\ [Next]_vars => TrackInv'
    BY TrackStep
<1> QED
    BY <1>1, <1>2, TypeCorrect, ZInvariant, DriveInvariant, PTL DEF Spec

\* A motor that stops at once, commanded only at rest, is never counted wrong:
\* not by a move, a self test or a calibration, whenever the interrupts come.
THEOREM CountIsExact == ASSUME Paced, Coast = 0 PROVE Spec => []Tracks
<1>1. TypeOK /\ TrackInv => Tracks
    BY DEF TypeOK, TrackInv, ServoInv, Counted, Unserved, Tracks
<1> QED
    BY <1>1, TypeCorrect, TrackInvariant, PTL

\* Such a motor leaves the calibrated range by one edge at most, although
\* pos_func never looks at a limit switch and may see an unclamped target.
THEOREM OverrunStaysBounded == ASSUME Paced, Coast = 0 PROVE Spec => []OverrunBounded
<1>1. TypeOK /\ ZInv /\ TrackInv => OverrunBounded
    BY DEF TypeOK, ZInv, TrackInv, ServoInv, Counted, Unserved, GoesUp, GoesDown,
        OverrunBounded, DIR1, DIR2
<1> QED
    BY <1>1, TypeCorrect, ZInvariant, TrackInvariant, PTL
=============================================================================
