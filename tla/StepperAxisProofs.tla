-------------------------- MODULE StepperAxisProofs --------------------------
(***************************************************************************)
(* Theorems about a stepper axis for every stroke, every position of the   *)
(* switches and every length of a move.                                    *)
(***************************************************************************)
EXTENDS StepperAxis, TLAPS

\* The self test never turns round.
TestDir == test_dir = DIR1

(***************************************************************************)
(* While the calibration counts its way down, the steps counted and the    *)
(* steps still to go add up to the stretch from where it turned round, at  *)
(* or beyond Hi; the count therefore cannot wrap.                          *)
(***************************************************************************)
CountInv ==
    /\ pc \in {"seek_sw1", "seek_sw2"} => ~homed
    /\ pc = "seek_sw1" => nsteps = 0
    /\ pc = "seek_sw2" => /\ Lo <= carriage
                          /\ Hi <= nsteps + carriage
                          /\ nsteps + carriage <= Travel

SInv == HomedPosition /\ CountInv /\ TestDir

USE DEF DIR1, DIR2, MOTOR_OK, MOTOR_SW1_ON, MOTOR_SW2_ON

\* A pulse leaves the carriage between its stops and the position an integer.
LEMMA PulseType ==
    ASSUME carriage \in 0 .. Travel, pos \in Int, NEW d \in Nat, Pulse(d)
    PROVE  carriage' \in 0 .. Travel /\ pos' \in Int
BY StepperAssumption DEF Pulse

\* A direction is a byte, and so is one that has a name.
LEMMA DirBytes == 0 .. MaxDir \subseteq Nat /\ {DIR1, DIR2} \subseteq 0 .. MaxDir
BY StepperAssumption

\* No step takes the carriage off its axis; what a finished command leaves
\* behind has its type.
LEMMA RestType ==
    ASSUME TypeOK, [Next]_vars
    PROVE  rest' \in (0 .. Travel) \X Int
<1>1. carriage' \in 0 .. Travel /\ pos' \in Int
    <2>1. CASE MoveStart \/ CalibEnd \/ UNCHANGED vars
        BY <2>1 DEF TypeOK, MoveStart, CalibEnd, vars, calib
    <2>2. CASE CalibStart \/ CalibSeekSW2
        BY <2>2, PulseType DEF TypeOK, CalibStart, CalibSeekSW2
    <2>3. CASE TestStep
        <3>1. test_dir' \in {DIR1, DIR2} /\ Pulse(test_dir')
            BY <2>3 DEF TypeOK, TestStep
        <3> QED
            BY <3>1, PulseType DEF TypeOK
    <2>4. CASE MoveStep
        <3>1. dir \in Nat
            BY DirBytes DEF TypeOK
        <3> QED
            BY <2>4, <3>1, PulseType DEF TypeOK, MoveStep
    <2>5. CASE CalibSeekSW1
        BY <2>5, PulseType DEF TypeOK, CalibSeekSW1
    <2> QED
        BY <2>1, <2>2, <2>3, <2>4, <2>5 DEF Next, Command, Main
<1>2. CASE UNCHANGED vars
    BY <1>2 DEF vars, TypeOK
<1>3. CASE Next
    <2>1. Rest
        BY <1>3 DEF Next, Command, Main, MoveStart, CalibStart, TestStep, MoveStep,
            CalibSeekSW1, CalibSeekSW2, CalibEnd
    <2> QED
        BY <1>1, <2>1 DEF Rest, TypeOK
<1> QED
    BY <1>2, <1>3

\* No step takes a variable out of its type.
LEMMA TypeStep == TypeOK /\ [Next]_vars => TypeOK'
<1> SUFFICES ASSUME TypeOK, [Next]_vars PROVE TypeOK'
    OBVIOUS
<1>0. rest' \in (0 .. Travel) \X Int
    BY RestType
<1> USE <1>0, StepperAssumption DEF TypeOK, move, calib, error
<1>1. CASE MoveStart
    BY <1>1 DEF MoveStart
<1>2. CASE CalibStart
    <2>1. homed' \in BOOLEAN
        BY <1>2, Zenon DEF CalibStart
    <2> QED
        BY <1>2, <2>1, PulseType DEF CalibStart
<1>3. CASE TestStep
    <2>1. tested' \in BOOLEAN
        BY <1>3, Zenon DEF TestStep
    <2>2. test_dir' \in {DIR1, DIR2}
        BY <1>3 DEF TestStep
    <2> QED
        BY <1>3, <2>1, <2>2, PulseType DEF TestStep
<1>4. CASE MoveStep
    <2>1. CASE left > 0 /\ MayStep
        <3>1. dir \in Nat /\ Excess(dir) \in Int
            BY DEF Excess
        <3> QED
            BY <1>4, <2>1, <3>1, PulseType DEF MoveStep
    <2>2. CASE ~(left > 0 /\ MayStep)
        BY <1>4, <2>2 DEF MoveStep
    <2> QED
        BY <2>1, <2>2
<1>5. CASE CalibSeekSW1
    <2>1. CASE get_state # MOTOR_SW1_ON
        BY <1>5, <2>1, PulseType DEF CalibSeekSW1
    <2>2. CASE get_state = MOTOR_SW1_ON
        BY <1>5, <2>2 DEF CalibSeekSW1
    <2> QED
        BY <2>1, <2>2
<1>6. CASE CalibSeekSW2
    BY <1>6, PulseType DEF CalibSeekSW2
<1>7. CASE CalibEnd
    <2>1. homed' \in BOOLEAN /\ tested' \in BOOLEAN
        BY <1>7, Zenon DEF CalibEnd
    <2> QED
        BY <1>7, <2>1 DEF CalibEnd
<1>8. CASE UNCHANGED vars
    BY <1>8 DEF vars
<1> QED
    BY <1>1, <1>2, <1>3, <1>4, <1>5, <1>6, <1>7, <1>8 DEF Next, Command, Main

\* Every variable keeps its type, and the loop counters never wrap.
THEOREM TypeCorrect == Spec => []TypeOK
<1>1. Init => TypeOK
    <2> SUFFICES ASSUME Init PROVE TypeOK
        OBVIOUS
    <2>1. homed \in BOOLEAN /\ tested \in BOOLEAN
        BY Zenon DEF Init
    <2> QED
        BY <2>1, StepperAssumption DEF Init, TypeOK
<1> QED
    BY <1>1, TypeStep, PTL DEF Spec

-----------------------------------------------------------------------------
\* Every step keeps the position of a calibrated axis right.
LEMMA HomedStep == TypeOK /\ SInv /\ [Next]_vars => SInv'
<1> SUFFICES ASSUME TypeOK, SInv, [Next]_vars PROVE SInv'
    OBVIOUS
<1> USE StepperAssumption DEF TypeOK, SInv, HomedPosition, CountInv, TestDir, move, calib, error
<1>1. CASE MoveStart
    BY <1>1 DEF MoveStart
<1>2. CASE CalibStart
    BY <1>2 DEF CalibStart
<1>3. CASE TestStep
    <2>1. tested' /\ homed' = homed /\ pc' = "idle" /\ span' = span
        BY <1>3 DEF TestStep
    <2>2. Pulse(DIR1)
        BY <1>3 DEF TestStep, state
    <2> QED
        BY <1>3, <2>1, <2>2 DEF TestStep, Pulse
<1>4. CASE MoveStep
    <2>1. CASE left > 0 /\ MayStep
        <3>1. CASE dir = DIR1
            BY <1>4, <2>1, <3>1 DEF MoveStep, MayStep, get_state, Pulse, Excess
        <3>2. CASE dir # DIR1
            <4>1. dir \in Nat /\ Lo < carriage
                BY <1>4, <2>1, <3>2, DirBytes DEF MayStep, get_state
            <4>2. carriage' = carriage - 1 /\ pos' = pos - (2 * dir - 1)
                BY <1>4, <2>1, <3>2, <4>1 DEF MoveStep, Pulse
            <4>3. drift' = drift - 2 * (dir - 1)
                BY <1>4, <2>1, <3>2, <4>1 DEF MoveStep, Excess
            <4>4. pc' = "move" /\ UNCHANGED <<homed, tested, span, test_dir>>
                BY <1>4, <2>1 DEF MoveStep
            <4>5. HomedPosition'
                BY <4>1, <4>2, <4>3, <4>4
            <4> QED
                BY <4>4, <4>5
        <3> QED
            BY <3>1, <3>2
    <2>2. CASE ~(left > 0 /\ MayStep)
        BY <1>4, <2>2 DEF MoveStep
    <2> QED
        BY <2>1, <2>2
<1>5. CASE CalibSeekSW1
    BY <1>5 DEF CalibSeekSW1, get_state
<1>6. CASE CalibSeekSW2
    <2>1. Lo < carriage
        BY <1>6 DEF CalibSeekSW2, get_state
    <2>2. carriage' = carriage - 1
        BY <1>6, <2>1 DEF CalibSeekSW2, Pulse
    <2>3. nsteps' = nsteps + 1
        BY <1>6, <2>1 DEF CalibSeekSW2
    <2> QED
        BY <1>6, <2>1, <2>2, <2>3 DEF CalibSeekSW2
<1>7. CASE CalibEnd
    BY <1>7 DEF CalibEnd, get_state
<1>8. CASE UNCHANGED vars
    BY <1>8 DEF vars
<1> QED
    BY <1>1, <1>2, <1>3, <1>4, <1>5, <1>6, <1>7, <1>8 DEF Next, Command, Main

\* After a calibration the reported position is where the carriage is, but for
\* test pulses at the upper stop and for moves in directions without a name.
THEOREM HomedPositionCorrect == Spec => []HomedPosition
<1>1. Init => SInv
    BY DEF Init, SInv, HomedPosition, CountInv, TestDir
<1>2. SInv => HomedPosition
    BY DEF SInv
<1> QED
    BY <1>1, <1>2, HomedStep, TypeCorrect, PTL DEF Spec

\* No move loses a pulse or drives deeper into a closed switch, whatever its
\* direction byte.
THEOREM MovesStayExact == Spec => MovesAreExact
<1> DEFINE Exact ==
        pc = "move" =>
            /\ pos' - pos = Weight(dir) * (carriage' - carriage)
            /\ get_state = MOTOR_SW1_ON => carriage' <= carriage
            /\ get_state = MOTOR_SW2_ON => carriage' >= carriage
            /\ get_state # MOTOR_OK /\ dir \notin {DIR1, DIR2} => carriage' = carriage
<1>1. TypeOK /\ [Next]_vars => [Exact]_vars
    <2> SUFFICES ASSUME TypeOK, Next, pc = "move" PROVE Exact
        OBVIOUS
    <2>1. MoveStep
        BY DEF Next, Command, Main, MoveStart, CalibStart, TestStep,
            CalibSeekSW1, CalibSeekSW2, CalibEnd
    <2>2. CASE left > 0 /\ MayStep
        <3>1. CASE dir = DIR1
            <4>1. carriage' = carriage + 1 /\ pos' = pos + 1 /\ get_state # MOTOR_SW1_ON
                BY <2>1, <2>2, <3>1, StepperAssumption
                DEF TypeOK, MoveStep, MayStep, get_state, Pulse
            <4> QED
                BY <3>1, <4>1 DEF TypeOK, Weight, get_state
        <3>2. CASE dir # DIR1
            <4>1. /\ carriage' = carriage - 1 /\ pos' = pos - (2 * dir - 1)
                  /\ get_state # MOTOR_SW2_ON
                  /\ get_state # MOTOR_OK => dir = DIR2
                BY <2>1, <2>2, <3>2, StepperAssumption
                DEF TypeOK, MoveStep, MayStep, get_state, Pulse
            <4>2. dir \in Nat
                BY DirBytes DEF TypeOK
            <4> QED
                BY <3>2, <4>1, <4>2 DEF TypeOK, Weight
        <3> QED
            BY <3>1, <3>2
    <2>3. CASE ~(left > 0 /\ MayStep)
        <3>1. carriage' - carriage = 0 /\ pos' - pos = 0 /\ carriage' = carriage
            BY <2>1, <2>3 DEF TypeOK, MoveStep
        <3>2. Weight(dir) \in Int
            BY DirBytes DEF TypeOK, Weight
        <3> QED
            BY <3>1, <3>2 DEF TypeOK
    <2> QED
        BY <2>2, <2>3
<1> QED
    BY <1>1, TypeCorrect, PTL DEF Spec, MovesAreExact

-----------------------------------------------------------------------------
(***************************************************************************)
(* Refinement.  Between its idle moments, what main has done so far of a   *)
(* command follows from where the axis rested: a move has made the steps   *)
(* it has not left, on this side of the switch it drives to; a calibration *)
(* is on its way up to where it turns round, or has counted from there.    *)
(* In a direction without a name a move makes steps only from between the  *)
(* switches.                                                               *)
(***************************************************************************)
MovedUp == carriage - rest[1]
MovedDown == rest[1] - carriage

MoveInv ==
    /\ pos - rest[2] = Weight(dir) * MovedUp
    /\ dir = DIR1 =>
        /\ 0 <= MovedUp
        /\ rest[1] < carriage => carriage <= Hi
        /\ left + MovedUp \in 0 .. MaxSteps
    /\ dir # DIR1 =>
        /\ 0 <= MovedDown
        /\ carriage < rest[1] => Lo <= carriage
        /\ left + MovedDown \in 0 .. MaxSteps
    /\ dir \notin {DIR1, DIR2} /\ carriage < rest[1] => Lo < rest[1] /\ rest[1] < Hi

RestInv ==
    /\ pc = "idle" => rest = <<carriage, pos>>
    /\ pc = "move" => MoveInv
    /\ pc = "seek_sw1" => /\ nsteps = 0
                          /\ Whole!Less(rest[1] + 1, Travel) <= carriage
                          /\ carriage <= Whole!Turn
    /\ pc = "seek_sw2" => Lo <= carriage /\ nsteps + carriage = Whole!Turn

\* One step more is one weight more.
LEMMA OneMore == \A w, k \in Int : /\ w * k \in Int /\ w * 0 = 0
                                  /\ w * (k - 1) = w * k - w /\ w * (k + 1) = w * k + w
OBVIOUS

\* Every step keeps to what the command has to do.
LEMMA RestStep == TypeOK /\ SInv /\ RestInv /\ [Next]_vars => RestInv'
<1> SUFFICES ASSUME TypeOK, SInv, RestInv, [Next]_vars PROVE RestInv'
    OBVIOUS
<1>0. rest[1] \in 0 .. Travel /\ rest[2] \in Int
    BY DEF TypeOK
<1>1. CASE MoveStart
    <2>1. rest = <<carriage, pos>> /\ rest' = rest /\ UNCHANGED <<carriage, pos>>
        BY <1>1 DEF MoveStart, RestInv, Rest
    <2>2. rest'[1] = carriage' /\ rest'[2] = pos'
        BY <2>1
    <2>3. left' \in 0 .. MaxSteps /\ MaxSteps \in Nat
        BY <1>1, StepperAssumption DEF MoveStart
    <2>4. pos' - rest'[2] = 0 /\ MovedUp' = 0 /\ MovedDown' = 0 /\ Weight(dir)' * 0 = 0
        <3>1. dir' \in Nat
            BY <1>1, DirBytes DEF MoveStart
        <3>2. Weight(dir)' \in Int
            BY <3>1 DEF Weight
        <3> QED
            BY <2>1, <2>2, <3>2, OneMore DEF MovedUp, MovedDown, TypeOK
    <2>5. MoveInv'
        <3>1. ~(rest[1] < carriage)' /\ ~(carriage < rest[1])'
            BY <2>1, <2>2 DEF TypeOK
        <3>2. \A n \in 0 .. MaxSteps : n + 0 = n
            BY StepperAssumption
        <3>3. left' + MovedUp' = left' /\ left' + MovedDown' = left'
            BY <2>3, <2>4, <3>2, Zenon
        <3>4. 0 <= MovedUp' /\ 0 <= MovedDown'
            BY <2>4
        <3> QED
            BY <2>3, <2>4, <3>1, <3>3, <3>4 DEF MoveInv
    <2> QED
        BY <1>1, <2>5 DEF MoveStart, RestInv
<1> USE <1>0, StepperAssumption DEF TypeOK, RestInv, Rest
<1>2. CASE CalibStart
    <2>1. rest = <<carriage, pos>> /\ rest' = rest
        BY <1>2 DEF CalibStart
    <2>2. rest'[1] = carriage
        BY <2>1
    <2> QED
        BY <1>2, <2>2 DEF CalibStart, Pulse, Whole!Turn, Whole!Less, Whole!More
<1>3. CASE TestStep
    BY <1>3 DEF TestStep
<1>4. CASE MoveStep
    <2>1. CASE left > 0 /\ MayStep
        <3>1. rest' = rest /\ pc' = "move" /\ dir' = dir /\ left' = left - 1
            BY <1>4, <2>1 DEF MoveStep
        <3>2. Weight(dir) \in Int /\ MovedUp \in Int /\ MoveInv
            BY <1>4, DirBytes DEF Weight, MovedUp, MoveStep
        <3>3. CASE dir = DIR1
            <4>1. carriage' = carriage + 1 /\ pos' = pos + 1 /\ carriage' <= Hi
                BY <1>4, <2>1, <3>3 DEF MoveStep, MayStep, get_state, Pulse
            <4>2. MoveInv'
                BY <2>1, <3>1, <3>2, <3>3, <4>1 DEF MoveInv, MovedUp, MovedDown, Weight
            <4> QED
                BY <3>1, <4>2
        <3>4. CASE dir # DIR1
            <4>1. /\ carriage' = carriage - 1 /\ pos' = pos - Weight(dir) /\ Lo <= carriage'
                  /\ dir \notin {DIR1, DIR2} => Lo < carriage /\ carriage < Hi
                BY <1>4, <2>1, <3>4, DirBytes DEF MoveStep, MayStep, get_state, Pulse, Weight
            <4>2. /\ MovedUp' = MovedUp - 1 /\ MovedDown' = MovedDown + 1
                  /\ Weight(dir)' = Weight(dir)
                BY <3>1, <4>1 DEF MovedUp, MovedDown, Weight
            <4>3. (pos - rest[2] = Weight(dir) * MovedUp)'
                <5>1. Weight(dir) * (MovedUp - 1) = Weight(dir) * MovedUp - Weight(dir)
                    BY <3>2, OneMore
                <5>2. pos' - rest'[2] = Weight(dir) * (MovedUp - 1)
                    <6>1. pos - rest[2] = Weight(dir) * MovedUp
                        BY <3>2 DEF MoveInv
                    <6> QED
                        BY <3>1, <3>2, <4>1, <5>1, <6>1, OneMore
                <5> QED
                    BY <4>2, <5>2
            <4>4. MoveInv'
                BY <2>1, <3>1, <3>2, <3>4, <4>1, <4>2, <4>3 DEF MoveInv, MovedDown
            <4> QED
                BY <3>1, <4>4
        <3> QED
            BY <3>3, <3>4
    <2>2. CASE ~(left > 0 /\ MayStep)
        BY <1>4, <2>2 DEF MoveStep
    <2> QED
        BY <2>1, <2>2
<1>5. CASE CalibSeekSW1
    <2>1. CASE get_state # MOTOR_SW1_ON
        <3>1. carriage < Hi /\ carriage' = carriage + 1 /\ rest' = rest /\ pc' = "seek_sw1"
            BY <1>5, <2>1 DEF CalibSeekSW1, get_state, Pulse
        <3> QED
            BY <1>5, <2>1, <3>1 DEF CalibSeekSW1, calib, Whole!Turn, Whole!Less, Whole!More
    <2>2. CASE get_state = MOTOR_SW1_ON
        <3>1. Hi <= carriage /\ carriage' = carriage /\ rest' = rest /\ pc' = "seek_sw2"
            BY <1>5, <2>2 DEF CalibSeekSW1, get_state
        <3> QED
            BY <1>5, <2>2, <3>1 DEF CalibSeekSW1, calib, Whole!Turn, Whole!Less, Whole!More
    <2> QED
        BY <2>1, <2>2
<1>6. CASE CalibSeekSW2
    <2>1. Lo < carriage /\ carriage' = carriage - 1
        BY <1>6 DEF CalibSeekSW2, get_state, Pulse
    <2>2. nsteps' = nsteps + 1
        BY <1>6, <2>1 DEF CalibSeekSW2, SInv, CountInv
    <2>3. rest' = rest /\ pc' = "seek_sw2" /\ pc = "seek_sw2"
        BY <1>6 DEF CalibSeekSW2
    <2> QED
        BY <2>1, <2>2, <2>3 DEF Whole!Turn, Whole!Less, Whole!More
<1>7. CASE CalibEnd
    BY <1>7 DEF CalibEnd
<1>8. CASE UNCHANGED vars
    BY <1>8 DEF vars, move, calib, MoveInv, MovedUp, MovedDown,
        Whole!Turn, Whole!Less, Whole!More
<1> QED
    BY <1>1, <1>2, <1>3, <1>4, <1>5, <1>6, <1>7, <1>8 DEF Next, Command, Main

\* The step with which main is idle again is a whole command of Axis, every
\* other one is nothing to it.
LEMMA WholeStep ==
    TypeOK /\ SInv /\ RestInv /\ [Next]_vars => [Whole!Next]_Whole!vars
<1> SUFFICES ASSUME TypeOK, SInv, RestInv, [Next]_vars
             PROVE  [Whole!Next]_Whole!vars
    OBVIOUS
<1>0. rest[1] \in 0 .. Travel /\ rest[2] \in Int
    BY DEF TypeOK
<1>a. ASSUME rest' = rest, span' = span PROVE [Whole!Next]_Whole!vars
    BY <1>a DEF Whole!vars
<1> USE StepperAssumption DEF Rest
<1>1. CASE MoveStart
    BY <1>1, <1>a DEF MoveStart, calib
<1>2. CASE CalibStart
    BY <1>2, <1>a DEF CalibStart
<1>3. CASE TestStep
    <2>1. rest = <<carriage, pos>> /\ rest' = <<carriage', pos'>> /\ span' = span
        BY <1>3 DEF TestStep, RestInv, calib
    <2>2. test_dir' = DIR1 /\ Pulse(DIR1)
        BY <1>3 DEF TestStep, state, SInv, TestDir
    <2>3. rest[1] = carriage /\ rest[2] = pos /\ rest'[1] = carriage' /\ rest'[2] = pos'
        BY <2>1
    <2>4. Whole!TestPulse
        BY <2>1, <2>2, <2>3 DEF TypeOK, Pulse, Whole!TestPulse, Whole!Less
    <2> QED
        BY <2>4 DEF Whole!Next
<1>4. CASE MoveStep
    <2>1. CASE left > 0 /\ MayStep
        BY <1>4, <2>1, <1>a DEF MoveStep, calib
    <2>2. CASE ~(left > 0 /\ MayStep)
        <3>1. rest' = <<carriage, pos>> /\ span' = span /\ MoveInv
            BY <1>4, <2>2 DEF MoveStep, calib, RestInv
        <3>2. rest'[1] = carriage /\ rest'[2] = pos
            BY <3>1
        <3>3. CASE dir = DIR1
            <4>1. CASE rest[1] < carriage
                <5>1. MovedUp \in 1 .. MaxSteps
                    BY <1>0, <3>1, <3>3, <4>1 DEF MoveInv, MovedUp, TypeOK
                <5>2. Whole!MoveUp(MovedUp)
                    BY <1>0, <3>1, <3>2, <3>3, <4>1
                    DEF MoveInv, MovedUp, Weight, TypeOK, Whole!MoveUp, Whole!Less
                <5> QED
                    BY <3>1, <5>1, <5>2 DEF Whole!Next, Whole!Move
            <4>2. CASE rest[1] = carriage
                BY <1>0, <3>1, <3>3, <4>2 DEF MoveInv, MovedUp, Weight, TypeOK, Whole!vars
            <4> QED
                BY <1>0, <3>1, <3>3, <4>1, <4>2 DEF MoveInv, MovedUp, TypeOK
        <3>4. CASE dir # DIR1
            <4>0. dir \in Nat
                BY DirBytes DEF TypeOK
            <4>1. CASE carriage < rest[1]
                <5>1. MovedDown \in 1 .. MaxSteps
                    BY <1>0, <3>1, <3>4, <4>1 DEF MoveInv, MovedDown, TypeOK
                <5>2. CASE dir = DIR2
                    <6>1. Whole!MoveDown(MovedDown)
                        BY <1>0, <3>1, <3>2, <4>1, <5>2
                        DEF MoveInv, MovedUp, MovedDown, Weight, TypeOK, Whole!MoveDown, Whole!More
                    <6> QED
                        BY <3>1, <5>1, <6>1 DEF Whole!Next, Whole!Move
                <5>3. CASE dir # DIR2
                    <6>1. dir \in 2 .. MaxDir
                        BY <3>4, <4>0, <5>3 DEF TypeOK
                    <6>2. rest'[1] = Whole!More(rest[1] - MovedDown, Lo) /\ rest'[1] - rest[1] = MovedUp
                        BY <1>0, <3>1, <3>2, <3>4, <4>1
                        DEF MoveInv, MovedUp, MovedDown, TypeOK, Whole!More
                    <6>3. rest'[2] = rest[2] + (2 * dir - 1) * (rest'[1] - rest[1])
                        <7>1. rest'[2] - rest[2] = (2 * dir - 1) * MovedUp
                            BY <3>1, <3>2, <3>4 DEF MoveInv, Weight
                        <7>2. (2 * dir - 1) * MovedUp \in Int /\ rest'[2] \in Int
                            BY <1>0, <3>2, <4>0, OneMore DEF TypeOK, MovedUp
                        <7> QED
                            BY <1>0, <6>2, <7>1, <7>2
                    <6>4. Whole!MoveAstray(dir, MovedDown)
                        BY <3>1, <3>4, <4>1, <5>3, <6>2, <6>3 DEF MoveInv, Whole!MoveAstray
                    <6> QED
                        BY <3>1, <5>1, <6>1, <6>4 DEF Whole!Next, Whole!Move
                <5> QED
                    BY <5>2, <5>3
            <4>2. CASE rest[1] = carriage
                <5>1. MovedUp = 0 /\ Weight(dir) \in Int
                    BY <1>0, <4>0, <4>2 DEF MovedUp, Weight
                <5>2. pos = rest[2]
                    <6>1. Weight(dir) * MovedUp = 0
                        BY <5>1, OneMore
                    <6> QED
                        BY <1>0, <3>1, <6>1 DEF MoveInv, TypeOK
                <5> QED
                    BY <1>0, <3>1, <3>2, <4>2, <5>2 DEF Whole!vars
            <4> QED
                BY <1>0, <3>1, <3>4, <4>1, <4>2 DEF MoveInv, MovedDown, TypeOK
        <3> QED
            BY <3>3, <3>4 DEF TypeOK
    <2> QED
        BY <2>1, <2>2
<1>5. CASE CalibSeekSW1
    BY <1>5, <1>a DEF CalibSeekSW1, calib
<1>6. CASE CalibSeekSW2
    BY <1>6, <1>a DEF CalibSeekSW2
<1>7. CASE CalibEnd
    <2>1. carriage = Lo /\ nsteps + carriage = Whole!Turn
        BY <1>7 DEF CalibEnd, get_state, RestInv, TypeOK
    <2>2. rest' = <<Lo, 0>> /\ span' = nsteps
        BY <1>7, <2>1 DEF CalibEnd
    <2>3. Whole!Turn \in Int
        BY <1>0 DEF Whole!Turn, Whole!Less, Whole!More
    <2>4. span' = Whole!Turn - Lo
        BY <2>1, <2>2, <2>3 DEF TypeOK
    <2>5. Whole!Calibrate
        BY <2>2, <2>4 DEF Whole!Calibrate
    <2> QED
        BY <2>5 DEF Whole!Next
<1>8. CASE UNCHANGED vars
    BY <1>8, <1>a DEF vars, calib
<1> QED
    BY <1>1, <1>2, <1>3, <1>4, <1>5, <1>6, <1>7, <1>8 DEF Next, Command, Main

\* Whatever its length, stroke and switches, the axis is that of Axis: a command
\* leaves behind what it promises, however many pulses it takes.
THEOREM StepperImplementsAxis == Spec => ImplementsAxis
<1>1. Init => SInv /\ RestInv /\ Whole!Init
    BY DEF Init, SInv, HomedPosition, CountInv, TestDir, RestInv, Whole!Init
<1>2. TypeOK /\ SInv /\ RestInv /\ [Next]_vars => [Whole!Next]_Whole!vars
    BY WholeStep
<1> QED
    BY <1>1, <1>2, TypeCorrect, HomedStep, RestStep, PTL DEF Spec, ImplementsAxis, Whole!Spec
=============================================================================
