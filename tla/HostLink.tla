------------------------------ MODULE HostLink ------------------------------
(***************************************************************************)
(* The host library (src/host/modules/motor.py), the X axis, and the link  *)
(* between them.  The firmware executes a command in one step: Firmware is *)
(* the loop around it, and StepperAxis shows that its pulses come to what  *)
(* Axis says.  The kernel of the host fetches replies and keeps them until *)
(* the library reads them.                                                 *)
(*                                                                         *)
(* A packet says of itself whether the host has made another query since,  *)
(* which no packet of the code does; only a move has a direction.  A reply *)
(* is its first two bytes as one number.  The carriage is measured in      *)
(* steps, as in StepperAxis.  Callers of move pass one of the directions   *)
(* the library names, DIR1 and DIR2.                                       *)
(***************************************************************************)
EXTENDS Integers, Sequences

CONSTANTS
    Travel,         \* the carriage moves between 0 and Travel
    Lo, Hi,         \* MOTOR_SW2_ON at or below Lo, MOTOR_SW1_ON at or above Hi
    BackOff, Sweep, \* the two moves of reset: 100 and 1200 steps
    Pool, Armed, TxLimit,   \* the link, as in Firmware
    MaxSteps,       \* bound: steps of a move
    PosBound        \* bound: no further move or reset if |pos| is larger

\* The first two bytes of a reply hold a number modulo this.
Modulus == 65536

ASSUME HostAssumption ==
    /\ Travel \in Nat /\ Lo \in Nat /\ Hi \in Nat
    /\ Lo < Hi /\ Hi <= Travel /\ Travel - Lo < Modulus
    /\ BackOff \in Nat /\ Sweep \in Nat
    /\ Lo < BackOff /\ Travel <= Sweep
    /\ Pool \in Nat /\ Armed \in Nat /\ TxLimit \in Nat
    /\ Armed < Pool /\ 0 < TxLimit
    /\ MaxSteps \in Nat \ {0} /\ PosBound \in Nat

VARIABLES
    rx, tx,             \* packets received and not executed, replies queued
    usb_out_buffer,     \* its first two bytes
    carriage, x_pos,    \* where the axis is and where the firmware believes it is
    inbox,              \* replies the kernel of the host holds
    at, call,           \* where the library is, and in which call
    direction, left,    \* arguments of move, and the steps it has yet to make
    pos,                \* pos['X']
    span,       \* ghost: steps of the last calibration
    homed,      \* ghost: the axis was calibrated
    known,      \* ghost: pos is counted from a reset, and no reply was left since
    uncounted,  \* ghost: steps onto SW1 less steps onto SW2 since then
    late        \* ghost: a call was left without its reply

link == <<rx, tx, inbox>>
axis == <<carriage, x_pos, span, homed>>
library == <<at, call, direction, left>>
count == <<pos, known>>
vars == <<link, usb_out_buffer, axis, uncounted, library, count, late>>

DIR1 == 0
DIR2 == 1

MOTOR_OK == 3
MOTOR_SW1_ON == 2
MOTOR_SW2_ON == 1

get_x_state == IF carriage >= Hi THEN MOTOR_SW1_ON
               ELSE IF carriage <= Lo THEN MOTOR_SW2_ON ELSE MOTOR_OK

\* A switch that says that the axis is at the border in direction d.
Border(d, s) ==
    \/ d = DIR1 /\ s = MOTOR_SW1_ON
    \/ d = DIR2 /\ s = MOTOR_SW2_ON

Moves == {"move", "back", "sweep"}

Init ==
    /\ rx = <<>> /\ tx = <<>> /\ inbox = <<>>
    /\ usb_out_buffer = 0
    /\ carriage \in 0 .. Travel /\ x_pos = 0
    /\ span = 0 /\ homed = FALSE
    /\ at = "idle" /\ call = "none"
    /\ direction = DIR1 /\ left = 0
    /\ pos = 0 /\ known = FALSE /\ uncounted = 0
    /\ late = FALSE

-----------------------------------------------------------------------------
(***************************************************************************)
(* The firmware.                                                           *)
(***************************************************************************)
\* Fault: cmd_cali does not load the count.
ExecCali_NoLoad ==
    LET c == IF carriage < Travel THEN carriage + 1 ELSE carriage
        top == IF c < Hi THEN Hi ELSE c IN
    /\ carriage' = Lo /\ x_pos' = 0 /\ homed' = TRUE
    /\ span' = top - Lo
    /\ UNCHANGED <<usb_out_buffer, uncounted>>

\* Fault: the position is not reset.
ExecCali_NoReset ==
    LET c == IF carriage < Travel THEN carriage + 1 ELSE carriage
        top == IF c < Hi THEN Hi ELSE c IN
    /\ carriage' = Lo /\ homed' = TRUE
    /\ span' = top - Lo
    /\ usb_out_buffer' = span' % Modulus
    /\ UNCHANGED <<x_pos, uncounted>>

\* cmd_cali: up to SW1, at least one pulse, and counting down to SW2.
ExecCali ==
    LET c == IF carriage < Travel THEN carriage + 1 ELSE carriage
        top == IF c < Hi THEN Hi ELSE c IN
    /\ carriage' = Lo /\ x_pos' = 0 /\ homed' = TRUE
    /\ span' = top - Lo
    /\ usb_out_buffer' = span' % Modulus
    /\ UNCHANGED uncounted

\* Fault: the switches are not asked.
Refused_Never(d) == FALSE

Refused(d) == Border(d, get_x_state)

\* cmd_move with one step.  It loads the state after the move, and 1 whether
\* or not the step was refused.
ExecMove(d) ==
    /\ IF Refused(d)
       THEN UNCHANGED <<carriage, x_pos, uncounted>>
       ELSE /\ carriage' = IF d = DIR1 THEN carriage + 1 ELSE carriage - 1
            /\ x_pos' = x_pos - (2 * d - 1)
            /\ uncounted' = IF known /\ Border(d, get_x_state') THEN uncounted + (1 - 2 * d)
                            ELSE uncounted
    /\ usb_out_buffer' = get_x_state' + 256 * 1
    /\ UNCHANGED <<span, homed>>

\* Fault: the state of Y is loaded before that of X.
Load_Swapped(q) ==
    CASE q = "S" -> MOTOR_OK + 256 * get_x_state
      [] q = "P" -> x_pos % Modulus
      [] q = "C" -> usb_out_buffer

\* cmd_query.  The second byte of a status is that of Y, which stands still.
Load(q) ==
    CASE q = "S" -> get_x_state + 256 * MOTOR_OK
      [] q = "P" -> x_pos % Modulus
      [] q = "C" -> usb_out_buffer

\* Fault: a move is answered, too.
Answered_Moves(cmd) == cmd \in {"Q", "M"}

\* Fault: a calibration query is none of the queries that are answered.
Answered_NotC(cmd) == cmd = "Q" /\ Head(rx).arg # "C"

\* The commands whose case in cmd_exec calls usb_send.
Answered(cmd) == cmd = "Q"

\* Room for a reply, when the packet of the command has gone back to the pool
\* and nothing else was received; and when there is room whatever was.
TxRoom == Len(tx) < TxLimit /\ Len(rx) - 1 + Len(tx) < Pool
TxSure == Len(tx) < TxLimit /\ Len(rx) - 1 + Len(tx) + Armed < Pool

Execute ==
    /\ rx # <<>>
    /\ rx' = Tail(rx)
    /\ LET p == Head(rx) IN
       /\ \/ p.cmd = "C" /\ ExecCali
          \/ p.cmd = "M" /\ ExecMove(p.dir)
          \/ /\ p.cmd = "Q"
             /\ usb_out_buffer' = Load(p.arg)
             /\ UNCHANGED <<axis, uncounted>>
       /\ \/ ~Answered(p.cmd) /\ tx' = tx
          \/ /\ Answered(p.cmd) /\ TxRoom
             /\ tx' = Append(tx, [data |-> usb_out_buffer', old |-> p.old])
          \/ Answered(p.cmd) /\ ~TxSure /\ tx' = tx
    /\ UNCHANGED <<inbox, library, count, late>>

\* The kernel of the host fetches a reply.
Fetch ==
    /\ tx # <<>>
    /\ inbox' = Append(inbox, Head(tx)) /\ tx' = Tail(tx)
    /\ UNCHANGED <<rx, usb_out_buffer, axis, uncounted, library, count, late>>

-----------------------------------------------------------------------------
(***************************************************************************)
(* The library.  A call writes commands and queries, and reads a reply for *)
(* every query.                                                            *)
(***************************************************************************)
Old(s) == [i \in DOMAIN s |-> [s[i] EXCEPT !.old = TRUE]]

Write(cmd, dir) ==
    /\ Len(rx) + Len(tx) < Pool
    /\ rx' = Append(rx, [cmd |-> cmd, arg |-> "X", dir |-> dir, old |-> FALSE])
    /\ UNCHANGED <<tx, inbox>>

\* From now on what is under way belongs to an earlier query.
Query(q) ==
    /\ Len(rx) + Len(tx) < Pool
    /\ rx' = Append(Old(rx), [cmd |-> "Q", arg |-> q, dir |-> DIR1, old |-> FALSE])
    /\ tx' = Old(tx) /\ inbox' = Old(inbox)

GetStatus ==
    /\ at = "idle" /\ Query("S")
    /\ call' = "get_status" /\ at' = "read"
    /\ UNCHANGED <<usb_out_buffer, axis, uncounted, direction, left, count, late>>

GetPosition ==
    /\ at = "idle" /\ Query("P")
    /\ call' = "get_position" /\ at' = "read"
    /\ UNCHANGED <<usb_out_buffer, axis, uncounted, direction, left, count, late>>

\* _steps_calibrate moves the axis and leaves pos alone.
StepsCalibrate ==
    /\ at = "idle" /\ Write("C", DIR1)
    /\ call' = "_steps_calibrate" /\ at' = "count"
    /\ known' = FALSE /\ uncounted' = 0
    /\ UNCHANGED <<usb_out_buffer, axis, direction, left, pos, late>>

AskCount ==
    /\ at = "count" /\ Query("C")
    /\ at' = "read"
    /\ UNCHANGED <<usb_out_buffer, axis, uncounted, call, direction, left, count, late>>

Move ==
    /\ at = "idle" /\ pos \in -PosBound .. PosBound
    /\ call' = "move" /\ at' = "step"
    /\ direction' \in {DIR1, DIR2} /\ left' \in 1 .. MaxSteps
    /\ UNCHANGED <<link, usb_out_buffer, axis, uncounted, count, late>>

\* Fault: reset does not move away from SW2 first.
Reset_NoBackOff ==
    /\ at = "idle" /\ pos \in -PosBound .. PosBound
    /\ call' = "sweep" /\ at' = "step"
    /\ direction' = DIR2 /\ left' = Sweep
    /\ known' = FALSE /\ uncounted' = 0
    /\ UNCHANGED <<link, usb_out_buffer, axis, pos, late>>

Reset ==
    /\ at = "idle" /\ pos \in -PosBound .. PosBound
    /\ call' = "back" /\ at' = "step"
    /\ direction' = DIR1 /\ left' = BackOff
    /\ known' = FALSE /\ uncounted' = 0
    /\ UNCHANGED <<link, usb_out_buffer, axis, pos, late>>

\* The loop of move: a step, the status, and whether to go on.
StepWrite ==
    /\ at = "step" /\ left > 0
    /\ Write("M", direction)
    /\ at' = "status"
    /\ UNCHANGED <<usb_out_buffer, axis, uncounted, call, direction, left, count, late>>

AskStatus ==
    /\ at = "status" /\ Query("S")
    /\ at' = "read"
    /\ UNCHANGED <<usb_out_buffer, axis, uncounted, call, direction, left, count, late>>

\* move returns; reset goes on with its second move, or sets pos.
MoveReturns ==
    /\ at = "step" /\ left = 0
    /\ \/ /\ call = "move"
          /\ at' = "idle"
          /\ UNCHANGED <<call, direction, left, count, uncounted>>
       \/ /\ call = "back"
          /\ call' = "sweep" /\ direction' = DIR2 /\ left' = Sweep
          /\ UNCHANGED <<at, count, uncounted>>
       \/ /\ call = "sweep"
          /\ at' = "idle"
          /\ pos' = 0 /\ known' = ~late /\ uncounted' = 0
          /\ UNCHANGED <<call, direction, left>>
    /\ UNCHANGED <<link, usb_out_buffer, axis, late>>

\* A step is counted unless the axis is at the border after it.
Count(status) ==
    IF Border(direction, status)
    THEN left' = 0 /\ pos' = pos
    ELSE left' = left - 1 /\ pos' = IF direction = DIR1 THEN pos + 1 ELSE pos - 1

Read ==
    /\ at = "read" /\ inbox # <<>>
    /\ inbox' = Tail(inbox)
    /\ \/ call \in Moves /\ at' = "step" /\ Count(Head(inbox).data % 256)
       \/ call \notin Moves /\ at' = "idle" /\ UNCHANGED <<left, pos>>
    /\ UNCHANGED <<rx, tx, usb_out_buffer, axis, uncounted, call, direction, known, late>>

\* After TIMEOUT_READ read returns nothing, and ord(t[0]) raises an exception
\* that leaves the call.  _steps_calibrate reads without a timeout.
TimeOut ==
    /\ at = "read" /\ inbox = <<>> /\ call # "_steps_calibrate"
    /\ at' = "idle"
    /\ late' = TRUE
    /\ known' = FALSE /\ uncounted' = 0
    /\ UNCHANGED <<link, usb_out_buffer, axis, call, direction, left, pos>>

\* The program ends, in a call or between two, and another one starts: what the
\* kernel held is gone, what the device has queued is not.
Restart ==
    /\ inbox' = <<>>
    /\ at' = "idle" /\ call' = "none" /\ direction' = DIR1 /\ left' = 0
    /\ pos' = 0 /\ known' = FALSE /\ uncounted' = 0
    /\ late' = (rx # <<>> \/ tx # <<>>)
    /\ UNCHANGED <<rx, tx, usb_out_buffer, axis>>

User == GetStatus \/ GetPosition \/ StepsCalibrate \/ Move \/ Reset \/ Restart
Library == AskCount \/ StepWrite \/ AskStatus \/ MoveReturns \/ Read \/ TimeOut

Next == Execute \/ Fetch \/ User \/ Library

Spec == Init /\ [][Next]_vars

\* The device and the kernel go on, and so does a call; nobody has to make one.
FairSpec == Spec /\ WF_vars(Execute) /\ WF_vars(Fetch) /\ WF_vars(Library)

-----------------------------------------------------------------------------
(***************************************************************************)
(* Properties.                                                             *)
(***************************************************************************)
Packet == [cmd : {"C", "M"}, arg : {"X"}, dir : {DIR1, DIR2}, old : BOOLEAN]
          \cup [cmd : {"Q"}, arg : {"S", "P", "C"}, dir : {DIR1, DIR2}, old : BOOLEAN]
Word == 0 .. Modulus - 1
Answer == [data : Word, old : BOOLEAN]

\* Every variable has its type.
TypeOK ==
    /\ rx \in Seq(Packet) /\ tx \in Seq(Answer) /\ inbox \in Seq(Answer)
    /\ Len(rx) + Len(tx) <= Pool /\ Len(tx) <= TxLimit
    /\ usb_out_buffer \in Word
    /\ carriage \in 0 .. Travel /\ x_pos \in Int
    /\ at \in {"idle", "count", "step", "status", "read"}
    /\ call \in Moves \cup {"none", "get_status", "get_position", "_steps_calibrate"}
    /\ direction \in {DIR1, DIR2}
    /\ left \in Nat
    /\ pos \in Int /\ uncounted \in Int
    /\ span \in Nat /\ homed \in BOOLEAN /\ known \in BOOLEAN /\ late \in BOOLEAN

\* No reply says which query it answers, and yet the one that is read is the
\* answer to the query just made, unless an earlier one was left unread.  A
\* program that starts when the device has nothing queued is right again.
AnswerIsOwn == ~late /\ at = "read" /\ inbox # <<>> => ~Head(inbox).old

\* The position the library counts since a reset is wrong by the steps that
\* closed a switch, which move does not count, and by no other.
HostPosition ==
    known /\ at \in {"idle", "step"} => pos + uncounted = carriage - Lo

Returns(c) == call = c /\ at = "read" /\ at' = "idle" /\ inbox # <<>>
Value == Head(inbox).data

\* What _steps_calibrate returns is the count of the calibration it has made,
\* although the count waits for its query in a buffer all commands share.
CalibrationCounts ==
    [][~late /\ Returns("_steps_calibrate") /\ ~late' => Value = span]_vars

\* The position the library decodes from two bytes is that of the firmware at
\* this moment modulo 2^16, a negative one being read as 65536 more; after a
\* calibration it is where the carriage is.
PositionTrue ==
    [][~late /\ Returns("get_position") /\ ~late' =>
        /\ Value = x_pos % Modulus
        /\ homed => Value = carriage - Lo]_vars

\* The status a move decides on is that of the axis at that moment ...
Decides == at = "read" /\ call \in Moves /\ at' = "step"

StatusOfAxis == [][~late /\ Decides => Value % 256 = get_x_state]_vars

\* ... "Get status to see if we have hit border", unconditionally.
StatusIsCurrent == [][Decides => Value % 256 = get_x_state]_vars

\* A command in one step does to the axis what Axis lets it do, which is what
\* StepperAxis shows the pulses of the firmware to do.
TheAxis == INSTANCE Axis WITH pos <- x_pos, MaxSteps <- 1, MaxDir <- DIR2

ImplementsAxis == TheAxis!Spec

\* Every call returns, whatever replies are lost, but for one: _steps_calibrate,
\* which reads without a timeout, may hang when some reply was left unread.
CallsReturn == at # "idle" ~> at = "idle" \/ (late /\ call = "_steps_calibrate")
=============================================================================
