--------------------------- MODULE HostLinkProofs ---------------------------
(***************************************************************************)
(* Theorems about the host library for every length of the axis and every  *)
(* size of the link.                                                       *)
(***************************************************************************)
EXTENDS HostLink, SequenceTheorems, TLAPS

\* The lengths that the axis has.
LEMMA Lengths ==
    /\ Travel \in Nat /\ Lo \in Nat /\ Hi \in Nat
    /\ Lo < Hi /\ Hi <= Travel
    /\ BackOff \in Nat /\ Sweep \in Nat
    /\ Lo < BackOff /\ Travel <= Sweep
    /\ MaxSteps \in Nat \ {0} /\ Pool \in Nat /\ TxLimit \in Nat
    BY HostAssumption, SMT

-----------------------------------------------------------------------------
(***************************************************************************)
(* The invariant.  As long as no reply was left unread, the link holds no  *)
(* more than the packets of the call that is being made, and where the     *)
(* library is says which.                                                  *)
(***************************************************************************)
\* The library is in a call that has the state it is in.
InCall ==
    /\ at = "count" => call = "_steps_calibrate"
    /\ at \in {"step", "status"} => call \in Moves
    /\ at = "status" => left > 0
    /\ at = "read" /\ call \in Moves => left > 0
    /\ at = "read" => call # "none"
    /\ call = "back" => direction = DIR1
    /\ call = "sweep" => direction = DIR2

\* A calibration leaves the axis counted from SW2, and never below it.
Homed ==
    /\ homed => x_pos = carriage - Lo /\ Lo <= carriage
    /\ span <= Travel - Lo

\* Between two steps the count of the library is right but for the steps that
\* closed a switch; behind a step that opened none, it is one behind.
Counted == known => pos + uncounted = carriage - Lo
Gain == IF Border(direction, get_x_state) THEN 0 ELSE 1 - 2 * direction
Pending == known => pos + uncounted + Gain = carriage - Lo

\* The first move of reset gets the axis away from SW2, the second gets it
\* there, before and after the step that is being made.
Before ==
    /\ call = "back" => carriage >= Hi \/ carriage + left >= BackOff
    /\ call = "sweep" => \/ left = 0 /\ carriage = Lo
                         \/ Lo < carriage /\ carriage <= left
After ==
    /\ call = "back" => carriage >= Hi \/ carriage + left - 1 >= BackOff
    /\ call = "sweep" => \/ carriage = Lo
                         \/ Lo < carriage /\ carriage <= left - 1

\* A command of the call that is not executed yet, and one that is.
ToDo(p) ==
    \/ p.cmd = "M" /\ call \in Moves /\ p.dir = direction /\ Counted /\ Before
    \/ p.cmd = "C" /\ call = "_steps_calibrate" /\ ~known
Done ==
    /\ call \in Moves => Pending /\ After
    /\ call = "_steps_calibrate" => usb_out_buffer = span % Modulus /\ ~known
    /\ call \in {"get_status", "get_position"} => Counted

QueryOf ==
    CASE call = "get_position" -> "P"
      [] call = "_steps_calibrate" -> "C"
      [] OTHER -> "S"

\* The reply to that query.
Good(a) ==
    /\ a.old = FALSE
    /\ call = "get_position" => a.data = x_pos % Modulus
    /\ call = "_steps_calibrate" => a.data = span % Modulus
    /\ call \in Moves \cup {"get_status"} => a.data = get_x_state + 256 * MOTOR_OK

IsQuery(p) == p.cmd = "Q" /\ p.arg = QueryOf /\ p.old = FALSE

Silent == tx = <<>> /\ inbox = <<>>
Empty == rx = <<>> /\ Silent

Commanded == Len(rx) = 1 /\ ToDo(rx[1]) /\ Silent
AskedEarly == Len(rx) = 2 /\ ToDo(rx[1]) /\ IsQuery(rx[2]) /\ Silent
Asked == Len(rx) = 1 /\ IsQuery(rx[1]) /\ Done /\ Silent
Queued == rx = <<>> /\ inbox = <<>> /\ Len(tx) = 1 /\ Good(tx[1]) /\ Done
Held == rx = <<>> /\ tx = <<>> /\ Len(inbox) = 1 /\ Good(inbox[1]) /\ Done
Lost == Empty /\ Done

Waits == AskedEarly \/ Asked \/ Queued \/ Held \/ Lost

InStep ==
    /\ at = "idle" => Empty /\ Counted
    /\ at = "step" => Empty /\ Counted /\ Before
    /\ at \in {"status", "count"} => Commanded \/ (Empty /\ Done)
    /\ at = "read" => Waits
    /\ at # "idle" => (known => call \notin {"back", "sweep"})

Inv ==
    /\ TypeOK /\ InCall /\ Homed
    /\ known => ~late
    /\ ~late => InStep

-----------------------------------------------------------------------------
(***************************************************************************)
(* The pieces of a step.                                                   *)
(***************************************************************************)
\* What is under way when a query is made keeps all but its mark.
LEMMA OldPackets ==
    ASSUME NEW s \in Seq(Packet)
    PROVE  /\ Old(s) \in Seq(Packet) /\ Len(Old(s)) = Len(s)
           /\ \A i \in 1 .. Len(s) : /\ Old(s)[i].cmd = s[i].cmd
                                    /\ Old(s)[i].arg = s[i].arg
                                    /\ Old(s)[i].dir = s[i].dir
<1>1. Len(s) \in Nat /\ DOMAIN s = 1 .. Len(s)
    BY LenProperties
<1>2. ASSUME NEW i \in 1 .. Len(s)
      PROVE  /\ [s[i] EXCEPT !.old = TRUE] \in Packet
             /\ [s[i] EXCEPT !.old = TRUE].cmd = s[i].cmd
             /\ [s[i] EXCEPT !.old = TRUE].arg = s[i].arg
             /\ [s[i] EXCEPT !.old = TRUE].dir = s[i].dir
    <2>1. s[i] \in Packet
        BY ElementOfSeq
    <2> QED
        BY <2>1 DEF Packet
<1>3. Old(s) = [i \in 1 .. Len(s) |-> [s[i] EXCEPT !.old = TRUE]]
    BY <1>1 DEF Old
<1>4. Old(s) \in [1 .. Len(s) -> Packet]
    BY <1>2, <1>3
<1>5. Old(s) \in Seq(Packet) /\ Len(Old(s)) = Len(s)
    BY <1>1, <1>3, <1>4
<1>6. ASSUME NEW i \in 1 .. Len(s)
      PROVE  Old(s)[i] = [s[i] EXCEPT !.old = TRUE]
    BY <1>3
<1> QED
    BY <1>2, <1>5, <1>6

LEMMA OldAnswers ==
    ASSUME NEW s \in Seq(Answer)
    PROVE  Old(s) \in Seq(Answer) /\ Len(Old(s)) = Len(s)
<1>1. Len(s) \in Nat /\ DOMAIN s = 1 .. Len(s)
    BY LenProperties
<1>2. ASSUME NEW i \in 1 .. Len(s)
      PROVE  [s[i] EXCEPT !.old = TRUE] \in Answer
    <2>1. s[i] \in Answer
        BY ElementOfSeq
    <2> QED
        BY <2>1 DEF Answer
<1>3. Old(s) = [i \in 1 .. Len(s) |-> [s[i] EXCEPT !.old = TRUE]]
    BY <1>1 DEF Old
<1>4. Old(s) \in [1 .. Len(s) -> Answer]
    BY <1>2, <1>3
<1> QED
    BY <1>1, <1>3, <1>4

\* The command at the head of the queue, and the queue without it.
LEMMA HeadTail ==
    ASSUME TypeOK, rx # <<>>
    PROVE  /\ Head(rx) \in Packet /\ Head(rx) = rx[1]
           /\ Tail(rx) \in Seq(Packet) /\ Len(Tail(rx)) = Len(rx) - 1
           /\ Len(rx) \in Nat \ {0}
           /\ \A i \in 1 .. Len(rx) - 1 : Tail(rx)[i] = rx[i + 1]
<1>1. rx \in Seq(Packet)
    BY DEF TypeOK
<1> QED
    BY <1>1, HeadTailProperties, LenProperties, EmptySeq

\* The state of the axis is one of three values.
LEMMA StateType ==
    ASSUME carriage \in Int
    PROVE
    /\ get_x_state \in {MOTOR_OK, MOTOR_SW1_ON, MOTOR_SW2_ON}
    /\ get_x_state = MOTOR_SW1_ON <=> carriage >= Hi
    /\ get_x_state = MOTOR_SW2_ON <=> carriage <= Lo
    BY Lengths, SMT DEF get_x_state, MOTOR_OK, MOTOR_SW1_ON, MOTOR_SW2_ON

\* The low 16 bits of a number are a word, and a small number is its own.
LEMMA Words ==
    /\ \A n \in Int : n % Modulus \in Word
    /\ \A n \in 0 .. Travel - Lo : n % Modulus = n
    /\ \A a, b \in 1 .. 3 : a + 256 * b \in Word /\ (a + 256 * b) % 256 = a
<1>1. Modulus \in Nat \ {0} /\ Modulus > 1000
    BY SMT DEF Modulus
<1>2. ASSUME NEW n \in Int PROVE n % Modulus \in Word
    BY <1>1, SMT DEF Word
<1>3. ASSUME NEW n \in 0 .. Travel - Lo PROVE n % Modulus = n
    BY <1>1, HostAssumption, SMT
<1>4. ASSUME NEW a \in 1 .. 3, NEW b \in 1 .. 3
      PROVE  a + 256 * b \in Word
    BY <1>1, SMT DEF Word
<1>5. ASSUME NEW a \in 1 .. 3, NEW b \in 1 .. 3
      PROVE  (a + 256 * b) % 256 = a
    BY SMT
<1> QED
    BY <1>2, <1>3, <1>4, <1>5

Base == TypeOK /\ InCall /\ Homed

\* A calibration leaves the axis at SW2, counted from there.
LEMMA CalibrationEffect ==
    ASSUME Base, ExecCali
    PROVE  /\ carriage' \in 0 .. Travel /\ x_pos' \in Int /\ homed' \in BOOLEAN
           /\ span' \in 0 .. Travel - Lo /\ uncounted' \in Int
           /\ usb_out_buffer' \in Word /\ usb_out_buffer' = span' % Modulus
           /\ homed' => x_pos' = carriage' - Lo /\ Lo <= carriage'
<1>1. carriage \in 0 .. Travel /\ uncounted \in Int
    BY DEF Base, TypeOK
<1>2. carriage' = Lo /\ x_pos' = 0 /\ homed' = TRUE /\ uncounted' = uncounted
      /\ usb_out_buffer' = span' % Modulus
    BY DEF ExecCali
<1>3. span' \in 0 .. Travel - Lo
    BY <1>1, Lengths, SMT DEF ExecCali
<1>4. span' \in Int
    BY <1>3, Lengths
<1> QED
    BY <1>1, <1>2, <1>3, <1>4, Lengths, Words

\* A step moves the carriage and the position by one in its direction, unless
\* the switch there is on.
LEMMA StepEffect ==
    ASSUME Base, NEW d \in {DIR1, DIR2}, ExecMove(d)
    PROVE  /\ carriage' \in 0 .. Travel /\ x_pos' \in Int /\ homed' = homed
           /\ span' = span /\ uncounted' \in Int
           /\ usb_out_buffer' \in Word
           /\ homed' => x_pos' = carriage' - Lo /\ Lo <= carriage'
           /\ IF Border(d, get_x_state)
              THEN carriage' = carriage /\ uncounted' = uncounted
              ELSE /\ carriage' = carriage + 1 - 2 * d
                   /\ uncounted' = IF known /\ Border(d, get_x_state')
                                   THEN uncounted + 1 - 2 * d ELSE uncounted
<1>1. /\ carriage \in 0 .. Travel /\ uncounted \in Int /\ x_pos \in Int
      /\ homed => x_pos = carriage - Lo /\ Lo <= carriage
    BY DEF Base, TypeOK, Homed
<1>2. homed' = homed /\ span' = span
    BY DEF ExecMove
<1>3. CASE Border(d, get_x_state)
    <2>1. carriage' = carriage /\ uncounted' = uncounted /\ x_pos' = x_pos
        BY <1>3 DEF ExecMove, Refused
    <2>2. usb_out_buffer' = get_x_state' + 256 * 1 /\ get_x_state' = get_x_state
        BY <2>1 DEF ExecMove, get_x_state
    <2>3. get_x_state \in 1 .. 3
        BY <1>1, StateType DEF MOTOR_OK, MOTOR_SW1_ON, MOTOR_SW2_ON
    <2>4. usb_out_buffer' \in Word
        BY <2>2, <2>3, Words
    <2> QED
        BY <1>1, <1>2, <1>3, <2>1, <2>4
<1>4. CASE ~Border(d, get_x_state)
    <2>1. /\ carriage' = IF d = DIR1 THEN carriage + 1 ELSE carriage - 1
          /\ x_pos' = x_pos - (2 * d - 1)
          /\ uncounted' = IF known /\ Border(d, get_x_state') THEN uncounted + (1 - 2 * d)
                          ELSE uncounted
          /\ usb_out_buffer' = get_x_state' + 256 * 1
        BY <1>4 DEF ExecMove, Refused
    <2>2. d = DIR1 => carriage < Hi
        BY <1>1, <1>4, StateType, Lengths DEF Border
    <2>3. d = DIR2 => carriage > Lo
        BY <1>1, <1>4, StateType, Lengths DEF Border
    <2>4. /\ carriage' \in 0 .. Travel /\ carriage' = carriage + 1 - 2 * d
          /\ x_pos' \in Int
          /\ homed => x_pos' = carriage' - Lo /\ Lo <= carriage'
        BY <1>1, <2>1, <2>2, <2>3, Lengths DEF DIR1, DIR2
    <2>5. get_x_state' \in 1 .. 3
        BY <2>4 DEF get_x_state, MOTOR_OK, MOTOR_SW1_ON, MOTOR_SW2_ON
    <2>6. usb_out_buffer' \in Word
        BY <2>1, <2>5, Words
    <2>7. uncounted' \in Int
        BY <1>1, <2>1 DEF DIR1, DIR2
    <2>8. uncounted' = IF known /\ Border(d, get_x_state')
                       THEN uncounted + 1 - 2 * d ELSE uncounted
        BY <1>1, <2>1 DEF DIR1, DIR2
    <2> QED
        BY <1>2, <1>4, <2>4, <2>6, <2>7, <2>8
<1> QED
    BY <1>3, <1>4

\* A query loads a word.
LEMMA QueryEffect ==
    ASSUME Base, NEW q \in {"S", "P", "C"}
    PROVE  Load(q) \in Word
<1>1. carriage \in Int /\ x_pos \in Int /\ usb_out_buffer \in Word
    BY Lengths DEF Base, TypeOK
<1>2. get_x_state \in 1 .. 3 /\ MOTOR_OK \in 1 .. 3
    BY <1>1, StateType DEF MOTOR_OK, MOTOR_SW1_ON, MOTOR_SW2_ON
<1>3. CASE q = "S"
    BY <1>2, <1>3, Words DEF Load
<1>4. CASE q = "P"
    BY <1>1, <1>4, Words DEF Load
<1>5. CASE q = "C"
    BY <1>1, <1>5 DEF Load
<1> QED
    BY <1>3, <1>4, <1>5

Queues ==
    /\ rx \in Seq(Packet) /\ tx \in Seq(Answer) /\ inbox \in Seq(Answer)
    /\ Len(rx) + Len(tx) <= Pool /\ Len(tx) <= TxLimit

AxisType ==
    /\ usb_out_buffer \in Word
    /\ carriage \in 0 .. Travel /\ x_pos \in Int
    /\ uncounted \in Int /\ span \in Nat /\ homed \in BOOLEAN

LibraryType ==
    /\ at \in {"idle", "count", "step", "status", "read"}
    /\ call \in Moves \cup {"none", "get_status", "get_position", "_steps_calibrate"}
    /\ direction \in {DIR1, DIR2}
    /\ left \in Nat
    /\ pos \in Int /\ known \in BOOLEAN /\ late \in BOOLEAN

LEMMA TypeParts ==
    /\ TypeOK <=> Queues /\ AxisType /\ LibraryType
    /\ TypeOK' <=> Queues' /\ AxisType' /\ LibraryType'
    BY DEF TypeOK, Queues, AxisType, LibraryType

\* What the firmware does keeps all types.
LEMMA ExecuteBase ==
    ASSUME Base, Execute
    PROVE  Base'
<1> DEFINE p == Head(rx)
<1>1. TypeOK /\ Queues /\ AxisType /\ LibraryType /\ rx # <<>>
    BY TypeParts DEF Base, Execute
<1>2. p \in Packet /\ rx' = Tail(rx) /\ rx' \in Seq(Packet) /\ Len(rx') = Len(rx) - 1
    BY <1>1, HeadTail DEF Execute
<1>3. Len(rx) \in Nat /\ Len(tx) \in Nat
    BY <1>1, LenProperties DEF Queues
<1>4. /\ carriage' \in 0 .. Travel /\ x_pos' \in Int /\ homed' \in BOOLEAN
      /\ span' \in Nat /\ uncounted' \in Int /\ usb_out_buffer' \in Word
      /\ homed' => x_pos' = carriage' - Lo /\ Lo <= carriage'
      /\ span' <= Travel - Lo
    <2>1. CASE p.cmd = "C" /\ ExecCali
        BY <2>1, CalibrationEffect, Lengths
    <2>2. CASE p.cmd = "M" /\ ExecMove(p.dir)
        <3>1. p.dir \in {DIR1, DIR2}
            BY <1>2 DEF Packet
        <3>2. homed \in BOOLEAN /\ span \in Nat /\ span <= Travel - Lo
            BY <1>1 DEF Base, Homed, AxisType
        <3> QED
            BY <2>2, <3>1, <3>2, StepEffect
    <2>3. CASE /\ p.cmd = "Q" /\ usb_out_buffer' = Load(p.arg)
               /\ UNCHANGED <<axis, uncounted>>
        <3>1. p.arg \in {"S", "P", "C"}
            BY <1>2, <2>3 DEF Packet
        <3>2. usb_out_buffer' \in Word
            BY <2>3, <3>1, QueryEffect
        <3> QED
            BY <1>1, <2>3, <3>2 DEF axis, Base, Homed, AxisType
    <2> QED
        BY <2>1, <2>2, <2>3 DEF Execute
<1>5. AxisType' /\ Homed'
    BY <1>4 DEF AxisType, Homed
<1>6. UNCHANGED <<inbox, library, count, late>>
    BY DEF Execute
<1>7. LibraryType' /\ InCall' /\ inbox' \in Seq(Answer)
    BY <1>1, <1>6 DEF library, count, LibraryType, InCall, Base, Queues
<1>8. /\ tx' \in Seq(Answer) /\ Len(rx') + Len(tx') <= Pool /\ Len(tx') <= TxLimit
    <2>1. CASE tx' = tx
        BY <1>1, <1>2, <1>3, <2>1, Lengths DEF Queues
    <2>2. CASE TxRoom /\ tx' = Append(tx, [data |-> usb_out_buffer', old |-> p.old])
        <3>1. [data |-> usb_out_buffer', old |-> p.old] \in Answer
            BY <1>2, <1>4 DEF Answer, Packet
        <3>2. tx' \in Seq(Answer) /\ Len(tx') = Len(tx) + 1
            BY <1>1, <2>2, <3>1, AppendProperties DEF Queues
        <3>3. Len(tx) < TxLimit /\ Len(rx) - 1 + Len(tx) < Pool
            BY <2>2 DEF TxRoom
        <3> QED
            BY <1>2, <1>3, <3>2, <3>3, Lengths
    <2> QED
        BY <2>1, <2>2 DEF Execute
<1>9. Queues'
    BY <1>2, <1>7, <1>8 DEF Queues
<1> QED
    BY <1>5, <1>7, <1>9, TypeParts DEF Base

\* A command goes behind what is queued.
LEMMA WriteEffect ==
    ASSUME Queues, NEW cmd \in {"C", "M"}, NEW dir \in {DIR1, DIR2}, Write(cmd, dir)
    PROVE  /\ Queues' /\ tx' = tx /\ inbox' = inbox
           /\ rx = <<>> => Len(rx') = 1 /\ rx'[1].cmd = cmd /\ rx'[1].dir = dir
<1> DEFINE p == [cmd |-> cmd, arg |-> "X", dir |-> dir, old |-> FALSE]
<1>1. p \in Packet /\ p.cmd = cmd /\ p.dir = dir
    BY DEF Packet
<1>2. rx \in Seq(Packet) /\ Len(rx) \in Nat /\ Len(tx) \in Nat
    BY LenProperties DEF Queues
<1>3. /\ rx' = Append(rx, p) /\ tx' = tx /\ inbox' = inbox
      /\ Len(rx) + Len(tx) < Pool
    BY DEF Write
<1>4. rx' \in Seq(Packet) /\ Len(rx') = Len(rx) + 1 /\ rx'[Len(rx) + 1] = p
    BY <1>1, <1>2, <1>3, AppendProperties
<1>5. Queues'
    BY <1>2, <1>3, <1>4, Lengths DEF Queues
<1>6. rx = <<>> => Len(rx) = 0
    BY EmptySeq
<1>7. rx = <<>> => Len(rx') = 1 /\ rx'[1] = p
    BY <1>4, <1>6
<1> QED
    BY <1>1, <1>3, <1>5, <1>7

\* So does a query, and what was under way is marked.
LEMMA AskEffect ==
    ASSUME Queues, NEW q \in {"S", "P", "C"}, Query(q)
    PROVE  /\ Queues'
           /\ Silent => Silent'
           /\ Len(rx') = Len(rx) + 1 /\ Len(rx) \in Nat
           /\ \A i \in 1 .. Len(rx) : rx'[i].cmd = rx[i].cmd /\ rx'[i].dir = rx[i].dir
           /\ /\ rx'[Len(rx) + 1].cmd = "Q" /\ rx'[Len(rx) + 1].arg = q
              /\ rx'[Len(rx) + 1].old = FALSE
<1> DEFINE p == [cmd |-> "Q", arg |-> q, dir |-> DIR1, old |-> FALSE]
<1>1. p \in Packet /\ p.cmd = "Q" /\ p.arg = q /\ p.old = FALSE
    BY DEF Packet
<1>2. /\ rx \in Seq(Packet) /\ tx \in Seq(Answer) /\ inbox \in Seq(Answer)
      /\ Len(rx) \in Nat /\ Len(tx) \in Nat
    BY LenProperties DEF Queues
<1>3. /\ rx' = Append(Old(rx), p) /\ tx' = Old(tx) /\ inbox' = Old(inbox)
      /\ Len(rx) + Len(tx) < Pool
    BY DEF Query
<1>4. /\ Old(rx) \in Seq(Packet) /\ Len(Old(rx)) = Len(rx)
      /\ \A i \in 1 .. Len(rx) : Old(rx)[i].cmd = rx[i].cmd /\ Old(rx)[i].dir = rx[i].dir
    BY <1>2, OldPackets
<1>5. /\ tx' \in Seq(Answer) /\ Len(tx') = Len(tx)
      /\ inbox' \in Seq(Answer) /\ Len(inbox') = Len(inbox)
    BY <1>2, <1>3, OldAnswers
<1>6. /\ rx' \in Seq(Packet) /\ Len(rx') = Len(rx) + 1
      /\ \A i \in 1 .. Len(rx) : rx'[i] = Old(rx)[i]
      /\ rx'[Len(rx) + 1] = p
    BY <1>1, <1>2, <1>3, <1>4, AppendProperties
<1>7. Queues'
    BY <1>2, <1>3, <1>5, <1>6, Lengths DEF Queues
<1>8. Silent => Silent'
    BY <1>2, <1>5, EmptySeq DEF Silent
<1> HIDE DEF p
<1> QED
    BY <1>1, <1>2, <1>4, <1>6, <1>7, <1>8

\* The two queues a query of the library finds.
LEMMA AskCases ==
    ASSUME Queues, NEW q \in {"S", "P", "C"}, Query(q)
    PROVE  /\ Silent => Silent'
           /\ rx = <<>> => /\ Len(rx') = 1 /\ rx'[1].cmd = "Q"
                          /\ rx'[1].arg = q /\ rx'[1].old = FALSE
           /\ Len(rx) = 1 => /\ Len(rx') = 2 /\ rx'[2].cmd = "Q"
                            /\ rx'[2].arg = q /\ rx'[2].old = FALSE
                            /\ rx'[1].cmd = rx[1].cmd /\ rx'[1].dir = rx[1].dir
<1>1. /\ Len(rx') = Len(rx) + 1
      /\ \A i \in 1 .. Len(rx) : rx'[i].cmd = rx[i].cmd /\ rx'[i].dir = rx[i].dir
      /\ rx'[Len(rx) + 1].cmd = "Q" /\ rx'[Len(rx) + 1].arg = q
      /\ rx'[Len(rx) + 1].old = FALSE
    BY AskEffect
<1>2. Silent => Silent'
    BY AskEffect
<1>3. CASE Len(rx) = 0
    <2>1. Len(rx) + 1 = 1
        BY <1>3
    <2> QED
        BY <1>1, <1>2, <1>3, <2>1
<1>4. CASE Len(rx) = 1
    <2>1. Len(rx) + 1 = 2 /\ 1 \in 1 .. Len(rx) /\ rx # <<>>
        BY <1>4, EmptySeq
    <2> QED
        BY <1>1, <1>2, <1>4, <2>1
<1>5. CASE Len(rx) # 0 /\ Len(rx) # 1
    BY <1>2, <1>5, EmptySeq
<1> QED
    BY <1>3, <1>4, <1>5

\* What the library and its user do keeps all types.
LEMMA LibraryBase ==
    ASSUME Base, User \/ Library \/ Fetch
    PROVE  Base'
<1>1. Queues /\ AxisType /\ LibraryType /\ InCall /\ Homed
    BY TypeParts DEF Base
<1>2. SUFFICES Queues' /\ AxisType' /\ LibraryType' /\ InCall' /\ Homed'
    BY TypeParts DEF Base
<1>3. AxisType' /\ Homed'
    <2>1. /\ UNCHANGED <<usb_out_buffer, axis>>
          /\ uncounted' = uncounted \/ uncounted' = 0
        BY DEF User, Library, Fetch, GetStatus, GetPosition, StepsCalibrate, Move, Reset,
               Restart, AskCount, StepWrite, AskStatus, MoveReturns, Read, TimeOut
    <2> QED
        BY <1>1, <2>1 DEF axis, AxisType, Homed
<1>4. Queues'
    <2>1. CASE GetStatus \/ GetPosition \/ AskCount \/ AskStatus
        <3>1. PICK q \in {"S", "P", "C"} : Query(q)
            BY <2>1 DEF GetStatus, GetPosition, AskCount, AskStatus
        <3> QED
            BY <1>1, <3>1, AskEffect
    <2>2. CASE StepsCalibrate
        <3>1. Write("C", DIR1)
            BY <2>2 DEF StepsCalibrate
        <3> QED
            BY <1>1, <3>1, WriteEffect
    <2>3. CASE StepWrite
        <3>1. Write("M", direction) /\ direction \in {DIR1, DIR2}
            BY <1>1, <2>3 DEF StepWrite, LibraryType
        <3> QED
            BY <1>1, <3>1, WriteEffect
    <2>4. CASE Move \/ Reset \/ MoveReturns \/ TimeOut
        <3>1. UNCHANGED link
            BY <2>4 DEF Move, Reset, MoveReturns, TimeOut
        <3> QED
            BY <1>1, <3>1 DEF link, Queues
    <2>5. CASE Read
        <3>1. inbox # <<>> /\ inbox' = Tail(inbox) /\ rx' = rx /\ tx' = tx
            BY <2>5 DEF Read
        <3>2. inbox' \in Seq(Answer)
            BY <1>1, <3>1, HeadTailProperties DEF Queues
        <3> QED
            BY <1>1, <3>1, <3>2 DEF Queues
    <2>6. CASE Restart
        BY <1>1, <2>6, EmptySeq DEF Restart, Queues
    <2>7. CASE Fetch
        <3>1. /\ tx # <<>> /\ inbox' = Append(inbox, Head(tx)) /\ tx' = Tail(tx)
              /\ rx' = rx
            BY <2>7 DEF Fetch
        <3>2. /\ inbox \in Seq(Answer) /\ tx \in Seq(Answer) /\ rx \in Seq(Packet)
              /\ Len(rx) \in Nat /\ Len(tx) \in Nat
            BY <1>1, LenProperties DEF Queues
        <3>3. Head(tx) \in Answer /\ tx' \in Seq(Answer) /\ Len(tx') = Len(tx) - 1
            BY <3>1, <3>2, HeadTailProperties
        <3>4. inbox' \in Seq(Answer)
            BY <3>1, <3>2, <3>3, AppendProperties
        <3> QED
            BY <1>1, <3>1, <3>2, <3>3, <3>4, Lengths DEF Queues
    <2> QED
        BY <2>1, <2>2, <2>3, <2>4, <2>5, <2>6, <2>7 DEF User, Library
<1>5. LibraryType' /\ InCall'
    <2>1. CASE Read
        <3>1. at = "read" /\ late' = late /\ known' = known /\ call' = call
              /\ direction' = direction
            BY <2>1 DEF Read
        <3>2. CASE call \in Moves /\ at' = "step" /\ Count(Head(inbox).data % 256)
            <4>1. left \in Nat /\ left > 0 /\ pos \in Int
                BY <1>1, <3>1, <3>2 DEF InCall, LibraryType
            <4>2. left' \in Nat /\ pos' \in Int
                BY <3>2, <4>1 DEF Count
            <4> QED
                BY <1>1, <3>1, <3>2, <4>2 DEF LibraryType, InCall
        <3>3. CASE call \notin Moves /\ at' = "idle" /\ UNCHANGED <<left, pos>>
            BY <1>1, <3>1, <3>3 DEF LibraryType, InCall
        <3> QED
            BY <2>1, <3>2, <3>3 DEF Read
    <2>2. CASE Restart
        <3>1. late' \in BOOLEAN /\ known' \in BOOLEAN
            BY <2>2, Zenon DEF Restart
        <3> QED
            BY <2>2, <3>1 DEF Restart, LibraryType, InCall, Moves
    <2>3. CASE TimeOut
        BY <1>1, <2>3 DEF TimeOut, LibraryType, InCall
    <2>4. CASE MoveReturns
        <3>1. Sweep \in Nat /\ at = "step" /\ call \in Moves
            BY <1>1, <2>4, Lengths DEF MoveReturns, InCall
        <3>2. late' = late /\ (known' = known \/ known' = ~late)
            BY <2>4 DEF MoveReturns, count
        <3>3. known' \in BOOLEAN /\ late' \in BOOLEAN
            BY <1>1, <3>2, Zenon DEF LibraryType
        <3>4. /\ at' \in {"idle", "step"} /\ call' \in Moves
              /\ direction' \in {DIR1, DIR2} /\ left' \in Nat /\ pos' \in Int
            BY <1>1, <2>4, <3>1 DEF MoveReturns, LibraryType, count, Moves
        <3> QED
            BY <1>1, <2>4, <3>1, <3>3, <3>4 DEF MoveReturns, InCall, LibraryType, Moves
    <2>5. CASE Fetch
        BY <1>1, <2>5 DEF Fetch, library, count, LibraryType, InCall
    <2>6. CASE Move
        BY <1>1, <2>6, Lengths DEF Move, count, LibraryType, InCall, Moves
    <2>7. CASE Reset
        BY <1>1, <2>7, Lengths DEF Reset, count, LibraryType, InCall, Moves
    <2>8. CASE GetStatus \/ GetPosition \/ StepsCalibrate
        BY <1>1, <2>8 DEF GetStatus, GetPosition, StepsCalibrate, count, LibraryType,
                          InCall, Moves
    <2>9. CASE AskCount \/ StepWrite \/ AskStatus
        BY <1>1, <2>9 DEF AskCount, StepWrite, AskStatus, count, LibraryType, InCall, Moves
    <2> QED
        BY <2>1, <2>2, <2>3, <2>4, <2>5, <2>6, <2>7, <2>8, <2>9 DEF User, Library
<1> QED
    BY <1>3, <1>4, <1>5

-----------------------------------------------------------------------------
(***************************************************************************)
(* The call goes on.                                                       *)
(***************************************************************************)
\* As long as nothing moves and nothing is counted, what holds of the axis and
\* the count goes on to hold.
Still == UNCHANGED <<usb_out_buffer, axis, uncounted, call, direction, left, count>>

LEMMA StillHolds ==
    ASSUME Still
    PROVE  /\ Counted' <=> Counted
           /\ Before' <=> Before
           /\ Done' <=> Done
           /\ QueryOf' = QueryOf
           /\ UNCHANGED <<get_x_state, x_pos, span, call>>
<1>1. get_x_state' = get_x_state
    BY DEF Still, axis, get_x_state
<1>2. UNCHANGED <<usb_out_buffer, carriage, x_pos, span, uncounted, call, direction, left,
                  pos, known>>
    BY DEF Still, axis, count
<1>3. (Counted' <=> Counted) /\ (Before' <=> Before) /\ QueryOf' = QueryOf
    BY <1>2 DEF Counted, Before, QueryOf
<1>4. (Pending' <=> Pending) /\ (After' <=> After)
    BY <1>1, <1>2 DEF Pending, Gain, After
<1>5. Done' <=> Done
    BY <1>2, <1>3, <1>4 DEF Done
<1> QED
    BY <1>1, <1>2, <1>3, <1>5

\* A command of the call is not answered, and is done.
LEMMA CommandDone ==
    ASSUME Base, Execute, ToDo(Head(rx))
    PROVE  Done' /\ tx' = tx
<1>1. /\ carriage \in 0 .. Travel /\ pos \in Int /\ uncounted \in Int /\ left \in Nat
      /\ direction \in {DIR1, DIR2} /\ x_pos \in Int
    BY DEF Base, TypeOK
<1>2. UNCHANGED <<call, direction, left, pos, known>>
    BY DEF Execute, library, count
<1>3. Head(rx).cmd \in {"M", "C"}
    BY DEF ToDo
<1>4. tx' = tx
    BY <1>3 DEF Execute, Answered
<1>5. CASE Head(rx).cmd = "M"
    <2>1. call \in Moves /\ Head(rx).dir = direction /\ Counted /\ Before
        BY <1>5 DEF ToDo
    <2>2. ExecMove(direction)
        BY <1>5, <2>1 DEF Execute
    <2>3. /\ carriage' \in 0 .. Travel /\ uncounted' \in Int
          /\ IF Border(direction, get_x_state)
             THEN carriage' = carriage /\ uncounted' = uncounted
             ELSE /\ carriage' = carriage + 1 - 2 * direction
                  /\ uncounted' = IF known /\ Border(direction, get_x_state')
                                  THEN uncounted + 1 - 2 * direction ELSE uncounted
        BY <1>1, <2>2, StepEffect
    <2> DEFINE s == 1 - 2 * direction
    <2>4. direction \in {0, 1} /\ s \in {1, -1}
        BY <1>1 DEF DIR1, DIR2
    <2>31. /\ carriage + 1 - 2 * direction = carriage + s
          /\ uncounted + 1 - 2 * direction = uncounted + s
        BY <1>1, <2>4
    <2>32. carriage' = IF Border(direction, get_x_state) THEN carriage ELSE carriage + s
        BY <2>3, <2>31
    <2>5. Pending'
        <3>1. CASE Border(direction, get_x_state)
            <4>1. get_x_state' = get_x_state
                BY <2>3, <3>1 DEF get_x_state
            <4>2. Gain' = 0 /\ carriage' = carriage /\ uncounted' = uncounted
                BY <1>2, <2>3, <3>1, <4>1 DEF Gain, Border
            <4> QED
                BY <1>1, <1>2, <2>1, <4>2 DEF Counted, Pending
        <3>2. CASE ~Border(direction, get_x_state)
            <4>1. Gain' = IF Border(direction, get_x_state') THEN 0 ELSE s
                BY <1>2 DEF Gain, Border
            <4>2. known => uncounted' = IF Border(direction, get_x_state')
                                        THEN uncounted + s ELSE uncounted
                BY <2>3, <2>31, <3>2
            <4> HIDE DEF s
            <4>3. known => uncounted' + Gain' = uncounted + s
                BY <1>1, <2>4, <4>1, <4>2
            <4>4. Gain' \in Int
                BY <2>4, <4>1
            <4>5. CASE known
                <5>1. /\ uncounted' + Gain' = uncounted + s /\ carriage' = carriage + s
                      /\ pos + uncounted = carriage - Lo
                    BY <2>1, <2>32, <3>2, <4>3, <4>5 DEF Counted
                <5>2. /\ pos \in Int /\ uncounted \in Int /\ carriage \in Int /\ Lo \in Int
                      /\ s \in Int /\ uncounted' \in Int
                    BY <1>1, <2>3, <2>4, Lengths
                <5>3. pos + uncounted' + Gain' = carriage' - Lo
                    <6>1. pos + uncounted' + Gain' = pos + (uncounted' + Gain')
                        BY <4>4, <5>2
                    <6>2. pos + (uncounted + s) = (pos + uncounted) + s
                        BY <5>2
                    <6>3. (carriage - Lo) + s = (carriage + s) - Lo
                        BY <5>2
                    <6> QED
                        BY <5>1, <6>1, <6>2, <6>3
                <5> QED
                    BY <1>2, <5>3 DEF Pending
            <4>6. CASE ~known
                BY <1>2, <4>6 DEF Pending
            <4> QED
                BY <4>5, <4>6
        <3> QED
            BY <3>1, <3>2
    <2>6. After'
        <3>1. call = "back" => direction = 0
            BY DEF Base, InCall, DIR1
        <3>2. call = "sweep" => direction = 1
            BY DEF Base, InCall, DIR2
        <3>3. Border(0, get_x_state) <=> carriage >= Hi
            BY <1>1, Lengths, StateType DEF Border, DIR1, DIR2
        <3>4. Border(1, get_x_state) <=> carriage <= Lo
            BY <1>1, Lengths, StateType DEF Border, DIR1, DIR2
        <3>5. CASE call = "back"
            <4>1. direction = 0 /\ s = 1
                BY <3>1, <3>5
            <4>2. carriage' = IF carriage >= Hi THEN carriage ELSE carriage + 1
                BY <2>32, <3>3, <4>1
            <4>3. carriage >= Hi \/ carriage + left >= BackOff
                BY <2>1, <3>5 DEF Before
            <4>4. carriage' >= Hi \/ carriage' + left - 1 >= BackOff
                BY <1>1, <4>2, <4>3, Lengths
            <4> QED
                BY <1>2, <3>5, <4>4 DEF After
        <3>6. CASE call = "sweep"
            <4>1. direction = 1 /\ s = -1
                BY <3>2, <3>6
            <4>2. carriage' = IF carriage <= Lo THEN carriage ELSE carriage - 1
                BY <1>1, <2>32, <3>4, <4>1
            <4>3. (left = 0 /\ carriage = Lo) \/ (Lo < carriage /\ carriage <= left)
                BY <2>1, <3>6 DEF Before
            <4>4. carriage' = Lo \/ (Lo < carriage' /\ carriage' <= left - 1)
                BY <1>1, <4>2, <4>3, Lengths
            <4> QED
                BY <1>2, <3>6, <4>4 DEF After
        <3> QED
            BY <1>2, <3>5, <3>6 DEF After
    <2> QED
        BY <1>2, <1>4, <2>1, <2>5, <2>6 DEF Done, Moves
<1>6. CASE Head(rx).cmd = "C"
    <2>1. call = "_steps_calibrate" /\ ~known
        BY <1>6 DEF ToDo
    <2>2. ExecCali
        BY <1>6 DEF Execute
    <2> QED
        BY <1>2, <1>4, <2>1, <2>2 DEF Done, ExecCali, Moves
<1> QED
    BY <1>3, <1>5, <1>6

-----------------------------------------------------------------------------
(***************************************************************************)
(* The invariant is kept.                                                  *)
(***************************************************************************)
LEMMA ExecuteStep ==
    ASSUME Inv, Execute, ~late
    PROVE  InStep'
<1>1. Base /\ Queues /\ InStep /\ rx # <<>>
    BY TypeParts DEF Inv, Base, Execute
<1>2. /\ Head(rx) = rx[1] /\ Len(rx) \in Nat \ {0}
      /\ rx' \in Seq(Packet) /\ Len(rx') = Len(rx) - 1
      /\ \A i \in 1 .. Len(rx) - 1 : rx'[i] = rx[i + 1]
    BY <1>1, HeadTail DEF Base, Execute
<1>3. UNCHANGED <<at, call, direction, left, pos, known, inbox>>
    BY DEF Execute, library, count
<1>4. (at # "idle" => (known => call \notin {"back", "sweep"}))'
    BY <1>1, <1>3 DEF InStep
<1>5. QueryOf' = QueryOf
    BY <1>3 DEF QueryOf
<1>6. CASE Commanded
    <2>1. Done' /\ tx' = tx
        BY <1>1, <1>2, <1>6, CommandDone DEF Commanded
    <2>2. rx' = <<>>
        BY <1>2, <1>6, EmptySeq DEF Commanded
    <2>3. Empty'
        BY <1>3, <1>6, <2>1, <2>2 DEF Commanded, Silent, Empty
    <2>4. at \in {"status", "count"} \/ Waits
        BY <1>1, <1>3 DEF InStep, Empty, Base, TypeOK
    <2>5. at \in {"status", "count"} \/ at = "read"
        BY <1>1 DEF InStep, Empty, Base, TypeOK
    <2> QED
        BY <1>3, <1>4, <2>1, <2>3, <2>5 DEF InStep, Waits, Lost
<1>7. CASE AskedEarly
    <2>1. Done' /\ tx' = tx
        BY <1>1, <1>2, <1>7, CommandDone DEF AskedEarly
    <2>2. Len(rx') = 1 /\ rx'[1] = rx[2]
        BY <1>2, <1>7 DEF AskedEarly
    <2>3. Silent'
        BY <1>3, <1>7, <2>1 DEF AskedEarly, Silent
    <2>4. Asked'
        BY <1>5, <1>7, <2>1, <2>2, <2>3 DEF AskedEarly, IsQuery, Asked
    <2>5. at = "read" \/ Commanded
        BY <1>1 DEF InStep, Empty, Base, TypeOK
    <2>6. at = "read"
        BY <1>7, <2>5 DEF AskedEarly, Commanded
    <2> QED
        BY <1>3, <1>4, <2>4, <2>6 DEF InStep, Waits
<1>8. CASE Asked
    <2>1. rx' = <<>>
        BY <1>2, <1>8, EmptySeq DEF Asked
    <2>2. /\ rx[1].cmd = "Q" /\ rx[1].arg = QueryOf /\ rx[1].old = FALSE
          /\ Done /\ tx = <<>> /\ inbox' = <<>>
        BY <1>3, <1>8 DEF Asked, IsQuery, Silent
    <2>3. usb_out_buffer' = Load(QueryOf) /\ UNCHANGED <<axis, uncounted>>
        BY <1>2, <2>2 DEF Execute
    <2>4. get_x_state' = get_x_state /\ UNCHANGED <<carriage, x_pos, span, uncounted>>
        BY <2>3 DEF axis, get_x_state
    <2>5. call = "_steps_calibrate" => usb_out_buffer' = usb_out_buffer
        BY <2>3 DEF QueryOf, Load
    <2>6. Done'
        <3>1. (Counted' <=> Counted) /\ (Pending' <=> Pending) /\ (After' <=> After)
            BY <1>3, <2>4 DEF Counted, Pending, Gain, After
        <3> QED
            BY <1>3, <2>2, <2>4, <2>5, <3>1 DEF Done
    <2>7. at = "read" \/ Commanded
        BY <1>1 DEF InStep, Empty, Base, TypeOK
    <2>8. at = "read"
        BY <1>8, <2>7 DEF Asked, IsQuery, Commanded, ToDo
    <2>9. tx' = tx \/ tx' = Append(tx, [data |-> usb_out_buffer', old |-> FALSE])
        BY <1>2, <2>2 DEF Execute
    <2>10. CASE tx' = tx
        BY <1>3, <1>4, <2>1, <2>2, <2>6, <2>8, <2>10 DEF InStep, Waits, Lost, Empty, Silent
    <2>11. CASE tx' = Append(tx, [data |-> usb_out_buffer', old |-> FALSE])
        <3>1. tx' = <<[data |-> usb_out_buffer', old |-> FALSE]>>
            BY <2>2, <2>11
        <3>2. Len(tx') = 1 /\ tx'[1].data = usb_out_buffer' /\ tx'[1].old = FALSE
            BY <3>1
        <3>3. usb_out_buffer' = IF call = "get_position" THEN x_pos % Modulus
                                ELSE IF call = "_steps_calibrate" THEN usb_out_buffer
                                ELSE get_x_state + 256 * MOTOR_OK
            BY <2>3 DEF QueryOf, Load
        <3>4. Good(tx[1])'
            BY <1>3, <2>2, <2>4, <3>2, <3>3 DEF Good, Done, Moves
        <3>5. Queued'
            BY <2>1, <2>2, <2>6, <3>2, <3>4 DEF Queued
        <3> QED
            BY <1>3, <1>4, <2>8, <3>5 DEF InStep, Waits
    <2> QED
        BY <2>9, <2>10, <2>11
<1>9. Commanded \/ AskedEarly \/ Asked
    BY <1>1 DEF InStep, Waits, Empty, Queued, Held, Lost, Base, TypeOK
<1> QED
    BY <1>6, <1>7, <1>8, <1>9

LEMMA FetchStep ==
    ASSUME Inv, Fetch, ~late
    PROVE  InStep'
<1>1. Queues /\ InStep /\ tx # <<>>
    BY TypeParts DEF Inv, Fetch
<1>2. Still /\ at' = at
    BY DEF Fetch, Still, library
<1>3. at = "read" /\ Queued
    BY <1>1 DEF Inv, InStep, Waits, Empty, Silent, Commanded, AskedEarly, Asked, Held, Lost,
                TypeOK
<1>4. Len(tx) = 1 /\ Good(tx[1]) /\ Done /\ inbox = <<>> /\ rx = <<>>
    BY <1>3 DEF Queued
<1>5. Head(tx) = tx[1] /\ tx' = <<>>
    <2>1. tx \in Seq(Answer)
        BY <1>1 DEF Queues
    <2>2. Tail(tx) \in Seq(Answer) /\ Len(Tail(tx)) = 0
        BY <1>1, <1>4, <2>1, HeadTailProperties
    <2> QED
        BY <1>1, <2>1, <2>2, EmptySeq DEF Fetch
<1>6. inbox' = <<tx[1]>> /\ rx' = <<>>
    BY <1>4, <1>5 DEF Fetch
<1>7. Len(inbox') = 1 /\ inbox'[1] = tx[1]
    BY <1>6
<1>8. Good(inbox[1])'
    BY <1>2, <1>4, <1>7, StillHolds DEF Good
<1>9. Held'
    BY <1>2, <1>4, <1>5, <1>6, <1>7, <1>8, StillHolds DEF Held
<1>10. (at # "idle" => (known => call \notin {"back", "sweep"}))'
    BY <1>1, <1>2 DEF InStep, Still, count
<1> QED
    BY <1>2, <1>3, <1>9, <1>10 DEF InStep, Waits

\* A call that begins, or goes on without a reply.
LEMMA CallStep ==
    ASSUME Inv, ~late, ~late',
           GetStatus \/ GetPosition \/ StepsCalibrate \/ AskCount \/ Move \/ Reset
           \/ StepWrite \/ AskStatus \/ MoveReturns
    PROVE  InStep'
<1>1. Base /\ Queues /\ InStep /\ InCall
    BY TypeParts DEF Inv, Base
<1>2. direction \in {DIR1, DIR2} /\ left \in Nat /\ carriage \in 0 .. Travel /\ pos \in Int
    BY DEF Inv, TypeOK
<1>3. CASE GetStatus \/ GetPosition
    <2>1. PICK q \in {"S", "P"} : /\ Query(q)
                                  /\ call' = IF q = "S" THEN "get_status" ELSE "get_position"
        BY <1>3 DEF GetStatus, GetPosition
    <2>2. /\ at = "idle" /\ at' = "read"
          /\ UNCHANGED <<usb_out_buffer, axis, uncounted, direction, left, count>>
        BY <1>3 DEF GetStatus, GetPosition
    <2>3. rx = <<>> /\ Silent /\ Counted
        BY <1>1, <2>2 DEF InStep, Empty
    <2>4. /\ Silent' /\ Len(rx') = 1
          /\ rx'[1].cmd = "Q" /\ rx'[1].arg = q /\ rx'[1].old = FALSE
        BY <1>1, <2>1, <2>3, AskCases
    <2>5. QueryOf' = q
        BY <2>1 DEF QueryOf
    <2>6. Counted'
        BY <2>2, <2>3 DEF Counted, count, axis
    <2>7. Done'
        BY <2>1, <2>6 DEF Done, Moves
    <2>8. Asked'
        BY <2>4, <2>5, <2>7 DEF Asked, IsQuery
    <2> QED
        BY <2>1, <2>2, <2>8 DEF InStep, Waits
<1>4. CASE AskCount \/ AskStatus
    <2>1. PICK q \in {"S", "C"} : Query(q) /\ q = IF at = "count" THEN "C" ELSE "S"
        BY <1>4 DEF AskCount, AskStatus
    <2>2. at \in {"count", "status"} /\ at' = "read" /\ Still
        BY <1>4 DEF AskCount, AskStatus, Still
    <2>3. Commanded \/ (Empty /\ Done)
        BY <1>1, <2>2 DEF InStep
    <2>4. QueryOf' = q
        BY <1>1, <2>1, <2>2, StillHolds DEF QueryOf, InCall, Moves
    <2>5. (known => call \notin {"back", "sweep"})'
        BY <1>1, <2>2 DEF InStep, Still, count
    <2>6. CASE Commanded
        <3>1. /\ Silent' /\ Len(rx') = 2
              /\ rx'[1].cmd = rx[1].cmd /\ rx'[1].dir = rx[1].dir
              /\ rx'[2].cmd = "Q" /\ rx'[2].arg = q /\ rx'[2].old = FALSE
            BY <1>1, <2>1, <2>6, AskCases DEF Commanded
        <3>2. ToDo(rx[1])'
            BY <2>2, <2>6, <3>1, StillHolds DEF Commanded, ToDo, Still, count
        <3>3. AskedEarly'
            BY <2>4, <3>1, <3>2 DEF AskedEarly, IsQuery
        <3> QED
            BY <2>2, <2>5, <3>3 DEF InStep, Waits
    <2>7. CASE Empty /\ Done
        <3>1. /\ Silent' /\ Len(rx') = 1
              /\ rx'[1].cmd = "Q" /\ rx'[1].arg = q /\ rx'[1].old = FALSE
            BY <1>1, <2>1, <2>7, AskCases DEF Empty
        <3>2. Asked'
            BY <2>2, <2>4, <2>7, <3>1, StillHolds DEF Asked, IsQuery
        <3> QED
            BY <2>2, <2>5, <3>2 DEF InStep, Waits
    <2> QED
        BY <2>3, <2>6, <2>7
<1>5. CASE StepsCalibrate
    <2>1. /\ at = "idle" /\ Write("C", DIR1) /\ call' = "_steps_calibrate"
          /\ at' = "count" /\ known' = FALSE
        BY <1>5 DEF StepsCalibrate
    <2>2. rx = <<>> /\ Silent
        BY <1>1, <2>1 DEF InStep, Empty
    <2>3. Silent' /\ Len(rx') = 1 /\ rx'[1].cmd = "C"
        BY <1>1, <2>1, <2>2, WriteEffect DEF Silent
    <2>4. Commanded'
        BY <2>1, <2>3 DEF Commanded, ToDo
    <2> QED
        BY <2>1, <2>4 DEF InStep
<1>6. CASE StepWrite
    <2>1. at = "step" /\ left > 0 /\ Write("M", direction) /\ at' = "status" /\ Still
        BY <1>6 DEF StepWrite, Still
    <2>2. rx = <<>> /\ Silent /\ Counted /\ Before /\ call \in Moves
        BY <1>1, <2>1 DEF InStep, Empty, InCall
    <2>3. Silent' /\ Len(rx') = 1 /\ rx'[1].cmd = "M" /\ rx'[1].dir = direction
        BY <1>1, <1>2, <2>1, <2>2, WriteEffect DEF Silent
    <2>4. Commanded'
        BY <2>1, <2>2, <2>3, StillHolds DEF Commanded, ToDo, Still
    <2>5. (known => call \notin {"back", "sweep"})'
        BY <1>1, <2>1 DEF InStep, Still, count
    <2> QED
        BY <2>1, <2>4, <2>5 DEF InStep
<1>7. CASE Move
    <2>1. /\ at = "idle" /\ call' = "move" /\ at' = "step"
          /\ UNCHANGED <<link, axis, uncounted, count>>
        BY <1>7 DEF Move
    <2>2. Empty' /\ Counted'
        BY <1>1, <2>1 DEF InStep, Empty, Silent, Counted, link, axis, count
    <2>3. Before'
        BY <2>1 DEF Before
    <2> QED
        BY <2>1, <2>2, <2>3 DEF InStep
<1>8. CASE Reset
    <2>1. /\ at = "idle" /\ call' = "back" /\ at' = "step" /\ left' = BackOff
          /\ known' = FALSE /\ UNCHANGED <<link, axis>>
        BY <1>8 DEF Reset
    <2>2. Empty' /\ Counted'
        BY <1>1, <2>1 DEF InStep, Empty, Silent, Counted, link
    <2>3. carriage' = carriage
        BY <2>1 DEF axis
    <2>4. carriage' + left' >= BackOff
        BY <1>2, <2>1, <2>3, Lengths
    <2>5. Before'
        BY <2>1, <2>4 DEF Before
    <2> QED
        BY <2>1, <2>2, <2>5 DEF InStep
<1>9. CASE MoveReturns
    <2>1. at = "step" /\ left = 0 /\ UNCHANGED <<link, axis>>
        BY <1>9 DEF MoveReturns
    <2>2. Empty /\ Counted /\ Before
        BY <1>1, <2>1 DEF InStep
    <2>3. Empty' /\ carriage' = carriage
        BY <2>1, <2>2 DEF Empty, Silent, link, axis
    <2>4. CASE call = "move" /\ at' = "idle" /\ UNCHANGED <<count, uncounted>>
        BY <2>2, <2>3, <2>4 DEF InStep, Counted, count
    <2>5. CASE /\ call = "back" /\ call' = "sweep" /\ left' = Sweep /\ at' = at
               /\ UNCHANGED <<count, uncounted>>
        <3>1. ~known /\ known' = known
            BY <1>1, <2>1, <2>5 DEF InStep, count
        <3>2. carriage >= Hi \/ carriage + left >= BackOff
            BY <2>2, <2>5 DEF Before
        <3>3. Lo < carriage' /\ carriage' <= left'
            BY <1>2, <2>1, <2>3, <2>5, <3>2, Lengths
        <3>4. Before'
            BY <2>5, <3>3 DEF Before
        <3>5. Counted'
            BY <3>1 DEF Counted
        <3> QED
            BY <2>1, <2>3, <2>5, <3>1, <3>4, <3>5 DEF InStep
    <2>6. CASE call = "sweep" /\ at' = "idle" /\ pos' = 0 /\ uncounted' = 0
        <3>1. (left = 0 /\ carriage = Lo) \/ (Lo < carriage /\ carriage <= left)
            BY <2>2, <2>6 DEF Before
        <3>2. carriage' = Lo
            BY <1>2, <2>1, <2>3, <3>1, Lengths
        <3>3. Counted'
            BY <2>6, <3>2, Lengths DEF Counted
        <3> QED
            BY <2>3, <2>6, <3>3 DEF InStep
    <2> QED
        BY <1>9, <2>4, <2>5, <2>6 DEF MoveReturns
<1> QED
    BY <1>3, <1>4, <1>5, <1>6, <1>7, <1>8, <1>9

\* A call that reads the reply to its query.
LEMMA ReadStep ==
    ASSUME Inv, Read, ~late
    PROVE  InStep'
<1>1. Queues /\ InStep /\ InCall /\ at = "read" /\ inbox # <<>>
    BY TypeParts DEF Inv, Read
<1>2. /\ left \in Nat /\ carriage \in 0 .. Travel /\ pos \in Int /\ uncounted \in Int
      /\ direction \in {DIR1, DIR2}
    BY DEF Inv, TypeOK
<1>3. Held
    BY <1>1 DEF InStep, Waits, Empty, Silent, AskedEarly, Asked, Queued, Lost
<1>4. Good(inbox[1]) /\ Done /\ rx = <<>> /\ tx = <<>> /\ Len(inbox) = 1
    BY <1>3 DEF Held
<1>5. Head(inbox) = inbox[1] /\ inbox' = <<>>
    <2>1. inbox \in Seq(Answer)
        BY <1>1 DEF Queues
    <2>2. Tail(inbox) \in Seq(Answer) /\ Len(Tail(inbox)) = 0
        BY <1>1, <1>4, <2>1, HeadTailProperties
    <2> QED
        BY <1>1, <2>1, <2>2, EmptySeq DEF Read
<1>6. UNCHANGED <<rx, tx, carriage, uncounted, call, direction, known>>
    BY DEF Read, axis
<1>7. Empty'
    BY <1>4, <1>5, <1>6 DEF Empty, Silent
<1>8. (known => call \notin {"back", "sweep"})'
    BY <1>1, <1>6 DEF InStep
<1>9. CASE call \in Moves
    <2>1. at' = "step" /\ Count(Head(inbox).data % 256)
        BY <1>9 DEF Read
    <2>2. Head(inbox).data % 256 = get_x_state
        <3>1. get_x_state \in 1 .. 3 /\ MOTOR_OK \in 1 .. 3
            BY <1>2, StateType DEF MOTOR_OK, MOTOR_SW1_ON, MOTOR_SW2_ON
        <3>2. Head(inbox).data = get_x_state + 256 * MOTOR_OK
            BY <1>4, <1>5, <1>9 DEF Good
        <3> QED
            BY <3>1, <3>2, Words
    <2>3. Pending /\ After /\ left > 0
        BY <1>1, <1>4, <1>9 DEF Done, InCall
    <2>4. CASE Border(direction, get_x_state)
        <3>1. left' = 0 /\ pos' = pos /\ Gain = 0
            BY <2>1, <2>2, <2>4 DEF Count, Gain
        <3>2. Counted'
            BY <1>2, <1>6, <2>3, <3>1 DEF Pending, Counted
        <3>3. call = "back" => carriage >= Hi
            BY <1>1, <1>2, <2>4, StateType, Lengths DEF InCall, Border, DIR1, DIR2
        <3>4. call = "sweep" => carriage <= Lo
            BY <1>1, <1>2, <2>4, StateType, Lengths DEF InCall, Border, DIR1, DIR2
        <3>5. call = "sweep" => carriage = Lo
            BY <1>2, <2>3, <3>4, Lengths DEF After
        <3>6. Before'
            BY <1>6, <3>1, <3>3, <3>5 DEF Before
        <3> QED
            BY <1>7, <1>8, <2>1, <3>2, <3>6 DEF InStep
    <2>5. CASE ~Border(direction, get_x_state)
        <3>1. /\ left' = left - 1
              /\ pos' = IF direction = DIR1 THEN pos + 1 ELSE pos - 1
            BY <2>1, <2>2, <2>5 DEF Count
        <3>2. Gain \in Int /\ pos' = pos + Gain
            BY <1>2, <2>5, <3>1 DEF Gain, DIR1, DIR2
        <3>3. pos' + uncounted = pos + uncounted + Gain
            BY <1>2, <3>2
        <3>4. Counted'
            BY <1>6, <2>3, <3>3 DEF Pending, Counted
        <3>5. call = "sweep" => carriage # Lo
            BY <1>1, <1>2, <2>5, StateType, Lengths DEF InCall, Border, DIR1, DIR2
        <3>6. call = "back" => carriage >= Hi \/ carriage + left' >= BackOff
            BY <1>2, <2>3, <3>1, Lengths DEF After
        <3>7. call = "sweep" => Lo < carriage /\ carriage <= left'
            BY <1>2, <2>3, <3>1, <3>5, Lengths DEF After
        <3>8. Before'
            BY <1>6, <3>6, <3>7 DEF Before
        <3> QED
            BY <1>7, <1>8, <2>1, <3>4, <3>8 DEF InStep
    <2> QED
        BY <2>4, <2>5
<1>10. CASE call \notin Moves
    <2>1. at' = "idle" /\ pos' = pos
        BY <1>10 DEF Read
    <2>2. Counted
        BY <1>1, <1>4, <1>10 DEF Done, Counted, Inv, TypeOK, InCall
    <2>3. Counted'
        BY <1>6, <2>1, <2>2 DEF Counted
    <2> QED
        BY <1>7, <2>1, <2>3 DEF InStep
<1> QED
    BY <1>9, <1>10

LEMMA InvStep ==
    ASSUME Inv, [Next]_vars
    PROVE  Inv'
<1>1. Base
    BY DEF Inv, Base
<1>2. CASE UNCHANGED vars
    <2>1. Base'
        BY <1>1, <1>2 DEF Base, TypeOK, InCall, Homed, vars, link, axis, library, count
    <2>2. /\ UNCHANGED <<usb_out_buffer, axis, uncounted, call, direction, left, count>>
          /\ UNCHANGED <<rx, tx, inbox, at, late, known>>
        BY <1>2 DEF vars, link, axis, library, count
    <2>3. Still
        BY <2>2 DEF Still
    <2>4. InStep => InStep'
        <3>1. (Commanded => Commanded') /\ (AskedEarly => AskedEarly')
            BY <2>2, <2>3, StillHolds DEF Commanded, AskedEarly, ToDo, IsQuery, Silent
        <3>2. (Asked => Asked') /\ (Queued => Queued') /\ (Held => Held')
            BY <2>2, <2>3, StillHolds DEF Asked, Queued, Held, Good, IsQuery, Silent
        <3>3. (Lost => Lost') /\ (Empty => Empty')
            BY <2>2, <2>3, StillHolds DEF Lost, Empty, Silent
        <3> QED
            BY <2>2, <2>3, <3>1, <3>2, <3>3, StillHolds DEF InStep, Waits
    <2> QED
        BY <2>1, <2>2, <2>4 DEF Inv, Base
<1>3. CASE Execute
    <2>1. Base' /\ late' = late /\ known' = known
        BY <1>1, <1>3, ExecuteBase DEF Execute, count
    <2>2. ~late => InStep'
        BY <1>3, ExecuteStep
    <2> QED
        BY <2>1, <2>2 DEF Inv, Base
<1>4. CASE Fetch
    <2>1. Base' /\ late' = late /\ known' = known
        BY <1>1, <1>4, LibraryBase DEF Fetch, count
    <2>2. ~late => InStep'
        BY <1>4, FetchStep
    <2> QED
        BY <2>1, <2>2 DEF Inv, Base
<1>5. CASE Read
    <2>1. Base' /\ late' = late /\ known' = known
        BY <1>1, <1>5, LibraryBase DEF Read, Library
    <2>2. ~late => InStep'
        BY <1>5, ReadStep
    <2> QED
        BY <2>1, <2>2 DEF Inv, Base
<1>6. CASE TimeOut
    <2>1. Base' /\ late' /\ ~known'
        BY <1>1, <1>6, LibraryBase DEF TimeOut, Library
    <2> QED
        BY <2>1 DEF Inv, Base
<1>7. CASE Restart
    <2>1. Base' /\ ~known' /\ at' = "idle"
        BY <1>1, <1>7, LibraryBase DEF Restart, User
    <2>2. ~late' => Empty'
        BY <1>7 DEF Restart, Empty, Silent
    <2>3. ~late' => InStep'
        BY <2>1, <2>2 DEF InStep, Counted
    <2> QED
        BY <2>1, <2>3 DEF Inv, Base
<1>8. CASE GetStatus \/ GetPosition \/ StepsCalibrate \/ AskCount \/ Move \/ Reset
           \/ StepWrite \/ AskStatus \/ MoveReturns
    <2>1. Base'
        BY <1>1, <1>8, LibraryBase DEF User, Library
    <2>2. late' = late /\ (known' => known \/ ~late)
        <3>1. CASE MoveReturns
            <4>1. late' = late /\ (known' = known \/ known' = ~late)
                BY <3>1 DEF MoveReturns, count
            <4>2. CASE known' = known
                BY <4>1, <4>2
            <4>3. CASE known' = ~late
                BY <4>1, <4>3
            <4> QED
                BY <4>1, <4>2, <4>3
        <3>2. CASE StepsCalibrate \/ Reset
            BY <3>2 DEF StepsCalibrate, Reset
        <3>3. CASE GetStatus \/ GetPosition \/ AskCount \/ Move \/ StepWrite \/ AskStatus
            BY <3>3 DEF GetStatus, GetPosition, AskCount, Move, StepWrite, AskStatus, count
        <3> QED
            BY <1>8, <3>1, <3>2, <3>3
    <2>3. ~late => InStep'
        BY <1>8, <2>2, CallStep
    <2> QED
        BY <2>1, <2>2, <2>3 DEF Inv, Base
<1> QED
    BY <1>2, <1>3, <1>4, <1>5, <1>6, <1>7, <1>8 DEF Next, User, Library

THEOREM InvHolds == Spec => []Inv
<1>1. Init => Inv
    <2>1. Init => TypeOK
        <3>1. 0 \in Word
            <4>1. 0 % Modulus \in Word /\ 0 % Modulus = 0
                BY Words, Lengths
            <4> QED
                BY <4>1
        <3>2. Init => Queues
            BY Lengths, EmptySeq DEF Init, Queues
        <3>3. Init => homed \in BOOLEAN /\ known \in BOOLEAN /\ late \in BOOLEAN
            BY Zenon DEF Init
        <3>4. Init => AxisType
            BY <3>1, <3>3, Lengths DEF Init, AxisType
        <3>5. Init => LibraryType
            BY <3>3 DEF Init, LibraryType
        <3> QED
            BY <3>2, <3>4, <3>5, TypeParts
    <2>2. Init => InCall /\ Homed
        BY Lengths DEF Init, InCall, Homed, Moves
    <2>3. Init => InStep /\ ~known
        BY DEF Init, InStep, Empty, Silent, Counted
    <2> QED
        BY <2>1, <2>2, <2>3 DEF Inv
<1>2. Inv /\ [Next]_vars => Inv'
    BY InvStep
<1> QED
    BY <1>1, <1>2, PTL DEF Spec

-----------------------------------------------------------------------------
(***************************************************************************)
(* What follows from it.                                                   *)
(***************************************************************************)
\* The types of HostLink: the queues never outgrow the link, moves never run
\* past their last step, and the carriage never leaves its axis.
THEOREM TypeCorrect == Spec => []TypeOK
<1>1. Inv => TypeOK
    BY DEF Inv
<1> QED
    BY <1>1, InvHolds, PTL

\* A reply that is there when the library reads answers the query it just
\* made, unless an earlier reply was left unread.
LEMMA ReplyHeld ==
    ASSUME Inv, ~late, at = "read", inbox # <<>>
    PROVE  Good(Head(inbox)) /\ call # "none"
<1>1. Held /\ InCall
    BY DEF Inv, InStep, Waits, AskedEarly, Asked, Queued, Lost, Empty, Silent
<1>2. inbox \in Seq(Answer)
    BY DEF Inv, TypeOK
<1>3. Head(inbox) = inbox[1]
    BY <1>2
<1> QED
    BY <1>1, <1>3 DEF Held, InCall

THEOREM AnswersAreOwn == Spec => []AnswerIsOwn
<1>1. Inv => AnswerIsOwn
    BY ReplyHeld DEF AnswerIsOwn, Good
<1> QED
    BY <1>1, InvHolds, PTL

\* The position the library counts is wrong by the steps that closed a switch
\* and by no other, from a reset on, on an axis of any length.
THEOREM HostPositionCorrect == Spec => []HostPosition
<1>1. Inv => HostPosition
    BY DEF Inv, InStep, HostPosition, Counted
<1> QED
    BY <1>1, InvHolds, PTL

\* The count a calibration returns is its own.
THEOREM CalibrationsCount == Spec => CalibrationCounts
<1>1. ASSUME Inv, ~late, Returns("_steps_calibrate")
      PROVE  Value = span
    <2>1. Value = span % Modulus
        BY <1>1, ReplyHeld DEF Returns, Good, Value
    <2>2. span \in 0 .. Travel - Lo
        BY <1>1, Lengths DEF Inv, TypeOK, Homed
    <2> QED
        BY <2>1, <2>2, Words
<1>2. Inv /\ [Next]_vars => [~late /\ Returns("_steps_calibrate") /\ ~late' => Value = span]_vars
    BY <1>1
<1> QED
    BY <1>2, InvHolds, PTL DEF Spec, CalibrationCounts

\* A position that is read is that of the firmware in two bytes, and after a
\* calibration where the carriage is.
THEOREM PositionsTrue == Spec => PositionTrue
<1>1. ASSUME Inv, ~late, Returns("get_position")
      PROVE  /\ Value = x_pos % Modulus
             /\ homed => Value = carriage - Lo
    <2>1. Value = x_pos % Modulus
        BY <1>1, ReplyHeld DEF Returns, Good, Value
    <2>2. ASSUME homed PROVE Value = carriage - Lo
        <3>1. x_pos = carriage - Lo /\ x_pos \in 0 .. Travel - Lo
            BY <1>1, <2>2, Lengths DEF Inv, TypeOK, Homed
        <3> QED
            BY <2>1, <3>1, Words
    <2> QED
        BY <2>1, <2>2
<1>2. Inv /\ [Next]_vars =>
         [~late /\ Returns("get_position") /\ ~late' =>
            /\ Value = x_pos % Modulus
            /\ homed => Value = carriage - Lo]_vars
    BY <1>1
<1> QED
    BY <1>2, InvHolds, PTL DEF Spec, PositionTrue

\* The status a move decides on is that of the axis at that moment.
THEOREM StatusesOfAxis == Spec => StatusOfAxis
<1>1. ASSUME Inv, ~late, inbox # <<>>, Decides
      PROVE  Value % 256 = get_x_state
    <2>1. Value = get_x_state + 256 * MOTOR_OK
        BY <1>1, ReplyHeld DEF Decides, Good, Value
    <2>2. get_x_state \in 1 .. 3 /\ MOTOR_OK \in 1 .. 3
        BY <1>1, Lengths, StateType
           DEF Inv, TypeOK, MOTOR_OK, MOTOR_SW1_ON, MOTOR_SW2_ON
    <2> QED
        BY <2>1, <2>2, Words
<1>2. Next /\ Decides => inbox # <<>>
    BY DEF Decides, Next, Execute, Fetch, User, Library, GetStatus, GetPosition,
           StepsCalibrate, Move, Reset, Restart, AskCount, StepWrite, AskStatus, MoveReturns,
           Read, TimeOut, library
<1>3. Inv /\ [Next]_vars => [~late /\ Decides => Value % 256 = get_x_state]_vars
    BY <1>1, <1>2
<1> QED
    BY <1>3, InvHolds, PTL DEF Spec, StatusOfAxis

\* A command in one step is one Axis allows, for every axis.
THEOREM CommandsAreOfAxis == Spec => ImplementsAxis
<1>1. Init => TheAxis!Init
    BY DEF Init, TheAxis!Init
<1>2. ASSUME TypeOK, ExecCali PROVE TheAxis!Next
    <2>1. carriage \in 0 .. Travel
        BY <1>2 DEF TypeOK
    <2>2. TheAxis!Calibrate
        BY <1>2, <2>1, Lengths
        DEF ExecCali, TheAxis!Calibrate, TheAxis!Turn, TheAxis!Less, TheAxis!More
    <2> QED
        BY <2>2 DEF TheAxis!Next
<1>3. ASSUME TypeOK, NEW d \in {DIR1, DIR2}, ExecMove(d)
      PROVE  [TheAxis!Next]_TheAxis!vars
    <2>1. carriage \in 0 .. Travel /\ x_pos \in Int /\ span' = span
        BY <1>3 DEF TypeOK, ExecMove
    <2>2. CASE Refused(d)
        BY <1>3, <2>1, <2>2 DEF ExecMove, TheAxis!vars
    <2>3. CASE ~Refused(d) /\ d = DIR1
        <3>1. carriage < Hi /\ carriage' = carriage + 1 /\ x_pos' = x_pos + 1
            BY <1>3, <2>1, <2>3, Lengths
            DEF ExecMove, Refused, Border, get_x_state, DIR1, DIR2,
                MOTOR_OK, MOTOR_SW1_ON, MOTOR_SW2_ON
        <3>2. TheAxis!MoveUp(1)
            BY <2>1, <3>1, Lengths DEF TheAxis!MoveUp, TheAxis!Less
        <3> QED
            BY <2>1, <3>2 DEF TheAxis!Next, TheAxis!Move
    <2>4. CASE ~Refused(d) /\ d = DIR2
        <3>1. Lo < carriage /\ carriage' = carriage - 1 /\ x_pos' = x_pos - 1
            BY <1>3, <2>1, <2>4, Lengths
            DEF ExecMove, Refused, Border, get_x_state, DIR1, DIR2,
                MOTOR_OK, MOTOR_SW1_ON, MOTOR_SW2_ON
        <3>2. TheAxis!MoveDown(1)
            BY <2>1, <3>1, Lengths DEF TheAxis!MoveDown, TheAxis!More
        <3> QED
            BY <2>1, <3>2 DEF TheAxis!Next, TheAxis!Move
    <2> QED
        BY <2>2, <2>3, <2>4
<1>4. TypeOK /\ [Next]_vars => [TheAxis!Next]_TheAxis!vars
    <2> SUFFICES ASSUME TypeOK, [Next]_vars, axis' # axis
                 PROVE  [TheAxis!Next]_TheAxis!vars
        BY DEF axis, TheAxis!vars
    <2>1. Execute
        BY DEF Next, Fetch, User, Library, GetStatus, GetPosition,
            StepsCalibrate, Move, Reset, Restart, AskCount, StepWrite, AskStatus,
            MoveReturns, Read, TimeOut, vars
    <2>2. rx # <<>> /\ rx \in Seq(Packet)
        BY <2>1 DEF Execute, TypeOK
    <2>3. Head(rx).dir \in {DIR1, DIR2}
        BY <2>2, HeadTail DEF Packet
    <2>4. ExecCali \/ ExecMove(Head(rx).dir)
        BY <2>1 DEF Execute
    <2> QED
        BY <1>2, <1>3, <2>3, <2>4
<1> QED
    BY <1>1, <1>4, TypeCorrect, PTL DEF Spec, ImplementsAxis, TheAxis!Spec
=============================================================================
