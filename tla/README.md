# Formal model of the e-waste 3D printer

The printer is a Teensy LC that moves two stepper axes (X, Y) and one DC motor
axis with an encoder (Z) on commands it gets from a Python library over raw USB
HID. This directory holds TLA+ models of the firmware, its USB driver and the
library, the TLC configurations that check them, and proofs for TLAPS. Paths
below are relative to the repository; the firmware is in `src/`, the USB driver
in `teensy3/`, the library in `host/`.

## The system

| part | state it keeps | operations | interacts by |
|---|---|---|---|
| Z axis (`src/motor.cpp`) | `z_pos` (target), `z_pos_cur` (count), `z_max`, `z_dir`, two motor outputs, `pos_timer_z` | `motor_z_calib`, `motor_z_move`, the Z part of `test_exec`; `enc_isr` on every encoder edge; `pos_func` every 10 ms | global variables shared, without any lock, by main and two interrupt handlers |
| X and Y axes (`src/motor.cpp`) | `x_pos`, `x_dir`, `x_state` and the same for Y | `motor_x_calib`, `motor_x_move`, the X part of `test_exec`, and their copies | calls from main only |
| command loop (`src/main.cpp`, `src/commands.cpp`) | `x_test`.., the local `nbytes` | receive, `cmd_exec`, `test_exec` | reads and writes the two USB buffers, calls the axes |
| USB wrappers (`src/usb.cpp`, `teensy3/usb_rawhid.c`) | `usb_in_buffer`, `usb_out_buffer` | `usb_wait`, `usb_recv`, `usb_send` | packet queues of the driver |
| USB driver (`teensy3/usb_dev.c`, `usb_mem.c`) | `usb_configuration`, queues, buffer descriptors, a pool of 12 packets, `usb_rx_memory_needed` | SET_CONFIGURATION, token interrupts, `usb_rx`, `usb_tx`, `usb_malloc`, `usb_free`, `usb_rx_memory` | an interrupt that preempts main between any two instructions |
| interval timer (`teensy3/IntervalTimer.cpp`) | channels | `begin`, `end` | calls `pos_func` |
| host library (`host/modules/motor.py`) | `pos`, the device handle | calibrate, move, reset, queries | writes a packet, then reads one with a timeout |
| host geometry (`host/modules/geometry.py`) | none | `goto2D` | cannot run: calls an undefined function |

What makes each part correct, and hard:

* **Z axis.** The count must follow the carriage, the target must stay in the
  calibrated range, an output must never be on with the wrong counting
  direction, a calibration must end, and a target must be reached. Hard:
  three contexts write the same variables, the direction of an edge is not
  measured but taken from what was commanded last, the motor coasts.
* **Steppers.** The position must be the carriage's after a calibration, and a
  command must leave behind what it says. Hard: only as a property of sequences
  of commands, since pulses at a stop are lost.
* **Command loop.** A packet is executed once and in order, a reply answers its
  query. Hard: no reply carries an identification, one output buffer serves
  all commands, the host may reconfigure the device at any moment.
* **USB driver.** Every buffer is at one place, replies must not take the
  receivers' buffers, the controller must find the next reply in the bank it
  looks at. Hard: one pool, two banks per endpoint, an interrupt that runs between
  any two instructions, a configuration that frees everything under main's feet.
* **Host library.** The answer a call reads must be its own, and the position it
  counts the carriage's. Hard: reads time out, programs end in the middle of a
  call and leave a reply in the device's queue.

Every hazard found is listed, with its line and its properties, under
`hazards` in `PROJECT.json`.

## Modules

How they compose: `StepperAxis` implements `Axis`, and the commands `HostLink`
executes are those of `Axis`; `UsbBuffers` and `Firmware` implement `UsbLink`, the
one as the driver that makes the two queues, the other as the program that uses
them.

**`ZAxis`** models the Z axis. main is a program counter over the statements of
`motor_z_calib`, `motor_z_move` and `_motor_z_move` that an interrupt can tell
from their neighbours: `MoveStep`, `ClampHigh` and `ClampLow` are the three
writes to `z_pos`; the `Calib...` actions follow the calibration from
`CalibOutputsOff` to `CalibTimerBegin`. `enc_isr` and `pos_func` are one action
each, because both interrupts have the same (default) priority and cannot
preempt one another. A pending edge holds main up, but not `pos_func`: when both
interrupts are pending the timer has the lower number and is served first. The
status LED and all delays are left out, except that `CalibRead` waits for the
motor to stand still, which is what its half second is for.

The carriage, external to the code, moves one edge at a time while exactly one
output is on (`DriveEdge`), may run on for up to `Coast` edges (`CoastEdge`) and
then stops (`Settle`). With both outputs on an L293D brakes. An edge may fall
between any two statements; the time between edges is not modelled, so the model
has more behaviours than the machine, never fewer. `Paced` says when commands
come: only while the axis is at rest (a self test, too, never follows another
command before that), or at any moment. `Accept` is main being
back at the top of its loop.

The direction byte of a move is not validated (`src/commands.cpp:74`). All that Z's
code tells is whether it is `DIR1`; `DIR_OTHER` stands for every byte that is neither
that nor `DIR2`, and moves the target as `DIR2` does.

Names in this code need care: the status `MOTOR_SW1_ON` (2) is the one in which
the pin called `SW2` reads 0. A switch reads 0 when closed, by the loops of the
calibration. `ReadSW1`, `ReadSW2` and `get_z_state` keep to the pins.

**`Axis`** is the abstract specification of a stepper axis: what a whole command
does to the carriage, the position and the count of the last calibration, with
nothing said of pulses. `Turn` is where a calibration turns round: at SW1, or one
step beyond where it began when that is further, since it sends a pulse first.
`MoveAstray` is a move whose direction byte is neither 0 nor 1.

**`StepperAxis`** is either of X and Y; the code of one is a copy of the other's.
A step of the model is one pulse: the firmware counts it, the carriage makes it
unless it stands at a stop. `carriage` counts up in direction `DIR1`. The first
pulse of a calibration (`CalibStart`) is sent before any switch was read. A test
pulse asks no switch, since `x_state` is a constant in effect (`state`). `MoveStart`
takes any direction byte, up to `MaxDir`: the driver's direction pin is high for all
but `DIR1`, `x_pos` changes by `2*dir - 1` (`src/motor.cpp:287`, `305`), and at a
closed switch only 0 and 1 are let through, each at its own. What can make a position
wrong is counted by ghosts: `drift` is the steps counted since the last calibration
but not made, `tested` says that a self test, which may run beyond SW1, has sent
pulses since. The ghost `rest` holds carriage and position of main's last idle moment; with it for the
carriage and the position, the module implements `Axis` (`ImplementsAxis`).

**`UsbLink`** is the abstract specification of the link: two queues out of one
pool, commands in order, replies in order until a configured device is
configured anew, nothing lost or doubled except by a configuration.

**`UsbBuffers`** is the driver and the raw HID functions main calls, one action per
section that runs with interrupts disabled (or that an interrupt cannot tell from
its neighbours). `mem` is the bitmap of free buffers, the four receive descriptors
and `usb_rx_memory_needed`; `txd`, `txq` and `tx_state` are the transmit
descriptors, the list behind them and the state word (`busy` banks, the `first`
that comes next); `next_rx` and `next_tx` are the banks the controller uses, which
the code never reads. `usb_free` and `usb_rx_memory` are split as the code
splits them: the look at `usb_rx_memory_needed` (`UsbFree`), the locked sections
(`Put`, `UsbRxMemory`), and the reset after interrupts are on again (`Nobody`). In
`usb_isr` nothing intervenes, so `Free` and `Arm` are operators there.
`SetConfiguration` frees what the descriptors and queues hold, in the code's order,
and arms all receivers: `Reconfigured` is what that does to `mem`, descriptor by
descriptor and then list by list (`FreeAll`). A reply is a number and the command
loop is `Exec`, which answers or does not. The ghost `order` lists the buffers of
the replies in the order main queued them; nothing reads it but `Queued`, in which
a reply that is in neither a bank nor the list shows as lost.

**`Firmware`** is `main`, the command handlers and raw HID. A packet is its
command and a number that exists only in the model; a routine of `motor.cpp` is
a single step, as the host cannot see inside it. `usb_out_buffer` is three words
for bytes 0-1, 2 and 3-5, each holding who wrote it last. `UsbRecv` has the
path on which `usb_rawhid_recv` returns -1: main keeps it in a `uint8_t` and goes
on with the previous packet. `UsbSend` queues the reply, or gives it up when there
is no buffer. `SetConfiguration`, to a configuration or to 0, frees what is
queued. `Poll` is a turn of the loop that finds nothing to do.

**`HostLink`** is the library, the X axis and the link. `at` is where the library
is within a call, `call` which call it is; the loop of `move` is `StepWrite`,
`AskStatus`, `Read`, and `reset` is its two moves one after the other (`back`,
`sweep`). `inbox` is what the kernel has fetched and the library not yet read.
`TimeOut` is a `read` that returns nothing, on which `ord(t[0])` raises an exception
that ends the call; `Restart` is a program that ends at any moment and another
that starts. The firmware executes a command in one step, and may give up a reply
when the link is full: the packet it executes has gone back to the pool by then
(`TxRoom`). Bytes 0 and 1 of a reply are one number modulo 2^16. Callers of `move`
pass one of the two directions the library names, as all of its wrappers do; what
other bytes do is in `StepperAxis`.
`late` says that some call was left without its reply: from then on every answer
may be the one to an earlier query, and only a new program that finds nothing
queued is right again.

**`ZAxisProofs`**, **`StepperAxisProofs`**, **`UsbBuffersProofs`**,
**`FirmwareProofs`** and **`HostLinkProofs`** extend the modules with theorems.

Definitions named `X_Something` before a definition `X`, under a comment that starts
with "Fault", are seeded bugs. Nothing uses them; each is put in place of `X` to
see that a property notices (`mutants` in `PROJECT.json`).

## Runs

| run | asks | result |
|---|---|---|
| `z_instant` | motor that stops at once, commands at rest: is every edge counted right (`Tracks`), does the carriage stay within an edge of the calibrated range (`OverrunBounded`), is a target reached (`Converges`) | holds |
| `z_coast` | motor that coasts, commands at rest: `TargetInRange`, `CalibratedRange`, `OutputsExclusive`, `CalibrationEnds` | holds |
| `z_unpaced` | commands at any moment: `TargetInRange`, `DriveCounted` | holds |
| `z_calib_race` | commands at any moment: `CalibrationEnds` | violated: finding 1 |
| `z_coast_stall` | motor that coasts: `Converges` | violated: finding 2 |
| `stepper` | any sequence of moves with any direction byte, calibrations and test pulses, from any start: `HomedPosition`, `MovesAreExact`, `ImplementsAxis`, `MainReturns` | holds |
| `firmware` | device configured once, anew, or to 0, at any moment, host that may never fetch a reply: `RepliesInOrder`, `ReplyAnswersQuery`, `ExecutedOnceInOrder`, `Responsive`, `CommandsGetThrough`, `ImplementsLink` | holds |
| `fw_stale_packet` | `NothingReceivedNothingDone` | violated: finding 3 |
| `usb_buffers` | `usb_isr` and SET_CONFIGURATION between any two steps of main: `OnePlace`, `ReplyInReach`, `ImplementsLink`, `StarvedServed` | holds |
| `usb_starved` | `StarvedAlwaysServed` | violated: finding 4 |
| `host` | reads that time out, replies given up, programs that end in a call: `AnswerIsOwn`, `HostPosition`, `CalibrationCounts`, `PositionTrue`, `StatusOfAxis`, `ImplementsAxis`, `CallsReturn` | holds |
| `host_late` | `StatusIsCurrent` | violated: finding 5 |

`TypeOK` of each module is checked in one of its runs.

### What does not hold

1. `motor_z_calib` cuts both outputs and then stops the timer. A tick between the
   two, with a target not yet reached, switches an output on again. The search
   for SW2 drives the other one as well, the motor is braked, and the loop never
   ends.
2. `enc_isr` counts by `z_dir`. An edge from coasting, after `pos_func` has turned
   `z_dir` round, is counted the wrong way and the error stays. It can grow until
   a target lies beyond the stop, where `pos_func`, which reads no switch, drives
   the motor for good.
3. While the device is not configured, the last command is executed again and
   again.
4. `usb_free` looks at `usb_rx_memory_needed` with interrupts enabled, and
   `usb_rx_memory`, when it finds nobody in need, enables them before it sets the
   count to 0. A reply fetched in the first gap serves the receiver in need, a
   command in the second makes another one starve, and the count that would tell
   is wiped out. The bank never gets a buffer again, and since the controller uses
   the two banks in turn, nothing is received until the next configuration.
   `StarvedServed` says that this is the only way to starve for good.
5. A reply that was left unread is taken for the answer to the next query. A move
   then decides on the status of an earlier moment: it stops early, or counts a
   step that was refused. `AnswerIsOwn` says that this cannot happen otherwise. `_steps_calibrate` reads
   without a timeout (`host/modules/motor.py:75`), so that it may also hang then;
   `CallsReturn` says that no other call can, whatever is lost.

Divergences that are plain from the code and have no run of their own:

* `x_state`, `y_state` and `z_state` are never assigned after their initialisation
  (`src/motor.h:85`), so a self test does not turn round at a switch.
* `cmd_move` validates no direction byte (`src/commands.cpp:74`). One above 1 drives a
  stepper towards SW2 and counts `2*dir - 1` for each step (`src/motor.cpp:287`, `305`),
  so that a single such move makes the reported position wrong until the next
  calibration. `HomedPosition` says by how much, and that nothing else but test pulses
  at the upper stop does.
* `QP` sends the Z target, which `host/modules/motor.py:89` calls the position.
* A calibration count lives only in `usb_out_buffer` (`src/commands.cpp:172`): any
  move or other query between the calibration and `QC` overwrites it. The library
  always asks at once (`CalibrationCounts`).
* `move` does not count the step that closes the switch (`host/modules/motor.py:145`);
  `HostPosition` says by how much `pos` is off for that.
* `_steps_calibrate` moves the axis to SW2 and leaves `pos` as it was.
* Bytes 4 and 5 of a move, the step delay, are whatever the packet buffer held.
* `usb_wait` waits for the first packet and not, as `src/main.cpp:31` says, for the
  configuration; `test_exec` is reached only behind a received packet.
* A configuration, or a bus reset, leaves `tx_state` and the controller at different
  banks: replies may change places or wait for another one. That is why
  `ReplyInReach` and the order of `UsbLink` are for a device configured once.

## Bounds

* Z runs: `Travel = 6`, `Lo = 2`, `Hi = 4`: room for two edges beyond each switch,
  more than overrun and coasting need, and targets at both limits and between.
  `Coast` is 0 or 1; with 1 an edge can already be counted against its direction,
  which is what coasting does to this code. `MaxSteps = 2` gives a move a first
  and a last step. Every starting position is checked. Counts are not bounded by
  a guard: they stay finite by themselves.
* `z_unpaced` has `Coast = 0`. With coasting, and no pacing, the model lets two
  edges fall between two adjacent instructions of the calibration (lines 173 and
  174), which the motor cannot do, and the range is then measured wrong.
* `stepper`: two steps beyond each switch, moves of up to three steps, so that a
  move can cross from one switch to the other. `MaxDir = 3` stands for 255: two
  directions without a name, which the code treats alike but for the factor they are
  counted with. `PosBound` stops test pulses, and moves in such directions, when the
  position is that far out, since both are counted without end. The position is an
  integer: the code's `int` would overflow after millions of pulses at a stop.
  `CountMod` is the code's 2^16, never reached with this travel; the theorem
  covers every travel below it.
* `firmware`, `fw_stale_packet`: one axis and one name of no axis, which is as much
  as the handlers tell apart. The code has 10 buffers for the link and at most 6
  replies (4 queued and 2 in the controller); the runs have 4 and 2 or 3 and 1, few
  enough to exhaust them with `MaxSent` packets. `MaxResets` is how often a
  configured device is configured again; once brings every order of a
  configuration and the steps of main. The theorems have none of these bounds.
* `usb_buffers`: 7 of the code's 12 buffers and 1 of its 4 packets in the list, so
  that with four receivers armed the replies can take the rest and one receiver
  starves; `MaxSent = 5` commands go once round the two banks, fill the queue and
  come back. `usb_starved` needs one buffer less and one reply more.
* `host`: one step beyond each switch and one step between; a back-off that clears
  SW2 and a sweep as long as the travel, as 100 and 1200 are for the machine. The
  link holds two packets, one reply among them, so that replies are given up.
  `PosBound` stops further moves when `pos`, which follows no carriage once replies
  were lost, is that far out. How many queries, time-outs and restarts there are
  is not bounded. The theorems cover every size.

## Assumptions on the constants

The theorems of `HostLink` need `Lo < BackOff` and `Travel <= Sweep` (a `reset` gets
off SW2 and then all the way back to it, true of 100 and 1200 steps as the library
uses them) and `Travel - Lo < 65536` (a count fits two bytes); those of
`StepperAxis` only the last, and that a direction byte can be 1 (`MaxDir` is at least
that). `Firmware` needs a pool larger than what reception takes
first, `UsbBuffers` one larger than the four receivers (the code has 12). All are `ASSUME`s, named, in the module of the constants.

## Fairness

Weak fairness only, and never of a command. `ZAxis`: the two handlers, main
(it is scheduled whenever no interrupt is pending), a driven motor turns, a
coasting one stops. `StepperAxis`: main. `Firmware`: main, and a device that is
not configured is configured at last. `UsbBuffers`: main; no host has to send,
fetch or configure. `HostLink`: the device executes, the kernel polls (it does
while the device is open), and a call that was begun goes on; nobody has to begin
one. In particular no host is obliged to fetch a reply in `Firmware` and
`UsbBuffers`, so `Responsive`, `CommandsGetThrough` and `StarvedServed` rest on the
timeout of `usb_send` and on the limit of replies.

## Proofs

For every value of the constants that the modules' assumptions allow.

* `TypeCorrect` of each proof module (`UsbTypeCorrect` of the driver): type
  correctness; of the queues also that they fit the shared buffers.
* `TargetStaysInRange`, `CalibrationSpansSwitches`, `OutputsNeverBoth`, assuming
  `Paced`, for every coasting distance. They are not inductive: that the upper
  limit is not negative rests on the whole calibration. `ZInv` follows it by phase:
  entered at rest, a tick has nothing to do (`EnteringInv`); on the way down only
  PLS is driven and the motor cannot coast up (`DownInv`); at the turn the count is
  exact (`TurnInv`); on the way up every edge counts up, so the count is at least
  the distance made, and it ends beyond `Hi` (`UpInv`). Without `Paced`,
  `EnteringInv` fails: that is finding 1.
* `CountIsExact` and `OverrunStaysBounded`, assuming `Paced` and `Coast = 0`, a motor
  that stops at once; with coasting `Tracks` is false, which is finding 2. An edge
  may be pending while main or the timer acts, so `TrackInv` relates the carriage to
  the count and the edge not yet served together (`Unserved`, `Counted`), with the
  edge taken in the direction it will be counted in, which nothing turns round
  while it is pending. The rest bounds the count by the range, one more at either
  end, and by the target the motor is driven to (`ServoInv`). The target moves while
  the motor does, and before it is clamped: `RetreatInv` and `AdvanceInv` say that a
  move down or up changes it only away from where it could overtake the count.
  `MeasureInv` is the calibration, which fixes what the count is relative to.
* `DriveIsCounted`, without `Paced`. `DriveInv` adds that the calibration, whatever
  a late tick did, hands the motor back with both outputs off.
* `HomedPositionCorrect`, for every direction byte. `CountInv` says that steps counted
  and steps to go add up to where the calibration turned round; so the position is
  exact when it ends and the 16-bit count does not wrap. From there every step is
  followed by what it adds to `drift`; that a self test never leads below SW2 rests on
  its direction, which stays `DIR1` (`TestDir`).
* `MovesStayExact`: an action property, by cases of `MayStep` and of the direction
  byte; `Weight` is what a step counts.
* `StepperImplementsAxis`: the refinement. `RestInv` says what main has done so far
  of a command in terms of where the axis rested: a move has made the steps it has
  not left, each counted with its `Weight`, and is on this side of the switch
  (`MoveInv`, `OneMore`); a calibration is below
  where it turns round, or counts down from exactly there. The step that makes main
  idle is then a whole command of `Axis`, with the steps made as the witness of a
  move, `MoveAstray` when the direction has no name; every other step is a stutter.
* `BuffersAtOnePlace`. `UsbInv` gives every buffer an owner: the pool, a receiver, the
  received packets, a bank, the list behind the banks, main. `OnceInv` says that no
  owner has a buffer twice, `ApartInv` that no two share one, `AllInv` that nobody
  is missing. One lemma per action (`...Owns`) follows the buffer that changes
  hands. What is hard is SET_CONFIGURATION, which frees into a pool that hands out
  again: `ReconfiguredMem` shows that by the time the descriptors of raw HID and the
  lists are freed no receiver is said to be in need any more, because the count was
  at most the number that starve (`NeededInv`, `NeedNeverOverstated`), two, and the
  two buffers of the serial emulation, freed first, served those (`SerialInv`).
  That is also why a serial receiver that starved would break it (see below).
* `RepliesStayInReach`. `BankInv` ties `tx_state` to the banks that are full and, until
  the first reconfiguration, to the one the controller uses next.
* `BuffersImplementLink`: receiving is `Receive`, `usb_rx` is `Read`, `usb_tx` is
  `Queue`, a fetch is `Fetch`, SET_CONFIGURATION is `Configure`, and every other step,
  whatever it does to the pool, stutters. `InTurn` says that the bank that is
  next, the other one and the list hold the replies in the order of `order`; so the
  one fetched is the oldest. That there is room in the pool of `UsbLink` is a
  pigeonhole (`Room`): the two serial receivers and the buffer in hand are three that
  neither queue has. `LimitInv` carries what main checked to where it uses it.
* `RepliesKeepOrder` and `PacketsExecutedInOrder`, however often the device is
  configured. `OrderInv` says that the packets received carry the last numbers
  sent, following the one in `usb_in_buffer`, that queued and fetched replies carry
  none beyond it, and none equal to it while `pc` is `exec` or `send`.
* `RepliesAnswerQueries`. `ContentsInv` adds that from `cmd_query` to `usb_send` the
  output buffer answers the command still in `usb_in_buffer`.
* `FirmwareImplementsLink`: initial states map to initial states; `UsbRecv` is `Read`,
  a reply that is queued is `Queue`, the host's actions are their namesakes, and the
  handlers stutter. It needs `TypeOK`, for what a packet and a reply are.
* `AnswersAreOwn`, `HostPositionCorrect`, `CalibrationsCount`, `PositionsTrue`,
  `StatusesOfAxis`: one invariant, `Inv`. While no reply was left unread, `InStep`
  says for every place in a call which packets of the call the link holds:
  nothing, the command alone, the command and the query behind it, the query, the
  reply queued, the reply held by the kernel, or no reply since it was given up.
  With each comes what the host's count lacks of the carriage's movement
  (`Counted`, `Pending`), and during `reset` how far the axis has come on either move
  (`Before`, `After`): so it ends at SW2 exactly. The answer is of the axis at that
  moment because nothing else is in the link to move it.
* `CommandsAreOfAxis`: the steps `HostLink` takes for commands are steps of `Axis`.

Every invariant, action property and refinement of a passing run is stated by a
theorem. Only model-checked is all liveness (`Converges`, `CalibrationEnds`,
`MainReturns`, `Responsive`, `CommandsGetThrough`, `StarvedServed`, `CallsReturn`),
which is out of the prover's reach.

## Not modelled

* The rest of the USB driver: data toggles, zero-length packets, suspend, the
  control endpoint except SET_CONFIGURATION, and the traffic of the serial
  emulation. Its receiver is armed and takes part in the pool, but never receives.
  If it did, and starved, a configuration would lose a buffer: one that is freed
  further down is handed to that descriptor, which is then overwritten.
* The channels and reload values of `IntervalTimer`: there is one timer, on or off.
* In `HostLink`, Y (the same code), Z (whose position is a target and whose move
  returns before it is made: `ZAxis` has what follows), and the wrappers that call
  `move` with constants. `movexy` is empty.
* `geometry.py` does not run; the extruder has pins and no code; `motor_init` and the
  LED are write-only; delays are not durations.
* The Teensy core, the start-up code, the C library, CMSIS and the compiler with its
  headers (`teensy3/`, `tools/`) are third-party code that the repository carries
  along: over 99 % of its lines. What the firmware uses of them (`analogWrite`,
  `digitalRead`, interrupt priorities) is modelled by what it does to the axes. The
  models cover nearly all of the project's own code, and that is a very small share
  of the repository.

## Left to do

1. Proofs: the safety behind the liveness properties, first of `StarvedServed`: as
   long as `Nobody` was not reached, every receiver that starves is counted.
2. Z in `HostLink`, with a target that is reached later, and Y and X together.
3. `HostLink` as an implementation of `UsbLink`, with receiving and answering a
   command as two steps.
