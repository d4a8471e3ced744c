------------------------------ MODULE Firmware ------------------------------
(***************************************************************************)
(* The command loop of the firmware (src/src/main.cpp, commands.cpp and    *)
(* usb.cpp) and the two USB queues between it and the host, which are      *)
(* those of UsbLink; UsbBuffers is how the driver makes them.              *)
(*                                                                         *)
(* A packet is a command of the host and the number it was sent with; the  *)
(* number exists in the model only.  A routine of motor.cpp is one step    *)
(* here: the host cannot see inside it, and what happens inside is the     *)
(* subject of ZAxis and StepperAxis.  The contents of usb_out_buffer are   *)
(* three words, bytes 0-1, byte 2 and bytes 3-5, each standing for who     *)
(* wrote it last; a calibration count is represented by its axis.          *)
(***************************************************************************)
EXTENDS Naturals, Sequences

CONSTANTS
    Axes,       \* the axes a command can name
    Pool,       \* packet buffers the link shares: received, queued or armed
    Armed,      \* of these, the ones reception takes before a reply gets any
    TxLimit,    \* replies queued at most, with those in the controller
    MaxSent,    \* bound: packets the host sends
    MaxResets,  \* bound: times the host configures a configured device anew
    NoAxis      \* what stands for an axis no command names

ASSUME FirmwareAssumption ==
    /\ Pool \in Nat /\ Armed \in Nat /\ TxLimit \in Nat
    /\ 0 < Armed /\ Armed < Pool
    /\ 0 < TxLimit
    /\ MaxSent \in Nat /\ MaxResets \in Nat
    /\ NoAxis \notin Axes

VARIABLES
    configured,     \* usb_configuration is not 0
    resets,         \* times it was set while it was not 0
    rx, tx,         \* packets received and not read, replies not fetched
    sent,           \* packets the host has sent
    pc,             \* where main is
    usb_in_buffer, usb_out_buffer,
    tests,          \* the axes whose test mode is on
    fetched         \* ghost: number of the query whose reply was fetched last

link == <<configured, resets, rx, tx, sent, fetched>>
device == <<usb_in_buffer, usb_out_buffer, tests>>
vars == <<link, pc, device>>

Queries == {"S", "P", "C"}
Command == ({"C", "M", "T", "H"} \X (Axes \cup {NoAxis}))
           \cup ({"Q"} \X (Queries \cup {NoAxis}))
           \cup {<<"other", NoAxis>>}

\* The buffers are zero when the program starts.
Nothing == [cmd |-> <<"other", NoAxis>>, seq |-> 0]
Zeros == <<"zero", "zero", "zero">>

Class == usb_in_buffer.cmd[1]
Arg == usb_in_buffer.cmd[2]

Init ==
    /\ configured = FALSE /\ resets = 0
    /\ rx = <<>> /\ tx = <<>>
    /\ sent = 0 /\ fetched = 0
    /\ pc = "wait"
    /\ usb_in_buffer = Nothing
    /\ usb_out_buffer = Zeros
    /\ tests = {}

-----------------------------------------------------------------------------
(***************************************************************************)
(* The host's side of the link.  A packet is accepted while there is a     *)
(* buffer to receive it in; otherwise the host is made to wait.            *)
(***************************************************************************)
HostSend ==
    /\ configured
    /\ sent < MaxSent
    /\ Len(rx) + Len(tx) < Pool
    /\ \E c \in Command : rx' = Append(rx, [cmd |-> c, seq |-> sent + 1])
    /\ sent' = sent + 1
    /\ UNCHANGED <<configured, resets, tx, fetched, pc, device>>

\* A device configured anew may hand its replies over in another order.
Without(i) == SubSeq(tx, 1, i - 1) \o SubSeq(tx, i + 1, Len(tx))

HostFetch ==
    /\ configured
    /\ \E i \in 1 .. Len(tx) :
        /\ i = 1 \/ resets > 0
        /\ fetched' = tx[i].seq
        /\ tx' = Without(i)
    /\ UNCHANGED <<configured, resets, rx, sent, pc, device>>

\* Fault: what is queued survives a change of the configuration.
SetConfiguration_KeepQueues ==
    /\ configured => resets < MaxResets
    /\ resets' = IF configured THEN resets + 1 ELSE resets
    /\ configured' \in BOOLEAN
    /\ UNCHANGED <<rx, tx, sent, fetched, pc, device>>

\* SET_CONFIGURATION, to a configuration, again to it, or to 0, frees whatever
\* is queued.  Only the ones a configured device gets are counted.
SetConfiguration ==
    /\ configured => resets < MaxResets
    /\ resets' = IF configured THEN resets + 1 ELSE resets
    /\ configured' \in BOOLEAN
    /\ rx' = <<>> /\ tx' = <<>>
    /\ UNCHANGED <<sent, fetched, pc, device>>

-----------------------------------------------------------------------------
\* What main does while there is nothing for it: ask usb_rawhid again.
Poll ==
    /\ \/ pc = "wait" /\ (~configured \/ rx = <<>>)
       \/ pc = "recv" /\ configured /\ rx = <<>>
    /\ UNCHANGED vars

\* main waits for usb_rawhid_available, which counts received bytes.
UsbWait ==
    /\ pc = "wait"
    /\ configured /\ rx # <<>>
    /\ pc' = "recv"
    /\ UNCHANGED <<link, device>>

\* Fault: the packet stays at the head of the queue.
UsbRecv_NoPop ==
    /\ pc = "recv"
    /\ pc' = "exec"
    /\ \/ ~configured /\ UNCHANGED <<rx, usb_in_buffer>>
       \/ configured /\ rx # <<>> /\ usb_in_buffer' = Head(rx) /\ UNCHANGED rx
    /\ UNCHANGED <<configured, resets, tx, sent, fetched,
                   usb_out_buffer, tests>>

(***************************************************************************)
(* usb_recv.  An unconfigured device makes usb_rawhid_recv return -1,      *)
(* which main keeps in a uint8_t and does not take for 0: it goes on with  *)
(* what usb_in_buffer held before.                                         *)
(***************************************************************************)
UsbRecv ==
    /\ pc = "recv"
    /\ pc' = "exec"
    /\ \/ ~configured /\ UNCHANGED <<rx, usb_in_buffer>>
       \/ configured /\ rx # <<>> /\ usb_in_buffer' = Head(rx) /\ rx' = Tail(rx)
    /\ UNCHANGED <<configured, resets, tx, sent, fetched,
                   usb_out_buffer, tests>>

\* cmd_cali: the count is loaded for a later query; no axis, no count.
CmdCali ==
    /\ Class = "C"
    /\ usb_out_buffer' = [usb_out_buffer EXCEPT ![1] = IF Arg \in Axes THEN Arg ELSE "zero"]
    /\ pc' = "test"
    /\ UNCHANGED <<link, usb_in_buffer, tests>>

CmdMove ==
    /\ Class = "M"
    /\ usb_out_buffer' = [usb_out_buffer EXCEPT ![1] = IF Arg \in Axes THEN "move" ELSE "zero"]
    /\ pc' = "test"
    /\ UNCHANGED <<link, usb_in_buffer, tests>>

CmdTest ==
    /\ Class \in {"T", "H"}
    /\ tests' = IF Class = "T" THEN tests \cup ({Arg} \cap Axes) ELSE tests \ {Arg}
    /\ pc' = "test"
    /\ UNCHANGED <<link, usb_in_buffer, usb_out_buffer>>

\* Fault: the statuses are loaded without the third one.
Load_NoZStatus(q) ==
    CASE q = "S" -> <<"state", usb_out_buffer[2], usb_out_buffer[3]>>
      [] q = "P" -> <<"position", "position", "position">>
      [] OTHER   -> usb_out_buffer

\* cmd_query: "C" relies on what the calibration has loaded.
Load(q) ==
    CASE q = "S" -> <<"state", "state", usb_out_buffer[3]>>
      [] q = "P" -> <<"position", "position", "position">>
      [] OTHER   -> usb_out_buffer

CmdQuery ==
    /\ Class = "Q"
    /\ usb_out_buffer' = Load(Arg)
    /\ pc' = "send"
    /\ UNCHANGED <<link, usb_in_buffer, tests>>

CmdOther ==
    /\ Class = "other"
    /\ pc' = "test"
    /\ UNCHANGED <<link, device>>

CmdExec ==
    /\ pc = "exec"
    /\ CmdCali \/ CmdMove \/ CmdTest \/ CmdQuery \/ CmdOther

Reply == [query |-> Arg, seq |-> usb_in_buffer.seq, data |-> usb_out_buffer]

\* Fault: the limit on queued replies is left out.
TxRoom_NoLimit == Len(rx) + Len(tx) < Pool

\* A reply may be queued below its limit, if there is a buffer ...
TxRoom == Len(tx) < TxLimit /\ Len(rx) + Len(tx) < Pool

\* ... and is queued if there is one besides those reception takes first.
TxSure ==
    /\ configured /\ resets = 0
    /\ Len(tx) < TxLimit /\ Len(rx) + Len(tx) + Armed < Pool

\* Fault: without a buffer, main waits for one as long as it takes.
UsbSend_NoTimeout ==
    /\ pc = "send"
    /\ pc' = "test"
    /\ \/ TxRoom /\ tx' = Append(tx, Reply)
       \/ ~configured /\ UNCHANGED tx
    /\ UNCHANGED <<configured, resets, rx, sent, fetched, device>>

\* usb_send: the reply is given up without a configuration, or after 50 ms
\* without a buffer.  usb_tx no longer asks for the configuration.
UsbSend ==
    /\ pc = "send"
    /\ pc' = "test"
    /\ \/ TxRoom /\ tx' = Append(tx, Reply)
       \/ ~TxSure /\ UNCHANGED tx
    /\ UNCHANGED <<configured, resets, rx, sent, fetched, device>>

\* One pass of test_exec if a test mode is on, and back to the top of the loop.
TestExec ==
    /\ pc = "test"
    /\ pc' = "recv"
    /\ UNCHANGED <<link, device>>

Host == HostSend \/ HostFetch \/ SetConfiguration
Main == Poll \/ UsbWait \/ UsbRecv \/ CmdExec \/ UsbSend \/ TestExec

Next == Host \/ Main

Spec == Init /\ [][Next]_vars

\* The firmware runs, and a device without a configuration gets one at last;
\* nobody is obliged to send a command or to fetch a reply.
Configure == ~configured /\ SetConfiguration /\ configured'

FairSpec == Spec /\ WF_vars(Main) /\ WF_vars(Configure)

-----------------------------------------------------------------------------
(***************************************************************************)
(* Properties.                                                             *)
(***************************************************************************)

Word == {"zero", "move", "state", "position"} \cup Axes

\* A command and its number, 0 for the buffer the program starts with.
Packet == [cmd : Command, seq : 0 .. MaxSent]
Answer == [query : Axes \cup Queries \cup {NoAxis}, seq : 0 .. MaxSent,
           data : [1 .. 3 -> Word]]

\* Every variable has its type, and the packets queued fit the buffers.
TypeOK ==
    /\ configured \in BOOLEAN /\ resets \in 0 .. MaxResets
    /\ sent \in 0 .. MaxSent /\ fetched \in 0 .. MaxSent
    /\ pc \in {"wait", "recv", "exec", "send", "test"}
    /\ rx \in Seq(Packet)
    /\ tx \in Seq(Answer)
    /\ Len(rx) + Len(tx) <= Pool
    /\ Len(tx) <= TxLimit
    /\ usb_in_buffer \in Packet
    /\ usb_out_buffer \in [1 .. 3 -> Word]
    /\ tests \subseteq Axes

\* Replies carry the contents their query asks for, whatever the commands
\* before it left in the shared output buffer.
ReplyAnswersQuery ==
    \A i \in 1 .. Len(tx) :
        /\ tx[i].query = "S" => tx[i].data[1] = "state" /\ tx[i].data[2] = "state"
        /\ tx[i].query = "P" => tx[i].data = <<"position", "position", "position">>

\* On a device configured once, no query is answered twice and replies keep
\* the order of their queries, although some may be given up.
RepliesInOrder ==
    resets = 0 =>
        \A i \in 1 .. Len(tx) : (IF i = 1 THEN fetched ELSE tx[i - 1].seq) < tx[i].seq

\* While it is configured, a device executes no packet twice and none before
\* an earlier one; it leaves none out unless it is configured anew.
ExecutedOnceInOrder ==
    [][configured /\ pc = "recv" /\ pc' = "exec" =>
        /\ usb_in_buffer.seq < usb_in_buffer'.seq
        /\ resets = 0 => usb_in_buffer'.seq = usb_in_buffer.seq + 1]_vars

\* No host can hold up the command loop by not fetching its replies, whenever
\* it configures the device anew.
Responsive == pc \in {"exec", "send", "test"} ~> pc = "recv"

\* On a device configured once, every packet sent is executed at last.
CommandsGetThrough ==
    \/ []<>(pc \in {"wait", "recv"} /\ usb_in_buffer.seq = sent)
    \/ <>(resets > 0)

\* What the command loop does to the queues is what UsbLink lets a program do.
Link == INSTANCE UsbLink WITH anew <- resets > 0

ImplementsLink == Link!Spec

\* "Do nothing if no bytes are received."
NothingReceivedNothingDone ==
    [][pc = "recv" /\ pc' = "exec" /\ Class' # "other" => rx # <<>>]_vars
=============================================================================
