----------------------------- MODULE UsbBuffers -----------------------------
(***************************************************************************)
(* The packet buffers of the USB driver (src/teensy3/usb_dev.c, usb_mem.c) *)
(* and the raw HID functions main calls (usb_rawhid.c), at the grain of    *)
(* the sections the code runs with interrupts disabled: usb_isr can come   *)
(* between any two of them.  The host uses raw HID only; the receiver of   *)
(* the serial emulation is armed and never receives.                       *)
(*                                                                         *)
(* Commands and replies are numbers, which exist in the model only.  Data  *)
(* toggles are not modelled.                                               *)
(***************************************************************************)
EXTENDS Integers, Sequences, FiniteSetsExt, SequencesExt

CONSTANTS
    NumBuffers,     \* NUM_USB_BUFFERS
    TxPacketLimit,  \* TX_PACKET_LIMIT
    MaxSent,        \* bound: commands the host sends
    MaxReplies,     \* bound: replies main sends
    MaxResets,      \* bound: times a configured device is configured anew
    None            \* no buffer

ASSUME UsbAssumption ==
    /\ NumBuffers \in Nat /\ NumBuffers > 4
    /\ TxPacketLimit \in Nat \ {0}
    /\ MaxSent \in Nat /\ MaxReplies \in Nat /\ MaxResets \in Nat
    /\ None \notin 0 .. NumBuffers - 1

Buffers == 0 .. NumBuffers - 1

\* The receive descriptors in the order of the table: endpoint 2, the serial
\* emulation, even and odd, then endpoint 4, raw HID, even and odd.  Those of
\* endpoint 3, the transmitter, lie between them.
Receivers == 1 .. 4
RawHid(bank) == 3 + bank
Banks == 0 .. 1
EVEN == 0

VARIABLES
    configured,     \* usb_configuration is not 0
    resets,         \* times it was set while it was not 0
    mem,            \* free buffers, receive descriptors, usb_rx_memory_needed
    rxq,            \* received packets, from rx_first to rx_last
    txd, txq,       \* transmit descriptors, and packets waiting for one
    tx_state,       \* how many of them are busy, and which one comes first
    order,          \* ghost: buffers of the replies in the order they were queued
    buf,            \* the contents of every buffer
    next_rx, next_tx,   \* the banks the controller uses next
    pc, held,       \* where main is, and the buffer it holds there
    sent, replied   \* numbers of the last command and the last reply

transmitter == <<txd, txq, tx_state, order>>
usb == <<configured, resets, mem, rxq, transmitter, buf>>
bus == <<next_rx, next_tx, sent>>
main == <<pc, held, replied>>
vars == <<usb, bus, main>>

Init ==
    /\ configured = FALSE /\ resets = 0
    /\ mem = [avail |-> Buffers, rx |-> [k \in Receivers |-> None], needed |-> 0]
    /\ rxq = <<>> /\ txq = <<>>
    /\ txd = [b \in Banks |-> None]
    /\ tx_state = [busy |-> 0, first |-> EVEN] /\ order = <<>>
    /\ buf = [p \in Buffers |-> 0]
    /\ next_rx = EVEN /\ next_tx = EVEN
    /\ pc = "wait" /\ held = None
    /\ sent = 0 /\ replied = 0

-----------------------------------------------------------------------------
(***************************************************************************)
(* The pool.  A buffer that is freed goes to the first receiver without    *)
(* one if usb_rx_memory_needed says that there is any.                     *)
(***************************************************************************)
Starving(m) == {k \in Receivers : m.rx[k] = None}

\* The last part of usb_free.
Pooled(m, p) == [m EXCEPT !.avail = @ \cup {p}]

\* usb_rx_memory, as far as a receiver is found.
Give(m, p) == [m EXCEPT !.rx[Min(Starving(m))] = p, !.needed = (@ - 1) % 256]

\* Fault: usb_free goes on after it has given the buffer away.
Free_NoReturn(m, p, conf) ==
    IF m.needed = 0 \/ ~conf THEN Pooled(m, p)
    ELSE IF Starving(m) # {} THEN Pooled(Give(m, p), p)
    ELSE [Pooled(m, p) EXCEPT !.needed = 0]

\* usb_free in usb_isr, where nothing comes between its steps.
Free(m, p, conf) ==
    IF m.needed = 0 \/ ~conf THEN Pooled(m, p)
    ELSE IF Starving(m) # {} THEN Give(m, p)
    ELSE [Pooled(m, p) EXCEPT !.needed = 0]

\* The loops over a queue that free all packets in it.
FreeAll(m, s, conf) ==
    LET freed[i \in 0 .. Len(s)] == IF i = 0 THEN m ELSE Free(freed[i - 1], s[i], conf)
    IN  freed[Len(s)]

\* usb_malloc takes the first free buffer; a receiver that gets none starves.
Equip(m, k) == [m EXCEPT !.rx[k] = Min(m.avail), !.avail = @ \ {Min(m.avail)}]
Starve(m, k) == [m EXCEPT !.rx[k] = None, !.needed = (@ + 1) % 256]

\* Fault: a receiver that gets no buffer is not counted.
Arm_NotCounted(m, k) ==
    IF m.avail = {} THEN [m EXCEPT !.rx[k] = None] ELSE Equip(m, k)

Arm(m, k) == IF m.avail = {} THEN Starve(m, k) ELSE Equip(m, k)

-----------------------------------------------------------------------------
(***************************************************************************)
(* The bus and usb_isr.  The controller uses the two banks of an endpoint  *)
(* in turn, and interrupts after every packet.                             *)
(***************************************************************************)
\* A command arrives: it is queued and the bank gets another buffer.
RxToken ==
    LET k == RawHid(next_rx)
        p == mem.rx[k] IN
    /\ configured /\ sent < MaxSent
    /\ p # None
    /\ buf' = [buf EXCEPT ![p] = sent + 1]
    /\ sent' = sent + 1
    /\ rxq' = Append(rxq, p)
    /\ mem' = Arm(mem, k)
    /\ next_rx' = 1 - next_rx
    /\ UNCHANGED <<configured, resets, transmitter, next_tx, main>>

\* The host fetches a reply: its buffer is freed, and the bank gets the next
\* reply that waits, if any.
TxToken ==
    LET b == next_tx IN
    /\ configured
    /\ txd[b] # None
    /\ mem' = Free(mem, txd[b], configured)
    /\ next_tx' = 1 - next_tx
    /\ order' = RemoveAt(order, CHOOSE i \in DOMAIN order : order[i] = txd[b])
    /\ \/ /\ txq # <<>>
          /\ txd' = [txd EXCEPT ![b] = Head(txq)]
          /\ txq' = Tail(txq)
          /\ tx_state' = [tx_state EXCEPT !.busy = IF @ < 2 THEN @ + 1 ELSE @]
       \/ /\ txq = <<>>
          /\ txd' = [txd EXCEPT ![b] = None]
          /\ txq' = txq
          /\ tx_state' = CASE tx_state.busy = 0 -> tx_state
                           [] tx_state.busy = 1 -> [busy |-> 0, first |-> 1 - tx_state.first]
                           [] tx_state.busy = 2 -> [busy |-> 1, first |-> 1 - b]
    /\ UNCHANGED <<configured, resets, rxq, buf, next_rx, sent, main>>

(***************************************************************************)
(* SET_CONFIGURATION: free what the descriptors and the queues hold, then  *)
(* arm all receivers.  A descriptor keeps its buffer while that is freed,  *)
(* so it does not count as one in need; one that is in need may get a      *)
(* buffer and be freed in its turn.  The host may have reset the bus       *)
(* before, which takes the controller back to the even banks; until it has *)
(* configured the device it neither sends nor fetches.                     *)
(***************************************************************************)
Release(m, p, conf) == IF p = None THEN m ELSE Free(m, p, conf)

Reconfigured(conf) ==
    LET receive(m, k) == Release(m, m.rx[k], conf)
        serial == receive(receive(mem, 1), 2)
        transmit == Release(Release(serial, txd[0], conf), txd[1], conf)
        rawhid == receive(receive(transmit, 3), 4)
        queued == FreeAll(rawhid, txq \o rxq, conf)
        serialArmed == Arm(Arm([queued EXCEPT !.needed = 0], 1), 2)
    IN  Arm(Arm(serialArmed, 3), 4)

SetConfiguration ==
    /\ configured => resets < MaxResets
    /\ resets' = IF configured THEN resets + 1 ELSE resets
    /\ \E conf \in BOOLEAN : configured' = conf /\ mem' = Reconfigured(conf)
    /\ rxq' = <<>> /\ txq' = <<>> /\ order' = <<>>
    /\ txd' = [b \in Banks |-> None]
    /\ tx_state' = [busy |-> 0, first |-> IF tx_state.busy = 1 THEN 1 - tx_state.first
                                          ELSE tx_state.first]
    /\ \/ UNCHANGED <<next_rx, next_tx>>
       \/ next_rx' = EVEN /\ next_tx' = EVEN
    /\ UNCHANGED <<buf, sent, main>>

-----------------------------------------------------------------------------
(***************************************************************************)
(* main.  usb_isr cannot see what main does with a buffer it holds, so a   *)
(* memcpy is part of the step that takes or queues the buffer.             *)
(***************************************************************************)
Poll ==
    /\ \/ pc = "wait" /\ (~configured \/ rxq = <<>>)
       \/ pc = "recv" /\ configured /\ rxq = <<>>
    /\ UNCHANGED vars

UsbWait ==
    /\ pc = "wait"
    /\ configured /\ rxq # <<>>
    /\ pc' = "recv"
    /\ UNCHANGED <<usb, bus, held, replied>>

\* usb_rawhid_recv, up to usb_free; without a configuration it returns -1, and
\* main goes on with the command it has.
UsbRx ==
    /\ pc = "recv"
    /\ \/ ~configured /\ pc' = "exec" /\ UNCHANGED <<rxq, held>>
       \/ /\ configured /\ rxq # <<>>
          /\ held' = Head(rxq) /\ rxq' = Tail(rxq)
          /\ pc' = "free"
    /\ UNCHANGED <<configured, resets, mem, transmitter, buf, bus, replied>>

\* usb_free asks, without disabling interrupts, whether a receiver starves.
UsbFree ==
    /\ pc = "free"
    /\ pc' = IF mem.needed > 0 /\ configured THEN "give" ELSE "put"
    /\ UNCHANGED <<usb, bus, held, replied>>

Put ==
    /\ pc = "put"
    /\ mem' = Pooled(mem, held)
    /\ held' = None
    /\ pc' = "exec"
    /\ UNCHANGED <<configured, resets, rxq, transmitter, buf, bus, replied>>

\* usb_rx_memory, the part with interrupts disabled ...
UsbRxMemory ==
    /\ pc = "give"
    /\ \/ /\ Starving(mem) # {}
          /\ mem' = Give(mem, held)
          /\ held' = None
          /\ pc' = "exec"
       \/ /\ Starving(mem) = {}
          /\ pc' = "nobody"
          /\ UNCHANGED <<mem, held>>
    /\ UNCHANGED <<configured, resets, rxq, transmitter, buf, bus, replied>>

\* ... and what it does, with interrupts enabled, if no receiver was found.
Nobody ==
    /\ pc = "nobody"
    /\ mem' = [mem EXCEPT !.needed = 0]
    /\ pc' = "free"
    /\ UNCHANGED <<configured, resets, rxq, transmitter, buf, bus, held, replied>>

\* cmd_exec: a query is answered, other commands are not.
Exec ==
    /\ pc = "exec"
    /\ pc' \in {"recv", "count"}
    /\ pc' = "count" => replied < MaxReplies
    /\ UNCHANGED <<usb, bus, held, replied>>

\* usb_rawhid_send returns -1 without a configuration, and 0 when it has waited
\* for 50 ms.
GiveUp ==
    /\ \/ pc = "count" /\ (~configured \/ Len(txq) >= TxPacketLimit)
       \/ pc = "malloc" /\ mem.avail = {}
    /\ pc' = "recv"
    /\ UNCHANGED <<usb, bus, held, replied>>

UsbTxPacketCount ==
    /\ pc = "count"
    /\ configured /\ Len(txq) < TxPacketLimit
    /\ pc' = "malloc"
    /\ UNCHANGED <<usb, bus, held, replied>>

UsbMalloc ==
    /\ pc = "malloc"
    /\ mem.avail # {}
    /\ held' = Min(mem.avail)
    /\ mem' = [mem EXCEPT !.avail = @ \ {held'}]
    /\ pc' = "tx"
    /\ UNCHANGED <<configured, resets, rxq, transmitter, buf, bus, replied>>

\* Fault: with both banks free, the even one is always taken.
UsbTx_EvenFirst ==
    LET b == IF tx_state.busy = 0 THEN EVEN ELSE 1 - tx_state.first IN
    /\ pc = "tx"
    /\ replied' = replied + 1
    /\ buf' = [buf EXCEPT ![held] = replied']
    /\ \/ /\ tx_state.busy < 2
          /\ txd' = [txd EXCEPT ![b] = held]
          /\ tx_state' = [tx_state EXCEPT !.busy = @ + 1]
          /\ txq' = txq
       \/ /\ tx_state.busy = 2
          /\ txq' = Append(txq, held)
          /\ UNCHANGED <<txd, tx_state>>
    /\ order' = Append(order, held)
    /\ held' = None
    /\ pc' = "recv"
    /\ UNCHANGED <<configured, resets, mem, rxq, bus>>

\* Fault: a reply is put into a bank although both are taken.
UsbTx_NoQueue ==
    LET b == IF tx_state.busy = 0 THEN tx_state.first ELSE 1 - tx_state.first IN
    /\ pc = "tx"
    /\ replied' = replied + 1
    /\ buf' = [buf EXCEPT ![held] = replied']
    /\ txd' = [txd EXCEPT ![b] = held]
    /\ tx_state' = [tx_state EXCEPT !.busy = @ + 1]
    /\ order' = Append(order, held)
    /\ held' = None
    /\ pc' = "recv"
    /\ UNCHANGED <<configured, resets, mem, rxq, txq, bus>>

\* usb_tx: the reply goes to the bank that comes next, or waits for one.
UsbTx ==
    LET b == IF tx_state.busy = 0 THEN tx_state.first ELSE 1 - tx_state.first IN
    /\ pc = "tx"
    /\ replied' = replied + 1
    /\ buf' = [buf EXCEPT ![held] = replied']
    /\ \/ /\ tx_state.busy < 2
          /\ txd' = [txd EXCEPT ![b] = held]
          /\ tx_state' = [tx_state EXCEPT !.busy = @ + 1]
          /\ txq' = txq
       \/ /\ tx_state.busy = 2
          /\ txq' = Append(txq, held)
          /\ UNCHANGED <<txd, tx_state>>
    /\ order' = Append(order, held)
    /\ held' = None
    /\ pc' = "recv"
    /\ UNCHANGED <<configured, resets, mem, rxq, bus>>

Bus == RxToken \/ TxToken \/ SetConfiguration
Main ==
    \/ Poll \/ UsbWait \/ UsbRx
    \/ UsbFree \/ Put \/ UsbRxMemory \/ Nobody
    \/ Exec \/ GiveUp \/ UsbTxPacketCount \/ UsbMalloc \/ UsbTx

Next == Bus \/ Main

Spec == Init /\ [][Next]_vars

\* main runs; nobody is obliged to send, fetch or configure.
FairSpec == Spec /\ WF_vars(Main)

-----------------------------------------------------------------------------
(***************************************************************************)
(* Properties.                                                             *)
(***************************************************************************)

\* Every variable has its type.
TypeOK ==
    /\ configured \in BOOLEAN /\ resets \in 0 .. MaxResets
    /\ mem \in [avail : SUBSET Buffers, rx : [Receivers -> Buffers \cup {None}],
                needed : 0 .. 255]
    /\ rxq \in Seq(Buffers) /\ txq \in Seq(Buffers) /\ Len(txq) <= TxPacketLimit
    /\ txd \in [Banks -> Buffers \cup {None}]
    /\ tx_state \in [busy : 0 .. 2, first : Banks] /\ order \in Seq(Buffers)
    /\ buf \in [Buffers -> 0 .. MaxSent \cup 0 .. MaxReplies]
    /\ next_rx \in Banks /\ next_tx \in Banks
    /\ pc \in {"wait", "recv", "free", "put", "give", "nobody", "exec",
              "count", "malloc", "tx"}
    /\ held \in Buffers \cup {None}
    /\ sent \in 0 .. MaxSent /\ replied \in 0 .. MaxReplies

\* The places a buffer is at.
Places(p) ==
    {<<"free", 0>> : q \in mem.avail \cap {p}}
    \cup {<<"rx", k>> : k \in {j \in Receivers : mem.rx[j] = p}}
    \cup {<<"rxq", i>> : i \in {j \in DOMAIN rxq : rxq[j] = p}}
    \cup {<<"tx", b>> : b \in {j \in Banks : txd[j] = p}}
    \cup {<<"txq", i>> : i \in {j \in DOMAIN txq : txq[j] = p}}
    \cup {<<"main", 0>> : q \in {held} \cap {p}}

\* Whatever main is in the middle of when packets come, go, or are thrown away
\* by a configuration, every buffer is at one place: none leaks, none is freed
\* twice or used by two.
OnePlace == \A p \in Buffers : Cardinality(Places(p)) = 1

\* The queues main and the host see are those of UsbLink: the order is kept by
\* two banks used in turn and a list behind them, on a device configured once.
\* A reply that is in neither a bank nor the list is lost, and reads as None.
Received == [i \in DOMAIN rxq |-> buf[rxq[i]]]
Reply(p) == IF p \in Range(txd) \cup Range(txq) THEN buf[p] ELSE None
Queued == [i \in DOMAIN order |-> Reply(order[i])]

Link == INSTANCE UsbLink WITH
    Packet <- 1 .. MaxSent, Answer <- 1 .. MaxReplies,
    Pool <- NumBuffers - 2, TxLimit <- TxPacketLimit + 2,
    rx <- Received, tx <- Queued, anew <- resets > 0

ImplementsLink == Link!Spec

\* On a device configured once, a reply that is queued is never out of the
\* host's reach: the bank the controller uses next holds one.  tx_state follows
\* the controller only by counting packets in the same order.
ReplyInReach ==
    resets = 0 /\ (txq # <<>> \/ \E b \in Banks : txd[b] # None) => txd[next_tx] # None

Served(k) == mem.rx[k] = None /\ configured ~> mem.rx[k] # None \/ ~configured

\* A receiver that starves gets a buffer, whether or not the host ever fetches
\* a reply, unless usb_rx_memory reaches the point it should never reach.
StarvedServed ==
    \/ \A k \in Receivers : Served(k)
    \/ <>(pc = "nobody")

\* "If any endpoints are starving for memory to receive packets, give this
\* memory to them immediately!"
StarvedAlwaysServed == \A k \in Receivers : Served(k)
=============================================================================
