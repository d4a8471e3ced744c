------------------------------ MODULE UsbLink ------------------------------
(***************************************************************************)
(* What the USB driver and raw HID promise to the program and to the host: *)
(* two queues out of one pool of packets.  Commands are read in the order  *)
(* they were received.  Replies are fetched in the order they were queued, *)
(* until a configured device is configured anew: from then on in any       *)
(* order.  Nothing is lost or doubled except by a configuration, which     *)
(* empties both queues.                                                    *)
(***************************************************************************)
EXTENDS Naturals, Sequences

CONSTANTS
    Packet,     \* what the host sends
    Answer,     \* what the program sends
    Pool,       \* packets the two queues share
    TxLimit     \* replies queued at most, with those in the controller

VARIABLES rx, tx, anew

vars == <<rx, tx, anew>>

Init == rx = <<>> /\ tx = <<>> /\ anew = FALSE

Receive ==
    /\ Len(rx) + Len(tx) < Pool
    /\ \E m \in Packet : rx' = Append(rx, m)
    /\ UNCHANGED <<tx, anew>>

Read ==
    /\ rx # <<>>
    /\ rx' = Tail(rx)
    /\ UNCHANGED <<tx, anew>>

Queue ==
    /\ Len(tx) < TxLimit /\ Len(rx) + Len(tx) < Pool
    /\ \E m \in Answer : tx' = Append(tx, m)
    /\ UNCHANGED <<rx, anew>>

Without(s, i) == SubSeq(s, 1, i - 1) \o SubSeq(s, i + 1, Len(s))

Fetch ==
    /\ \E i \in 1 .. Len(tx) : (i = 1 \/ anew) /\ tx' = Without(tx, i)
    /\ UNCHANGED <<rx, anew>>

Configure ==
    /\ rx' = <<>> /\ tx' = <<>>
    /\ anew => anew'
    /\ anew' \in BOOLEAN

Next == Receive \/ Read \/ Queue \/ Fetch \/ Configure

Spec == Init /\ [][Next]_vars
=============================================================================
