--------------------------- MODULE FirmwareProofs ---------------------------
(***************************************************************************)
(* Theorems about the command loop for every number of axes, packets and   *)
(* buffers.                                                                *)
(***************************************************************************)
EXTENDS Firmware, SequenceTheorems, TLAPS

USE FirmwareAssumption

\* The contents of the output buffer stay words, whatever the query.
LEMMA LoadType ==
    ASSUME usb_out_buffer \in [1 .. 3 -> Word], NEW q
    PROVE  Load(q) \in [1 .. 3 -> Word]
<1>1. "state" \in Word /\ "position" \in Word
    BY DEF Word
<1>2. usb_out_buffer[3] \in Word
    OBVIOUS
<1>3. CASE q = "S"
    BY <1>1, <1>2, <1>3 DEF Load
<1>4. CASE q = "P"
    BY <1>1, <1>4 DEF Load
<1>5. CASE q # "S" /\ q # "P"
    BY <1>5 DEF Load
<1> QED
    BY <1>3, <1>4, <1>5

\* A reply is an answer, whatever the command in the buffer.
LEMMA ReplyType ==
    ASSUME TypeOK
    PROVE  Reply \in Answer
<1>1. usb_in_buffer.cmd \in Command /\ usb_in_buffer.seq \in 0 .. MaxSent
    BY DEF TypeOK, Packet
<1>2. Arg \in Axes \cup Queries \cup {NoAxis}
    BY <1>1 DEF Arg, Command
<1> QED
    BY <1>1, <1>2 DEF TypeOK, Reply, Answer

\* Without(i) leaves out the i-th reply and keeps the others in their order.
LEMMA WithoutProperties ==
    ASSUME TypeOK, NEW i \in 1 .. Len(tx)
    PROVE  /\ Without(i) \in Seq(Answer)
           /\ Len(Without(i)) = Len(tx) - 1
           /\ \A j \in 1 .. Len(tx) - 1 :
                Without(i)[j] = IF j < i THEN tx[j] ELSE tx[j + 1]
<1> DEFINE front == SubSeq(tx, 1, i - 1)
           back == SubSeq(tx, i + 1, Len(tx))
<1>1. tx \in Seq(Answer) /\ Len(tx) \in Nat
    BY LenProperties DEF TypeOK
<1>2. /\ front \in Seq(Answer) /\ Len(front) = i - 1
      /\ \A j \in 1 .. i - 1 : front[j] = tx[j]
    BY <1>1
<1>3. /\ back \in Seq(Answer) /\ Len(back) = Len(tx) - i
      /\ \A j \in 1 .. Len(tx) - i : back[j] = tx[j + i]
    BY <1>1
<1>4. /\ front \o back \in Seq(Answer)
      /\ Len(front \o back) = Len(front) + Len(back)
      /\ \A j \in 1 .. Len(front) + Len(back) :
            (front \o back)[j] = IF j <= Len(front) THEN front[j] ELSE back[j - Len(front)]
    BY <1>2, <1>3, ConcatProperties
<1> HIDE DEF front, back
<1>5. Len(front \o back) = Len(tx) - 1
    BY <1>1, <1>2, <1>3, <1>4
<1>6. ASSUME NEW j \in 1 .. Len(tx) - 1
      PROVE  (front \o back)[j] = IF j < i THEN tx[j] ELSE tx[j + 1]
    <2>1. CASE j < i
        BY <1>1, <1>2, <1>3, <1>4, <2>1
    <2>2. CASE ~(j < i)
        <3>1. (front \o back)[j] = back[j - (i - 1)]
            BY <1>1, <1>2, <1>3, <1>4, <2>2
        <3>2. j - (i - 1) \in 1 .. Len(tx) - i /\ (j - (i - 1)) + i = j + 1
            BY <1>1, <2>2
        <3> QED
            BY <1>3, <2>2, <3>1, <3>2
    <2> QED
        BY <2>1, <2>2
<1> QED
    BY <1>4, <1>5, <1>6 DEF Without, front, back

-----------------------------------------------------------------------------
\* Every step keeps every variable in its type and the queues in their bounds.
LEMMA TypeStep ==
    ASSUME TypeOK, [Next]_vars
    PROVE  TypeOK'
<1> USE DEF TypeOK
<1>1. CASE HostSend
    <2>1. PICK c \in Command : rx' = Append(rx, [cmd |-> c, seq |-> sent + 1])
        BY <1>1 DEF HostSend
    <2>2. [cmd |-> c, seq |-> sent + 1] \in Packet
        BY <1>1 DEF HostSend, Packet
    <2>3. rx' \in Seq(Packet) /\ Len(rx') = Len(rx) + 1
        BY <2>1, <2>2, AppendProperties
    <2>4. configured' \in BOOLEAN
        BY <1>1 DEF HostSend
    <2> QED
        BY <1>1, <2>3, <2>4 DEF HostSend, device
<1>2. CASE HostFetch
    <2>1. PICK i \in 1 .. Len(tx) : fetched' = tx[i].seq /\ tx' = Without(i)
        BY <1>2 DEF HostFetch
    <2>2. tx' \in Seq(Answer) /\ Len(tx') = Len(tx) - 1
        BY <2>1, WithoutProperties
    <2>3. fetched' \in 0 .. MaxSent
        <3>1. tx[i] \in Answer
            BY ElementOfSeq
        <3> QED
            BY <2>1, <3>1 DEF Answer
    <2>4. configured' \in BOOLEAN
        BY <1>2 DEF HostFetch
    <2> QED
        BY <1>2, <2>2, <2>3, <2>4 DEF HostFetch, device
<1>3. CASE SetConfiguration
    <2>1. resets' \in 0 .. MaxResets
        BY <1>3 DEF SetConfiguration
    <2>2. /\ rx' \in Seq(Packet) /\ tx' \in Seq(Answer)
          /\ Len(rx') = 0 /\ Len(tx') = 0
        BY <1>3 DEF SetConfiguration
    <2>3. configured' \in BOOLEAN
        BY <1>3 DEF SetConfiguration
    <2> QED
        BY <1>3, <2>1, <2>2, <2>3 DEF SetConfiguration, device
<1>4. CASE Poll
    BY <1>4 DEF Poll, vars, link, device
<1>5. CASE UsbWait
    BY <1>5 DEF UsbWait, link, device
<1>6. CASE UsbRecv
    <2>1. CASE ~configured /\ UNCHANGED <<rx, usb_in_buffer>>
        BY <1>6, <2>1 DEF UsbRecv
    <2>2. CASE configured /\ rx # <<>> /\ usb_in_buffer' = Head(rx) /\ rx' = Tail(rx)
        <3>1. /\ Head(rx) \in Packet
              /\ Tail(rx) \in Seq(Packet)
              /\ Len(Tail(rx)) = Len(rx) - 1
            BY <2>2, HeadTailProperties
        <3>2. configured' \in BOOLEAN
            BY <1>6 DEF UsbRecv
        <3> QED
            BY <1>6, <2>2, <3>1, <3>2 DEF UsbRecv
    <2> QED
        BY <1>6, <2>1, <2>2 DEF UsbRecv
<1>7. CASE CmdExec
    <2>1. CASE CmdCali
        <3>1. Arg \in Axes => Arg \in Word
            BY DEF Word
        <3>2. usb_out_buffer' \in [1 .. 3 -> Word]
            BY <2>1, <3>1 DEF CmdCali, Word
        <3> QED
            BY <2>1, <3>2 DEF CmdCali, link
    <2>2. CASE CmdMove
        <3>1. usb_out_buffer' \in [1 .. 3 -> Word]
            BY <2>2 DEF CmdMove, Word
        <3> QED
            BY <2>2, <3>1 DEF CmdMove, link
    <2>3. CASE CmdTest
        BY <2>3 DEF CmdTest, link
    <2>4. CASE CmdQuery
        BY <2>4, LoadType DEF CmdQuery, link
    <2>5. CASE CmdOther
        BY <2>5 DEF CmdOther, link, device
    <2> QED
        BY <1>7, <2>1, <2>2, <2>3, <2>4, <2>5 DEF CmdExec
<1>8. CASE UsbSend
    <2>1. CASE UNCHANGED tx
        BY <1>8, <2>1 DEF UsbSend, device
    <2>2. CASE TxRoom /\ tx' = Append(tx, Reply)
        <3>1. tx' \in Seq(Answer) /\ Len(tx') = Len(tx) + 1
            BY <2>2, ReplyType, AppendProperties
        <3>2. configured' \in BOOLEAN
            BY <1>8 DEF UsbSend
        <3> QED
            BY <1>8, <2>2, <3>1, <3>2 DEF UsbSend, TxRoom, device
    <2> QED
        BY <1>8, <2>1, <2>2 DEF UsbSend
<1>9. CASE TestExec
    BY <1>9 DEF TestExec, link, device
<1>10. CASE UNCHANGED vars
    BY <1>10 DEF vars, link, device
<1> QED
    BY <1>1, <1>2, <1>3, <1>4, <1>5, <1>6, <1>7, <1>8, <1>9, <1>10
       DEF Next, Host, Main

\* The program starts in the type.
LEMMA InitType == Init => TypeOK
<1> SUFFICES ASSUME Init
             PROVE  TypeOK
    OBVIOUS
<1>1. usb_in_buffer \in Packet
    BY DEF Init, Nothing, Packet, Command
<1>2. usb_out_buffer \in [1 .. 3 -> Word]
    BY DEF Init, Zeros, Word
<1>3. /\ rx \in Seq(Packet) /\ tx \in Seq(Answer)
      /\ Len(rx) = 0 /\ Len(tx) = 0
    BY DEF Init
<1>4. configured \in BOOLEAN
    BY DEF Init
<1> QED
    BY <1>1, <1>2, <1>3, <1>4 DEF Init, TypeOK

\* The command loop never leaves its type, and its queues never outgrow the
\* buffers of the link (usb_recv, usb_send and the queues of usb_rawhid.c).
THEOREM TypeCorrect == Spec => []TypeOK
<1>1. TypeOK /\ [Next]_vars => TypeOK'
    BY TypeStep
<1> QED
    BY <1>1, InitType, PTL DEF Spec

-----------------------------------------------------------------------------
(***************************************************************************)
(* Order.  The packets received carry the last numbers sent, the one in    *)
(* usb_in_buffer lies before them, just before them unless a configured    *)
(* device was configured again.  If none was, the replies queued carry     *)
(* increasing numbers up to it, and below it while it has yet to be        *)
(* answered.  That one inequality is what makes both ends of the loop      *)
(* keep the order, and it needs the pc to be stated.                       *)
(***************************************************************************)
Unconfigured ==
    ~configured /\ resets = 0 =>
        /\ pc = "wait" /\ rx = <<>> /\ tx = <<>>
        /\ sent = 0 /\ fetched = 0

Received ==
    /\ usb_in_buffer.seq + Len(rx) <= sent
    /\ resets = 0 => usb_in_buffer.seq + Len(rx) = sent
    /\ \A i \in 1 .. Len(rx) : rx[i].seq + Len(rx) = sent + i

Before(n) == fetched < n /\ \A i \in 1 .. Len(tx) : tx[i].seq < n

Answered ==
    resets = 0 =>
        /\ Before(usb_in_buffer.seq + 1)
        /\ pc \in {"exec", "send"} => Before(usb_in_buffer.seq)

OrderInv == TypeOK /\ Unconfigured /\ Received /\ Answered /\ RepliesInOrder

\* The numbers the invariant compares are natural numbers.
LEMMA Numbers ==
    ASSUME TypeOK
    PROVE  /\ usb_in_buffer.seq \in Nat /\ sent \in Nat /\ fetched \in Nat
           /\ Len(rx) \in Nat /\ Len(tx) \in Nat
           /\ \A i \in 1 .. Len(rx) : rx[i].seq \in Nat
           /\ \A i \in 1 .. Len(tx) : tx[i].seq \in Nat
<1>1. \A i \in 1 .. Len(rx) : rx[i] \in Packet
    BY ElementOfSeq DEF TypeOK
<1>2. \A i \in 1 .. Len(tx) : tx[i] \in Answer
    BY ElementOfSeq DEF TypeOK
<1> QED
    BY <1>1, <1>2, LenProperties DEF TypeOK, Packet, Answer

\* A step that leaves the replies, and the number in usb_in_buffer, alone keeps
\* the order of the replies, unless it makes the number one to be answered.
LEMMA OrderKept ==
    ASSUME Answered, RepliesInOrder, UNCHANGED <<resets, tx, fetched, usb_in_buffer>>,
           pc' \in {"exec", "send"} => pc \in {"exec", "send"}
    PROVE  Answered' /\ RepliesInOrder'
BY DEF Answered, Before, RepliesInOrder

\* A step that leaves the received packets alone keeps their numbers.
LEMMA ReceivedKept ==
    ASSUME Received, UNCHANGED <<resets, rx, sent, usb_in_buffer>>
    PROVE  Received'
BY DEF Received

\* A packet taken from the queue is the one after that in usb_in_buffer.
LEMMA HeadIsNext ==
    ASSUME TypeOK, Received, rx # <<>>
    PROVE  /\ Head(rx).seq \in Nat
           /\ Head(rx).seq + Len(rx) = sent + 1
           /\ usb_in_buffer.seq < Head(rx).seq
           /\ resets = 0 => Head(rx).seq = usb_in_buffer.seq + 1
<1>1. Head(rx) = rx[1] /\ 1 \in 1 .. Len(rx)
    BY HeadTailProperties DEF TypeOK
<1>2. rx[1].seq + Len(rx) = sent + 1
    BY <1>1 DEF Received
<1>3. /\ rx[1].seq \in Nat /\ Len(rx) \in Nat /\ sent \in Nat
      /\ usb_in_buffer.seq \in Nat
    BY <1>1, Numbers
<1>4. /\ usb_in_buffer.seq + Len(rx) <= sent
      /\ resets = 0 => usb_in_buffer.seq + Len(rx) = sent
    BY DEF Received
<1>5. usb_in_buffer.seq < rx[1].seq
    BY <1>2, <1>3, <1>4
<1>6. resets = 0 => rx[1].seq = usb_in_buffer.seq + 1
    BY <1>2, <1>3, <1>4
<1> QED
    BY <1>1, <1>2, <1>3, <1>5, <1>6

\* Every step keeps the order.
LEMMA OrderStep ==
    ASSUME OrderInv, [Next]_vars
    PROVE  OrderInv'
<1> USE DEF OrderInv
<1>0. TypeOK'
    BY TypeStep
<1>1. CASE HostSend
    <2>1. PICK c \in Command : rx' = Append(rx, [cmd |-> c, seq |-> sent + 1])
        BY <1>1 DEF HostSend
    <2> DEFINE p == [cmd |-> c, seq |-> sent + 1]
    <2>2. p \in Packet
        BY <1>1 DEF HostSend, Packet, TypeOK
    <2>3. /\ Len(rx') = Len(rx) + 1
          /\ \A i \in 1 .. Len(rx) : rx'[i] = rx[i]
          /\ rx'[Len(rx) + 1] = p
        BY <2>1, <2>2, AppendProperties DEF TypeOK
    <2>4. sent' = sent + 1 /\ usb_in_buffer' = usb_in_buffer /\ resets' = resets
        BY <1>1 DEF HostSend, device
    <2>5. Len(rx) \in Nat /\ usb_in_buffer.seq \in Nat /\ sent \in Nat
        BY Numbers
    <2>6. Received'
        <3>1. /\ usb_in_buffer.seq + Len(rx') <= sent'
              /\ resets = 0 => usb_in_buffer.seq + Len(rx') = sent'
            <4>1. /\ usb_in_buffer.seq + Len(rx) <= sent
                  /\ resets = 0 => usb_in_buffer.seq + Len(rx) = sent
                BY DEF Received
            <4> QED
                BY <2>3, <2>4, <2>5, <4>1
        <3>2. ASSUME NEW i \in 1 .. Len(rx')
              PROVE  rx'[i].seq + Len(rx') = sent' + i
            <4>1. CASE i \in 1 .. Len(rx)
                <5>1. rx[i].seq + Len(rx) = sent + i /\ rx[i].seq \in Nat
                    BY <4>1, Numbers DEF Received
                <5>2. rx[i].seq + (Len(rx) + 1) = (sent + 1) + i
                    BY <2>5, <4>1, <5>1
                <5>3. rx'[i] = rx[i] /\ Len(rx') = Len(rx) + 1
                    BY <2>3, <4>1
                <5> QED
                    BY <2>4, <5>2, <5>3
            <4>2. CASE i = Len(rx) + 1
                <5>1. rx'[i].seq = sent + 1
                    BY <2>3, <4>2
                <5> QED
                    BY <2>3, <2>4, <2>5, <4>2, <5>1
            <4> QED
                BY <2>3, <2>5, <4>1, <4>2
        <3> QED
            BY <2>4, <3>1, <3>2 DEF Received
    <2>7. Answered' /\ RepliesInOrder'
        BY <1>1, OrderKept DEF HostSend, device
    <2>8. Unconfigured'
        BY <1>1 DEF HostSend, Unconfigured
    <2> QED
        BY <1>0, <2>6, <2>7, <2>8
<1>2. CASE HostFetch
    <2>1. /\ UNCHANGED <<configured, resets, rx, sent, pc, usb_in_buffer>>
          /\ configured
        BY <1>2 DEF HostFetch, device
    <2>2. Received'
        BY <2>1, ReceivedKept
    <2>3. Unconfigured'
        BY <2>1 DEF Unconfigured
    <2>4. CASE resets = 0
        <3>1. Len(tx) \in Nat
            BY Numbers
        <3>2. /\ 1 \in 1 .. Len(tx) /\ tx' = Without(1) /\ fetched' = tx[1].seq
            BY <1>2, <2>4, <3>1 DEF HostFetch
        <3>3. /\ Len(tx') = Len(tx) - 1
              /\ \A i \in 1 .. Len(tx) - 1 : tx'[i] = IF i < 1 THEN tx[i] ELSE tx[i + 1]
            BY <3>2, WithoutProperties
        <3>4. \A i \in 1 .. Len(tx') : tx'[i] = tx[i + 1] /\ i + 1 \in 1 .. Len(tx)
            BY <3>1, <3>3
        <3>5. \A n : Before(n) => Before(n)'
            BY <3>2, <3>4 DEF Before
        <3>6. Answered'
            BY <2>1, <2>4, <3>5 DEF Answered
        <3>7. RepliesInOrder'
            <4> SUFFICES ASSUME NEW i \in 1 .. Len(tx')
                         PROVE  (IF i = 1 THEN fetched' ELSE tx'[i - 1].seq) < tx'[i].seq
                BY DEF RepliesInOrder
            <4>1. tx'[i] = tx[i + 1] /\ i + 1 \in 1 .. Len(tx) /\ i + 1 # 1
                BY <3>1, <3>3, <3>4
            <4>2. tx[i].seq < tx[i + 1].seq
                <5>1. (i + 1) - 1 = i
                    BY <3>1, <3>3
                <5> QED
                    BY <2>4, <4>1, <5>1 DEF RepliesInOrder
            <4>3. CASE i = 1
                BY <3>2, <4>1, <4>2, <4>3
            <4>4. CASE i # 1
                <5>1. i - 1 \in 1 .. Len(tx') /\ (i - 1) + 1 = i
                    BY <3>1, <3>3, <4>4
                <5> QED
                    BY <3>4, <4>1, <4>2, <4>4, <5>1
            <4> QED
                BY <4>3, <4>4
        <3> QED
            BY <1>0, <2>2, <2>3, <3>6, <3>7
    <2>5. CASE resets # 0
        BY <1>0, <2>1, <2>2, <2>3, <2>5 DEF Answered, RepliesInOrder
    <2> QED
        BY <2>4, <2>5
<1>3. CASE SetConfiguration
    <2>1. /\ rx' = <<>> /\ tx' = <<>>
          /\ UNCHANGED <<sent, fetched, pc, usb_in_buffer>>
        BY <1>3 DEF SetConfiguration, device
    <2>2. resets' = 0 => resets = 0 /\ ~configured
        BY <1>3 DEF SetConfiguration, TypeOK
    <2>3. usb_in_buffer.seq + Len(rx') <= sent'
        <3>1. Len(rx') = 0
            BY <2>1
        <3>2. usb_in_buffer.seq + Len(rx) <= sent
            BY DEF Received
        <3>3. usb_in_buffer.seq \in Nat /\ Len(rx) \in Nat /\ sent \in Nat
            BY Numbers
        <3> QED
            BY <2>1, <3>1, <3>2, <3>3
    <2>4. CASE resets' = 0
        <3>1. /\ pc = "wait" /\ rx = <<>> /\ tx = <<>>
              /\ sent = 0 /\ fetched = 0 /\ resets = 0
            BY <2>2, <2>4 DEF Unconfigured
        <3>2. UNCHANGED <<resets, rx, tx>>
            BY <2>1, <2>4, <3>1
        <3>3. Answered' /\ RepliesInOrder'
            BY <2>1, <3>2, OrderKept
        <3>4. Received'
            BY <2>1, <3>2, ReceivedKept
        <3>5. Unconfigured'
            BY <2>1, <3>1 DEF Unconfigured
        <3> QED
            BY <1>0, <3>3, <3>4, <3>5
    <2>5. CASE resets' # 0
        <3>1. Answered' /\ RepliesInOrder' /\ Unconfigured'
            BY <2>5 DEF Answered, RepliesInOrder, Unconfigured
        <3>2. Received'
            BY <2>1, <2>3, <2>5 DEF Received
        <3> QED
            BY <1>0, <3>1, <3>2
    <2> QED
        BY <2>4, <2>5
<1>4. CASE Poll
    BY <1>0, <1>4, OrderKept, ReceivedKept DEF Poll, vars, link, device, Unconfigured
<1>5. CASE UsbWait
    BY <1>0, <1>5, OrderKept, ReceivedKept DEF UsbWait, link, device, Unconfigured
<1>6. CASE UsbRecv
    <2>1. /\ pc = "recv" /\ pc' = "exec"
          /\ UNCHANGED <<configured, resets, tx, sent, fetched>>
        BY <1>6 DEF UsbRecv
    <2>2. Unconfigured' /\ RepliesInOrder'
        BY <2>1 DEF Unconfigured, RepliesInOrder
    <2>3. CASE ~configured /\ UNCHANGED <<rx, usb_in_buffer>>
        <3>1. resets # 0
            BY <2>1, <2>3 DEF Unconfigured
        <3>2. Answered'
            BY <2>1, <3>1 DEF Answered
        <3>3. Received'
            BY <2>1, <2>3, ReceivedKept
        <3> QED
            BY <1>0, <2>2, <3>2, <3>3
    <2>4. CASE rx # <<>> /\ usb_in_buffer' = Head(rx) /\ rx' = Tail(rx)
        <3> DEFINE n == Head(rx).seq
        <3>1. /\ Len(rx') = Len(rx) - 1
              /\ \A i \in 1 .. Len(rx') : rx'[i] = rx[i + 1]
              /\ Len(rx) > 0
            BY <2>4, HeadTailProperties DEF TypeOK
        <3>2. /\ n \in Nat
              /\ n + Len(rx) = sent + 1
              /\ usb_in_buffer.seq < n
              /\ resets = 0 => n = usb_in_buffer.seq + 1
            BY <2>4, HeadIsNext
        <3>3. Len(rx) \in Nat /\ sent \in Nat /\ usb_in_buffer.seq \in Nat
            BY Numbers
        <3>4. usb_in_buffer'.seq = n
            BY <2>4
        <3> HIDE DEF n
        <3>5. Received'
            <4>1. n + Len(rx') = sent
                BY <3>1, <3>2, <3>3
            <4>2. ASSUME NEW i \in 1 .. Len(rx')
                  PROVE  rx'[i].seq + Len(rx') = sent + i
                <5>1. rx'[i] = rx[i + 1] /\ i + 1 \in 1 .. Len(rx) /\ i \in Nat
                    BY <3>1, <3>3
                <5>2. rx[i + 1].seq + Len(rx) = sent + (i + 1)
                    BY <5>1 DEF Received
                <5>3. rx[i + 1].seq \in Nat
                    BY <5>1, Numbers
                <5>4. rx[i + 1].seq + (Len(rx) - 1) = sent + i
                    BY <3>3, <5>1, <5>2, <5>3
                <5> QED
                    BY <3>1, <5>1, <5>4
            <4>3. sent <= sent
                BY <3>3
            <4> QED
                BY <2>1, <3>4, <4>1, <4>2, <4>3 DEF Received
        <3>6. Answered'
            <4> SUFFICES ASSUME resets = 0
                         PROVE  Before(n) /\ Before(n + 1)
                BY <2>1, <3>4 DEF Answered, Before
            <4>1. Before(usb_in_buffer.seq + 1) /\ n = usb_in_buffer.seq + 1
                BY <3>2 DEF Answered
            <4> QED
                BY <3>2, <4>1, Numbers DEF Before
        <3> QED
            BY <1>0, <2>2, <3>5, <3>6
    <2> QED
        BY <1>6, <2>3, <2>4 DEF UsbRecv
<1>7. CASE CmdExec
    <2>1. /\ pc = "exec"
          /\ UNCHANGED <<configured, resets, rx, tx, sent, fetched, usb_in_buffer>>
        BY <1>7 DEF CmdExec, CmdCali, CmdMove, CmdTest, CmdQuery, CmdOther, link, device
    <2>2. Answered' /\ RepliesInOrder'
        BY <2>1, OrderKept
    <2>3. Received' /\ Unconfigured'
        BY <2>1, ReceivedKept DEF Unconfigured
    <2> QED
        BY <1>0, <2>2, <2>3
<1>8. CASE UsbSend
    <2>1. /\ pc = "send" /\ pc' = "test"
          /\ UNCHANGED <<configured, resets, rx, sent, fetched, usb_in_buffer>>
        BY <1>8 DEF UsbSend, device
    <2>2. Received' /\ Unconfigured'
        BY <2>1, ReceivedKept DEF Unconfigured
    <2>3. CASE UNCHANGED tx
        BY <1>0, <2>1, <2>2, <2>3, OrderKept
    <2>4. CASE tx' = Append(tx, Reply) /\ resets = 0
        <3>1. /\ Len(tx') = Len(tx) + 1
              /\ \A i \in 1 .. Len(tx) : tx'[i] = tx[i]
              /\ tx'[Len(tx) + 1] = Reply
            BY <2>4, ReplyType, AppendProperties DEF TypeOK
        <3>2. Reply.seq = usb_in_buffer.seq
            BY DEF Reply
        <3>3. Before(usb_in_buffer.seq)
            BY <2>1, <2>4 DEF Answered
        <3>4. Answered'
            BY <2>1, <3>1, <3>2, <3>3, Numbers DEF Answered, Before
        <3>5. RepliesInOrder'
            <4> SUFFICES ASSUME NEW i \in 1 .. Len(tx')
                         PROVE  (IF i = 1 THEN fetched' ELSE tx'[i - 1].seq) < tx'[i].seq
                BY DEF RepliesInOrder
            <4>1. CASE i \in 1 .. Len(tx)
                <5>1. (IF i = 1 THEN fetched ELSE tx[i - 1].seq) < tx[i].seq
                    BY <2>4, <4>1 DEF RepliesInOrder
                <5>2. i # 1 => tx'[i - 1] = tx[i - 1]
                    BY <3>1, <4>1, Numbers
                <5> QED
                    BY <2>1, <3>1, <4>1, <5>1, <5>2
            <4>2. CASE i = Len(tx) + 1
                BY <2>1, <3>1, <3>2, <3>3, <4>2, Numbers DEF Before
            <4> QED
                BY <3>1, <4>1, <4>2, Numbers
        <3> QED
            BY <1>0, <2>2, <3>4, <3>5
    <2>5. CASE resets # 0
        BY <1>0, <2>1, <2>2, <2>5 DEF Answered, RepliesInOrder
    <2> QED
        BY <1>8, <2>3, <2>4, <2>5 DEF UsbSend
<1>9. CASE TestExec
    BY <1>0, <1>9, OrderKept, ReceivedKept DEF TestExec, link, device, Unconfigured
<1>10. CASE UNCHANGED vars
    BY <1>0, <1>10, OrderKept, ReceivedKept DEF vars, link, device, Unconfigured
<1> QED
    BY <1>1, <1>2, <1>3, <1>4, <1>5, <1>6, <1>7, <1>8, <1>9, <1>10
       DEF Next, Host, Main

\* The order, from the start of the program on.
LEMMA OrderInvariant == Spec => []OrderInv
<1>1. Init => OrderInv
    <2>1. Init => Unconfigured /\ Received /\ Answered /\ RepliesInOrder
        BY DEF Init, Nothing, Unconfigured, Received, Answered, Before, RepliesInOrder
    <2> QED
        BY <2>1, InitType DEF OrderInv
<1>2. OrderInv /\ [Next]_vars => OrderInv'
    BY OrderStep
<1> QED
    BY <1>1, <1>2, PTL DEF Spec

\* On a device configured once, usb_send answers no query twice and the host
\* fetches the replies in the order of the queries.
THEOREM RepliesKeepOrder == Spec => []RepliesInOrder
<1>1. OrderInv => RepliesInOrder
    BY DEF OrderInv
<1> QED
    BY <1>1, OrderInvariant, PTL

\* While the device is configured, and however often it is configured anew,
\* usb_recv takes no packet twice and none before an earlier one.
THEOREM PacketsExecutedInOrder == Spec => ExecutedOnceInOrder
<1>1. OrderInv /\ [Next]_vars
      => [configured /\ pc = "recv" /\ pc' = "exec" =>
            /\ usb_in_buffer.seq < usb_in_buffer'.seq
            /\ resets = 0 => usb_in_buffer'.seq = usb_in_buffer.seq + 1]_vars
    <2> SUFFICES ASSUME OrderInv, Next, configured, pc = "recv", pc' = "exec"
                 PROVE  /\ usb_in_buffer.seq < usb_in_buffer'.seq
                        /\ resets = 0 => usb_in_buffer'.seq = usb_in_buffer.seq + 1
        BY DEF ExecutedOnceInOrder
    <2>1. UsbRecv
        BY DEF Next, Host, Main, HostSend, HostFetch, SetConfiguration, Poll, UsbWait,
               CmdExec, UsbSend, TestExec, vars
    <2>2. rx # <<>> /\ usb_in_buffer' = Head(rx)
        BY <2>1 DEF UsbRecv
    <2> QED
        BY <2>2, HeadIsNext DEF OrderInv
<1> QED
    BY <1>1, OrderInvariant, PTL DEF Spec, ExecutedOnceInOrder

-----------------------------------------------------------------------------
(***************************************************************************)
(* Refinement.  A routine of main that does not touch the queues stutters. *)
(***************************************************************************)
\* Every step is one that UsbLink allows its queues, or leaves them alone.
LEMMA LinkStep ==
    ASSUME TypeOK, [Next]_vars
    PROVE  [Link!Next]_Link!vars
<1> USE DEF Link!Next, Link!vars
<1>1. CASE HostSend
    <2>1. PICK c \in Command : rx' = Append(rx, [cmd |-> c, seq |-> sent + 1])
        BY <1>1 DEF HostSend
    <2>2. [cmd |-> c, seq |-> sent + 1] \in Packet
        BY <1>1 DEF HostSend, Packet, TypeOK
    <2>3. Link!Receive
        BY <1>1, <2>1, <2>2 DEF HostSend, Link!Receive
    <2> QED
        BY <2>3
<1>2. CASE HostFetch
    <2>1. Link!Fetch
        BY <1>2 DEF HostFetch, Without, Link!Fetch, Link!Without
    <2> QED
        BY <2>1
<1>3. CASE SetConfiguration
    <2>1. resets > 0 => resets' > 0
        BY <1>3 DEF SetConfiguration, TypeOK
    <2>2. (resets' > 0) \in BOOLEAN
        OBVIOUS
    <2>3. Link!Configure
        BY <1>3, <2>1, <2>2 DEF SetConfiguration, Link!Configure
    <2> QED
        BY <2>3
<1>4. CASE UsbRecv
    <2>1. CASE UNCHANGED rx
        BY <1>4, <2>1 DEF UsbRecv
    <2>2. CASE rx # <<>> /\ rx' = Tail(rx)
        <3>1. Link!Read
            BY <1>4, <2>2 DEF UsbRecv, Link!Read
        <3> QED
            BY <3>1
    <2> QED
        BY <1>4, <2>1, <2>2 DEF UsbRecv
<1>5. CASE UsbSend
    <2>1. CASE UNCHANGED tx
        BY <1>5, <2>1 DEF UsbSend
    <2>2. CASE TxRoom /\ tx' = Append(tx, Reply)
        <3>1. Link!Queue
            BY <1>5, <2>2, ReplyType DEF UsbSend, TxRoom, Link!Queue
        <3> QED
            BY <3>1
    <2> QED
        BY <1>5, <2>1, <2>2 DEF UsbSend
<1>6. CASE Poll \/ UsbWait \/ CmdExec \/ TestExec \/ UNCHANGED vars
    BY <1>6 DEF Poll, UsbWait, CmdExec, CmdCali, CmdMove, CmdTest, CmdQuery, CmdOther,
                TestExec, vars, link
<1> QED
    BY <1>1, <1>2, <1>3, <1>4, <1>5, <1>6 DEF Next, Host, Main

\* main and the host keep to what UsbLink lets them do to the queues, which is
\* what the driver's buffers implement (usb_rawhid_recv, usb_rawhid_send).
THEOREM FirmwareImplementsLink == Spec => ImplementsLink
<1>1. Init => Link!Init
    BY DEF Init, Link!Init
<1>2. TypeOK /\ [Next]_vars => [Link!Next]_Link!vars
    BY LinkStep
<1> QED
    BY <1>1, <1>2, TypeCorrect, PTL DEF Spec, ImplementsLink, Link!Spec

-----------------------------------------------------------------------------
(***************************************************************************)
(* Contents.  Between the query and its reply nothing may write the output *)
(* buffer or change the command it answers.                                *)
(***************************************************************************)
Answers(q, data) ==
    /\ q = "S" => data[1] = "state" /\ data[2] = "state"
    /\ q = "P" => data = <<"position", "position", "position">>

ContentsInv ==
    /\ TypeOK
    /\ pc = "send" => Answers(Arg, usb_out_buffer)
    /\ ReplyAnswersQuery

\* A step that does not begin or disturb a reply.
Undisturbed ==
    pc' = "send" => pc = "send" /\ UNCHANGED <<usb_in_buffer, usb_out_buffer>>

\* A step after which every reply in the queue was there before.
NoneAdded == \A i \in 1 .. Len(tx') : \E j \in 1 .. Len(tx) : tx'[i] = tx[j]

\* Such steps keep the contents right.
LEMMA ContentsKept ==
    ASSUME ContentsInv, TypeOK', Undisturbed, NoneAdded
    PROVE  ContentsInv'
<1>1. (pc = "send" => Answers(Arg, usb_out_buffer))'
    BY DEF ContentsInv, Arg, Undisturbed
<1>2. ReplyAnswersQuery'
    BY DEF ContentsInv, ReplyAnswersQuery, NoneAdded
<1> QED
    BY <1>1, <1>2 DEF ContentsInv

\* Every step keeps the contents of replies, queued or about to be, right.
LEMMA ContentsStep ==
    ASSUME ContentsInv, [Next]_vars
    PROVE  ContentsInv'
<1>0. TypeOK'
    BY TypeStep DEF ContentsInv
<1>1. CASE HostSend
    <2>1. Undisturbed /\ NoneAdded
        BY <1>1 DEF Undisturbed, NoneAdded, HostSend, device
    <2> QED
        BY <1>0, <2>1, ContentsKept
<1>2. CASE HostFetch
    <2>1. Undisturbed
        BY <1>2 DEF Undisturbed, HostFetch, device
    <2>2. PICK i \in 1 .. Len(tx) : tx' = Without(i)
        BY <1>2 DEF HostFetch
    <2>3. /\ Len(tx) \in Nat /\ Len(tx') = Len(tx) - 1
          /\ \A j \in 1 .. Len(tx) - 1 : tx'[j] = IF j < i THEN tx[j] ELSE tx[j + 1]
        BY <2>2, Numbers, WithoutProperties DEF ContentsInv
    <2>4. NoneAdded
        BY <2>3 DEF NoneAdded
    <2> QED
        BY <1>0, <2>1, <2>4, ContentsKept
<1>3. CASE SetConfiguration
    <2>1. Undisturbed /\ NoneAdded
        BY <1>3 DEF Undisturbed, NoneAdded, SetConfiguration, device
    <2> QED
        BY <1>0, <2>1, ContentsKept
<1>4. CASE Poll
    <2>1. Undisturbed /\ NoneAdded
        BY <1>4 DEF Undisturbed, NoneAdded, Poll, vars, link, device
    <2> QED
        BY <1>0, <2>1, ContentsKept
<1>5. CASE UsbWait
    <2>1. Undisturbed /\ NoneAdded
        BY <1>5 DEF Undisturbed, NoneAdded, UsbWait, link, device
    <2> QED
        BY <1>0, <2>1, ContentsKept
<1>6. CASE UsbRecv
    <2>1. Undisturbed /\ NoneAdded
        BY <1>6 DEF Undisturbed, NoneAdded, UsbRecv
    <2> QED
        BY <1>0, <2>1, ContentsKept
<1>7. CASE CmdExec
    <2>1. CASE CmdQuery
        <3>1. pc' = "send" /\ tx' = tx /\ usb_in_buffer' = usb_in_buffer
            BY <2>1 DEF CmdQuery, link
        <3>2. Answers(Arg, Load(Arg))
            BY DEF Answers, Load
        <3>3. (pc = "send" => Answers(Arg, usb_out_buffer))'
            BY <2>1, <3>1, <3>2 DEF CmdQuery, Arg
        <3>4. ReplyAnswersQuery'
            BY <3>1 DEF ContentsInv, ReplyAnswersQuery
        <3> QED
            BY <1>0, <3>3, <3>4 DEF ContentsInv
    <2>2. CASE CmdCali \/ CmdMove \/ CmdTest \/ CmdOther
        <3>1. Undisturbed /\ NoneAdded
            BY <2>2 DEF Undisturbed, NoneAdded,
                        CmdCali, CmdMove, CmdTest, CmdOther, link, device
        <3> QED
            BY <1>0, <3>1, ContentsKept
    <2> QED
        BY <1>7, <2>1, <2>2 DEF CmdExec
<1>8. CASE UsbSend
    <2>1. pc = "send" /\ pc' = "test"
        BY <1>8 DEF UsbSend
    <2>2. CASE UNCHANGED tx
        <3>1. Undisturbed /\ NoneAdded
            BY <2>1, <2>2 DEF Undisturbed, NoneAdded
        <3> QED
            BY <1>0, <3>1, ContentsKept
    <2>3. CASE tx' = Append(tx, Reply)
        <3>1. /\ Len(tx') = Len(tx) + 1
              /\ \A i \in 1 .. Len(tx) : tx'[i] = tx[i]
              /\ tx'[Len(tx) + 1] = Reply
            BY <2>3, ReplyType, AppendProperties DEF ContentsInv, TypeOK
        <3>2. Answers(Reply.query, Reply.data)
            BY <2>1 DEF ContentsInv, Reply
        <3>3. ASSUME NEW i \in 1 .. Len(tx')
              PROVE  Answers(tx'[i].query, tx'[i].data)
            <4>1. CASE i \in 1 .. Len(tx)
                BY <3>1, <4>1 DEF ContentsInv, ReplyAnswersQuery, Answers
            <4>2. CASE i = Len(tx) + 1
                BY <3>1, <3>2, <4>2
            <4> QED
                BY <3>1, <4>1, <4>2, Numbers DEF ContentsInv
        <3>4. ReplyAnswersQuery'
            BY <3>3 DEF ReplyAnswersQuery, Answers
        <3> QED
            BY <1>0, <2>1, <3>4 DEF ContentsInv
    <2> QED
        BY <1>8, <2>2, <2>3 DEF UsbSend
<1>9. CASE TestExec
    <2>1. Undisturbed /\ NoneAdded
        BY <1>9 DEF Undisturbed, NoneAdded, TestExec, link, device
    <2> QED
        BY <1>0, <2>1, ContentsKept
<1>10. CASE UNCHANGED vars
    <2>1. Undisturbed /\ NoneAdded
        BY <1>10 DEF Undisturbed, NoneAdded, vars, link, device
    <2> QED
        BY <1>0, <2>1, ContentsKept
<1> QED
    BY <1>1, <1>2, <1>3, <1>4, <1>5, <1>6, <1>7, <1>8, <1>9, <1>10
       DEF Next, Host, Main

\* Whatever commands came before it, and however often the device is configured
\* in between, the reply to a query of states or positions carries just those:
\* cmd_query overwrites what cmd_move and cmd_cali left in usb_out_buffer.
THEOREM RepliesAnswerQueries == Spec => []ReplyAnswersQuery
<1>1. Init => ContentsInv
    BY InitType DEF Init, ContentsInv, ReplyAnswersQuery
<1>2. ContentsInv /\ [Next]_vars => ContentsInv'
    BY ContentsStep
<1>3. ContentsInv => ReplyAnswersQuery
    BY DEF ContentsInv
<1> QED
    BY <1>1, <1>2, <1>3, PTL DEF Spec
=============================================================================
