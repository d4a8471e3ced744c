-------------------------- MODULE UsbBuffersProofs --------------------------
(***************************************************************************)
(* Theorems about the packet buffers of the USB driver, for every number   *)
(* of buffers and every length of the transmit list: no buffer is lost or  *)
(* used twice, a reply that waits is within the host's reach, and the      *)
(* queues implement UsbLink.                                               *)
(***************************************************************************)
EXTENDS UsbBuffers, SequenceTheorems, FiniteSetTheorems, WellFoundedInduction, TLAPS

(***************************************************************************)
(* Who owns which buffer.  The six owners share nothing, none of them has  *)
(* a buffer twice, and together they have all.                             *)
(***************************************************************************)
Armed(m) == {m.rx[k] : k \in Receivers} \ {None}
Banked == {txd[b] : b \in Banks} \ {None}
Held == {held} \ {None}

ArmedOnce(m) ==
    \A j, k \in Receivers : m.rx[j] = m.rx[k] /\ m.rx[j] # None => j = k

Once(s) == \A i, j \in DOMAIN s : s[i] = s[j] => i = j

OnceInv ==
    /\ ArmedOnce(mem)
    /\ txd[0] = txd[1] => txd[0] = None
    /\ Once(rxq) /\ Once(txq)

ApartInv ==
    /\ mem.avail \cap Armed(mem) = {}
    /\ (mem.avail \cup Armed(mem)) \cap Range(rxq) = {}
    /\ (mem.avail \cup Armed(mem) \cup Range(rxq)) \cap Banked = {}
    /\ (mem.avail \cup Armed(mem) \cup Range(rxq) \cup Banked) \cap Range(txq) = {}
    /\ held \notin mem.avail \cup Armed(mem) \cup Range(rxq) \cup Banked \cup Range(txq)

AllInv ==
    Buffers = mem.avail \cup Armed(mem) \cup Range(rxq) \cup Banked \cup Range(txq) \cup Held

\* main has a buffer between taking and giving it, and at no other time.
HeldInv == held # None <=> pc \in {"free", "put", "give", "nobody", "tx"}

(***************************************************************************)
(* The receivers.  The serial emulation never gives its buffers back, so   *)
(* only the two of raw HID can starve.  usb_rx_memory_needed never says    *)
(* more than how many do, except that it wraps to 255 when usb_rx_memory   *)
(* takes one from a 0 that Nobody has left: then no receiver starves, and  *)
(* the next buffer that is freed finds that out and is not lost.           *)
(***************************************************************************)
Unconfigured ==
    /\ ~configured /\ resets = 0
    /\ rxq = <<>> /\ txq = <<>> /\ order = <<>>
    /\ txd[0] = None /\ txd[1] = None
    /\ tx_state.busy = 0 /\ tx_state.first = EVEN /\ next_tx = EVEN
    /\ mem.needed = 0
    /\ held = None /\ pc = "wait"

ConfiguredInv == ~configured /\ resets = 0 => Unconfigured

SerialInv ==
    \/ Unconfigured /\ \A k \in Receivers : mem.rx[k] = None
    \/ mem.rx[1] # None /\ mem.rx[2] # None

Starved(m) == (IF m.rx[3] = None THEN 1 ELSE 0) + (IF m.rx[4] = None THEN 1 ELSE 0)

NeededBy(m) == m.needed <= Starved(m) \/ (m.needed = 255 /\ Starved(m) = 0)

NeededInv ==
    /\ NeededBy(mem)
    /\ pc = "give" => mem.needed # 0 \/ Starved(mem) # 2

(***************************************************************************)
(* The transmitter.                                                        *)
(***************************************************************************)
BankInv ==
    LET first == tx_state.first IN
    /\ tx_state.busy = 0 => txd[0] = None /\ txd[1] = None
    /\ tx_state.busy = 1 => txd[first] # None /\ txd[1 - first] = None
    /\ tx_state.busy = 2 => txd[0] # None /\ txd[1] # None
    /\ txq # <<>> => tx_state.busy = 2
    /\ resets = 0 /\ tx_state.busy < 2 => first = next_tx

\* What main has checked before it queues a reply still holds when it does.
LimitInv ==
    /\ pc \in {"malloc", "tx"} => Len(txq) < TxPacketLimit
    /\ pc \in {"count", "malloc", "tx"} => replied < MaxReplies

OrderInv ==
    /\ Once(order)
    /\ Range(order) = Banked \cup Range(txq)
    /\ Len(order) = tx_state.busy + Len(txq)

\* On a device configured once, the banks and the list are in order.
InTurn ==
    resets = 0 =>
        /\ tx_state.busy > 0 => order[1] = txd[next_tx]
        /\ tx_state.busy = 2 =>
            /\ order[2] = txd[1 - next_tx]
            /\ \A i \in 1 .. Len(txq) : order[i + 2] = txq[i]

OwnInv == OnceInv /\ ApartInv /\ AllInv /\ HeldInv

UsbInv ==
    /\ OwnInv
    /\ ConfiguredInv /\ SerialInv /\ NeededInv
    /\ BankInv /\ LimitInv
    /\ OrderInv /\ InTurn

-----------------------------------------------------------------------------
(***************************************************************************)
(* Lemmas about the operators.                                             *)
(***************************************************************************)
\* A set of natural numbers that is not empty has a minimum.
LEMMA LeastNat ==
    ASSUME NEW S \in SUBSET Nat, S # {}
    PROVE  Min(S) \in S /\ \A y \in S : Min(S) <= y
<1>1. PICK x \in S : \A y \in S : ~ (<<y, x>> \in OpToRel(<, Nat))
    BY WFMin, NatLessThanWellFounded
<1>2. \A y \in S : x <= y
    <2> SUFFICES ASSUME NEW y \in S, y < x PROVE FALSE
        OBVIOUS
    <2>1. <<y, x>> \in Nat \X Nat /\ <<y, x>>[1] = y /\ <<y, x>>[2] = x
        OBVIOUS
    <2>2. <<y, x>> \in OpToRel(<, Nat)
        BY <2>1 DEF OpToRel
    <2> QED
        BY <1>1, <2>2
<1> QED
    BY <1>1, <1>2 DEF Min

\* A queue that gets a new element.
LEMMA AppendOnce ==
    ASSUME NEW S, NEW s \in Seq(S), NEW e \in S
    PROVE  /\ Append(s, e) \in Seq(S)
           /\ Range(Append(s, e)) = Range(s) \cup {e}
           /\ Once(s) /\ e \notin Range(s) => Once(Append(s, e))
<1> DEFINE t == Append(s, e)
<1>1. /\ t \in Seq(S) /\ Len(t) = Len(s) + 1 /\ Len(s) \in Nat
      /\ DOMAIN t = 1 .. Len(s) + 1 /\ DOMAIN s = 1 .. Len(s)
      /\ \A i \in 1 .. Len(s) : t[i] = s[i]
      /\ t[Len(s) + 1] = e
    BY AppendProperties, LenProperties
<1>2. Range(t) = Range(s) \cup {e}
    BY <1>1 DEF Range
<1>3. Once(s) /\ e \notin Range(s) => Once(t)
    BY <1>1 DEF Once, Range
<1> QED
    BY <1>1, <1>2, <1>3

\* A queue whose first element is taken.
LEMMA TailOnce ==
    ASSUME NEW S, NEW s \in Seq(S), s # <<>>, Once(s)
    PROVE  /\ Head(s) \in S /\ Tail(s) \in Seq(S)
           /\ Head(s) \in Range(s)
           /\ Range(Tail(s)) = Range(s) \ {Head(s)}
           /\ Once(Tail(s))
<1> DEFINE t == Tail(s)
<1>1. /\ Head(s) \in S /\ t \in Seq(S) /\ Len(t) = Len(s) - 1 /\ Len(s) \in Nat \ {0}
      /\ DOMAIN t = 1 .. Len(s) - 1 /\ DOMAIN s = 1 .. Len(s)
      /\ \A i \in 1 .. Len(s) - 1 : t[i] = s[i + 1]
      /\ Head(s) = s[1]
    BY HeadTailProperties, LenProperties, EmptySeq
<1>2. \A i \in 2 .. Len(s) : i - 1 \in 1 .. Len(s) - 1 /\ t[i - 1] = s[i]
    BY <1>1
<1>3. 1 \in DOMAIN s
    BY <1>1
<1>4. Range(t) = Range(s) \ {Head(s)}
    <2>1. ASSUME NEW x \in Range(t) PROVE x \in Range(s) \ {Head(s)}
        BY <1>1, <1>3 DEF Range, Once
    <2>2. ASSUME NEW x \in Range(s) \ {Head(s)} PROVE x \in Range(t)
        <3>1. PICK i \in 1 .. Len(s) : x = s[i]
            BY <1>1 DEF Range
        <3>2. i \in 2 .. Len(s)
            BY <1>1, <3>1
        <3> QED
            BY <1>1, <1>2, <3>1, <3>2 DEF Range
    <2> QED
        BY <2>1, <2>2
<1>5. Once(t)
    BY <1>1 DEF Once
<1> QED
    BY <1>1, <1>3, <1>4, <1>5 DEF Range

\* A queue that an element is taken out of, wherever it is.
LEMMA RemoveOnce ==
    ASSUME NEW S, NEW s \in Seq(S), NEW i \in DOMAIN s
    PROVE  LET t == RemoveAt(s, i) IN
           /\ t \in Seq(S) /\ Len(t) = Len(s) - 1
           /\ \A j \in 1 .. Len(s) - 1 : t[j] = IF j < i THEN s[j] ELSE s[j + 1]
           /\ Once(s) => Once(t) /\ Range(t) = Range(s) \ {s[i]}
<1> DEFINE t == RemoveAt(s, i)
           a == SubSeq(s, 1, i - 1)
           b == SubSeq(s, i + 1, Len(s))
<1>1. Len(s) \in Nat /\ DOMAIN s = 1 .. Len(s) /\ i \in 1 .. Len(s)
    BY LenProperties
<1>2. a \in Seq(S) /\ Len(a) = i - 1 /\ \A j \in 1 .. i - 1 : a[j] = s[j]
    <2>1. \A j \in 1 .. i - 1 : j \in 1 .. Len(s)
        BY <1>1
    <2> QED
        BY <1>1, <2>1, SubSeqProperties
<1>3. b \in Seq(S) /\ Len(b) = Len(s) - i /\ \A j \in 1 .. Len(s) - i : b[j] = s[i + j]
    <2>1. \A j \in i + 1 .. Len(s) : j \in 1 .. Len(s)
        BY <1>1
    <2> QED
        BY <1>1, <2>1, SubSeqProperties
<1>4. t = a \o b
    BY DEF RemoveAt
<1>5. /\ t \in Seq(S) /\ Len(t) = Len(s) - 1
      /\ \A j \in 1 .. Len(s) - 1 : t[j] = IF j < i THEN s[j] ELSE s[j + 1]
    <2>1. /\ t \in Seq(S) /\ Len(t) = Len(s) - 1
          /\ \A j \in 1 .. Len(a) + Len(b) : t[j] = IF j <= Len(a) THEN a[j] ELSE b[j - Len(a)]
        <3> HIDE DEF t, a, b
        <3>1. /\ a \o b \in Seq(S) /\ Len(a \o b) = Len(a) + Len(b)
              /\ \A j \in 1 .. Len(a) + Len(b) :
                    (a \o b)[j] = IF j <= Len(a) THEN a[j] ELSE b[j - Len(a)]
            BY <1>2, <1>3, ConcatProperties
        <3>2. Len(a) + Len(b) = Len(s) - 1
            BY <1>1, <1>2, <1>3
        <3> QED
            BY <1>4, <3>1, <3>2
    <2>2. ASSUME NEW j \in 1 .. Len(s) - 1 PROVE t[j] = IF j < i THEN s[j] ELSE s[j + 1]
        <3> HIDE DEF t, a, b
        <3>1. j \in 1 .. Len(a) + Len(b)
            BY <1>1, <1>2, <1>3
        <3>2. CASE j < i
            BY <1>1, <1>2, <2>1, <3>1, <3>2
        <3>3. CASE ~(j < i)
            <4>1. j - Len(a) \in 1 .. Len(s) - i /\ i + (j - Len(a)) = j + 1 /\ ~(j <= Len(a))
                BY <1>1, <1>2, <3>3
            <4>2. b[j - Len(a)] = s[j + 1]
                BY <1>3, <4>1
            <4> QED
                BY <2>1, <3>1, <3>3, <4>1, <4>2
        <3> QED
            BY <3>2, <3>3
    <2> QED
        BY <2>1, <2>2
<1>6. DOMAIN t = 1 .. Len(s) - 1
    BY <1>1, <1>5, LenProperties
<1>7. ASSUME Once(s) PROVE Once(t)
    <2> DEFINE from(j) == IF j < i THEN j ELSE j + 1
    <2>1. \A j \in 1 .. Len(s) - 1 : from(j) \in DOMAIN s /\ t[j] = s[from(j)]
        BY <1>1, <1>5
    <2>2. \A j, k \in 1 .. Len(s) - 1 : from(j) = from(k) => j = k
        BY <1>1
    <2> HIDE DEF from
    <2> QED
        BY <1>6, <1>7, <2>1, <2>2 DEF Once
<1>8. ASSUME Once(s) PROVE Range(t) = Range(s) \ {s[i]}
    <2>1. ASSUME NEW x \in Range(t) PROVE x \in Range(s) \ {s[i]}
        BY <1>1, <1>5, <1>6, <1>8 DEF Range, Once
    <2>2. ASSUME NEW x \in Range(s) \ {s[i]} PROVE x \in Range(t)
        <3>1. PICK j \in 1 .. Len(s) : x = s[j] /\ j # i
            BY <1>1 DEF Range
        <3>2. CASE j < i
            BY <1>1, <1>5, <1>6, <3>1, <3>2 DEF Range
        <3>3. CASE j > i
            <4>1. j - 1 \in 1 .. Len(s) - 1 /\ ~(j - 1 < i) /\ (j - 1) + 1 = j
                BY <1>1, <3>3
            <4>2. t[j - 1] = s[j]
                BY <1>5, <4>1
            <4> QED
                BY <1>6, <3>1, <4>1, <4>2 DEF Range
        <3> QED
            BY <1>1, <3>1, <3>2, <3>3
    <2> QED
        BY <2>1, <2>2
<1> QED
    BY <1>5, <1>7, <1>8

-----------------------------------------------------------------------------
(***************************************************************************)
(* Lemmas about the pool.                                                  *)
(***************************************************************************)
Mem == [avail : SUBSET Buffers, rx : [Receivers -> Buffers \cup {None}], needed : 0 .. 255]

\* The pool with one more buffer.
LEMMA PooledMem ==
    ASSUME NEW m \in Mem, NEW p \in Buffers
    PROVE  /\ Pooled(m, p) \in Mem
           /\ Pooled(m, p).avail = m.avail \cup {p}
           /\ Pooled(m, p).rx = m.rx /\ Pooled(m, p).needed = m.needed
    BY DEF Mem, Pooled

\* A buffer that no receiver is said to need goes back to the pool.
LEMMA FreePlain ==
    ASSUME NEW m \in Mem, NEW p \in Buffers, NEW conf \in BOOLEAN, m.needed = 0 \/ ~conf
    PROVE  Free(m, p, conf) = Pooled(m, p)
    BY Zenon DEF Free

\* So does a queue of them.
LEMMA FreeAllPlain ==
    ASSUME NEW m \in Mem, NEW s \in Seq(Buffers), NEW conf \in BOOLEAN,
           m.needed = 0 \/ ~conf
    PROVE  FreeAll(m, s, conf) = [m EXCEPT !.avail = @ \cup Range(s)]
<1> DEFINE N == 0 .. Len(s)
           freed[i \in 0 .. Len(s)] == IF i = 0 THEN m ELSE Free(freed[i - 1], s[i], conf)
           step(f, i) == IF i = 0 THEN m ELSE Free(f[i - 1], s[i], conf)
           g == [i \in N |-> [m EXCEPT !.avail = @ \cup {s[j] : j \in 1 .. i}]]
<1>1. FreeAll(m, s, conf) = freed[Len(s)]
    BY DEF FreeAll
<1>2. Len(s) \in Nat /\ DOMAIN s = 1 .. Len(s) /\ \A i \in 1 .. Len(s) : s[i] \in Buffers
    BY LenProperties, ElementOfSeq
<1>3. \A i \in N : g[i] \in Mem /\ (g[i].needed = 0 \/ ~conf)
    <2> SUFFICES ASSUME NEW i \in N PROVE g[i] \in Mem /\ (g[i].needed = 0 \/ ~conf)
        OBVIOUS
    <2>1. {s[j] : j \in 1 .. i} \subseteq Buffers
        BY <1>2
    <2>2. g[i] \in Mem /\ g[i].needed = m.needed
        BY <2>1 DEF Mem
    <2> QED
        BY <2>2, Zenon
<1>4. \A i \in N : g[i] = step(g, i)
    <2>1. g[0] = m
        BY <1>2 DEF Mem
    <2>2. ASSUME NEW i \in N, i # 0 PROVE g[i] = Free(g[i - 1], s[i], conf)
        <3>1. i - 1 \in N /\ i \in 1 .. Len(s)
            BY <1>2, <2>2
        <3>2. Free(g[i - 1], s[i], conf) = Pooled(g[i - 1], s[i])
            <4>1. g[i - 1] \in Mem /\ (g[i - 1].needed = 0 \/ ~conf) /\ s[i] \in Buffers
                BY <1>2, <1>3, <3>1
            <4> HIDE DEF g
            <4> QED
                BY <4>1, FreePlain, Zenon
        <3>3. {s[j] : j \in 1 .. i} = {s[j] : j \in 1 .. (i - 1)} \cup {s[i]}
            <4>1. 1 .. i = 1 .. (i - 1) \cup {i}
                BY <1>2, <2>2
            <4> QED
                BY <4>1
        <3>4. /\ g[i] = [m EXCEPT !.avail = @ \cup {s[j] : j \in 1 .. i}]
              /\ g[i - 1] = [m EXCEPT !.avail = @ \cup {s[j] : j \in 1 .. (i - 1)}]
            BY <3>1
        <3> HIDE DEF g
        <3> QED
            BY <3>2, <3>3, <3>4 DEF Mem, Pooled
    <2> QED
        BY <2>1, <2>2
<1>5. g = [i \in N |-> step(g, i)]
    BY <1>4
<1>6. freed = [i \in N |-> step(freed, i)]
    BY <1>5
<1> HIDE DEF g, freed
<1>7. \A i \in N : freed[i] = g[i]
    <2> DEFINE Differ == {i \in N : freed[i] # g[i]}
    <2> SUFFICES ASSUME Differ # {} PROVE FALSE
        OBVIOUS
    <2>1. PICK i \in Differ : \A j \in Differ : i <= j
        <3>1. Differ \in SUBSET Nat
            BY <1>2
        <3> HIDE DEF Differ
        <3> QED
            BY <3>1, LeastNat
    <2>2. freed[i] = step(freed, i) /\ g[i] = step(g, i)
        BY <1>4, <1>6
    <2>3. i # 0
        BY <2>2
    <2>4. i - 1 \in N /\ i - 1 \notin Differ
        BY <1>2, <2>1, <2>3
    <2>5. freed[i - 1] = g[i - 1]
        BY <2>4
    <2> QED
        BY <2>2, <2>3, <2>5
<1>8. g[Len(s)] = [m EXCEPT !.avail = @ \cup Range(s)]
    <2>1. Len(s) \in N /\ Range(s) = {s[j] : j \in 1 .. Len(s)}
        BY <1>2 DEF Range
    <2> QED
        BY <2>1, Zenon DEF g
<1>9. Len(s) \in N
    BY <1>2
<1> QED
    BY <1>1, <1>7, <1>8, <1>9, Zenon

\* usb_rx_memory gives the buffer to a receiver that has none.
LEMMA GiveMem ==
    ASSUME NEW m \in Mem, NEW p \in Buffers, Starving(m) # {}
    PROVE  /\ Give(m, p) \in Mem
           /\ Give(m, p).avail = m.avail
           /\ Give(m, p).needed = IF m.needed = 0 THEN 255 ELSE m.needed - 1
           /\ \E k \in Receivers : m.rx[k] = None /\ Give(m, p).rx = [m.rx EXCEPT ![k] = p]
<1> DEFINE k == Min(Starving(m))
<1>1. k \in Receivers /\ m.rx[k] = None
    <2>1. Starving(m) \in SUBSET Nat
        BY DEF Starving, Receivers
    <2>2. k \in Starving(m)
        BY <2>1, LeastNat
    <2> QED
        BY <2>2 DEF Starving
<1>2. \A n \in 0 .. 255 : (n - 1) % 256 = IF n = 0 THEN 255 ELSE n - 1
    OBVIOUS
<1>3. m.needed \in 0 .. 255 /\ m.rx \in [Receivers -> Buffers \cup {None}]
    BY DEF Mem
<1>4. Give(m, p) = [m EXCEPT !.rx[k] = p, !.needed = (m.needed - 1) % 256]
    BY DEF Give
<1> HIDE DEF k
<1> DEFINE r == [m.rx EXCEPT ![k] = p]
           n == (m.needed - 1) % 256
<1>5. r \in [Receivers -> Buffers \cup {None}]
    BY <1>1, <1>3
<1>6. n \in 0 .. 255
    BY <1>2, <1>3
<1>7. /\ Give(m, p) \in Mem /\ Give(m, p).avail = m.avail
      /\ Give(m, p).needed = n /\ Give(m, p).rx = r
    <2>1. Give(m, p) = [m EXCEPT !.rx = r, !.needed = n]
        BY <1>4 DEF Mem
    <2> HIDE DEF r, n
    <2>2. m = [avail |-> m.avail, rx |-> m.rx, needed |-> m.needed] /\ m.avail \in SUBSET Buffers
        BY DEF Mem
    <2>3. Give(m, p) = [avail |-> m.avail, rx |-> r, needed |-> n]
        BY <2>1, <2>2
    <2> QED
        BY <1>5, <1>6, <2>2, <2>3 DEF Mem
<1> QED
    BY <1>1, <1>2, <1>3, <1>7

\* A bank that gets the first free buffer, or starves.
LEMMA ArmMem ==
    ASSUME NEW m \in Mem, NEW k \in Receivers
    PROVE  LET a == Arm(m, k) IN
           /\ a \in Mem
           /\ m.avail = {} =>
                /\ a.avail = {} /\ a.rx = [m.rx EXCEPT ![k] = None]
                /\ a.needed = IF m.needed = 255 THEN 0 ELSE m.needed + 1
           /\ m.avail # {} =>
                /\ a.needed = m.needed
                /\ \E p \in m.avail : a.avail = m.avail \ {p} /\ a.rx = [m.rx EXCEPT ![k] = p]
<1>1. m.avail \in SUBSET Buffers /\ m.needed \in 0 .. 255 /\ m.rx \in [Receivers -> Buffers \cup {None}]
    BY DEF Mem
<1>2. CASE m.avail = {}
    <2>1. \A n \in 0 .. 255 : (n + 1) % 256 = IF n = 255 THEN 0 ELSE n + 1
        OBVIOUS
    <2>2. (m.needed + 1) % 256 \in 0 .. 255
        BY <1>1, <2>1
    <2>3. /\ Starve(m, k) \in Mem /\ Starve(m, k).avail = m.avail
          /\ Starve(m, k).rx = [m.rx EXCEPT ![k] = None]
          /\ Starve(m, k).needed = (m.needed + 1) % 256
        BY <1>1, <2>2 DEF Mem, Starve
    <2>4. Arm(m, k) = Starve(m, k)
        BY <1>2, Zenon DEF Arm
    <2>5. (m.needed + 1) % 256 = IF m.needed = 255 THEN 0 ELSE m.needed + 1
        BY <1>1, <2>1, Zenon
    <2>6. Arm(m, k).needed = IF m.needed = 255 THEN 0 ELSE m.needed + 1
        BY <2>3, <2>4, <2>5
    <2> QED
        BY <1>2, <2>3, <2>4, <2>6
<1>3. CASE m.avail # {}
    <2> DEFINE p == Min(m.avail)
    <2>1. p \in m.avail
        <3>1. m.avail \in SUBSET Nat
            BY <1>1, UsbAssumption DEF Buffers
        <3> QED
            BY <1>3, <3>1, LeastNat
    <2>2. Equip(m, k) = [m EXCEPT !.rx[k] = p, !.avail = @ \ {p}]
        BY DEF Equip
    <2> HIDE DEF p
    <2>3. /\ Equip(m, k) \in Mem /\ Equip(m, k).needed = m.needed
          /\ Equip(m, k).avail = m.avail \ {p}
          /\ Equip(m, k).rx = [m.rx EXCEPT ![k] = p]
        <3> DEFINE r == [m.rx EXCEPT ![k] = p]
                   v == m.avail \ {p}
        <3>1. Equip(m, k) = [avail |-> v, rx |-> r, needed |-> m.needed]
            BY <2>2 DEF Mem
        <3>2. r \in [Receivers -> Buffers \cup {None}] /\ v \in SUBSET Buffers
            BY <1>1, <2>1
        <3> HIDE DEF r, v
        <3>3. /\ Equip(m, k) \in Mem /\ Equip(m, k).needed = m.needed
              /\ Equip(m, k).avail = v /\ Equip(m, k).rx = r
            BY <1>1, <3>1, <3>2 DEF Mem
        <3> QED
            BY <3>3 DEF r, v
    <2>4. Arm(m, k) = Equip(m, k)
        BY <1>3, Zenon DEF Arm
    <2> QED
        BY <1>3, <2>1, <2>3, <2>4
<1> QED
    BY <1>2, <1>3

\* A bank that changes hands: what the receivers have afterwards.
LEMMA ArmedChange ==
    ASSUME NEW m \in Mem, NEW n, NEW k \in Receivers, NEW x \in Buffers \cup {None},
           ArmedOnce(m), x \notin Armed(m), n.rx = [m.rx EXCEPT ![k] = x]
    PROVE  /\ ArmedOnce(n)
           /\ Armed(n) = (Armed(m) \ {m.rx[k]}) \cup ({x} \ {None})
<1>1. m.rx \in [Receivers -> Buffers \cup {None}]
    BY DEF Mem
<1>2. \A j \in Receivers : n.rx[j] = IF j = k THEN x ELSE m.rx[j]
    BY <1>1
<1>3. ArmedOnce(n)
    <2> SUFFICES ASSUME NEW i \in Receivers, NEW j \in Receivers,
                        n.rx[i] = n.rx[j], n.rx[i] # None
                 PROVE  i = j
        BY DEF ArmedOnce
    <2>1. \A l \in Receivers : m.rx[l] = x => x = None
        BY DEF Armed
    <2> QED
        BY <1>2, <2>1 DEF ArmedOnce
<1>4. ASSUME NEW y \in Armed(n) PROVE y \in (Armed(m) \ {m.rx[k]}) \cup ({x} \ {None})
    BY <1>2 DEF Armed, ArmedOnce
<1>5. ASSUME NEW y \in (Armed(m) \ {m.rx[k]}) \cup ({x} \ {None}) PROVE y \in Armed(n)
    <2>1. CASE y \in Armed(m) \ {m.rx[k]}
        <3>1. PICK j \in Receivers : y = m.rx[j] /\ y # None /\ j # k
            BY <2>1 DEF Armed
        <3> QED
            BY <1>2, <3>1 DEF Armed
    <2>2. CASE y \in {x} \ {None}
        BY <1>2, <2>2 DEF Armed
    <2> QED
        BY <2>1, <2>2
<1> QED
    BY <1>3, <1>4, <1>5

\* usb_free loses nothing: the buffer is in the pool afterwards or armed.
LEMMA FreeOwn ==
    ASSUME NEW m \in Mem, NEW p \in Buffers, NEW conf \in BOOLEAN,
           ArmedOnce(m), m.avail \cap Armed(m) = {}, p \notin m.avail \cup Armed(m)
    PROVE  LET f == Free(m, p, conf) IN
           /\ f \in Mem
           /\ ArmedOnce(f) /\ f.avail \cap Armed(f) = {}
           /\ f.avail \cup Armed(f) = m.avail \cup Armed(m) \cup {p}
<1> DEFINE f == Free(m, p, conf)
<1>1. CASE m.needed = 0 \/ ~conf
    <2>1. f = Pooled(m, p)
        BY <1>1, FreePlain
    <2>2. f \in Mem /\ f.avail = m.avail \cup {p} /\ f.rx = m.rx
        BY <2>1, PooledMem
    <2> HIDE DEF f
    <2>3. Armed(f) = Armed(m) /\ ArmedOnce(f)
        BY <2>2 DEF Armed, ArmedOnce
    <2>4. /\ f \in Mem /\ ArmedOnce(f) /\ f.avail \cap Armed(f) = {}
          /\ f.avail \cup Armed(f) = m.avail \cup Armed(m) \cup {p}
        BY <2>2, <2>3
    <2> QED
        BY <2>4 DEF f
<1>2. CASE ~(m.needed = 0 \/ ~conf) /\ Starving(m) # {}
    <2>1. f = Give(m, p)
        BY <1>2, Zenon DEF Free
    <2>2. PICK k \in Receivers : m.rx[k] = None /\ Give(m, p).rx = [m.rx EXCEPT ![k] = p]
        BY <1>2, GiveMem
    <2>3. f \in Mem /\ f.avail = m.avail /\ f.rx = [m.rx EXCEPT ![k] = p]
        BY <1>2, <2>1, <2>2, GiveMem
    <2> HIDE DEF f
    <2>4. ArmedOnce(f) /\ Armed(f) = (Armed(m) \ {m.rx[k]}) \cup ({p} \ {None})
        BY <2>3, ArmedChange
    <2>5. p # None /\ None \notin Armed(m)
        BY UsbAssumption DEF Buffers, Armed
    <2>6. /\ f \in Mem /\ ArmedOnce(f) /\ f.avail \cap Armed(f) = {}
          /\ f.avail \cup Armed(f) = m.avail \cup Armed(m) \cup {p}
        BY <2>2, <2>3, <2>4, <2>5
    <2> QED
        BY <2>6 DEF f
<1>3. CASE ~(m.needed = 0 \/ ~conf) /\ Starving(m) = {}
    <2>1. f = [Pooled(m, p) EXCEPT !.needed = 0]
        BY <1>3, Zenon DEF Free
    <2>2. f \in Mem /\ f.avail = m.avail \cup {p} /\ f.rx = m.rx
        BY <2>1, PooledMem DEF Mem
    <2> HIDE DEF f
    <2>3. Armed(f) = Armed(m) /\ ArmedOnce(f)
        BY <2>2 DEF Armed, ArmedOnce
    <2>4. /\ f \in Mem /\ ArmedOnce(f) /\ f.avail \cap Armed(f) = {}
          /\ f.avail \cup Armed(f) = m.avail \cup Armed(m) \cup {p}
        BY <2>2, <2>3
    <2> QED
        BY <2>4 DEF f
<1> QED
    BY <1>1, <1>2, <1>3, Zenon

\* As long as there are free buffers no bank starves.
LEMMA ArmFull ==
    ASSUME NEW m \in Mem, NEW k \in Receivers, m.avail # {}
    PROVE  \E p \in m.avail : /\ Arm(m, k) \in Mem /\ Arm(m, k).needed = m.needed
                              /\ Arm(m, k).avail = m.avail \ {p}
                              /\ Arm(m, k).rx = [m.rx EXCEPT ![k] = p]
    BY ArmMem

\* Either way, what the bank has afterwards.
LEMMA ArmTakes ==
    ASSUME NEW m \in Mem, NEW k \in Receivers
    PROVE  \E x \in Buffers \cup {None} :
               /\ Arm(m, k).rx = [m.rx EXCEPT ![k] = x]
               /\ Arm(m, k).avail = m.avail \ {x}
               /\ x = None => Arm(m, k).needed = IF m.needed = 255 THEN 0 ELSE m.needed + 1
               /\ x # None => x \in m.avail /\ Arm(m, k).needed = m.needed
<1> DEFINE a == Arm(m, k)
<1>1. m.avail \in SUBSET Buffers /\ None \notin Buffers
    BY UsbAssumption DEF Mem, Buffers
<1>2. CASE m.avail = {}
    <2>1. /\ a.avail = {} /\ a.rx = [m.rx EXCEPT ![k] = None]
          /\ a.needed = IF m.needed = 255 THEN 0 ELSE m.needed + 1
        BY <1>2, ArmMem
    <2> HIDE DEF a
    <2>2. \E x \in Buffers \cup {None} :
              /\ a.rx = [m.rx EXCEPT ![k] = x] /\ a.avail = m.avail \ {x}
              /\ x = None => a.needed = IF m.needed = 255 THEN 0 ELSE m.needed + 1
              /\ x # None => x \in m.avail /\ a.needed = m.needed
        BY <1>2, <2>1
    <2> QED
        BY <2>2 DEF a
<1>3. CASE m.avail # {}
    <2>1. PICK x \in m.avail : /\ a.needed = m.needed /\ a.avail = m.avail \ {x}
                               /\ a.rx = [m.rx EXCEPT ![k] = x]
        BY <1>3, ArmFull
    <2>2. x \in Buffers \cup {None} /\ x # None
        BY <1>1
    <2> HIDE DEF a
    <2>3. \E y \in Buffers \cup {None} :
              /\ a.rx = [m.rx EXCEPT ![k] = y] /\ a.avail = m.avail \ {y}
              /\ y = None => a.needed = IF m.needed = 255 THEN 0 ELSE m.needed + 1
              /\ y # None => y \in m.avail /\ a.needed = m.needed
        BY <2>1, <2>2
    <2> QED
        BY <2>3 DEF a
<1> QED
    BY <1>2, <1>3

\* What raw HID's receivers and the pool have between them.
RawHidAndPool(m) == m.avail \cup ({m.rx[3], m.rx[4]} \ {None})

\* usb_free counts down with the receivers that it serves.
FreedInto(m, p, conf, f) ==
    /\ f \in Mem
    /\ f.rx[1] = m.rx[1] /\ f.rx[2] = m.rx[2]
    /\ NeededBy(f)
    /\ m.needed - f.needed = Starved(m) - Starved(f) \/ Starved(f) = 0
    /\ RawHidAndPool(f) = RawHidAndPool(m) \cup {p}
    /\ ~conf \/ f.needed = IF m.needed \in {0, 255} THEN 0 ELSE m.needed - 1

LEMMA FreeServes ==
    ASSUME NEW m \in Mem, NEW p \in Buffers, NEW conf \in BOOLEAN,
           m.rx[1] # None, m.rx[2] # None, NeededBy(m)
    PROVE  FreedInto(m, p, conf, Free(m, p, conf))
<1> DEFINE f == Free(m, p, conf)
<1>1. /\ m.needed \in 0 .. 255
      /\ m.rx \in [Receivers -> Buffers \cup {None}]
      /\ p # None /\ 1 \in Receivers /\ 2 \in Receivers /\ 3 \in Receivers /\ 4 \in Receivers
    BY UsbAssumption DEF Mem, Buffers, Receivers
<1>2. CASE m.needed = 0 \/ ~conf
    <2>1. f = Pooled(m, p)
        BY <1>2, FreePlain
    <2>2. f \in Mem /\ f.avail = m.avail \cup {p} /\ f.rx = m.rx /\ f.needed = m.needed
        BY <2>1, PooledMem
    <2>3. ~conf \/ m.needed = 0
        BY <1>2
    <2> HIDE DEF f
    <2>4. /\ NeededBy(f) /\ RawHidAndPool(f) = RawHidAndPool(m) \cup {p}
          /\ f.rx[1] = m.rx[1] /\ f.rx[2] = m.rx[2]
          /\ Starved(f) = Starved(m) /\ Starved(m) \in 0 .. 2
        BY <2>2 DEF NeededBy, Starved, RawHidAndPool
    <2>5. m.needed = 0 => f.needed = IF m.needed \in {0, 255} THEN 0 ELSE m.needed - 1
        BY <2>2
    <2>6. m.needed - f.needed = Starved(m) - Starved(f)
        BY <1>1, <2>2, <2>4
    <2> QED
        BY <2>2, <2>3, <2>4, <2>5, <2>6, Zenon DEF f, FreedInto
<1>3. CASE ~(m.needed = 0 \/ ~conf) /\ Starving(m) # {}
    <2>1. f = Give(m, p)
        BY <1>3, Zenon DEF Free
    <2>2. PICK k \in Receivers : m.rx[k] = None /\ Give(m, p).rx = [m.rx EXCEPT ![k] = p]
        BY <1>3, GiveMem
    <2>3. /\ f \in Mem /\ f.avail = m.avail /\ f.rx = [m.rx EXCEPT ![k] = p]
          /\ f.needed = IF m.needed = 0 THEN 255 ELSE m.needed - 1
        BY <1>3, <2>1, <2>2, GiveMem
    <2>4. m.needed # 0
        BY <1>3
    <2>5. k \in {3, 4}
        BY <2>2 DEF Receivers
    <2> HIDE DEF f
    <2>6. f.rx[3] = (IF k = 3 THEN p ELSE m.rx[3]) /\ f.rx[4] = (IF k = 4 THEN p ELSE m.rx[4])
        BY <1>1, <2>3, <2>5
    <2>7. Starved(f) = Starved(m) - 1 /\ Starved(m) \in 1 .. 2
        BY <1>1, <2>2, <2>5, <2>6 DEF Starved
    <2>8. m.needed # 255 /\ m.needed <= Starved(m)
        BY <1>1, <2>7 DEF NeededBy
    <2>9. NeededBy(f) /\ m.needed - f.needed = Starved(m) - Starved(f)
        BY <1>1, <2>3, <2>4, <2>7, <2>8 DEF NeededBy
    <2>10. RawHidAndPool(f) = RawHidAndPool(m) \cup {p}
        BY <1>1, <2>2, <2>3, <2>5, <2>6 DEF RawHidAndPool
    <2>11. f.needed = IF m.needed \in {0, 255} THEN 0 ELSE m.needed - 1
        BY <2>3, <2>4, <2>8
    <2>12. f.rx[1] = m.rx[1] /\ f.rx[2] = m.rx[2]
        BY <1>1, <2>3, <2>5
    <2> QED
        BY <2>3, <2>9, <2>10, <2>11, <2>12 DEF f, FreedInto
<1>4. CASE ~(m.needed = 0 \/ ~conf) /\ Starving(m) = {}
    <2>1. f = [Pooled(m, p) EXCEPT !.needed = 0]
        BY <1>4, Zenon DEF Free
    <2>2. f \in Mem /\ f.avail = m.avail \cup {p} /\ f.rx = m.rx /\ f.needed = 0
        BY <2>1, PooledMem DEF Mem
    <2>3. m.rx[3] # None /\ m.rx[4] # None
        BY <1>1, <1>4 DEF Starving
    <2>4. m.needed # 0
        BY <1>4
    <2>5. m.needed = 255
        BY <1>1, <2>3, <2>4 DEF NeededBy, Starved
    <2> HIDE DEF f
    <2>6. /\ NeededBy(f) /\ RawHidAndPool(f) = RawHidAndPool(m) \cup {p}
          /\ Starved(f) = 0
        BY <2>2, <2>3 DEF NeededBy, Starved, RawHidAndPool
    <2>7. f.needed = IF m.needed \in {0, 255} THEN 0 ELSE m.needed - 1
        BY <2>2, <2>5
    <2>8. f.rx[1] = m.rx[1] /\ f.rx[2] = m.rx[2]
        BY <2>2
    <2> QED
        BY <2>2, <2>6, <2>7, <2>8 DEF f, FreedInto
<1> QED
    BY <1>2, <1>3, <1>4, Zenon

\* SET_CONFIGURATION gives all buffers that main does not hold to the pool and,
\* of those, one to every receiver.
LEMMA ReconfiguredMem ==
    ASSUME TypeOK, UsbInv, NEW conf \in BOOLEAN
    PROVE  LET n == Reconfigured(conf) IN
           /\ n \in Mem
           /\ ArmedOnce(n) /\ n.avail \cap Armed(n) = {}
           /\ n.avail \cup Armed(n) = Buffers \ Held
           /\ n.needed = 0
           /\ \A k \in Receivers : n.rx[k] # None
<1> DEFINE receive(m, k) == Release(m, m.rx[k], conf)
           plain(m) == m \in Mem /\ (m.needed = 0 \/ ~conf)
           one == receive(mem, 1)
           serial == receive(one, 2)
           even == Release(serial, txd[0], conf)
           transmit == Release(even, txd[1], conf)
           three == receive(transmit, 3)
           rawhid == receive(three, 4)
           queued == FreeAll(rawhid, txq \o rxq, conf)
           m0 == [queued EXCEPT !.needed = 0]
           m1 == Arm(m0, 1)
           m2 == Arm(m1, 2)
           m3 == Arm(m2, 3)
           m4 == Arm(m3, 4)
<1>1. Reconfigured(conf) = m4
    BY DEF Reconfigured
<1>2. /\ mem \in Mem /\ mem.avail \in SUBSET Buffers
      /\ mem.rx \in [Receivers -> Buffers \cup {None}]
      /\ txd[0] \in Buffers \cup {None} /\ txd[1] \in Buffers \cup {None}
      /\ rxq \in Seq(Buffers) /\ txq \in Seq(Buffers)
      /\ held \in Buffers \cup {None}
      /\ None \notin Buffers
      /\ mem.needed \in 0 .. 255
    BY UsbAssumption DEF TypeOK, Mem, Banks, Buffers
\* A release when no receiver is said to be in need.
<1>3. ASSUME NEW m, plain(m), NEW p \in Buffers \cup {None}
      PROVE  LET f == Release(m, p, conf) IN
             plain(f) /\ f.rx = m.rx /\ f.avail = m.avail \cup ({p} \ {None})
    <2>1. CASE p = None
        BY <1>3, <2>1 DEF Release
    <2>2. CASE p # None
        <3>1. p \in Buffers
            BY <2>2
        <3>2. Release(m, p, conf) = Pooled(m, p)
            BY <1>3, <2>2, <3>1, FreePlain, Zenon DEF Release
        <3>3. /\ Pooled(m, p) \in Mem /\ Pooled(m, p).rx = m.rx
              /\ Pooled(m, p).avail = m.avail \cup {p} /\ Pooled(m, p).needed = m.needed
            BY <1>3, <3>1, PooledMem
        <3>4. plain(Pooled(m, p))
            BY <1>3, <3>3, Zenon
        <3> QED
            BY <2>2, <3>2, <3>3, <3>4
    <2> QED
        BY <2>1, <2>2
<1>4. plain(serial) /\ RawHidAndPool(serial) = mem.avail \cup Armed(mem)
    <2>1. CASE Unconfigured /\ \A k \in Receivers : mem.rx[k] = None
        <3>1. serial = mem
            BY <2>1 DEF Release, Receivers
        <3>2. mem.needed = 0
            BY <2>1 DEF Unconfigured
        <3>3. RawHidAndPool(mem) = mem.avail \cup Armed(mem)
            BY <2>1 DEF RawHidAndPool, Armed, Receivers
        <3> QED
            BY <1>2, <3>1, <3>2, <3>3, Zenon
    <2>2. CASE mem.rx[1] # None /\ mem.rx[2] # None
        <3>1. mem.rx[1] \in Buffers /\ mem.rx[2] \in Buffers
            BY <1>2, <2>2 DEF Receivers
        <3>2. NeededBy(mem)
            BY DEF UsbInv, NeededInv
        <3>3. one = Free(mem, mem.rx[1], conf)
            BY <2>2, Zenon DEF Release
        <3>4. /\ one \in Mem /\ one.rx[1] = mem.rx[1] /\ one.rx[2] = mem.rx[2]
              /\ NeededBy(one)
              /\ RawHidAndPool(one) = RawHidAndPool(mem) \cup {mem.rx[1]}
              /\ ~conf \/ one.needed = IF mem.needed \in {0, 255} THEN 0 ELSE mem.needed - 1
            <4> HIDE DEF one
            <4>1. FreedInto(mem, mem.rx[1], conf, one)
                BY <1>2, <2>2, <3>1, <3>2, <3>3, FreeServes
            <4> QED
                BY <4>1, Zenon DEF FreedInto
        <3>5. serial = Free(one, mem.rx[2], conf)
            <4> HIDE DEF one
            <4> QED
                BY <2>2, <3>4, Zenon DEF Release
        <3> HIDE DEF one, serial
        <3>6. /\ serial \in Mem
              /\ RawHidAndPool(serial) = RawHidAndPool(one) \cup {mem.rx[2]}
              /\ ~conf \/ serial.needed = IF one.needed \in {0, 255} THEN 0 ELSE one.needed - 1
            <4>1. FreedInto(one, mem.rx[2], conf, serial)
                BY <2>2, <3>1, <3>4, <3>5, FreeServes
            <4> QED
                BY <4>1, Zenon DEF FreedInto
        <3>7. mem.needed \in {0, 1, 2, 255}
            <4>1. mem.needed \in 0 .. 255 /\ Starved(mem) \in 0 .. 2
                BY <1>2 DEF Starved
            <4> QED
                BY <3>2, <4>1 DEF NeededBy
        <3>8. ~conf \/ serial.needed = 0
            <4>1. ASSUME one.needed = IF mem.needed \in {0, 255} THEN 0 ELSE mem.needed - 1,
                         serial.needed = IF one.needed \in {0, 255} THEN 0 ELSE one.needed - 1
                  PROVE  serial.needed = 0
                BY <3>7, <4>1
            <4> QED
                BY <3>4, <3>6, <4>1, Zenon
        <3>9. Armed(mem) = {mem.rx[1], mem.rx[2]} \cup ({mem.rx[3], mem.rx[4]} \ {None})
            BY <1>2, <2>2 DEF Armed, Receivers
        <3>10. RawHidAndPool(serial) = mem.avail \cup Armed(mem)
            BY <3>4, <3>6, <3>9 DEF RawHidAndPool
        <3>11. plain(serial)
            BY <3>6, <3>8, Zenon
        <3> QED
            BY <3>10, <3>11, Zenon
    <2> QED
        BY <2>1, <2>2 DEF UsbInv, SerialInv
<1> HIDE DEF one, serial
<1>5. /\ plain(transmit) /\ transmit.rx = serial.rx
      /\ transmit.avail = serial.avail \cup Banked
    <2>1. plain(even) /\ even.rx = serial.rx /\ even.avail = serial.avail \cup ({txd[0]} \ {None})
        BY <1>2, <1>3, <1>4
    <2> HIDE DEF even
    <2>2. /\ plain(transmit) /\ transmit.rx = even.rx
          /\ transmit.avail = even.avail \cup ({txd[1]} \ {None})
        BY <1>2, <1>3, <2>1
    <2>3. Banked = ({txd[0]} \ {None}) \cup ({txd[1]} \ {None})
        BY DEF Banked, Banks
    <2> QED
        BY <2>1, <2>2, <2>3
<1> HIDE DEF even, transmit
<1>6. plain(rawhid) /\ rawhid.avail = RawHidAndPool(serial) \cup Banked
    <2>1. transmit.rx \in [Receivers -> Buffers \cup {None}] /\ 3 \in Receivers /\ 4 \in Receivers
        BY <1>5 DEF Mem, Receivers
    <2>2. /\ plain(three) /\ three.rx = transmit.rx
          /\ three.avail = transmit.avail \cup ({transmit.rx[3]} \ {None})
        BY <1>3, <1>5, <2>1
    <2> HIDE DEF three
    <2>3. /\ plain(rawhid)
          /\ rawhid.avail = three.avail \cup ({transmit.rx[4]} \ {None})
        BY <1>3, <2>1, <2>2
    <2> HIDE DEF rawhid
    <2> QED
        BY <1>5, <2>2, <2>3 DEF RawHidAndPool
<1> HIDE DEF three, rawhid
<1>7. queued \in Mem /\ queued.avail = Buffers \ Held
    <2>1. txq \o rxq \in Seq(Buffers) /\ Range(txq \o rxq) = Range(txq) \cup Range(rxq)
        BY <1>2, ConcatProperties, RangeConcatenation
    <2>2. queued = [rawhid EXCEPT !.avail = @ \cup Range(txq \o rxq)]
        BY <1>6, <2>1, FreeAllPlain
    <2>3. Range(txq) \subseteq Buffers /\ Range(rxq) \subseteq Buffers
        BY <1>2, RangeOfSeq
    <2> HIDE DEF queued
    <2>4. /\ queued \in Mem
          /\ queued.avail = mem.avail \cup Armed(mem) \cup Banked \cup Range(txq) \cup Range(rxq)
        <3>1. queued.avail = rawhid.avail \cup Range(txq \o rxq) /\ queued \in Mem
            BY <1>6, <2>1, <2>2, <2>3 DEF Mem
        <3> QED
            BY <1>4, <1>6, <2>1, <3>1
    <2>5. held \notin mem.avail \cup Armed(mem) \cup Range(rxq) \cup Banked \cup Range(txq)
        BY DEF UsbInv, OwnInv, ApartInv
    <2>6. Buffers = mem.avail \cup Armed(mem) \cup Range(rxq) \cup Banked \cup Range(txq) \cup Held
        BY DEF UsbInv, OwnInv, AllInv
    <2> QED
        BY <2>4, <2>5, <2>6 DEF Held
<1> HIDE DEF queued
<1>8. m0 \in Mem /\ m0.avail = Buffers \ Held /\ m0.needed = 0
    BY <1>7 DEF Mem
<1> HIDE DEF m0
<1>9. \A a, b, c : \E x \in Buffers : x \notin {held, a, b, c}
    <2> SUFFICES ASSUME NEW a, NEW b, NEW c PROVE \E x \in Buffers : x \notin {held, a, b, c}
        OBVIOUS
    <2>1. 0 \in Buffers /\ 1 \in Buffers /\ 2 \in Buffers /\ 3 \in Buffers /\ 4 \in Buffers
        BY UsbAssumption DEF Buffers
    <2> QED
        BY <2>1
<1>10. PICK a \in m0.avail : /\ m1 \in Mem /\ m1.needed = 0 /\ m1.avail = m0.avail \ {a}
                             /\ m1.rx = [m0.rx EXCEPT ![1] = a]
    <2>1. m0.avail # {} /\ 1 \in Receivers
        BY <1>8, <1>9 DEF Held, Receivers
    <2>2. \E p \in m0.avail : /\ Arm(m0, 1) \in Mem /\ Arm(m0, 1).needed = m0.needed
                                /\ Arm(m0, 1).avail = m0.avail \ {p}
                                /\ Arm(m0, 1).rx = [m0.rx EXCEPT ![1] = p]
        <3>1. m0 \in Mem
            BY <1>8
        <3> QED
            BY <2>1, <3>1, ArmFull, Zenon
    <2> QED
        BY <1>8, <2>2
<1> HIDE DEF m1
<1>11. PICK b \in m1.avail : /\ m2 \in Mem /\ m2.needed = 0 /\ m2.avail = m1.avail \ {b}
                             /\ m2.rx = [m1.rx EXCEPT ![2] = b]
    <2>1. m1.avail # {} /\ 2 \in Receivers
        BY <1>8, <1>9, <1>10 DEF Held, Receivers
    <2>2. \E p \in m1.avail : /\ Arm(m1, 2) \in Mem /\ Arm(m1, 2).needed = m1.needed
                                /\ Arm(m1, 2).avail = m1.avail \ {p}
                                /\ Arm(m1, 2).rx = [m1.rx EXCEPT ![2] = p]
        <3>1. m1 \in Mem
            BY <1>10
        <3> QED
            BY <2>1, <3>1, ArmFull, Zenon
    <2> QED
        BY <1>10, <2>2
<1> HIDE DEF m2
<1>12. PICK c \in m2.avail : /\ m3 \in Mem /\ m3.needed = 0 /\ m3.avail = m2.avail \ {c}
                             /\ m3.rx = [m2.rx EXCEPT ![3] = c]
    <2>1. m2.avail # {} /\ 3 \in Receivers
        BY <1>8, <1>9, <1>10, <1>11 DEF Held, Receivers
    <2>2. \E p \in m2.avail : /\ Arm(m2, 3) \in Mem /\ Arm(m2, 3).needed = m2.needed
                                /\ Arm(m2, 3).avail = m2.avail \ {p}
                                /\ Arm(m2, 3).rx = [m2.rx EXCEPT ![3] = p]
        <3>1. m2 \in Mem
            BY <1>11
        <3> QED
            BY <2>1, <3>1, ArmFull, Zenon
    <2> QED
        BY <1>11, <2>2
<1> HIDE DEF m3
<1>13. PICK d \in m3.avail : /\ m4 \in Mem /\ m4.needed = 0 /\ m4.avail = m3.avail \ {d}
                             /\ m4.rx = [m3.rx EXCEPT ![4] = d]
    <2>1. m3.avail # {} /\ 4 \in Receivers
        BY <1>8, <1>9, <1>10, <1>11, <1>12 DEF Held, Receivers
    <2>2. \E p \in m3.avail : /\ Arm(m3, 4) \in Mem /\ Arm(m3, 4).needed = m3.needed
                                /\ Arm(m3, 4).avail = m3.avail \ {p}
                                /\ Arm(m3, 4).rx = [m3.rx EXCEPT ![4] = p]
        <3>1. m3 \in Mem
            BY <1>12
        <3> QED
            BY <2>1, <3>1, ArmFull, Zenon
    <2> QED
        BY <1>12, <2>2
<1> HIDE DEF m4
<1>14. m4.rx[1] = a /\ m4.rx[2] = b /\ m4.rx[3] = c /\ m4.rx[4] = d
    BY <1>8, <1>10, <1>11, <1>12, <1>13 DEF Mem, Receivers
<1>15. {a, b, c, d} \subseteq Buffers /\ None \notin Buffers
    BY <1>2, <1>8, <1>10, <1>11, <1>12, <1>13
<1>16. a # b /\ a # c /\ a # d /\ b # c /\ b # d /\ c # d
    BY <1>10, <1>11, <1>12, <1>13
<1>17. Armed(m4) = {a, b, c, d}
    BY <1>14, <1>15 DEF Armed, Receivers
<1>18. ArmedOnce(m4) /\ \A k \in Receivers : m4.rx[k] # None
    BY <1>14, <1>15, <1>16 DEF ArmedOnce, Receivers
<1>19. m4.avail \cap Armed(m4) = {} /\ m4.avail \cup Armed(m4) = Buffers \ Held
    BY <1>8, <1>10, <1>11, <1>12, <1>13, <1>17
<1> QED
    BY <1>1, <1>13, <1>18, <1>19

-----------------------------------------------------------------------------
(***************************************************************************)
(* What every action does to the owners, and to the counts that the next   *)
(* section needs.                                                          *)
(***************************************************************************)
\* What the proofs use of the types and of the owners.
LEMMA Typed ==
    ASSUME TypeOK, UsbInv
    PROVE  /\ mem \in Mem /\ mem.avail \in SUBSET Buffers /\ mem.needed \in 0 .. 255
           /\ mem.rx \in [Receivers -> Buffers \cup {None}]
           /\ rxq \in Seq(Buffers) /\ txq \in Seq(Buffers) /\ order \in Seq(Buffers)
           /\ txd \in [Banks -> Buffers \cup {None}]
           /\ txd[0] \in Buffers \cup {None} /\ txd[1] \in Buffers \cup {None}
           /\ held \in Buffers \cup {None} /\ configured \in BOOLEAN
           /\ None \notin Buffers
           /\ OwnInv
    BY UsbAssumption DEF TypeOK, UsbInv, Mem, Banks, Buffers

\* A packet that is received goes from its bank to the queue.
LEMMA RxTokenOwns ==
    ASSUME TypeOK, UsbInv, RxToken
    PROVE  /\ TypeOK' /\ OwnInv'
           /\ mem'.rx[1] = mem.rx[1] /\ mem'.rx[2] = mem.rx[2]
           /\ NeededBy(mem') /\ (mem.needed # 0 \/ Starved(mem) # 2
                                     => mem'.needed # 0 \/ Starved(mem') # 2)
<1> DEFINE k == RawHid(next_rx)
           p == mem.rx[k]
<1>1. /\ k \in {3, 4} /\ k \in Receivers /\ p \in Buffers /\ p # None
      /\ p \in Armed(mem) /\ mem' = Arm(mem, k) /\ rxq' = Append(rxq, p)
    <2>1. k \in {3, 4} /\ k \in Receivers
        BY DEF TypeOK, RawHid, Banks, Receivers
    <2>2. p # None /\ mem' = Arm(mem, k) /\ rxq' = Append(rxq, p)
        BY DEF RxToken
    <2>3. p \in Buffers /\ p \in Armed(mem)
        BY <2>1, <2>2, Typed DEF Armed
    <2> QED
        BY <2>1, <2>2, <2>3
<1> HIDE DEF k, p
<1>2. mem' \in Mem
    BY <1>1, Typed, ArmMem
<1>3. PICK x \in Buffers \cup {None} :
          /\ mem'.rx = [mem.rx EXCEPT ![k] = x]
          /\ mem'.avail = mem.avail \ {x}
          /\ x = None => mem'.needed = IF mem.needed = 255 THEN 0 ELSE mem.needed + 1
          /\ x # None => x \in mem.avail /\ mem'.needed = mem.needed
    <2>1. mem \in Mem
        BY Typed
    <2>2. \E x \in Buffers \cup {None} :
              /\ Arm(mem, k).rx = [mem.rx EXCEPT ![k] = x]
              /\ Arm(mem, k).avail = mem.avail \ {x}
              /\ x = None => Arm(mem, k).needed = IF mem.needed = 255 THEN 0 ELSE mem.needed + 1
              /\ x # None => x \in mem.avail /\ Arm(mem, k).needed = mem.needed
        <3>1. k \in Receivers
            BY <1>1
        <3> QED
            BY <2>1, <3>1, ArmTakes, Zenon
    <2>3. mem' = Arm(mem, k)
        BY <1>1
    <2> QED
        BY <2>2, <2>3, Zenon
<1>4. ArmedOnce(mem') /\ Armed(mem') = (Armed(mem) \ {p}) \cup ({x} \ {None})
    <2>1. x \notin Armed(mem) /\ ArmedOnce(mem)
        BY <1>3, Typed DEF OwnInv, OnceInv, ApartInv, Armed
    <2>2. mem \in Mem
        BY Typed
    <2>3. Armed(mem') = (Armed(mem) \ {mem.rx[k]}) \cup ({x} \ {None}) /\ ArmedOnce(mem')
        BY <1>1, <1>3, <2>1, <2>2, ArmedChange
    <2> QED
        BY <2>3 DEF p
<1>5. rxq' \in Seq(Buffers) /\ Range(rxq') = Range(rxq) \cup {p} /\ Once(rxq')
    BY <1>1, Typed, AppendOnce DEF OwnInv, OnceInv, ApartInv
<1>6. OwnInv'
    <2>1. UNCHANGED <<txd, txq, held, pc>> /\ Banked' = Banked /\ Held' = Held
        BY DEF RxToken, transmitter, main, Banked, Held
    <2>2. OnceInv'
        BY <1>4, <1>5, <2>1, Typed DEF OwnInv, OnceInv
    <2>3. ApartInv'
        BY <1>1, <1>3, <1>4, <1>5, <2>1, Typed DEF OwnInv, ApartInv
    <2>4. AllInv'
        BY <1>1, <1>3, <1>4, <1>5, <2>1, Typed DEF OwnInv, AllInv, ApartInv
    <2>5. HeldInv'
        BY <2>1, Typed DEF OwnInv, HeldInv
    <2> QED
        BY <2>2, <2>3, <2>4, <2>5 DEF OwnInv
<1>7. TypeOK'
    <2>1. /\ sent' \in 0 .. MaxSent /\ next_rx' \in Banks
          /\ buf' \in [Buffers -> 0 .. MaxSent \cup 0 .. MaxReplies]
        <3>1. sent' = sent + 1 /\ next_rx' = 1 - next_rx /\ sent < MaxSent
              /\ buf' = [buf EXCEPT ![p] = sent + 1]
            BY DEF RxToken, k, p
        <3>2. sent + 1 \in 0 .. MaxSent /\ 1 - next_rx \in Banks
            BY <3>1, UsbAssumption DEF TypeOK, Banks
        <3>3. buf \in [Buffers -> 0 .. MaxSent \cup 0 .. MaxReplies]
            BY DEF TypeOK
        <3>4. [buf EXCEPT ![p] = sent + 1] \in [Buffers -> 0 .. MaxSent \cup 0 .. MaxReplies]
            BY <3>2, <3>3
        <3> QED
            BY <3>1, <3>2, <3>4
    <2> QED
        BY <1>2, <1>5, <2>1 DEF TypeOK, RxToken, transmitter, main, Mem
<1>8. mem'.rx[1] = mem.rx[1] /\ mem'.rx[2] = mem.rx[2]
    BY <1>1, <1>3, Typed DEF Receivers
<1>9. /\ NeededBy(mem')
      /\ mem.needed # 0 \/ Starved(mem) # 2 => mem'.needed # 0 \/ Starved(mem') # 2
    <2>1. /\ mem'.rx[3] = (IF k = 3 THEN x ELSE mem.rx[3])
          /\ mem'.rx[4] = (IF k = 4 THEN x ELSE mem.rx[4])
        BY <1>1, <1>3, Typed DEF Receivers
    <2>2. Starved(mem) \in 0 .. 1 /\ Starved(mem') = Starved(mem) + IF x = None THEN 1 ELSE 0
        BY <1>1, <2>1 DEF Starved, p
    <2>3. NeededBy(mem) /\ mem.needed \in 0 .. 255
        BY Typed DEF UsbInv, NeededInv
    <2> QED
        BY <1>3, <2>2, <2>3 DEF NeededBy
<1> QED
    BY <1>6, <1>7, <1>8, <1>9

\* What is taken out of the queue of replies when the host fetches one.
Fetched == CHOOSE i \in DOMAIN order : order[i] = txd[next_tx]

LEMMA FetchedReply ==
    ASSUME TypeOK, UsbInv, txd[next_tx] # None
    PROVE  /\ next_tx \in {0, 1} /\ txd[next_tx] \in Buffers /\ txd[next_tx] \in Banked
           /\ Fetched \in DOMAIN order /\ order[Fetched] = txd[next_tx]
<1>1. next_tx \in {0, 1} /\ txd[next_tx] \in Buffers
    BY DEF TypeOK, Banks
<1>2. txd[next_tx] \in Banked
    BY <1>1 DEF Banked, Banks
<1>3. txd[next_tx] \in Range(order)
    BY <1>2 DEF UsbInv, OrderInv
<1>4. \E i \in DOMAIN order : order[i] = txd[next_tx]
    BY <1>3 DEF Range
<1> QED
    BY <1>1, <1>2, <1>4 DEF Fetched

\* A reply that is fetched frees its buffer, and the next one moves up.
LEMMA TxTokenOwns ==
    ASSUME TypeOK, UsbInv, TxToken
    PROVE  /\ TypeOK' /\ OwnInv'
           /\ mem'.rx[1] = mem.rx[1] /\ mem'.rx[2] = mem.rx[2]
           /\ NeededBy(mem') /\ (mem.needed # 0 \/ Starved(mem) # 2
                                     => mem'.needed # 0 \/ Starved(mem') # 2)
           /\ Banked' \cup Range(txq') = (Banked \cup Range(txq)) \ {txd[next_tx]}
<1> DEFINE b == next_tx
           p == txd[b]
<1>1. /\ b \in {0, 1} /\ p \in Buffers /\ p # None /\ p \in Banked
      /\ Fetched \in DOMAIN order
    BY FetchedReply DEF TxToken
<1>2. /\ configured /\ mem' = Free(mem, p, configured)
      /\ order' = RemoveAt(order, Fetched) /\ next_tx' = 1 - b
    BY DEF TxToken, Fetched
<1>3. mem \in Mem /\ configured \in BOOLEAN /\ order \in Seq(Buffers) /\ None \notin Buffers
    BY Typed
<1>4. ArmedOnce(mem) /\ mem.avail \cap Armed(mem) = {} /\ p \notin mem.avail \cup Armed(mem)
    BY <1>1, Typed DEF OwnInv, OnceInv, ApartInv
<1>5. /\ mem' \in Mem
      /\ ArmedOnce(mem') /\ mem'.avail \cap Armed(mem') = {}
      /\ mem'.avail \cup Armed(mem') = mem.avail \cup Armed(mem) \cup {p}
    <2> HIDE DEF b, p
    <2> QED
        BY <1>1, <1>2, <1>3, <1>4, FreeOwn
<1>6. FreedInto(mem, p, configured, mem')
    <2>1. mem.rx[1] # None /\ mem.rx[2] # None /\ NeededBy(mem)
        BY <1>2, Zenon DEF UsbInv, SerialInv, Unconfigured, NeededInv
    <2> HIDE DEF b, p
    <2> QED
        BY <1>1, <1>2, <1>3, <2>1, FreeServes
<1>7. order' \in Seq(Buffers)
    BY <1>1, <1>2, <1>3, RemoveOnce
<1>8. /\ txd' \in [Banks -> Buffers \cup {None}] /\ (txd'[0] = txd'[1] => txd'[0] = None)
      /\ txq' \in Seq(Buffers) /\ Once(txq') /\ Len(txq') <= TxPacketLimit
      /\ Banked' \cup Range(txq') = (Banked \cup Range(txq)) \ {p}
      /\ Banked' \cap Range(txq') = {}
    <2>1. /\ txd \in [Banks -> Buffers \cup {None}] /\ txq \in Seq(Buffers)
          /\ Once(txq) /\ (txd[0] = txd[1] => txd[0] = None)
          /\ Banked \cap Range(txq) = {} /\ Len(txq) <= TxPacketLimit
        BY Typed DEF OwnInv, OnceInv, ApartInv, TypeOK
    <2>2. CASE txq # <<>> /\ txd' = [txd EXCEPT ![b] = Head(txq)] /\ txq' = Tail(txq)
        <3>1. /\ Head(txq) \in Buffers /\ Tail(txq) \in Seq(Buffers)
              /\ Head(txq) \in Range(txq)
              /\ Range(Tail(txq)) = Range(txq) \ {Head(txq)}
              /\ Once(Tail(txq))
            BY <2>1, <2>2, TailOnce
        <3>2. Len(Tail(txq)) = Len(txq) - 1 /\ Len(txq) \in Nat
            BY <2>1, <2>2, HeadTailProperties, LenProperties
        <3>3. txd'[b] = Head(txq) /\ txd'[1 - b] = txd[1 - b]
            BY <1>1, <2>1, <2>2 DEF Banks
        <3>4. txd'[1 - b] # Head(txq)
            BY <1>1, <1>3, <2>1, <3>1, <3>3 DEF Banked, Banks
        <3>5. Banked = {p} \cup ({txd[1 - b]} \ {None}) /\ Banked' = {Head(txq)} \cup ({txd[1 - b]} \ {None})
            BY <1>1, <1>3, <3>1, <3>3 DEF Banked, Banks
        <3>6. p # txd[1 - b]
            BY <1>1, <2>1
        <3> QED
            BY <1>1, <2>1, <2>2, <3>1, <3>2, <3>3, <3>4, <3>5, <3>6, UsbAssumption DEF Banks
    <2>3. CASE txq = <<>> /\ txd' = [txd EXCEPT ![b] = None] /\ txq' = txq
        <3>1. txd'[b] = None /\ txd'[1 - b] = txd[1 - b]
            BY <1>1, <2>1, <2>3 DEF Banks
        <3>2. Banked = {p} \cup ({txd[1 - b]} \ {None}) /\ Banked' = {txd[1 - b]} \ {None}
            BY <1>1, <1>3, <3>1 DEF Banked, Banks
        <3>3. p # txd[1 - b]
            BY <1>1, <2>1
        <3> QED
            BY <1>1, <2>1, <2>3, <3>1, <3>2, <3>3 DEF Banks
    <2> QED
        BY <2>2, <2>3 DEF TxToken
<1>9. tx_state' \in [busy : 0 .. 2, first : Banks]
    <2>1. tx_state \in [busy : 0 .. 2, first : Banks]
        BY DEF TypeOK
    <2>2. CASE tx_state' = [tx_state EXCEPT !.busy = IF @ < 2 THEN @ + 1 ELSE @]
        BY <2>1, <2>2
    <2>3. CASE tx_state' = CASE tx_state.busy = 0 -> tx_state
                             [] tx_state.busy = 1 -> [busy |-> 0, first |-> 1 - tx_state.first]
                             [] tx_state.busy = 2 -> [busy |-> 1, first |-> 1 - b]
        <3>1. CASE tx_state.busy = 0
            BY <2>1, <2>3, <3>1
        <3>2. CASE tx_state.busy = 1
            BY <2>1, <2>3, <3>2 DEF Banks
        <3>3. CASE tx_state.busy = 2
            BY <1>1, <2>1, <2>3, <3>3 DEF Banks
        <3> QED
            BY <2>1, <3>1, <3>2, <3>3
    <2> QED
        BY <2>2, <2>3 DEF TxToken
<1>10. UNCHANGED <<configured, resets, rxq, buf, next_rx, sent, pc, held, replied>>
    BY DEF TxToken, main
<1>11. TypeOK'
    <2>1. next_tx' \in Banks
        BY <1>1, <1>2 DEF Banks
    <2> QED
        BY <1>5, <1>7, <1>8, <1>9, <1>10, <2>1 DEF TypeOK, Mem
<1>12. OwnInv'
    <2> HIDE DEF p, b
    <2>1. Held' = Held
        BY <1>10 DEF Held
    <2>2. OnceInv'
        BY <1>5, <1>8, <1>10, Typed DEF OwnInv, OnceInv
    <2>3. ApartInv'
        <3>1. ApartInv
            BY Typed DEF OwnInv
        <3>2. p \notin Range(rxq) /\ p # held
            BY <1>1, <3>1 DEF ApartInv
        <3>3. /\ (mem'.avail \cup Armed(mem')) \cap Range(rxq) = {}
              /\ (mem'.avail \cup Armed(mem') \cup Range(rxq)) \cap (Banked' \cup Range(txq')) = {}
              /\ held \notin mem'.avail \cup Armed(mem') \cup Range(rxq)
                             \cup (Banked' \cup Range(txq'))
            BY <1>5, <1>8, <3>1, <3>2 DEF ApartInv
        <3> QED
            BY <1>5, <1>8, <1>10, <3>3 DEF ApartInv
    <2>4. AllInv'
        BY <1>1, <1>5, <1>8, <1>10, <2>1, Typed DEF OwnInv, AllInv
    <2>5. HeldInv'
        BY <1>10, Typed DEF OwnInv, HeldInv
    <2> QED
        BY <2>2, <2>3, <2>4, <2>5 DEF OwnInv
<1>13. /\ mem'.rx[1] = mem.rx[1] /\ mem'.rx[2] = mem.rx[2]
       /\ NeededBy(mem')
       /\ mem.needed - mem'.needed = Starved(mem) - Starved(mem') \/ Starved(mem') = 0
    <2> HIDE DEF p, b
    <2> QED
        BY <1>6, Zenon DEF FreedInto
<1>14. mem.needed # 0 \/ Starved(mem) # 2 => mem'.needed # 0 \/ Starved(mem') # 2
    <2>1. /\ mem.needed \in 0 .. 255 /\ mem'.needed \in 0 .. 255
          /\ Starved(mem) \in 0 .. 2 /\ Starved(mem') \in 0 .. 2
        BY <1>3, <1>5 DEF Mem, Starved
    <2> QED
        BY <1>13, <2>1
<1> QED
    BY <1>8, <1>11, <1>12, <1>13, <1>14

\* A configuration leaves a buffer with every receiver, and none in a queue.
LEMMA SetConfigurationOwns ==
    ASSUME TypeOK, UsbInv, SetConfiguration
    PROVE  /\ TypeOK' /\ OwnInv'
           /\ \A k \in Receivers : mem'.rx[k] # None
           /\ NeededBy(mem') /\ Starved(mem') = 0
<1>1. PICK conf \in BOOLEAN : configured' = conf /\ mem' = Reconfigured(conf)
    BY DEF SetConfiguration
<1>2. /\ mem' \in Mem
      /\ ArmedOnce(mem') /\ mem'.avail \cap Armed(mem') = {}
      /\ mem'.avail \cup Armed(mem') = Buffers \ Held
      /\ mem'.needed = 0
      /\ \A k \in Receivers : mem'.rx[k] # None
    BY <1>1, ReconfiguredMem
<1>3. /\ rxq' = <<>> /\ txq' = <<>> /\ order' = <<>>
      /\ txd' = [b \in Banks |-> None]
      /\ UNCHANGED <<buf, sent, pc, held, replied>>
    BY DEF SetConfiguration, main
<1>4. Range(rxq') = {} /\ Range(txq') = {} /\ Banked' = {} /\ Once(rxq') /\ Once(txq')
    BY <1>3 DEF Range, Banked, Once
<1>5. OwnInv'
    <2>1. None \notin Buffers /\ held \in Buffers \cup {None} /\ HeldInv
        BY Typed DEF OwnInv
    <2>2. OnceInv'
        BY <1>2, <1>3, <1>4 DEF OnceInv, Banks
    <2>3. ApartInv'
        BY <1>2, <1>3, <1>4, <2>1 DEF ApartInv, Held
    <2>4. AllInv'
        BY <1>2, <1>3, <1>4, <2>1 DEF AllInv, Held
    <2>5. HeldInv'
        BY <1>3, <2>1 DEF HeldInv
    <2> QED
        BY <2>2, <2>3, <2>4, <2>5 DEF OwnInv
<1>6. TypeOK'
    <2>1. resets' \in 0 .. MaxResets
        BY UsbAssumption DEF SetConfiguration, TypeOK
    <2>2. tx_state' \in [busy : 0 .. 2, first : Banks]
        BY DEF SetConfiguration, TypeOK, Banks
    <2>3. next_rx' \in Banks /\ next_tx' \in Banks
        BY DEF SetConfiguration, TypeOK, Banks, EVEN
    <2>4. txd' \in [Banks -> Buffers \cup {None}]
        BY <1>3
    <2>5. /\ rxq' \in Seq(Buffers) /\ txq' \in Seq(Buffers) /\ order' \in Seq(Buffers)
          /\ Len(txq') <= TxPacketLimit
        BY <1>3, UsbAssumption
    <2>6. configured' \in BOOLEAN
        BY <1>1, Zenon
    <2> QED
        BY <1>2, <1>3, <2>1, <2>2, <2>3, <2>4, <2>5, <2>6 DEF TypeOK, Mem
<1>7. Starved(mem') = 0
    BY <1>2 DEF Starved, Receivers
<1> QED
    BY <1>2, <1>5, <1>6, <1>7 DEF NeededBy

\* A packet that main takes goes from the queue to main.
LEMMA UsbRxOwns ==
    ASSUME TypeOK, UsbInv, UsbRx
    PROVE  TypeOK' /\ OwnInv'
<1>1. UNCHANGED <<configured, resets, mem, txd, txq, tx_state, order, buf,
                  next_rx, next_tx, sent, replied>> /\ Banked' = Banked
    BY DEF UsbRx, transmitter, bus, Banked
<1>2. /\ pc = "recv" /\ held = None /\ None \notin Buffers /\ rxq \in Seq(Buffers)
      /\ OnceInv /\ ApartInv /\ AllInv
    BY Typed DEF UsbRx, OwnInv, HeldInv
<1>3. CASE pc' = "exec" /\ UNCHANGED <<rxq, held>>
    <2>1. TypeOK'
        BY <1>1, <1>3 DEF TypeOK
    <2>2. OnceInv' /\ ApartInv' /\ AllInv' /\ HeldInv'
        BY <1>1, <1>2, <1>3 DEF OnceInv, ApartInv, AllInv, HeldInv, Held
    <2> QED
        BY <2>1, <2>2 DEF OwnInv
<1>4. CASE rxq # <<>> /\ held' = Head(rxq) /\ rxq' = Tail(rxq) /\ pc' = "free"
    <2>1. /\ held' \in Buffers /\ rxq' \in Seq(Buffers) /\ held' \in Range(rxq)
          /\ Range(rxq') = Range(rxq) \ {held'} /\ Once(rxq')
        BY <1>2, <1>4, TailOnce DEF OnceInv
    <2>2. TypeOK'
        BY <1>1, <1>4, <2>1 DEF TypeOK
    <2>3. Held = {} /\ Held' = {held'} /\ held' # None
        BY <1>2, <2>1 DEF Held
    <2>4. OnceInv' /\ HeldInv'
        BY <1>1, <1>2, <1>4, <2>1, <2>3 DEF OnceInv, HeldInv
    <2>5. ApartInv'
        BY <1>1, <1>2, <2>1 DEF ApartInv
    <2>6. AllInv'
        BY <1>1, <1>2, <2>1, <2>3 DEF AllInv
    <2> QED
        BY <2>2, <2>4, <2>5, <2>6 DEF OwnInv
<1> QED
    BY <1>3, <1>4 DEF UsbRx

\* A packet main is done with goes to the pool.
LEMMA PutOwns ==
    ASSUME TypeOK, UsbInv, Put
    PROVE  TypeOK' /\ OwnInv' /\ mem'.rx = mem.rx /\ mem'.needed = mem.needed
<1>1. UNCHANGED <<configured, resets, rxq, txd, txq, tx_state, order, buf,
                  next_rx, next_tx, sent, replied>> /\ Banked' = Banked
    BY DEF Put, transmitter, bus, Banked
<1>2. /\ mem \in Mem /\ None \notin Buffers /\ held \in Buffers /\ held # None
      /\ OnceInv /\ ApartInv /\ AllInv
    BY Typed DEF Put, OwnInv, HeldInv
<1>3. /\ mem' = Pooled(mem, held) /\ held' = None /\ pc' = "exec"
    BY DEF Put
<1>4. /\ mem' \in Mem /\ mem'.avail = mem.avail \cup {held}
      /\ mem'.rx = mem.rx /\ mem'.needed = mem.needed
    BY <1>2, <1>3, PooledMem
<1>5. TypeOK'
    BY <1>1, <1>3, <1>4 DEF TypeOK, Mem
<1>6. Armed(mem') = Armed(mem) /\ ArmedOnce(mem') /\ Held = {held} /\ Held' = {}
    BY <1>2, <1>3, <1>4 DEF Armed, ArmedOnce, Held, OnceInv
<1>7. OnceInv' /\ HeldInv'
    BY <1>1, <1>2, <1>3, <1>6 DEF OnceInv, HeldInv
<1>8. ApartInv'
    <2>1. None \notin Armed(mem) \cup mem.avail \cup Range(rxq) \cup Banked \cup Range(txq)
        BY <1>2 DEF AllInv, Held
    <2> QED
        BY <1>1, <1>2, <1>3, <1>4, <1>6, <2>1 DEF ApartInv
<1>9. AllInv'
    BY <1>1, <1>2, <1>4, <1>6 DEF AllInv
<1> QED
    BY <1>4, <1>5, <1>7, <1>8, <1>9 DEF OwnInv

\* A packet main is done with goes to a receiver, if one is found.
LEMMA UsbRxMemoryOwns ==
    ASSUME TypeOK, UsbInv, UsbRxMemory
    PROVE  /\ TypeOK' /\ OwnInv'
           /\ mem'.rx[1] = mem.rx[1] /\ mem'.rx[2] = mem.rx[2]
           /\ NeededBy(mem')
<1>1. UNCHANGED <<configured, resets, rxq, txd, txq, tx_state, order, buf,
                  next_rx, next_tx, sent, replied>> /\ Banked' = Banked
    BY DEF UsbRxMemory, transmitter, bus, Banked
<1>2. /\ mem \in Mem /\ None \notin Buffers /\ held \in Buffers /\ held # None
      /\ mem.rx \in [Receivers -> Buffers \cup {None}] /\ mem.needed \in 0 .. 255
      /\ OnceInv /\ ApartInv /\ AllInv /\ pc = "give"
    BY Typed DEF UsbRxMemory, OwnInv, HeldInv
<1>3. /\ mem.rx[1] # None /\ mem.rx[2] # None
      /\ NeededBy(mem) /\ (mem.needed # 0 \/ Starved(mem) # 2)
    BY <1>2 DEF UsbInv, SerialInv, NeededInv, Unconfigured
<1>4. CASE Starving(mem) = {} /\ pc' = "nobody" /\ UNCHANGED <<mem, held>>
    <2>1. TypeOK'
        BY <1>1, <1>4 DEF TypeOK
    <2>2. OnceInv' /\ ApartInv' /\ AllInv' /\ HeldInv'
        BY <1>1, <1>2, <1>4 DEF OnceInv, ApartInv, AllInv, HeldInv, Held
    <2> QED
        BY <1>3, <1>4, <2>1, <2>2 DEF OwnInv
<1>5. CASE Starving(mem) # {} /\ mem' = Give(mem, held) /\ held' = None /\ pc' = "exec"
    <2>1. PICK k \in Receivers : mem.rx[k] = None /\ mem'.rx = [mem.rx EXCEPT ![k] = held]
        BY <1>2, <1>5, GiveMem
    <2>2. /\ mem' \in Mem /\ mem'.avail = mem.avail
          /\ mem'.needed = IF mem.needed = 0 THEN 255 ELSE mem.needed - 1
        BY <1>2, <1>5, GiveMem
    <2>3. TypeOK'
        BY <1>1, <1>5, <2>2 DEF TypeOK, Mem
    <2>4. ArmedOnce(mem') /\ Armed(mem') = (Armed(mem) \ {mem.rx[k]}) \cup ({held} \ {None})
        BY <1>2, <2>1, ArmedChange DEF OnceInv, ApartInv
    <2>5. /\ None \notin Armed(mem) \cup mem.avail \cup Range(rxq) \cup Banked \cup Range(txq)
          /\ Held = {held} /\ Held' = {} /\ Armed(mem') = Armed(mem) \cup {held}
        BY <1>2, <1>5, <2>1, <2>4 DEF AllInv, Held
    <2>6. OnceInv' /\ HeldInv'
        BY <1>1, <1>2, <1>5, <2>4 DEF OnceInv, HeldInv
    <2>7. ApartInv'
        BY <1>1, <1>2, <1>5, <2>2, <2>5 DEF ApartInv
    <2>8. AllInv'
        BY <1>1, <1>2, <2>2, <2>5 DEF AllInv
    <2>9. k \in {3, 4}
        BY <1>3, <2>1 DEF Receivers
    <2>10. /\ mem'.rx[1] = mem.rx[1] /\ mem'.rx[2] = mem.rx[2]
           /\ mem'.rx[3] = (IF k = 3 THEN held ELSE mem.rx[3])
           /\ mem'.rx[4] = (IF k = 4 THEN held ELSE mem.rx[4])
        BY <1>2, <2>1, <2>9 DEF Receivers
    <2>11. Starved(mem') = Starved(mem) - 1 /\ Starved(mem) \in 1 .. 2
        BY <1>2, <2>1, <2>9, <2>10 DEF Starved
    <2>12. NeededBy(mem')
        BY <1>2, <1>3, <2>2, <2>11 DEF NeededBy
    <2> QED
        BY <2>3, <2>6, <2>7, <2>8, <2>10, <2>12 DEF OwnInv
<1> QED
    BY <1>4, <1>5 DEF UsbRxMemory

\* A buffer for a reply goes from the pool to main.
LEMMA UsbMallocOwns ==
    ASSUME TypeOK, UsbInv, UsbMalloc
    PROVE  TypeOK' /\ OwnInv' /\ mem'.rx = mem.rx /\ mem'.needed = mem.needed
<1>1. UNCHANGED <<configured, resets, rxq, txd, txq, tx_state, order, buf,
                  next_rx, next_tx, sent, replied>> /\ Banked' = Banked
    BY DEF UsbMalloc, transmitter, bus, Banked
<1>2. /\ mem \in Mem /\ mem.avail \in SUBSET Buffers /\ None \notin Buffers /\ held = None
      /\ OnceInv /\ ApartInv /\ AllInv
    BY Typed DEF UsbMalloc, OwnInv, HeldInv
<1>3. /\ held' \in mem.avail /\ mem' = [mem EXCEPT !.avail = @ \ {held'}] /\ pc' = "tx"
    <2>1. mem.avail \in SUBSET Nat /\ mem.avail # {} /\ held' = Min(mem.avail)
        BY <1>2 DEF Buffers, UsbMalloc
    <2>2. held' \in mem.avail
        BY <2>1, LeastNat
    <2> QED
        BY <2>2 DEF UsbMalloc
<1>4. /\ mem' \in Mem /\ mem'.avail = mem.avail \ {held'}
      /\ mem'.rx = mem.rx /\ mem'.needed = mem.needed
    BY <1>2, <1>3 DEF Mem
<1>5. TypeOK'
    BY <1>1, <1>2, <1>3, <1>4 DEF TypeOK, Mem
<1>6. /\ Armed(mem') = Armed(mem) /\ ArmedOnce(mem')
      /\ Held = {} /\ Held' = {held'} /\ held' # None
    BY <1>2, <1>3, <1>4 DEF Armed, ArmedOnce, Held, OnceInv
<1>7. OnceInv' /\ HeldInv'
    BY <1>1, <1>2, <1>3, <1>6 DEF OnceInv, HeldInv
<1>8. ApartInv'
    BY <1>1, <1>2, <1>3, <1>4, <1>6 DEF ApartInv
<1>9. AllInv'
    BY <1>1, <1>2, <1>3, <1>4, <1>6 DEF AllInv
<1> QED
    BY <1>4, <1>5, <1>7, <1>8, <1>9 DEF OwnInv

\* A reply goes from main to a bank or to the list behind them.
LEMMA UsbTxOwns ==
    ASSUME TypeOK, UsbInv, UsbTx
    PROVE  /\ TypeOK' /\ OwnInv'
           /\ held \in Buffers /\ held \notin Banked \cup Range(txq)
           /\ Banked' \cup Range(txq') = Banked \cup Range(txq) \cup {held}
<1> DEFINE b == IF tx_state.busy = 0 THEN tx_state.first ELSE 1 - tx_state.first
<1>1. /\ UNCHANGED <<configured, resets, mem, rxq, next_rx, next_tx, sent>>
      /\ pc = "tx" /\ pc' = "recv" /\ held' = None /\ order' = Append(order, held)
      /\ replied' = replied + 1 /\ buf' = [buf EXCEPT ![held] = replied']
    BY DEF UsbTx, bus
<1>2. /\ held \in Buffers /\ None \notin Buffers /\ txq \in Seq(Buffers)
      /\ order \in Seq(Buffers) /\ txd \in [Banks -> Buffers \cup {None}]
      /\ OnceInv /\ ApartInv /\ AllInv
    BY <1>1, Typed DEF OwnInv, HeldInv
<1>3. tx_state \in [busy : 0 .. 2, first : Banks] /\ b \in {0, 1}
    BY DEF TypeOK, Banks
<1>4. Len(txq) < TxPacketLimit /\ replied < MaxReplies
    BY <1>1 DEF UsbInv, LimitInv
<1>5. /\ txd' \in [Banks -> Buffers \cup {None}] /\ (txd'[0] = txd'[1] => txd'[0] = None)
      /\ tx_state' \in [busy : 0 .. 2, first : Banks]
      /\ txq' \in Seq(Buffers) /\ Once(txq') /\ Len(txq') <= TxPacketLimit
      /\ Banked' \cup Range(txq') = Banked \cup Range(txq) \cup {held}
      /\ Banked' \cap Range(txq') = {}
    <2>1. held \notin Banked /\ held \notin Range(txq) /\ Banked \cap Range(txq) = {} /\ Once(txq)
        BY <1>2 DEF ApartInv, OnceInv
    <2>2. CASE /\ tx_state.busy < 2
               /\ txd' = [txd EXCEPT ![b] = held]
               /\ tx_state' = [tx_state EXCEPT !.busy = @ + 1]
               /\ txq' = txq
        <3>1. txd[b] = None
            BY <1>3, <2>2 DEF UsbInv, BankInv, Banks
        <3>2. txd'[b] = held /\ txd'[1 - b] = txd[1 - b]
            BY <1>2, <1>3, <2>2 DEF Banks
        <3>3. Banked = {txd[1 - b]} \ {None} /\ Banked' = {held} \cup ({txd[1 - b]} \ {None})
            BY <1>2, <1>3, <3>1, <3>2 DEF Banked, Banks
        <3>4. held # txd[1 - b]
            BY <1>2, <2>1, <3>3
        <3>5. txd'[0] # txd'[1]
            BY <1>3, <3>2, <3>4
        <3>6. tx_state' \in [busy : 0 .. 2, first : Banks]
            BY <1>3, <2>2
        <3>7. txd' \in [Banks -> Buffers \cup {None}]
            BY <1>2, <2>2
        <3> QED
            BY <1>2, <1>4, <2>1, <2>2, <3>3, <3>5, <3>6, <3>7, LenProperties, UsbAssumption
    <2>3. CASE tx_state.busy = 2 /\ txq' = Append(txq, held) /\ UNCHANGED <<txd, tx_state>>
        <3>1. /\ txq' \in Seq(Buffers) /\ Range(txq') = Range(txq) \cup {held} /\ Once(txq')
            BY <1>2, <2>1, <2>3, AppendOnce
        <3>2. Len(txq') = Len(txq) + 1 /\ Len(txq) \in Nat
            BY <1>2, <2>3, AppendProperties, LenProperties
        <3>3. Banked' = Banked
            BY <2>3 DEF Banked
        <3>4. txd[0] = txd[1] => txd[0] = None
            BY <1>2 DEF OnceInv
        <3> QED
            BY <1>2, <1>3, <1>4, <2>1, <2>3, <3>1, <3>2, <3>3, <3>4, UsbAssumption
    <2> QED
        BY <2>2, <2>3 DEF UsbTx
<1>6. TypeOK'
    <2>1. replied' \in 0 .. MaxReplies
        BY <1>1, <1>4, UsbAssumption DEF TypeOK
    <2>2. buf' \in [Buffers -> 0 .. MaxSent \cup 0 .. MaxReplies]
        <3>1. buf \in [Buffers -> 0 .. MaxSent \cup 0 .. MaxReplies]
            BY DEF TypeOK
        <3>2. [buf EXCEPT ![held] = replied'] \in [Buffers -> 0 .. MaxSent \cup 0 .. MaxReplies]
            BY <2>1, <3>1
        <3> QED
            BY <1>1, <3>2
    <2>3. order' \in Seq(Buffers)
        BY <1>1, <1>2, AppendProperties
    <2> QED
        BY <1>1, <1>5, <2>1, <2>2, <2>3 DEF TypeOK
<1>7. OwnInv'
    <2>1. Held = {held} /\ Held' = {}
        BY <1>1, <1>2 DEF Held
    <2>2. OnceInv' /\ HeldInv'
        BY <1>1, <1>2, <1>5 DEF OnceInv, HeldInv
    <2>3. ApartInv'
        <3>1. /\ (mem.avail \cup Armed(mem) \cup Range(rxq)) \cap (Banked' \cup Range(txq')) = {}
              /\ None \notin mem.avail \cup Armed(mem) \cup Range(rxq) \cup (Banked' \cup Range(txq'))
            BY <1>2, <1>5 DEF ApartInv, AllInv, Held
        <3> QED
            BY <1>1, <1>2, <1>5, <3>1 DEF ApartInv
    <2>4. AllInv'
        BY <1>1, <1>2, <1>5, <2>1 DEF AllInv
    <2> QED
        BY <2>2, <2>3, <2>4 DEF OwnInv
<1>8. held \notin Banked \cup Range(txq)
    BY <1>2 DEF ApartInv
<1> QED
    BY <1>2, <1>5, <1>6, <1>7, <1>8

\* The other actions leave the buffers where they are.
Quiet == Poll \/ UsbWait \/ UsbFree \/ Nobody \/ Exec \/ GiveUp \/ UsbTxPacketCount

LEMMA QuietOwns ==
    ASSUME TypeOK, UsbInv, Quiet
    PROVE  TypeOK' /\ OwnInv' /\ mem'.rx = mem.rx /\ mem'.needed \in {mem.needed, 0}
<1>1. /\ UNCHANGED <<configured, resets, rxq, txd, txq, tx_state, order, buf,
                     next_rx, next_tx, sent, held, replied>>
      /\ mem' \in {mem, [mem EXCEPT !.needed = 0]}
      /\ pc' \in {"wait", "recv", "free", "put", "give", "nobody", "exec", "count", "malloc"}
      /\ pc \in {"free", "put", "give", "nobody", "tx"}
             <=> pc' \in {"free", "put", "give", "nobody", "tx"}
    <2>1. CASE Poll
        BY <2>1 DEF Poll, vars, usb, bus, main, transmitter, TypeOK
    <2>2. CASE UsbWait
        BY <2>2 DEF UsbWait, usb, bus, transmitter
    <2>3. CASE UsbFree
        BY <2>3 DEF UsbFree, usb, bus, transmitter
    <2>4. CASE Nobody
        BY <2>4 DEF Nobody, usb, bus, transmitter
    <2>5. CASE Exec
        BY <2>5 DEF Exec, usb, bus, transmitter
    <2>6. CASE GiveUp
        BY <2>6 DEF GiveUp, usb, bus, transmitter
    <2>7. CASE UsbTxPacketCount
        BY <2>7 DEF UsbTxPacketCount, usb, bus, transmitter
    <2> QED
        BY <2>1, <2>2, <2>3, <2>4, <2>5, <2>6, <2>7 DEF Quiet
<1>2. /\ mem' \in Mem /\ mem'.avail = mem.avail /\ mem'.rx = mem.rx
      /\ mem'.needed \in {mem.needed, 0}
    <2>1. mem \in Mem
        BY Typed
    <2>2. CASE mem' = mem
        BY <2>1, <2>2
    <2>3. CASE mem' = [mem EXCEPT !.needed = 0]
        BY <2>1, <2>3 DEF Mem
    <2> QED
        BY <1>1, <2>2, <2>3
<1>3. TypeOK'
    BY <1>1, <1>2 DEF TypeOK, Mem
<1>4. /\ Armed(mem') = Armed(mem) /\ (ArmedOnce(mem) => ArmedOnce(mem'))
      /\ Banked' = Banked /\ Held' = Held
    BY <1>1, <1>2 DEF Armed, ArmedOnce, Banked, Held
<1>5. OnceInv' /\ ApartInv' /\ AllInv' /\ HeldInv'
    BY <1>1, <1>2, <1>4, Typed DEF OwnInv, OnceInv, ApartInv, AllInv, HeldInv
<1> QED
    BY <1>2, <1>3, <1>5 DEF OwnInv

\* Every step keeps the types and the owners.
LEMMA OwnStep ==
    ASSUME TypeOK, UsbInv, [Next]_vars
    PROVE  TypeOK' /\ OwnInv'
<1>1. CASE RxToken
    BY <1>1, RxTokenOwns
<1>2. CASE TxToken
    BY <1>2, TxTokenOwns
<1>3. CASE SetConfiguration
    BY <1>3, SetConfigurationOwns
<1>4. CASE UsbRx
    BY <1>4, UsbRxOwns
<1>5. CASE Put
    BY <1>5, PutOwns
<1>6. CASE UsbRxMemory
    BY <1>6, UsbRxMemoryOwns
<1>7. CASE UsbMalloc
    BY <1>7, UsbMallocOwns
<1>8. CASE UsbTx
    BY <1>8, UsbTxOwns
<1>9. CASE Quiet
    BY <1>9, QuietOwns
<1>10. CASE UNCHANGED vars
    <2>1. TypeOK'
        BY <1>10 DEF TypeOK, vars, usb, bus, main, transmitter
    <2>2. OwnInv'
        BY <1>10, Typed DEF vars, usb, bus, main, transmitter,
                            OwnInv, OnceInv, ApartInv, AllInv, HeldInv, Banked, Held
    <2> QED
        BY <2>1, <2>2
<1> QED
    BY <1>1, <1>2, <1>3, <1>4, <1>5, <1>6, <1>7, <1>8, <1>9, <1>10 DEF Next, Bus, Main, Quiet

-----------------------------------------------------------------------------
(***************************************************************************)
(* The steps and the other parts of the invariant.                         *)
(***************************************************************************)
\* Only three actions touch the transmitter.
LEMMA OtherSteps ==
    ASSUME [Next]_vars, ~TxToken, ~SetConfiguration, ~UsbTx
    PROVE  UNCHANGED <<configured, resets, txd, txq, tx_state, order, next_tx, replied>>
<1>1. CASE Bus
    BY <1>1 DEF Bus, RxToken, transmitter, main
<1>2. CASE Poll \/ UsbWait \/ UsbRx \/ UsbFree
    BY <1>2 DEF Poll, UsbWait, UsbRx, UsbFree, vars, usb, transmitter, bus, main
<1>3. CASE Put \/ UsbRxMemory \/ Nobody \/ Exec
    BY <1>3 DEF Put, UsbRxMemory, Nobody, Exec, usb, transmitter, bus
<1>4. CASE GiveUp \/ UsbTxPacketCount \/ UsbMalloc
    BY <1>4 DEF GiveUp, UsbTxPacketCount, UsbMalloc, usb, transmitter, bus
<1>5. CASE UNCHANGED vars
    BY <1>5 DEF vars, usb, transmitter, bus, main
<1> QED
    BY <1>1, <1>2, <1>3, <1>4, <1>5 DEF Next, Main

\* Until the host configures the device for the first time nothing happens.
LEMMA UnconfiguredStep ==
    ASSUME TypeOK, UsbInv, [Next]_vars, Unconfigured, ~SetConfiguration
    PROVE  UNCHANGED vars
<1>1. ~configured /\ pc = "wait"
    BY DEF Unconfigured
<1>2. ~RxToken /\ ~TxToken /\ ~UsbWait
    BY <1>1, Zenon DEF RxToken, TxToken, UsbWait
<1>3. ~UsbRx /\ ~UsbFree /\ ~Put /\ ~UsbRxMemory /\ ~Nobody
    BY <1>1 DEF UsbRx, UsbFree, Put, UsbRxMemory, Nobody
<1>4. ~Exec /\ ~GiveUp /\ ~UsbTxPacketCount /\ ~UsbMalloc /\ ~UsbTx
    BY <1>1 DEF Exec, GiveUp, UsbTxPacketCount, UsbMalloc, UsbTx
<1> QED
    BY <1>2, <1>3, <1>4 DEF Next, Bus, Main, Poll

\* Unconfigured is left for good by the first SET_CONFIGURATION.
LEMMA ConfiguredStep ==
    ASSUME TypeOK, UsbInv, [Next]_vars
    PROVE  ConfiguredInv'
<1> SUFFICES ASSUME ~configured', resets' = 0 PROVE Unconfigured'
    BY Zenon DEF ConfiguredInv
<1>1. CASE SetConfiguration
    <2>1. ~configured /\ resets = 0
        <3>1. resets \in Nat
            BY UsbAssumption DEF TypeOK
        <3>2. CASE configured
            BY <1>1, <3>1, <3>2 DEF SetConfiguration
        <3>3. CASE ~configured
            BY <1>1, <3>3 DEF SetConfiguration
        <3> QED
            BY <3>2, <3>3
    <2>2. Unconfigured
        BY <2>1, Zenon DEF UsbInv, ConfiguredInv
    <2>3. /\ rxq' = <<>> /\ txq' = <<>> /\ order' = <<>> /\ held' = held /\ pc' = pc
          /\ txd' = [b \in Banks |-> None]
          /\ next_tx' \in {next_tx, EVEN}
          /\ tx_state' = [busy |-> 0, first |-> IF tx_state.busy = 1 THEN 1 - tx_state.first
                                                ELSE tx_state.first]
        BY <1>1 DEF SetConfiguration, main
    <2>4. txd'[0] = None /\ txd'[1] = None
        BY <2>3 DEF Banks
    <2>5. mem'.needed = 0
        BY <1>1, ReconfiguredMem DEF SetConfiguration
    <2>6. tx_state.busy = 0 /\ tx_state.first = EVEN /\ next_tx = EVEN /\ held = None /\ pc = "wait"
        BY <2>2 DEF Unconfigured
    <2>7. tx_state'.busy = 0 /\ tx_state'.first = EVEN /\ next_tx' = EVEN
        BY <2>3, <2>6
    <2> QED
        BY <2>3, <2>4, <2>5, <2>6, <2>7, Zenon DEF Unconfigured
<1>2. CASE ~SetConfiguration
    <2>1. configured' = configured /\ resets' = resets
        <3>1. CASE TxToken
            BY <3>1 DEF TxToken
        <3>2. CASE UsbTx
            BY <3>2 DEF UsbTx
        <3>3. CASE ~TxToken /\ ~UsbTx
            BY <1>2, <3>3, OtherSteps
        <3> QED
            BY <3>1, <3>2, <3>3
    <2>2. Unconfigured
        BY <2>1, Zenon DEF UsbInv, ConfiguredInv
    <2>3. UNCHANGED vars
        BY <1>2, <2>2, UnconfiguredStep
    <2> QED
        BY <2>2, <2>3 DEF Unconfigured, vars, usb, bus, main, transmitter
<1> QED
    BY <1>1, <1>2

\* The serial emulation keeps its buffers.
LEMMA SerialStep ==
    ASSUME TypeOK, UsbInv, [Next]_vars
    PROVE  SerialInv'
<1>1. CASE SetConfiguration
    BY <1>1, SetConfigurationOwns DEF SerialInv, Receivers
<1>2. CASE ~SetConfiguration /\ Unconfigured /\ \A k \in Receivers : mem.rx[k] = None
    <2>1. UNCHANGED vars
        BY <1>2, UnconfiguredStep
    <2>2. Unconfigured' /\ mem' = mem
        BY <1>2, <2>1 DEF Unconfigured, vars, usb, bus, main, transmitter
    <2> QED
        BY <1>2, <2>2 DEF SerialInv
<1>3. CASE ~SetConfiguration /\ mem.rx[1] # None /\ mem.rx[2] # None
    <2>1. mem'.rx[1] = mem.rx[1] /\ mem'.rx[2] = mem.rx[2]
        <3>1. CASE RxToken
            BY <3>1, RxTokenOwns
        <3>2. CASE TxToken
            BY <3>2, TxTokenOwns
        <3>3. CASE UsbRx \/ UsbTx \/ UNCHANGED vars
            BY <3>3 DEF UsbRx, UsbTx, vars, usb
        <3>4. CASE Put
            BY <3>4, PutOwns
        <3>5. CASE UsbRxMemory
            BY <3>5, UsbRxMemoryOwns
        <3>6. CASE UsbMalloc
            BY <3>6, UsbMallocOwns
        <3>7. CASE Quiet
            BY <3>7, QuietOwns
        <3> QED
            BY <1>3, <3>1, <3>2, <3>3, <3>4, <3>5, <3>6, <3>7 DEF Next, Bus, Main, Quiet
    <2> QED
        BY <1>3, <2>1 DEF SerialInv
<1> QED
    BY <1>1, <1>2, <1>3 DEF UsbInv, SerialInv

\* usb_rx_memory_needed never says more than how many receivers starve.
LEMMA NeededStep ==
    ASSUME TypeOK, UsbInv, [Next]_vars
    PROVE  NeededInv'
<1>1. /\ NeededBy(mem) /\ (pc = "give" => mem.needed # 0 \/ Starved(mem) # 2)
      /\ mem.needed \in 0 .. 255 /\ Starved(mem) \in 0 .. 2
    BY Typed DEF UsbInv, NeededInv, Starved
<1>2. CASE RxToken
    <2>1. pc' = pc
        BY <1>2 DEF RxToken, main
    <2> QED
        BY <1>1, <1>2, <2>1, RxTokenOwns DEF NeededInv
<1>3. CASE TxToken
    <2>1. pc' = pc
        BY <1>3 DEF TxToken, main
    <2> QED
        BY <1>1, <1>3, <2>1, TxTokenOwns DEF NeededInv
<1>4. CASE SetConfiguration
    BY <1>4, SetConfigurationOwns DEF NeededInv
<1>5. CASE UsbRxMemory
    <2>1. pc' # "give"
        BY <1>5 DEF UsbRxMemory
    <2> QED
        BY <1>5, <2>1, UsbRxMemoryOwns DEF NeededInv
<1>6. CASE UsbFree
    <2>1. mem' = mem
        BY <1>6 DEF UsbFree, usb
    <2>2. pc' = "give" => mem.needed # 0
        BY <1>1, <1>6 DEF UsbFree
    <2> QED
        BY <1>1, <2>1, <2>2 DEF NeededInv
<1>7. CASE Put \/ UsbMalloc \/ UsbRx \/ UsbTx
    <2>1. mem'.rx = mem.rx /\ mem'.needed = mem.needed
        BY <1>7, PutOwns, UsbMallocOwns DEF UsbRx, UsbTx
    <2>2. pc' # "give"
        BY <1>7 DEF Put, UsbMalloc, UsbRx, UsbTx
    <2> QED
        BY <1>1, <2>1, <2>2 DEF NeededInv, NeededBy, Starved
<1>8. CASE Nobody \/ UsbWait \/ Exec \/ GiveUp \/ UsbTxPacketCount
    <2>1. mem'.rx = mem.rx /\ mem'.needed \in {mem.needed, 0}
        BY <1>8, QuietOwns DEF Quiet
    <2>2. pc' # "give"
        BY <1>8 DEF Nobody, UsbWait, Exec, GiveUp, UsbTxPacketCount
    <2>3. Starved(mem') = Starved(mem)
        BY <2>1 DEF Starved
    <2> QED
        BY <1>1, <2>1, <2>2, <2>3 DEF NeededInv, NeededBy
<1>9. CASE Poll \/ UNCHANGED vars
    <2>1. mem' = mem /\ pc' = pc
        BY <1>9 DEF Poll, vars, usb, main
    <2> QED
        BY <1>1, <2>1 DEF NeededInv
<1> QED
    BY <1>2, <1>3, <1>4, <1>5, <1>6, <1>7, <1>8, <1>9 DEF Next, Bus, Main

\* What the transmitter is like before it changes.
LEMMA Transmitter ==
    ASSUME TypeOK, UsbInv
    PROVE  /\ tx_state.busy \in 0 .. 2 /\ tx_state.first \in {0, 1} /\ next_tx \in {0, 1}
           /\ tx_state \in [busy : 0 .. 2, first : Banks]
           /\ txd \in [Banks -> Buffers \cup {None}] /\ 0 \in Banks /\ 1 \in Banks
           /\ txq \in Seq(Buffers) /\ None \notin Buffers /\ resets \in Nat
           /\ BankInv
    BY Typed, UsbAssumption DEF TypeOK, UsbInv, Banks

\* TxToken, case by case: how many banks are busy, and which comes next.
LEMMA TxTokenBanks ==
    ASSUME TypeOK, UsbInv, TxToken
    PROVE  /\ resets' = resets /\ next_tx' = 1 - next_tx
           /\ \/ /\ txq # <<>> /\ txq' = Tail(txq)
                 /\ tx_state.busy = 2 /\ tx_state'.busy = 2
                 /\ txd'[next_tx] = Head(txq) /\ txd'[1 - next_tx] = txd[1 - next_tx]
              \/ /\ txq = <<>> /\ txq' = <<>>
                 /\ tx_state.busy \in 1 .. 2 /\ tx_state'.busy = tx_state.busy - 1
                 /\ txd'[next_tx] = None /\ txd'[1 - next_tx] = txd[1 - next_tx]
                 /\ tx_state.busy = 1 => tx_state.first = next_tx
                 /\ tx_state'.first = 1 - next_tx
<1> DEFINE b == next_tx
<1>1. /\ tx_state.busy \in 0 .. 2 /\ tx_state.first \in {0, 1} /\ b \in {0, 1}
      /\ tx_state \in [busy : 0 .. 2, first : Banks]
      /\ txd \in [Banks -> Buffers \cup {None}] /\ 0 \in Banks /\ 1 \in Banks
      /\ BankInv
    BY Transmitter
<1>2. txd[b] # None /\ next_tx' = 1 - b /\ resets' = resets
    BY DEF TxToken
<1>3. tx_state.busy # 0 /\ (tx_state.busy = 1 => tx_state.first = b)
    BY <1>1, <1>2 DEF BankInv
<1>4. CASE /\ txq # <<>> /\ txd' = [txd EXCEPT ![b] = Head(txq)] /\ txq' = Tail(txq)
           /\ tx_state' = [tx_state EXCEPT !.busy = IF @ < 2 THEN @ + 1 ELSE @]
    <2>1. tx_state.busy = 2
        BY <1>1, <1>4 DEF BankInv
    <2>2. tx_state'.busy = 2
        BY <1>1, <1>4, <2>1
    <2>3. txd'[b] = Head(txq) /\ txd'[1 - b] = txd[1 - b]
        BY <1>1, <1>4
    <2> QED
        BY <1>2, <1>4, <2>1, <2>2, <2>3
<1>5. CASE /\ txq = <<>> /\ txd' = [txd EXCEPT ![b] = None] /\ txq' = txq
           /\ tx_state' = CASE tx_state.busy = 0 -> tx_state
                            [] tx_state.busy = 1 -> [busy |-> 0, first |-> 1 - tx_state.first]
                            [] tx_state.busy = 2 -> [busy |-> 1, first |-> 1 - b]
    <2>1. txd'[b] = None /\ txd'[1 - b] = txd[1 - b]
        BY <1>1, <1>5
    <2>2. CASE tx_state.busy = 1
        BY <1>2, <1>3, <1>5, <2>1, <2>2
    <2>3. CASE tx_state.busy = 2
        BY <1>2, <1>3, <1>5, <2>1, <2>3
    <2> QED
        BY <1>1, <1>3, <2>2, <2>3
<1> QED
    BY <1>4, <1>5 DEF TxToken

\* UsbTx, case by case.
LEMMA UsbTxBanks ==
    ASSUME TypeOK, UsbInv, UsbTx
    PROVE  /\ resets' = resets /\ next_tx' = next_tx
           /\ \/ /\ tx_state.busy = 0 /\ tx_state'.busy = 1 /\ tx_state'.first = tx_state.first
                 /\ txq = <<>> /\ txq' = <<>>
                 /\ txd'[tx_state.first] = held /\ txd'[1 - tx_state.first] = None
              \/ /\ tx_state.busy = 1 /\ tx_state'.busy = 2 /\ tx_state'.first = tx_state.first
                 /\ txq = <<>> /\ txq' = <<>>
                 /\ txd'[1 - tx_state.first] = held
                 /\ txd'[tx_state.first] = txd[tx_state.first]
              \/ /\ tx_state.busy = 2 /\ tx_state' = tx_state
                 /\ txq' = Append(txq, held) /\ txd' = txd
<1> DEFINE b == IF tx_state.busy = 0 THEN tx_state.first ELSE 1 - tx_state.first
<1>1. /\ tx_state.busy \in 0 .. 2 /\ tx_state.first \in {0, 1}
      /\ tx_state \in [busy : 0 .. 2, first : Banks]
      /\ txd \in [Banks -> Buffers \cup {None}] /\ 0 \in Banks /\ 1 \in Banks
      /\ BankInv
    BY Transmitter
<1>2. resets' = resets /\ next_tx' = next_tx
    BY DEF UsbTx, bus
<1>3. CASE /\ tx_state.busy < 2 /\ txd' = [txd EXCEPT ![b] = held] /\ txq' = txq
           /\ tx_state' = [tx_state EXCEPT !.busy = @ + 1]
    <2>1. /\ b \in {0, 1} /\ txd'[b] = held /\ txd'[1 - b] = txd[1 - b]
          /\ tx_state'.busy = tx_state.busy + 1 /\ tx_state'.first = tx_state.first
        BY <1>1, <1>3
    <2>2. txq = <<>> /\ txq' = <<>>
        BY <1>1, <1>3 DEF BankInv
    <2>3. CASE tx_state.busy = 0
        <3>1. txd[1 - tx_state.first] = None
            BY <1>1, <2>3 DEF BankInv
        <3> QED
            BY <1>1, <1>2, <2>1, <2>2, <2>3, <3>1
    <2>4. CASE tx_state.busy = 1
        BY <1>1, <1>2, <2>1, <2>2, <2>4
    <2> QED
        BY <1>1, <1>3, <2>3, <2>4
<1>4. CASE tx_state.busy = 2 /\ txq' = Append(txq, held) /\ UNCHANGED <<txd, tx_state>>
    BY <1>2, <1>4
<1> QED
    BY <1>3, <1>4 DEF UsbTx

\* A configuration leaves the transmitter empty, and in step with the controller
\* if it is the first.
LEMMA SetConfigurationBanks ==
    ASSUME TypeOK, UsbInv, SetConfiguration
    PROVE  /\ tx_state'.busy = 0 /\ txd'[0] = None /\ txd'[1] = None
           /\ txq' = <<>> /\ order' = <<>>
           /\ resets' = 0 => resets = 0 /\ tx_state'.first = next_tx'
<1>1. /\ tx_state' = [busy |-> 0, first |-> IF tx_state.busy = 1 THEN 1 - tx_state.first
                                            ELSE tx_state.first]
      /\ txd' = [b \in Banks |-> None]
      /\ txq' = <<>> /\ order' = <<>> /\ next_tx' \in {next_tx, EVEN}
    BY DEF SetConfiguration
<1>2. tx_state'.busy = 0 /\ txd'[0] = None /\ txd'[1] = None
    BY <1>1 DEF Banks
<1>3. ASSUME resets' = 0 PROVE resets = 0 /\ tx_state'.first = next_tx'
    <2>1. resets = 0 /\ ~configured
        <3>1. resets \in Nat
            BY Transmitter
        <3>2. CASE configured
            BY <1>3, <3>1, <3>2 DEF SetConfiguration
        <3>3. CASE ~configured
            BY <1>3, <3>3 DEF SetConfiguration
        <3> QED
            BY <3>2, <3>3
    <2>2. Unconfigured
        BY <2>1, Zenon DEF UsbInv, ConfiguredInv
    <2>3. tx_state.busy = 0 /\ tx_state.first = EVEN /\ next_tx = EVEN
        BY <2>2 DEF Unconfigured
    <2> QED
        BY <1>1, <2>1, <2>3
<1> QED
    BY <1>1, <1>2, <1>3

\* The count of busy banks is right, and so is which of them comes first.
LEMMA BankStep ==
    ASSUME TypeOK, UsbInv, [Next]_vars
    PROVE  BankInv'
<1>1. /\ tx_state.busy \in 0 .. 2 /\ tx_state.first \in {0, 1} /\ next_tx \in {0, 1}
      /\ txq \in Seq(Buffers) /\ None \notin Buffers
      /\ BankInv
    BY Transmitter
<1>2. CASE TxToken
    <2>1. txq # <<>> => Head(txq) # None
        BY <1>1, HeadTailProperties
    <2>2. resets' = resets /\ next_tx' = 1 - next_tx
        BY <1>2, TxTokenBanks
    <2>3. CASE /\ txq # <<>>
               /\ tx_state.busy = 2 /\ tx_state'.busy = 2
               /\ txd'[next_tx] = Head(txq) /\ txd'[1 - next_tx] = txd[1 - next_tx]
        <3>1. txd'[0] # None /\ txd'[1] # None
            BY <1>1, <2>1, <2>3 DEF BankInv
        <3> QED
            BY <2>3, <3>1 DEF BankInv
    <2>4. CASE /\ txq' = <<>>
               /\ tx_state.busy \in 1 .. 2 /\ tx_state'.busy = tx_state.busy - 1
               /\ txd'[next_tx] = None /\ txd'[1 - next_tx] = txd[1 - next_tx]
               /\ tx_state.busy = 1 => tx_state.first = next_tx
               /\ tx_state'.first = 1 - next_tx
        <3>1. CASE tx_state.busy = 1
            <4>1. txd'[0] = None /\ txd'[1] = None
                BY <1>1, <2>4, <3>1 DEF BankInv
            <4> QED
                BY <2>2, <2>4, <3>1, <4>1 DEF BankInv
        <3>2. CASE tx_state.busy = 2
            <4>1. txd'[1 - next_tx] # None /\ 1 - (1 - next_tx) = next_tx
                BY <1>1, <2>4, <3>2 DEF BankInv
            <4> QED
                BY <2>2, <2>4, <3>2, <4>1 DEF BankInv
        <3> QED
            BY <2>4, <3>1, <3>2
    <2> QED
        BY <1>2, <2>3, <2>4, TxTokenBanks
<1>3. CASE UsbTx
    <2>1. resets' = resets /\ next_tx' = next_tx /\ held # None
        BY <1>1, <1>3, UsbTxBanks, UsbTxOwns
    <2>2. CASE /\ tx_state.busy = 0 /\ tx_state'.busy = 1 /\ tx_state'.first = tx_state.first
               /\ txq' = <<>>
               /\ txd'[tx_state.first] = held /\ txd'[1 - tx_state.first] = None
        BY <1>1, <2>1, <2>2 DEF BankInv
    <2>3. CASE /\ tx_state.busy = 1 /\ tx_state'.busy = 2 /\ tx_state'.first = tx_state.first
               /\ txq' = <<>>
               /\ txd'[1 - tx_state.first] = held
               /\ txd'[tx_state.first] = txd[tx_state.first]
        <3>1. txd'[0] # None /\ txd'[1] # None
            BY <1>1, <2>1, <2>3 DEF BankInv
        <3> QED
            BY <2>3, <3>1 DEF BankInv
    <2>4. CASE tx_state.busy = 2 /\ tx_state' = tx_state /\ txd' = txd
        BY <1>1, <2>1, <2>4 DEF BankInv
    <2> QED
        BY <1>3, <2>2, <2>3, <2>4, UsbTxBanks
<1>4. CASE SetConfiguration
    BY <1>4, SetConfigurationBanks DEF BankInv
<1>5. CASE ~TxToken /\ ~UsbTx /\ ~SetConfiguration
    BY <1>1, <1>5, OtherSteps DEF BankInv
<1> QED
    BY <1>2, <1>3, <1>4, <1>5

\* usb_isr only makes the list shorter, so what main has checked stays true.
LEMMA LimitStep ==
    ASSUME TypeOK, UsbInv, [Next]_vars
    PROVE  LimitInv'
<1>1. /\ LimitInv /\ txq \in Seq(Buffers) /\ Len(txq) \in Nat
      /\ TxPacketLimit \in Nat \ {0} /\ MaxReplies \in Nat
    BY Typed, LenProperties, UsbAssumption DEF UsbInv
<1>2. CASE TxToken
    <2>1. pc' = pc /\ replied' = replied
        BY <1>2 DEF TxToken, main
    <2>2. Len(txq') <= Len(txq)
        <3>1. CASE txq # <<>> /\ txq' = Tail(txq)
            BY <1>1, <3>1, HeadTailProperties
        <3>2. CASE txq' = txq
            BY <1>1, <3>2
        <3> QED
            BY <1>2, <3>1, <3>2 DEF TxToken
    <2>3. Len(txq') \in Nat
        BY <1>2, TxTokenOwns, LenProperties DEF TypeOK
    <2> QED
        BY <1>1, <2>1, <2>2, <2>3 DEF LimitInv
<1>3. CASE SetConfiguration
    <2>1. pc' = pc /\ replied' = replied /\ Len(txq') = 0
        BY <1>3 DEF SetConfiguration, main
    <2> QED
        BY <1>1, <2>1 DEF LimitInv
<1>4. CASE UsbTx
    BY <1>4 DEF UsbTx, LimitInv
<1>5. CASE ~TxToken /\ ~UsbTx /\ ~SetConfiguration
    <2>1. txq' = txq /\ replied' = replied
        BY <1>5, OtherSteps
    <2>2. CASE RxToken
        BY <1>1, <2>1, <2>2 DEF RxToken, main, LimitInv
    <2>3. CASE UsbWait \/ UsbRx \/ UsbFree \/ Put
        BY <1>1, <2>1, <2>3 DEF UsbWait, UsbRx, UsbFree, Put, LimitInv
    <2>4. CASE UsbRxMemory \/ Nobody \/ GiveUp
        BY <1>1, <2>1, <2>4 DEF UsbRxMemory, Nobody, GiveUp, LimitInv
    <2>5. CASE Exec
        BY <1>1, <2>1, <2>5 DEF Exec, LimitInv
    <2>6. CASE UsbTxPacketCount \/ UsbMalloc
        BY <1>1, <2>1, <2>6 DEF UsbTxPacketCount, UsbMalloc, LimitInv
    <2>7. CASE Poll \/ UNCHANGED vars
        BY <1>1, <2>1, <2>7 DEF Poll, vars, main, LimitInv
    <2> QED
        BY <1>5, <2>2, <2>3, <2>4, <2>5, <2>6, <2>7 DEF Next, Bus, Main
<1> QED
    BY <1>2, <1>3, <1>4, <1>5

\* What UsbTx does to the queue of replies.
LEMMA UsbTxOrder ==
    ASSUME TypeOK, UsbInv, UsbTx
    PROVE  /\ order' = Append(order, held) /\ Len(order) \in Nat /\ Len(order') = Len(order) + 1
           /\ \A i \in 1 .. Len(order) : order'[i] = order[i]
           /\ order'[Len(order) + 1] = held
           /\ Len(order) = tx_state.busy + Len(txq)
           /\ Once(order') /\ Range(order') = Range(order) \cup {held}
<1>1. order \in Seq(Buffers) /\ held \in Buffers /\ held \notin Range(order)
    BY Typed, UsbTxOwns DEF UsbInv, OrderInv
<1>2. order' = Append(order, held) /\ Once(order) /\ Len(order) = tx_state.busy + Len(txq)
    BY DEF UsbTx, UsbInv, OrderInv
<1>3. Once(order') /\ Range(order') = Range(order) \cup {held}
    BY <1>1, <1>2, AppendOnce
<1>4. /\ Len(order) \in Nat /\ Len(order') = Len(order) + 1
      /\ \A i \in 1 .. Len(order) : order'[i] = order[i]
      /\ order'[Len(order) + 1] = held
    BY <1>1, <1>2, AppendProperties, LenProperties
<1> QED
    BY <1>2, <1>3, <1>4

\* What TxToken does to it.
LEMMA TxTokenOrder ==
    ASSUME TypeOK, UsbInv, TxToken
    PROVE  /\ Len(order) \in Nat /\ Len(order') = Len(order) - 1
           /\ Fetched \in 1 .. Len(order) /\ order[Fetched] = txd[next_tx]
           /\ order' = RemoveAt(order, Fetched)
           /\ \A j \in 1 .. Len(order) - 1 :
                 order'[j] = IF j < Fetched THEN order[j] ELSE order[j + 1]
           /\ Len(order) = tx_state.busy + Len(txq) /\ Once(order)
           /\ Once(order') /\ Range(order') = Range(order) \ {txd[next_tx]}
<1>1. /\ order \in Seq(Buffers) /\ Fetched \in DOMAIN order /\ order[Fetched] = txd[next_tx]
    BY Typed, FetchedReply DEF TxToken
<1>2. /\ order' = RemoveAt(order, Fetched)
      /\ Once(order) /\ Len(order) = tx_state.busy + Len(txq)
    BY DEF TxToken, Fetched, UsbInv, OrderInv
<1>3. Len(order) \in Nat /\ DOMAIN order = 1 .. Len(order)
    BY <1>1, LenProperties
<1>4. /\ Len(order') = Len(order) - 1
      /\ \A j \in 1 .. Len(order) - 1 :
            order'[j] = IF j < Fetched THEN order[j] ELSE order[j + 1]
      /\ Once(order') /\ Range(order') = Range(order) \ {txd[next_tx]}
    <2> DEFINE t == RemoveAt(order, Fetched)
    <2>1. /\ Len(t) = Len(order) - 1
          /\ \A j \in 1 .. Len(order) - 1 : t[j] = IF j < Fetched THEN order[j] ELSE order[j + 1]
          /\ Once(order) => Once(t) /\ Range(t) = Range(order) \ {order[Fetched]}
        <3>1. order \in Seq(Buffers) /\ Fetched \in DOMAIN order
            BY <1>1
        <3> QED
            BY <3>1, RemoveOnce, ZenonT(60)
    <2> HIDE DEF t
    <2>2. order' = t
        BY <1>2 DEF t
    <2> QED
        BY <1>1, <1>2, <2>1, <2>2, Zenon
<1> QED
    BY <1>1, <1>2, <1>3, <1>4

\* The queue of replies is what the banks and the list hold.
LEMMA OrderStep ==
    ASSUME TypeOK, UsbInv, [Next]_vars
    PROVE  OrderInv'
<1>1. /\ OrderInv /\ txq \in Seq(Buffers) /\ Len(txq) \in Nat
    BY Typed, LenProperties DEF UsbInv
<1>2. CASE TxToken
    <2>1. Range(order') = Banked' \cup Range(txq')
        BY <1>1, <1>2, TxTokenOrder, TxTokenOwns DEF OrderInv
    <2>2. Len(order') = tx_state'.busy + Len(txq')
        <3>1. CASE txq # <<>> /\ txq' = Tail(txq) /\ tx_state.busy = 2 /\ tx_state'.busy = 2
            <4>1. Len(txq') = Len(txq) - 1
                BY <1>1, <3>1, HeadTailProperties
            <4> QED
                BY <1>1, <1>2, <3>1, <4>1, TxTokenOrder
        <3>2. CASE /\ txq = <<>> /\ txq' = <<>>
                   /\ tx_state.busy \in 1 .. 2 /\ tx_state'.busy = tx_state.busy - 1
            BY <1>2, <3>2, TxTokenOrder
        <3> QED
            BY <1>2, <3>1, <3>2, TxTokenBanks
    <2> QED
        BY <1>2, <2>1, <2>2, TxTokenOrder DEF OrderInv
<1>3. CASE UsbTx
    <2>1. Range(order') = Banked' \cup Range(txq')
        BY <1>1, <1>3, UsbTxOrder, UsbTxOwns DEF OrderInv
    <2>2. Len(order') = tx_state'.busy + Len(txq')
        <3>1. held \in Buffers
            BY <1>3, UsbTxOwns
        <3>2. CASE /\ txq' = txq /\ tx_state.busy \in 0 .. 1
                   /\ tx_state'.busy = tx_state.busy + 1
            BY <1>1, <1>3, <3>2, UsbTxOrder
        <3>3. CASE tx_state.busy = 2 /\ tx_state' = tx_state /\ txq' = Append(txq, held)
            <4>1. Len(txq') = Len(txq) + 1
                BY <1>1, <3>1, <3>3, AppendProperties
            <4> QED
                BY <1>1, <1>3, <3>3, <4>1, UsbTxOrder
        <3> QED
            BY <1>3, <3>2, <3>3, UsbTxBanks
    <2> QED
        BY <1>3, <2>1, <2>2, UsbTxOrder DEF OrderInv
<1>4. CASE SetConfiguration
    <2>1. /\ tx_state'.busy = 0 /\ txd'[0] = None /\ txd'[1] = None
          /\ txq' = <<>> /\ order' = <<>>
        BY <1>4, SetConfigurationBanks
    <2>2. Banked' = {} /\ Range(txq') = {} /\ Range(order') = {} /\ Once(order')
        BY <2>1 DEF Banked, Banks, Range, Once
    <2> QED
        BY <2>1, <2>2 DEF OrderInv
<1>5. CASE ~TxToken /\ ~UsbTx /\ ~SetConfiguration
    BY <1>1, <1>5, OtherSteps DEF OrderInv, Banked
<1> QED
    BY <1>2, <1>3, <1>4, <1>5

\* The banks, in the order the controller uses them, and then the list have
\* the replies in the order in which they were queued.
LEMMA TurnStep ==
    ASSUME TypeOK, UsbInv, [Next]_vars
    PROVE  InTurn'
<1>1. /\ tx_state.busy \in 0 .. 2 /\ tx_state.first \in {0, 1} /\ next_tx \in {0, 1}
      /\ txq \in Seq(Buffers) /\ Len(txq) \in Nat
      /\ BankInv /\ InTurn
    BY Transmitter, LenProperties DEF UsbInv
<1>2. CASE TxToken
    <2> SUFFICES ASSUME resets' = 0
                 PROVE  /\ tx_state'.busy > 0 => order'[1] = txd'[next_tx']
                        /\ tx_state'.busy = 2 =>
                             /\ order'[2] = txd'[1 - next_tx']
                             /\ \A i \in 1 .. Len(txq') : order'[i + 2] = txq'[i]
        BY DEF InTurn
    <2>1. resets = 0 /\ next_tx' = 1 - next_tx /\ 1 - next_tx' = next_tx
        BY <1>1, <1>2, TxTokenBanks
    <2>2. tx_state.busy > 0 /\ order[1] = txd[next_tx]
        BY <1>1, <1>2, <2>1, TxTokenBanks DEF InTurn
    <2>3. \A j \in 1 .. Len(order) - 1 : order'[j] = order[j + 1]
        <3>1. /\ Len(order) \in Nat /\ Fetched \in 1 .. Len(order) /\ order[Fetched] = txd[next_tx]
              /\ Once(order) /\ order \in Seq(Buffers)
              /\ \A j \in 1 .. Len(order) - 1 :
                    order'[j] = IF j < Fetched THEN order[j] ELSE order[j + 1]
            BY <1>2, TxTokenOrder, Typed
        <3>2. Fetched = 1
            BY <2>2, <3>1, LenProperties DEF Once
        <3> QED
            BY <3>1, <3>2
    <2>4. Len(order) = tx_state.busy + Len(txq)
        BY <1>2, TxTokenOrder
    <2>5. CASE /\ txq # <<>> /\ txq' = Tail(txq)
               /\ tx_state.busy = 2 /\ tx_state'.busy = 2
               /\ txd'[next_tx] = Head(txq) /\ txd'[1 - next_tx] = txd[1 - next_tx]
        <3>1. /\ Len(txq') = Len(txq) - 1 /\ Len(txq) >= 1 /\ Head(txq) = txq[1]
              /\ \A i \in 1 .. Len(txq) - 1 : txq'[i] = txq[i + 1]
            BY <1>1, <2>5, HeadTailProperties, EmptySeq
        <3>2. /\ order[2] = txd[1 - next_tx]
              /\ \A i \in 1 .. Len(txq) : order[i + 2] = txq[i]
            BY <1>1, <2>1, <2>5 DEF InTurn
        <3>3. order'[1] = txd'[next_tx']
            BY <1>1, <2>1, <2>3, <2>4, <2>5, <3>1, <3>2
        <3>4. order'[2] = txd'[1 - next_tx']
            <4>1. order'[2] = order[3] /\ order[3] = txq[1]
                BY <1>1, <2>3, <2>4, <2>5, <3>1, <3>2
            <4> QED
                BY <2>1, <2>5, <3>1, <4>1
        <3>5. ASSUME NEW i \in 1 .. Len(txq') PROVE order'[i + 2] = txq'[i]
            <4>1. i + 2 \in 1 .. Len(order) - 1 /\ i + 1 \in 1 .. Len(txq) /\ i \in 1 .. Len(txq) - 1
                BY <1>1, <2>4, <2>5, <3>1
            <4>2. order'[i + 2] = order[(i + 1) + 2]
                BY <2>3, <4>1
            <4> QED
                BY <3>1, <3>2, <4>1, <4>2
        <3> QED
            BY <3>3, <3>4, <3>5
    <2>6. CASE /\ txq = <<>> /\ txq' = <<>>
               /\ tx_state.busy \in 1 .. 2 /\ tx_state'.busy = tx_state.busy - 1
               /\ txd'[1 - next_tx] = txd[1 - next_tx]
        <3>1. CASE tx_state.busy = 1
            BY <2>6, <3>1
        <3>2. CASE tx_state.busy = 2
            <4>1. order[2] = txd[1 - next_tx] /\ order'[1] = order[2]
                BY <1>1, <2>1, <2>3, <2>4, <2>6, <3>2 DEF InTurn
            <4> QED
                BY <2>1, <2>6, <3>2, <4>1
        <3> QED
            BY <2>6, <3>1, <3>2
    <2> QED
        BY <1>2, <2>5, <2>6, TxTokenBanks
<1>3. CASE UsbTx
    <2> SUFFICES ASSUME resets' = 0
                 PROVE  /\ tx_state'.busy > 0 => order'[1] = txd'[next_tx']
                        /\ tx_state'.busy = 2 =>
                             /\ order'[2] = txd'[1 - next_tx']
                             /\ \A i \in 1 .. Len(txq') : order'[i + 2] = txq'[i]
        BY DEF InTurn
    <2>1. resets = 0 /\ next_tx' = next_tx
        BY <1>3, UsbTxBanks
    <2>2. /\ Len(order) \in Nat
          /\ \A i \in 1 .. Len(order) : order'[i] = order[i]
          /\ order'[Len(order) + 1] = held
          /\ Len(order) = tx_state.busy + Len(txq)
        BY <1>3, UsbTxOrder
    <2>3. tx_state.busy < 2 => tx_state.first = next_tx
        BY <1>1, <2>1 DEF BankInv
    <2>4. CASE /\ tx_state.busy = 0 /\ tx_state'.busy = 1 /\ txq = <<>>
               /\ txd'[tx_state.first] = held
        BY <2>1, <2>2, <2>3, <2>4
    <2>5. CASE /\ tx_state.busy = 1 /\ tx_state'.busy = 2 /\ txq = <<>> /\ txq' = <<>>
               /\ txd'[1 - tx_state.first] = held
               /\ txd'[tx_state.first] = txd[tx_state.first]
        <3>1. order[1] = txd[next_tx]
            BY <1>1, <2>1, <2>5 DEF InTurn
        <3>2. order'[1] = txd'[next_tx'] /\ order'[2] = txd'[1 - next_tx']
            BY <2>1, <2>2, <2>3, <2>5, <3>1
        <3> QED
            BY <2>5, <3>2
    <2>6. CASE /\ tx_state.busy = 2 /\ tx_state' = tx_state
               /\ txq' = Append(txq, held) /\ txd' = txd
        <3>1. /\ order[1] = txd[next_tx] /\ order[2] = txd[1 - next_tx]
              /\ \A i \in 1 .. Len(txq) : order[i + 2] = txq[i]
            BY <1>1, <2>1, <2>6 DEF InTurn
        <3>2. /\ Len(txq') = Len(txq) + 1 /\ txq'[Len(txq) + 1] = held
              /\ \A i \in 1 .. Len(txq) : txq'[i] = txq[i]
            <4>1. held \in Buffers
                BY <1>3, UsbTxOwns
            <4> QED
                BY <1>1, <2>6, <4>1, AppendProperties
        <3>3. order'[1] = txd'[next_tx'] /\ order'[2] = txd'[1 - next_tx']
            BY <1>1, <2>1, <2>2, <2>6, <3>1
        <3>4. ASSUME NEW i \in 1 .. Len(txq') PROVE order'[i + 2] = txq'[i]
            <4>1. CASE i \in 1 .. Len(txq)
                <5>1. i + 2 \in 1 .. Len(order)
                    BY <1>1, <2>2, <2>6, <4>1
                <5> QED
                    BY <2>2, <3>1, <3>2, <4>1, <5>1
            <4>2. CASE i = Len(txq) + 1
                BY <1>1, <2>2, <2>6, <3>2, <4>2
            <4> QED
                BY <1>1, <3>2, <4>1, <4>2
        <3> QED
            BY <3>3, <3>4
    <2> QED
        BY <1>3, <2>4, <2>5, <2>6, UsbTxBanks
<1>4. CASE SetConfiguration
    BY <1>4, SetConfigurationBanks DEF InTurn
<1>5. CASE ~TxToken /\ ~UsbTx /\ ~SetConfiguration
    BY <1>1, <1>5, OtherSteps DEF InTurn
<1> QED
    BY <1>2, <1>3, <1>4, <1>5

-----------------------------------------------------------------------------
(***************************************************************************)
(* The invariant and the theorems.                                         *)
(***************************************************************************)
LEMMA UsbInitially ==
    ASSUME Init
    PROVE  TypeOK /\ UsbInv
<1>1. /\ configured = FALSE /\ resets = 0
      /\ mem = [avail |-> Buffers, rx |-> [k \in Receivers |-> None], needed |-> 0]
      /\ rxq = <<>> /\ txq = <<>> /\ txd = [b \in Banks |-> None]
      /\ tx_state = [busy |-> 0, first |-> EVEN] /\ order = <<>>
      /\ buf = [p \in Buffers |-> 0] /\ next_rx = EVEN /\ next_tx = EVEN
      /\ pc = "wait" /\ held = None /\ sent = 0 /\ replied = 0
    BY DEF Init
<1>2. mem \in Mem
    BY <1>1 DEF Mem
<1>3. TypeOK
    <2>1. /\ resets \in 0 .. MaxResets /\ sent \in 0 .. MaxSent /\ replied \in 0 .. MaxReplies
          /\ buf \in [Buffers -> 0 .. MaxSent \cup 0 .. MaxReplies]
        BY <1>1, UsbAssumption
    <2>2. /\ rxq \in Seq(Buffers) /\ txq \in Seq(Buffers) /\ order \in Seq(Buffers)
          /\ Len(txq) <= TxPacketLimit
        BY <1>1, UsbAssumption
    <2>3. txd \in [Banks -> Buffers \cup {None}] /\ tx_state \in [busy : 0 .. 2, first : Banks]
        BY <1>1 DEF Banks, EVEN
    <2> QED
        BY <1>1, <1>2, <2>1, <2>2, <2>3 DEF TypeOK, Mem, Banks, EVEN
<1>4. /\ Armed(mem) = {} /\ ArmedOnce(mem) /\ Banked = {} /\ Held = {}
      /\ Range(rxq) = {} /\ Range(txq) = {} /\ Range(order) = {}
      /\ Once(rxq) /\ Once(txq) /\ Once(order)
    BY <1>1 DEF Armed, ArmedOnce, Banked, Held, Range, Once
<1>5. txd[0] = None /\ txd[1] = None
    BY <1>1 DEF Banks
<1>6. OwnInv
    <2>1. None \notin Buffers
        BY UsbAssumption DEF Buffers
    <2> QED
        BY <1>1, <1>4, <1>5, <2>1 DEF OwnInv, OnceInv, ApartInv, AllInv, HeldInv
<1>7. Unconfigured /\ ConfiguredInv /\ SerialInv
    BY <1>1, <1>5 DEF Unconfigured, ConfiguredInv, SerialInv
<1>8. NeededInv
    BY <1>1 DEF NeededInv, NeededBy, Starved, Receivers
<1>9. BankInv /\ LimitInv /\ OrderInv /\ InTurn
    BY <1>1, <1>4, <1>5 DEF BankInv, LimitInv, OrderInv, InTurn
<1> QED
    BY <1>3, <1>6, <1>7, <1>8, <1>9 DEF UsbInv

LEMMA UsbStep ==
    ASSUME TypeOK, UsbInv, [Next]_vars
    PROVE  TypeOK' /\ UsbInv'
<1>1. TypeOK' /\ OwnInv'
    BY OwnStep
<1>2. ConfiguredInv' /\ SerialInv' /\ NeededInv'
    BY ConfiguredStep, SerialStep, NeededStep
<1>3. BankInv' /\ LimitInv' /\ OrderInv' /\ InTurn'
    BY BankStep, LimitStep, OrderStep, TurnStep
<1> QED
    BY <1>1, <1>2, <1>3 DEF UsbInv

LEMMA UsbInvariant == Spec => [](TypeOK /\ UsbInv)
<1>1. Init => TypeOK /\ UsbInv
    BY UsbInitially
<1>2. TypeOK /\ UsbInv /\ [Next]_vars => (TypeOK /\ UsbInv)'
    BY UsbStep
<1> QED
    BY <1>1, <1>2, PTL DEF Spec

\* Every variable keeps its type.
THEOREM UsbTypeCorrect == Spec => []TypeOK
    BY UsbInvariant, PTL

\* A reply that is queued is within the host's reach, on a device configured
\* once: tx_state follows the controller by counting.
THEOREM RepliesStayInReach == Spec => []ReplyInReach
<1>1. TypeOK /\ UsbInv => ReplyInReach
    <2> SUFFICES ASSUME TypeOK, UsbInv, resets = 0, txq # <<>> \/ \E b \in Banks : txd[b] # None
                 PROVE  txd[next_tx] # None
        BY DEF ReplyInReach
    <2>1. /\ tx_state.busy \in 0 .. 2 /\ tx_state.first \in {0, 1} /\ next_tx \in {0, 1}
          /\ BankInv
        BY Transmitter
    <2>2. tx_state.busy # 0
        BY <2>1 DEF BankInv, Banks
    <2> QED
        BY <2>1, <2>2 DEF BankInv
<1> QED
    BY <1>1, UsbInvariant, PTL

\* usb_rx_memory_needed never says that more receivers starve than do, except
\* when it has wrapped to 255, and then none does.  usb_isr, main's usb_free and
\* Nobody change it behind each other's back, but only ever make it too small.
THEOREM NeedNeverOverstated == Spec => []NeededBy(mem)
<1>1. UsbInv => NeededBy(mem)
    BY DEF UsbInv, NeededInv
<1> QED
    BY <1>1, UsbInvariant, PTL

\* A list has an element at one place, or nowhere.
LEMMA OneIndex ==
    ASSUME NEW s, Once(s), NEW e, NEW tag
    PROVE  /\ e \in Range(s) =>
                \E i \in DOMAIN s : {<<tag, n>> : n \in {j \in DOMAIN s : s[j] = e}} = {<<tag, i>>}
           /\ e \notin Range(s) => {<<tag, n>> : n \in {j \in DOMAIN s : s[j] = e}} = {}
<1>1. ASSUME e \in Range(s)
      PROVE  \E i \in DOMAIN s : {<<tag, n>> : n \in {j \in DOMAIN s : s[j] = e}} = {<<tag, i>>}
    <2>1. PICK i \in DOMAIN s : s[i] = e
        BY <1>1 DEF Range
    <2>2. {j \in DOMAIN s : s[j] = e} = {i}
        BY <2>1 DEF Once
    <2> QED
        BY <2>2
<1>2. ASSUME e \notin Range(s)
      PROVE  {<<tag, n>> : n \in {j \in DOMAIN s : s[j] = e}} = {}
    <2>1. {j \in DOMAIN s : s[j] = e} = {}
        BY <1>2 DEF Range
    <2> QED
        BY <2>1
<1> QED
    BY <1>1, <1>2

\* No buffer leaks, is freed twice, or is used by two: at any time every buffer
\* is at one place of the pool, the descriptors, the queues and main.
THEOREM BuffersAtOnePlace == Spec => []OnePlace
<1>1. ASSUME TypeOK, UsbInv, NEW p \in Buffers
      PROVE  Cardinality(Places(p)) = 1
    <2> DEFINE free == {<<"free", 0>> : q \in mem.avail \cap {p}}
               rx == {<<"rx", k>> : k \in {j \in Receivers : mem.rx[j] = p}}
               rq == {<<"rxq", i>> : i \in {j \in DOMAIN rxq : rxq[j] = p}}
               tx == {<<"tx", b>> : b \in {j \in Banks : txd[j] = p}}
               tq == {<<"txq", i>> : i \in {j \in DOMAIN txq : txq[j] = p}}
               hold == {<<"main", 0>> : q \in {held} \cap {p}}
    <2>1. Places(p) = free \cup rx \cup rq \cup tx \cup tq \cup hold
        BY DEF Places
    <2>2. p # None /\ OnceInv /\ ApartInv /\ AllInv
        BY <1>1, Typed DEF OwnInv
    <2>3. /\ p \in mem.avail => free = {<<"free", 0>>}
          /\ p \notin mem.avail => free = {}
        <3>1. /\ p \in mem.avail => mem.avail \cap {p} = {p}
              /\ p \notin mem.avail => mem.avail \cap {p} = {}
            OBVIOUS
        <3>2. CASE p \in mem.avail
            BY <3>1, <3>2
        <3>3. CASE p \notin mem.avail
            BY <3>1, <3>3
        <3> QED
            BY <3>2, <3>3
    <2>4. /\ p \in Armed(mem) => \E x : rx = {x}
          /\ p \notin Armed(mem) => rx = {}
        <3>1. ASSUME p \in Armed(mem) PROVE \E x : rx = {x}
            <4>1. PICK k \in Receivers : mem.rx[k] = p
                BY <3>1 DEF Armed
            <4>2. {j \in Receivers : mem.rx[j] = p} = {k}
                BY <2>2, <4>1 DEF OnceInv, ArmedOnce
            <4>3. rx = {<<"rx", k>>}
                BY <4>2
            <4> QED
                BY <4>3
        <3>2. ASSUME p \notin Armed(mem) PROVE rx = {}
            BY <2>2, <3>2 DEF Armed
        <3> QED
            BY <3>1, <3>2
    <2>5. /\ p \in Range(rxq) => \E x : rq = {x}
          /\ p \notin Range(rxq) => rq = {}
        <3>1. Once(rxq)
            BY <2>2 DEF OnceInv
        <3>2. /\ p \in Range(rxq) => \E i \in DOMAIN rxq : rq = {<<"rxq", i>>}
              /\ p \notin Range(rxq) => rq = {}
            BY <3>1, OneIndex, Zenon
        <3> QED
            BY <3>2
    <2>6. /\ p \in Banked => \E x : tx = {x}
          /\ p \notin Banked => tx = {}
        <3>1. ASSUME p \in Banked PROVE \E x : tx = {x}
            <4>1. PICK b \in Banks : txd[b] = p
                BY <3>1 DEF Banked
            <4>2. {j \in Banks : txd[j] = p} = {b}
                BY <2>2, <4>1 DEF OnceInv, Banks
            <4>3. tx = {<<"tx", b>>}
                BY <4>2
            <4> QED
                BY <4>3
        <3>2. ASSUME p \notin Banked PROVE tx = {}
            BY <2>2, <3>2 DEF Banked
        <3> QED
            BY <3>1, <3>2
    <2>7. /\ p \in Range(txq) => \E x : tq = {x}
          /\ p \notin Range(txq) => tq = {}
        <3>1. Once(txq)
            BY <2>2 DEF OnceInv
        <3>2. /\ p \in Range(txq) => \E i \in DOMAIN txq : tq = {<<"txq", i>>}
              /\ p \notin Range(txq) => tq = {}
            BY <3>1, OneIndex, Zenon
        <3> QED
            BY <3>2
    <2>8. /\ p \in Held => hold = {<<"main", 0>>}
          /\ p \notin Held => hold = {}
        BY <2>2 DEF Held
    <2> HIDE DEF free, rx, rq, tx, tq, hold
    <2>9. \E x : Places(p) = {x}
        <3>1. CASE p \in mem.avail
            <4>1. p \notin Armed(mem) \cup Range(rxq) \cup Banked \cup Range(txq) \cup Held
                BY <2>2, <3>1 DEF ApartInv, Held
            <4>2. Places(p) = free
                BY <2>1, <2>4, <2>5, <2>6, <2>7, <2>8, <4>1
            <4> QED
                BY <2>3, <3>1, <4>2
        <3>2. CASE p \in Armed(mem)
            <4>1. p \notin mem.avail \cup Range(rxq) \cup Banked \cup Range(txq) \cup Held
                BY <2>2, <3>2 DEF ApartInv, Held
            <4>2. Places(p) = rx
                BY <2>1, <2>3, <2>5, <2>6, <2>7, <2>8, <4>1
            <4> QED
                BY <2>4, <3>2, <4>2
        <3>3. CASE p \in Range(rxq)
            <4>1. p \notin mem.avail \cup Armed(mem) \cup Banked \cup Range(txq) \cup Held
                BY <2>2, <3>3 DEF ApartInv, Held
            <4>2. Places(p) = rq
                BY <2>1, <2>3, <2>4, <2>6, <2>7, <2>8, <4>1
            <4> QED
                BY <2>5, <3>3, <4>2
        <3>4. CASE p \in Banked
            <4>1. p \notin mem.avail \cup Armed(mem) \cup Range(rxq) \cup Range(txq) \cup Held
                BY <2>2, <3>4 DEF ApartInv, Held
            <4>2. Places(p) = tx
                BY <2>1, <2>3, <2>4, <2>5, <2>7, <2>8, <4>1
            <4> QED
                BY <2>6, <3>4, <4>2
        <3>5. CASE p \in Range(txq)
            <4>1. p \notin mem.avail \cup Armed(mem) \cup Range(rxq) \cup Banked \cup Held
                BY <2>2, <3>5 DEF ApartInv, Held
            <4>2. Places(p) = tq
                BY <2>1, <2>3, <2>4, <2>5, <2>6, <2>8, <4>1
            <4> QED
                BY <2>7, <3>5, <4>2
        <3>6. CASE p \in Held
            <4>1. p \notin mem.avail \cup Armed(mem) \cup Range(rxq) \cup Banked \cup Range(txq)
                BY <2>2, <3>6 DEF ApartInv, Held
            <4>2. Places(p) = hold
                BY <2>1, <2>3, <2>4, <2>5, <2>6, <2>7, <4>1
            <4> QED
                BY <2>8, <3>6, <4>2
        <3> QED
            BY <2>2, <3>1, <3>2, <3>3, <3>4, <3>5, <3>6 DEF AllInv
    <2> QED
        BY <2>9, FS_Singleton
<1>2. TypeOK /\ UsbInv => OnePlace
    BY <1>1 DEF OnePlace
<1> QED
    BY <1>2, UsbInvariant, PTL

-----------------------------------------------------------------------------
(***************************************************************************)
(* The contents of a queue of buffers.                                     *)
(***************************************************************************)
Contents(s, f) == [i \in DOMAIN s |-> f[s[i]]]
Values == 0 .. MaxSent \cup 0 .. MaxReplies

LEMMA ContentsSeq ==
    ASSUME NEW s \in Seq(Buffers), NEW f \in [Buffers -> Values]
    PROVE  /\ Contents(s, f) \in Seq(Values) /\ Len(Contents(s, f)) = Len(s)
           /\ \A i \in 1 .. Len(s) : Contents(s, f)[i] = f[s[i]]
<1>1. Len(s) \in Nat /\ DOMAIN s = 1 .. Len(s) /\ \A i \in 1 .. Len(s) : s[i] \in Buffers
    BY LenProperties, ElementOfSeq
<1>2. Contents(s, f) = [i \in 1 .. Len(s) |-> f[s[i]]]
    BY <1>1 DEF Contents
<1>3. Contents(s, f) \in [1 .. Len(s) -> Values]
    BY <1>1, <1>2
<1> QED
    BY <1>1, <1>2, <1>3

\* Only the buffers in the queue matter.
LEMMA ContentsSame ==
    ASSUME NEW s \in Seq(Buffers), NEW f, NEW g, \A x \in Range(s) : g[x] = f[x]
    PROVE  Contents(s, g) = Contents(s, f)
    BY DEF Contents, Range

\* A buffer that is written and queued.
LEMMA ContentsAppend ==
    ASSUME NEW s \in Seq(Buffers), NEW p \in Buffers, p \notin Range(s),
           NEW f \in [Buffers -> Values], NEW v \in Values
    PROVE  Contents(Append(s, p), [f EXCEPT ![p] = v]) = Append(Contents(s, f), v)
<1> DEFINE g == [f EXCEPT ![p] = v]
           a == Contents(Append(s, p), g)
           c == Contents(s, f)
           d == Append(c, v)
<1>1. Len(s) \in Nat /\ \A i \in 1 .. Len(s) : s[i] \in Buffers /\ s[i] # p
    BY LenProperties, ElementOfSeq DEF Range
<1>2. g \in [Buffers -> Values] /\ g[p] = v /\ \A x \in Buffers : x # p => g[x] = f[x]
    OBVIOUS
<1>3. /\ Append(s, p) \in Seq(Buffers) /\ Len(Append(s, p)) = Len(s) + 1
      /\ \A i \in 1 .. Len(s) : Append(s, p)[i] = s[i]
      /\ Append(s, p)[Len(s) + 1] = p
    BY AppendProperties
<1> HIDE DEF g
<1>4. /\ a \in Seq(Values) /\ Len(a) = Len(s) + 1
      /\ \A i \in 1 .. Len(s) + 1 : a[i] = g[Append(s, p)[i]]
    <2> DEFINE u == Append(s, p)
    <2>1. u \in Seq(Buffers) /\ Len(u) = Len(s) + 1
        BY <1>3
    <2>2. a = Contents(u, g)
        OBVIOUS
    <2> HIDE DEF u, a
    <2>3. /\ a \in Seq(Values) /\ Len(a) = Len(s) + 1
          /\ \A i \in 1 .. Len(s) + 1 : a[i] = g[u[i]]
        BY <1>2, <2>1, <2>2, ContentsSeq
    <2> QED
        BY <2>3 DEF u
<1>5. c \in Seq(Values) /\ Len(c) = Len(s) /\ \A i \in 1 .. Len(s) : c[i] = f[s[i]]
    BY ContentsSeq
<1> HIDE DEF a, c
<1>6. /\ d \in Seq(Values) /\ Len(d) = Len(s) + 1
      /\ \A i \in 1 .. Len(s) : d[i] = c[i]
      /\ d[Len(s) + 1] = v
    BY <1>5, AppendProperties
<1> HIDE DEF d
<1>7. ASSUME NEW i \in 1 .. Len(a) PROVE a[i] = d[i]
    <2>1. CASE i \in 1 .. Len(s)
        <3>1. a[i] = g[s[i]]
            BY <1>3, <1>4, <2>1
        <3> QED
            BY <1>1, <1>2, <1>5, <1>6, <2>1, <3>1
    <2>2. CASE i = Len(s) + 1
        BY <1>1, <1>2, <1>3, <1>4, <1>6, <2>2
    <2> QED
        BY <1>1, <1>4, <2>1, <2>2
<1>8. a = d
    BY <1>4, <1>6, <1>7, SeqEqual
<1> QED
    BY <1>8 DEF a, d, c, g

\* The first packet is taken out of the queue.
LEMMA ContentsTail ==
    ASSUME NEW s \in Seq(Buffers), s # <<>>, NEW f \in [Buffers -> Values]
    PROVE  /\ Contents(s, f) # <<>>
           /\ Contents(Tail(s), f) = Tail(Contents(s, f))
<1> DEFINE a == Contents(Tail(s), f)
           c == Contents(s, f)
           d == Tail(c)
<1>1. /\ Len(s) \in Nat \ {0} /\ Tail(s) \in Seq(Buffers) /\ Len(Tail(s)) = Len(s) - 1
      /\ \A i \in 1 .. Len(s) - 1 : Tail(s)[i] = s[i + 1]
    <2>1. Len(s) \in Nat \ {0}
        BY EmptySeq
    <2>2. /\ Tail(s) \in Seq(Buffers) /\ Len(Tail(s)) = Len(s) - 1
          /\ \A i \in 1 .. Len(Tail(s)) : Tail(s)[i] = s[i + 1]
        BY HeadTailProperties
    <2> QED
        BY <2>1, <2>2
<1>2. a \in Seq(Values) /\ Len(a) = Len(s) - 1 /\ \A i \in 1 .. Len(s) - 1 : a[i] = f[Tail(s)[i]]
    <2>1. Tail(s) \in Seq(Buffers)
        BY <1>1
    <2>2. /\ a \in Seq(Values) /\ Len(a) = Len(Tail(s))
          /\ \A i \in 1 .. Len(Tail(s)) : a[i] = f[Tail(s)[i]]
        BY <2>1, ContentsSeq, Zenon
    <2> QED
        BY <1>1, <2>2, Zenon
<1>3. c \in Seq(Values) /\ Len(c) = Len(s) /\ \A i \in 1 .. Len(s) : c[i] = f[s[i]]
    BY ContentsSeq
<1> HIDE DEF a, c
<1>4. c # <<>>
    BY <1>1, <1>3
<1>5. d \in Seq(Values) /\ Len(d) = Len(s) - 1 /\ \A i \in 1 .. Len(s) - 1 : d[i] = c[i + 1]
    BY <1>3, <1>4, HeadTailProperties
<1> HIDE DEF d
<1>6. ASSUME NEW i \in 1 .. Len(a) PROVE a[i] = d[i]
    <2>1. i \in 1 .. Len(s) - 1 /\ i + 1 \in 1 .. Len(s)
        BY <1>1, <1>2
    <2> QED
        BY <1>1, <1>2, <1>3, <1>5, <2>1
<1>7. a = d
    BY <1>2, <1>5, <1>6, SeqEqual
<1> QED
    BY <1>4, <1>7 DEF a, d, c

\* A reply is taken out of the queue, wherever it is.
LEMMA ContentsRemove ==
    ASSUME NEW s \in Seq(Buffers), NEW i \in 1 .. Len(s), NEW f \in [Buffers -> Values]
    PROVE  Contents(RemoveAt(s, i), f) = RemoveAt(Contents(s, f), i)
<1> DEFINE t == RemoveAt(s, i)
           a == Contents(t, f)
           c == Contents(s, f)
           d == RemoveAt(c, i)
<1>1. Len(s) \in Nat /\ DOMAIN s = 1 .. Len(s)
    BY LenProperties
<1>2. /\ t \in Seq(Buffers) /\ Len(t) = Len(s) - 1
      /\ \A j \in 1 .. Len(s) - 1 : t[j] = IF j < i THEN s[j] ELSE s[j + 1]
    <2>1. i \in DOMAIN s
        BY <1>1
    <2> QED
        BY <2>1, RemoveOnce, ZenonT(60)
<1> HIDE DEF t
<1>3. a \in Seq(Values) /\ Len(a) = Len(s) - 1 /\ \A j \in 1 .. Len(s) - 1 : a[j] = f[t[j]]
    <2>1. t \in Seq(Buffers)
        BY <1>2
    <2>2. a \in Seq(Values) /\ Len(a) = Len(t) /\ \A j \in 1 .. Len(t) : a[j] = f[t[j]]
        BY <2>1, ContentsSeq, Zenon
    <2> QED
        BY <1>2, <2>2, Zenon
<1>4. c \in Seq(Values) /\ Len(c) = Len(s) /\ \A j \in 1 .. Len(s) : c[j] = f[s[j]]
    BY ContentsSeq
<1> HIDE DEF a, c
<1>5. /\ d \in Seq(Values) /\ Len(d) = Len(s) - 1
      /\ \A j \in 1 .. Len(s) - 1 : d[j] = IF j < i THEN c[j] ELSE c[j + 1]
    <2>1. i \in DOMAIN c
        BY <1>4, LenProperties
    <2> QED
        BY <1>4, <2>1, RemoveOnce
<1> HIDE DEF d
<1>6. ASSUME NEW j \in 1 .. Len(a) PROVE a[j] = d[j]
    <2>1. j \in 1 .. Len(s) - 1 /\ j \in 1 .. Len(s) /\ j + 1 \in 1 .. Len(s)
        BY <1>1, <1>3
    <2>2. a[j] = f[t[j]]
        BY <1>3, <2>1
    <2>3. CASE j < i
        <3>1. t[j] = s[j] /\ d[j] = c[j]
            BY <1>2, <1>5, <2>1, <2>3
        <3> QED
            BY <1>4, <2>1, <2>2, <3>1
    <2>4. CASE ~(j < i)
        <3>1. t[j] = s[j + 1] /\ d[j] = c[j + 1]
            BY <1>2, <1>5, <2>1, <2>4
        <3> QED
            BY <1>4, <2>1, <2>2, <3>1
    <2> QED
        BY <2>3, <2>4
<1>7. a = d
    BY <1>3, <1>5, <1>6, SeqEqual
<1> QED
    BY <1>7 DEF a, d, c, t

\* Two queues and three more buffers: there are not more than there are buffers.
LEMMA Room ==
    ASSUME NEW s \in Seq(Buffers), NEW t \in Seq(Buffers), Once(s), Once(t),
           Range(s) \cap Range(t) = {},
           NEW x \in Buffers, NEW y \in Buffers, NEW z \in Buffers,
           x # y, x # z, y # z, {x, y, z} \cap (Range(s) \cup Range(t)) = {}
    PROVE  Len(s) + Len(t) < NumBuffers - 2
<1> DEFINE m == Len(s)
           n == Len(t)
           P == 1 .. m + n + 3
           w == [i \in P |-> IF i <= m THEN s[i] ELSE IF i <= m + n THEN t[i - m]
                             ELSE IF i = m + n + 1 THEN x ELSE IF i = m + n + 2 THEN y ELSE z]
<1>1. /\ m \in Nat /\ n \in Nat /\ DOMAIN s = 1 .. m /\ DOMAIN t = 1 .. n
      /\ \A i \in 1 .. m : s[i] \in Buffers /\ s[i] \in Range(s)
      /\ \A i \in 1 .. n : t[i] \in Buffers /\ t[i] \in Range(t)
    BY LenProperties, ElementOfSeq DEF Range
<1> HIDE DEF m, n
<1>2. w \in [P -> Buffers]
    BY <1>1
<1>3. ASSUME NEW i \in P, NEW j \in P, i # j PROVE w[i] # w[j]
    <2> SUFFICES ASSUME NEW a \in P, NEW b \in P, a < b PROVE w[a] # w[b]
        BY <1>1, <1>3
    <2>1. CASE b <= m
        <3>1. a \in 1 .. m /\ b \in 1 .. m
            BY <1>1, <2>1
        <3> QED
            BY <1>1, <2>1, <3>1 DEF Once
    <2>2. CASE a <= m /\ m < b /\ b <= m + n
        <3>1. a \in 1 .. m /\ b - m \in 1 .. n
            BY <1>1, <2>2
        <3>2. w[a] = s[a] /\ w[b] = t[b - m]
            BY <1>1, <2>2
        <3> QED
            BY <1>1, <3>1, <3>2
    <2>3. CASE a <= m /\ m + n < b
        <3>1. a \in 1 .. m /\ w[a] = s[a] /\ w[b] \in {x, y, z}
            BY <1>1, <2>3
        <3> QED
            BY <1>1, <3>1
    <2>4. CASE m < a /\ b <= m + n
        <3>1. a - m \in 1 .. n /\ b - m \in 1 .. n /\ a - m # b - m
            BY <1>1, <2>4
        <3>2. w[a] = t[a - m] /\ w[b] = t[b - m]
            BY <1>1, <2>4
        <3> QED
            BY <1>1, <3>1, <3>2 DEF Once
    <2>5. CASE m < a /\ a <= m + n /\ m + n < b
        <3>1. a - m \in 1 .. n /\ w[a] = t[a - m] /\ w[b] \in {x, y, z}
            BY <1>1, <2>5
        <3> QED
            BY <1>1, <3>1
    <2>6. CASE m + n < a
        BY <1>1, <2>6
    <2> QED
        BY <1>1, <2>1, <2>2, <2>3, <2>4, <2>5, <2>6
<1>4. /\ IsFiniteSet(P) /\ Cardinality(P) = m + n + 3
      /\ IsFiniteSet(Buffers) /\ Cardinality(Buffers) = NumBuffers
    <2>1. /\ IsFiniteSet(P)
          /\ Cardinality(P) = IF 1 > m + n + 3 THEN 0 ELSE (m + n + 3) - 1 + 1
        <3>1. 1 \in Int /\ m + n + 3 \in Int
            BY <1>1
        <3> QED
            BY <3>1, FS_Interval, Zenon
    <2>2. /\ IsFiniteSet(Buffers)
          /\ Cardinality(Buffers) = IF 0 > NumBuffers - 1 THEN 0 ELSE (NumBuffers - 1) - 0 + 1
        <3>1. 0 \in Int /\ NumBuffers - 1 \in Int
            BY UsbAssumption
        <3> QED
            BY <3>1, FS_Interval, Zenon DEF Buffers
    <2> QED
        BY <1>1, <2>1, <2>2, UsbAssumption
<1> HIDE DEF w, P
<1>5. ~(NumBuffers < m + n + 3)
    BY <1>2, <1>3, <1>4, FS_PigeonHole
<1> QED
    BY <1>1, <1>5, UsbAssumption DEF m, n

-----------------------------------------------------------------------------
(***************************************************************************)
(* The queues are those of UsbLink.                                        *)
(***************************************************************************)
\* No reply is lost, so each reads as what its buffer holds.
LEMMA QueuedContents ==
    ASSUME TypeOK, OrderInv
    PROVE  Queued = Contents(order, buf)
<1>1. \A i \in DOMAIN order : order[i] \in Range(txd) \cup Range(txq)
    <2>1. \A i \in DOMAIN order : order[i] \in Banked \cup Range(txq)
        BY DEF OrderInv, Range
    <2>2. Banked \subseteq Range(txd)
        BY DEF TypeOK, Banked, Range
    <2> QED
        BY <2>1, <2>2
<1>2. \A i \in DOMAIN order : Reply(order[i]) = buf[order[i]]
    BY <1>1, Zenon DEF Reply
<1> QED
    BY <1>2 DEF Queued, Contents

LEMMA Queues ==
    ASSUME TypeOK, UsbInv
    PROVE  /\ Received = Contents(rxq, buf) /\ Queued = Contents(order, buf)
           /\ buf \in [Buffers -> Values] /\ rxq \in Seq(Buffers) /\ order \in Seq(Buffers)
           /\ Len(Received) = Len(rxq) /\ Len(Queued) = Len(order)
<1>1. buf \in [Buffers -> Values] /\ rxq \in Seq(Buffers) /\ order \in Seq(Buffers)
    BY DEF TypeOK, Values
<1>2. Received = Contents(rxq, buf) /\ Queued = Contents(order, buf)
    BY QueuedContents DEF UsbInv, Received, Contents
<1> QED
    BY <1>1, <1>2, ContentsSeq

LEMMA QueuesAfter ==
    ASSUME TypeOK', UsbInv'
    PROVE  Received' = Contents(rxq', buf') /\ Queued' = Contents(order', buf')
<1>1. Received' = Contents(rxq', buf')
    BY DEF Received, Contents
<1>2. Queued' = Contents(order', buf')
    <2>1. \A i \in DOMAIN order' : order'[i] \in Range(txd') \cup Range(txq')
        <3>1. \A i \in DOMAIN order' : order'[i] \in Banked' \cup Range(txq')
            BY DEF UsbInv, OrderInv, Range
        <3>2. Banked' \subseteq Range(txd')
            BY DEF TypeOK, Banked, Range
        <3> QED
            BY <3>1, <3>2
    <2>2. [i \in DOMAIN order' |-> IF order'[i] \in Range(txd') \cup Range(txq')
                                   THEN buf'[order'[i]] ELSE None] = Contents(order', buf')
        BY <2>1 DEF Contents
    <2> QED
        BY <2>2 DEF Queued, Reply
<1> QED
    BY <1>1, <1>2

\* A command is received only while there is room for it.
LEMMA RxTokenReceives ==
    ASSUME TypeOK, UsbInv, RxToken, TypeOK', UsbInv'
    PROVE  Link!Receive
<1> DEFINE k == RawHid(next_rx)
           p == mem.rx[k]
<1>1. /\ k \in {3, 4} /\ p # None /\ rxq' = Append(rxq, p)
      /\ buf' = [buf EXCEPT ![p] = sent + 1] /\ sent < MaxSent /\ sent \in 0 .. MaxSent
      /\ UNCHANGED <<order, resets>> /\ configured
    BY DEF RxToken, RawHid, TypeOK, Banks, transmitter
<1>2. /\ mem.rx \in [Receivers -> Buffers \cup {None}] /\ {1, 2, 3, 4} \subseteq Receivers
      /\ OnceInv /\ ApartInv /\ mem \in Mem
    BY Typed DEF OwnInv, Receivers
<1>3. mem.rx[1] # None /\ mem.rx[2] # None
    BY <1>1, Zenon DEF UsbInv, SerialInv, Unconfigured
<1>4. /\ p \in Buffers /\ mem.rx[1] \in Buffers /\ mem.rx[2] \in Buffers
      /\ {mem.rx[1], mem.rx[2], p} \subseteq Armed(mem)
      /\ mem.rx[1] # mem.rx[2] /\ mem.rx[1] # p /\ mem.rx[2] # p
    <2> HIDE DEF k
    <2>1. p \in Buffers /\ mem.rx[1] \in Buffers /\ mem.rx[2] \in Buffers
        BY <1>1, <1>2, <1>3
    <2>2. k \in Receivers /\ 1 \in Receivers /\ 2 \in Receivers /\ k # 1 /\ k # 2 /\ p = mem.rx[k]
        BY <1>1, <1>2
    <2>3. \A i, j \in Receivers : mem.rx[i] = mem.rx[j] /\ mem.rx[i] # None => i = j
        BY <1>2, Zenon DEF OnceInv, ArmedOnce
    <2> HIDE DEF p
    <2>4. mem.rx[1] # mem.rx[2] /\ mem.rx[1] # p /\ mem.rx[2] # p
        BY <1>3, <2>2, <2>3
    <2>5. mem.rx[1] \in Armed(mem) /\ mem.rx[2] \in Armed(mem) /\ p \in Armed(mem)
        BY <1>1, <1>3, <2>2 DEF Armed
    <2> QED
        BY <2>1, <2>4, <2>5
<1>5. Once(rxq) /\ Once(order) /\ Range(rxq) \cap Range(order) = {}
      /\ Armed(mem) \cap (Range(rxq) \cup Range(order)) = {}
    BY <1>2 DEF OnceInv, ApartInv, UsbInv, OrderInv
<1>6. /\ Received = Contents(rxq, buf) /\ Queued = Contents(order, buf)
      /\ buf \in [Buffers -> Values] /\ rxq \in Seq(Buffers) /\ order \in Seq(Buffers)
      /\ Len(Received) = Len(rxq) /\ Len(Queued) = Len(order)
      /\ Received' = Contents(rxq', buf') /\ Queued' = Contents(order', buf')
    BY Queues, QueuesAfter
<1> HIDE DEF k, p
<1>7. Len(rxq) + Len(order) < NumBuffers - 2
    <2> DEFINE x == mem.rx[1]
               y == mem.rx[2]
    <2>1. /\ x \in Buffers /\ y \in Buffers /\ x # y /\ x # p /\ y # p
          /\ {x, y, p} \cap (Range(rxq) \cup Range(order)) = {}
        BY <1>4, <1>5
    <2> HIDE DEF x, y
    <2> QED
        BY <1>4, <1>5, <1>6, <2>1, Room
<1>8. sent + 1 \in 1 .. MaxSent /\ sent + 1 \in Values
    BY <1>1, UsbAssumption DEF Values
<1>9. Received' = Append(Received, sent + 1)
    <2>1. p \notin Range(rxq)
        BY <1>4, <1>5
    <2>2. Contents(Append(rxq, p), [buf EXCEPT ![p] = sent + 1]) = Append(Contents(rxq, buf), sent + 1)
        <3>1. p \in Buffers /\ rxq \in Seq(Buffers) /\ buf \in [Buffers -> Values] /\ sent + 1 \in Values
            BY <1>4, <1>6, <1>8
        <3> QED
            BY <2>1, <3>1, ContentsAppend, ZenonT(30)
    <2>3. Received' = Contents(Append(rxq, p), [buf EXCEPT ![p] = sent + 1])
        BY <1>1, <1>6, Zenon
    <2> QED
        BY <1>6, <2>2, <2>3, Zenon
<1>10. Queued' = Queued
    <2>1. \A x \in Range(order) : buf'[x] = buf[x]
        <3>1. \A x \in Range(order) : x # p /\ x \in Buffers
            BY <1>4, <1>5, <1>6, RangeOfSeq
        <3> QED
            BY <1>1, <1>6, <3>1
    <2> QED
        BY <1>1, <1>6, <2>1, ContentsSame
<1> QED
    BY <1>1, <1>6, <1>7, <1>8, <1>9, <1>10 DEF Link!Receive

\* A reply is queued only while there is room for it.
LEMMA UsbTxQueues ==
    ASSUME TypeOK, UsbInv, UsbTx, TypeOK', UsbInv'
    PROVE  Link!Queue
<1>1. /\ buf' = [buf EXCEPT ![held] = replied + 1] /\ rxq' = rxq /\ resets' = resets
      /\ pc = "tx" /\ replied \in 0 .. MaxReplies
    BY DEF UsbTx, TypeOK
<1>2. /\ held \in Buffers /\ held \notin Range(order) /\ order' = Append(order, held)
      /\ Len(order) = tx_state.busy + Len(txq)
    BY UsbTxOwns, UsbTxOrder DEF UsbInv, OrderInv
<1>3. /\ mem.rx \in [Receivers -> Buffers \cup {None}] /\ {1, 2, 3, 4} \subseteq Receivers
      /\ OnceInv /\ ApartInv /\ mem \in Mem /\ None \notin Buffers
    BY Typed DEF OwnInv, Receivers
<1>4. mem.rx[1] # None /\ mem.rx[2] # None
    BY <1>1 DEF UsbInv, SerialInv, Unconfigured
<1>5. /\ mem.rx[1] \in Buffers /\ mem.rx[2] \in Buffers
      /\ {mem.rx[1], mem.rx[2]} \subseteq Armed(mem) /\ mem.rx[1] # mem.rx[2]
    BY <1>3, <1>4 DEF OnceInv, ArmedOnce, Armed
<1>6. /\ Once(rxq) /\ Once(order) /\ Range(rxq) \cap Range(order) = {}
      /\ Armed(mem) \cap (Range(rxq) \cup Range(order)) = {}
      /\ held \notin Armed(mem) \cup Range(rxq)
    BY <1>3 DEF OnceInv, ApartInv, UsbInv, OrderInv
<1>7. /\ Received = Contents(rxq, buf) /\ Queued = Contents(order, buf)
      /\ buf \in [Buffers -> Values] /\ rxq \in Seq(Buffers) /\ order \in Seq(Buffers)
      /\ Len(Received) = Len(rxq) /\ Len(Queued) = Len(order)
      /\ Received' = Contents(rxq', buf') /\ Queued' = Contents(order', buf')
    BY Queues, QueuesAfter
<1>8. Len(rxq) + Len(order) < NumBuffers - 2
    <2> DEFINE x == mem.rx[1]
               y == mem.rx[2]
    <2>1. /\ x \in Buffers /\ y \in Buffers /\ x # y /\ x # held /\ y # held
          /\ {x, y, held} \cap (Range(rxq) \cup Range(order)) = {}
        BY <1>2, <1>5, <1>6
    <2> HIDE DEF x, y
    <2> QED
        BY <1>2, <1>6, <1>7, <2>1, Room
<1>9. Len(order) < TxPacketLimit + 2
    <2>1. Len(txq) < TxPacketLimit /\ Len(txq) \in Nat /\ tx_state.busy \in 0 .. 2
        BY <1>1, Transmitter, LenProperties DEF UsbInv, LimitInv
    <2> QED
        BY <1>2, <2>1, UsbAssumption
<1>10. replied + 1 \in 1 .. MaxReplies /\ replied + 1 \in Values
    <2>1. replied < MaxReplies
        BY <1>1 DEF UsbInv, LimitInv
    <2> QED
        BY <1>1, <2>1, UsbAssumption DEF Values
<1>11. Queued' = Append(Queued, replied + 1)
    BY <1>1, <1>2, <1>7, <1>10, ContentsAppend
<1>12. Received' = Received
    <2>1. \A x \in Range(rxq) : buf'[x] = buf[x]
        <3>1. \A x \in Range(rxq) : x # held /\ x \in Buffers
            BY <1>6, <1>7, RangeOfSeq
        <3> QED
            BY <1>1, <1>7, <3>1
    <2> QED
        BY <1>1, <1>7, <2>1, ContentsSame
<1> QED
    BY <1>1, <1>7, <1>8, <1>9, <1>10, <1>11, <1>12 DEF Link!Queue

\* A reply is fetched: the oldest, on a device configured once.
LEMMA TxTokenFetches ==
    ASSUME TypeOK, UsbInv, TxToken, TypeOK', UsbInv'
    PROVE  Link!Fetch
<1>1. buf' = buf /\ rxq' = rxq /\ resets' = resets
    BY DEF TxToken
<1>2. /\ Fetched \in 1 .. Len(order) /\ order[Fetched] = txd[next_tx]
      /\ order' = RemoveAt(order, Fetched) /\ Once(order)
    BY TxTokenOrder
<1>3. /\ Received = Contents(rxq, buf) /\ Queued = Contents(order, buf)
      /\ buf \in [Buffers -> Values] /\ order \in Seq(Buffers)
      /\ Len(Queued) = Len(order)
      /\ Received' = Contents(rxq', buf') /\ Queued' = Contents(order', buf')
    BY Queues, QueuesAfter
<1>4. Fetched = 1 \/ resets > 0
    <2>1. CASE resets = 0
        <3>1. tx_state.busy > 0 /\ order[1] = txd[next_tx]
            BY <2>1, TxTokenBanks DEF UsbInv, InTurn
        <3>2. DOMAIN order = 1 .. Len(order) /\ Len(order) \in Nat
            BY <1>3, LenProperties
        <3> QED
            BY <1>2, <3>1, <3>2 DEF Once
    <2>2. CASE resets # 0
        <3>1. resets \in Nat
            BY Transmitter
        <3> QED
            BY <2>2, <3>1
    <2> QED
        BY <2>1, <2>2
<1>5. Queued' = RemoveAt(Queued, Fetched)
    BY <1>1, <1>2, <1>3, ContentsRemove
<1>6. Received' = Received
    BY <1>1, <1>3
<1> QED
    BY <1>1, <1>2, <1>3, <1>4, <1>5, <1>6 DEF Link!Fetch, Link!Without, RemoveAt

\* main takes the oldest command.
LEMMA UsbRxReads ==
    ASSUME TypeOK, UsbInv, UsbRx, TypeOK', UsbInv'
    PROVE  Link!Read \/ UNCHANGED Link!vars
<1>1. buf' = buf /\ order' = order /\ resets' = resets
    BY DEF UsbRx, transmitter
<1>2. /\ Received = Contents(rxq, buf) /\ Queued = Contents(order, buf)
      /\ buf \in [Buffers -> Values] /\ rxq \in Seq(Buffers)
      /\ Received' = Contents(rxq', buf') /\ Queued' = Contents(order', buf')
    BY Queues, QueuesAfter
<1>3. CASE rxq # <<>> /\ rxq' = Tail(rxq)
    <2>1. Received # <<>> /\ Received' = Tail(Received)
        BY <1>1, <1>2, <1>3, ContentsTail
    <2> QED
        BY <1>1, <1>2, <2>1 DEF Link!Read
<1>4. CASE rxq' = rxq
    BY <1>1, <1>2, <1>4 DEF Link!vars
<1> QED
    BY <1>3, <1>4 DEF UsbRx

\* A configuration empties both queues.
LEMMA SetConfigurationConfigures ==
    ASSUME TypeOK, UsbInv, SetConfiguration, TypeOK', UsbInv'
    PROVE  Link!Configure
<1>1. rxq' = <<>> /\ order' = <<>> /\ resets' \in {resets, resets + 1} /\ resets \in Nat
    BY Transmitter DEF SetConfiguration
<1>2. Received' = <<>> /\ Queued' = <<>>
    BY <1>1 DEF Received, Queued
<1> QED
    BY <1>1, <1>2 DEF Link!Configure

\* Every step is one of UsbLink, or none.
LEMMA LinkStep ==
    ASSUME TypeOK, UsbInv, [Next]_vars, TypeOK', UsbInv'
    PROVE  [Link!Next]_(Link!vars)
<1>1. CASE RxToken
    BY <1>1, RxTokenReceives DEF Link!Next
<1>2. CASE TxToken
    BY <1>2, TxTokenFetches DEF Link!Next
<1>3. CASE SetConfiguration
    BY <1>3, SetConfigurationConfigures DEF Link!Next
<1>4. CASE UsbRx
    BY <1>4, UsbRxReads DEF Link!Next
<1>5. CASE UsbTx
    BY <1>5, UsbTxQueues DEF Link!Next
<1>6. CASE ~RxToken /\ ~TxToken /\ ~SetConfiguration /\ ~UsbRx /\ ~UsbTx
    <2>1. UNCHANGED <<resets, txd, txq, order>>
        BY <1>6, OtherSteps
    <2>2. UNCHANGED <<rxq, buf>>
        <3>1. CASE Poll \/ UsbWait \/ UsbFree \/ Put \/ UsbRxMemory \/ UNCHANGED vars
            BY <3>1 DEF Poll, UsbWait, UsbFree, Put, UsbRxMemory, vars, usb
        <3>2. CASE Nobody \/ Exec \/ GiveUp \/ UsbTxPacketCount \/ UsbMalloc
            BY <3>2 DEF Nobody, Exec, GiveUp, UsbTxPacketCount, UsbMalloc, usb
        <3> QED
            BY <1>6, <3>1, <3>2 DEF Next, Bus, Main
    <2>3. Received' = Received /\ Queued' = Queued
        BY <2>1, <2>2, Queues, QueuesAfter
    <2> QED
        BY <2>1, <2>3 DEF Link!vars
<1> QED
    BY <1>1, <1>2, <1>3, <1>4, <1>5, <1>6

\* Between the host and main there are two queues: commands are read in the
\* order in which they were received, and replies, on a device configured once,
\* fetched in the order in which main sent them, although they lie in two banks
\* used in turn and a list behind them, and in buffers that change hands.
THEOREM BuffersImplementLink == Spec => ImplementsLink
<1>1. Init => Link!Init
    BY DEF Init, Link!Init, Received, Queued
<1>2. (TypeOK /\ UsbInv) /\ [Next]_vars /\ (TypeOK /\ UsbInv)' => [Link!Next]_(Link!vars)
    BY LinkStep
<1> QED
    BY <1>1, <1>2, UsbInvariant, PTL DEF Spec, ImplementsLink, Link!Spec

=============================================================================
