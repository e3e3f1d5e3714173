----------------------------- MODULE HostProofs -----------------------------
(***************************************************************************)
(* The host's clients: the USB device, the USB/IP server and the GDB stub, *)
(* for every set of endpoints and addresses and every size of the tables   *)
(* and buffers.                                                            *)
(*                                                                         *)
(* That each URB is answered once needs an invariant that says where an    *)
(* URB can be: in the stream, in the table of pending URBs, waiting for    *)
(* its status stage, or answered (queued in tx_buf or received), and in    *)
(* one of these places only.  The lemmas about it are moves: an URB is     *)
(* taken from a place, and is then nowhere until it is put into another.   *)
(* Every step of the poll and of the client is one or two moves.           *)
(***************************************************************************)
EXTENDS MCHost, Induction, SequenceTheorems, FiniteSetTheorems, TLAPS

-----------------------------------------------------------------------------
(* The USB device: the endpoint registers and the cause of ISTR.CTR. *)

UsbInv == UsbTypeOK /\ TransferFlagHasCause

\* The toggle bits map status fields to status fields.
LEMMA ToggleIsStat ==
  ASSUME NEW a \in Stats, NEW b \in Stats
  PROVE  Toggle(a, b) \in Stats
  BY DEF Toggle, Stats

\* What software writes to arm an endpoint is a pair of status fields.
LEMMA ArmingIsStat ==
  ASSUME UsbTypeOK, NEW e \in Endpoints, NEW arm \in Pair(BOOLEAN)
  PROVE  Arming(e, arm) \in Pair(Stats)
  <1>1. ep[e].stat_rx \in Stats /\ ep[e].stat_tx \in Stats
    BY DEF UsbTypeOK, EpRegister
  <1>2. VALID \in Stats /\ 0 \in Stats
    BY DEF VALID, Stats
  <1>3. Toggle(ep[e].stat_rx, VALID) \in Stats /\ Toggle(ep[e].stat_tx, VALID) \in Stats
    BY <1>1, <1>2, ToggleIsStat
  <1>. QED
    BY <1>2, <1>3 DEF Arming, Pair

\* After power-on, every endpoint is disabled and ISTR is clear.
LEMMA UsbZeroTyped ==
  /\ UsbZero.ep \in [Endpoints -> EpRegister]
  /\ UsbZero.istr \in [ctr : BOOLEAN, reset : BOOLEAN] /\ ~UsbZero.istr.ctr
  <1>1. [ctr_rx |-> FALSE, stat_rx |-> DISABLED, ctr_tx |-> FALSE, stat_tx |-> DISABLED]
          \in EpRegister
    BY DEF EpRegister, DISABLED, Stats
  <1>. QED
    BY <1>1 DEF UsbZero

\* The device starts with no transfer flag.
LEMMA UsbInvInit == UsbInit => UsbInv
  BY UsbZeroTyped DEF UsbInit, UsbInv, UsbTypeOK, TransferFlagHasCause

\* A packet, in either direction, leaves the endpoint's own flag behind.
LEMMA TransferStep ==
  ASSUME UsbInv, NEW e \in Endpoints, NEW setup,
         usb_ep_out(e, setup) \/ usb_ep_in(e)
  PROVE  UsbInv'
  <1>1. /\ ep \in [Endpoints -> EpRegister] /\ istr \in [ctr : BOOLEAN, reset : BOOLEAN]
        /\ ctrm \in BOOLEAN /\ ef \in BOOLEAN /\ usbIrq \in BOOLEAN
    BY DEF UsbInv, UsbTypeOK
  <1>0. ep[e] \in EpRegister /\ NAK \in Stats
    BY <1>1 DEF NAK, Stats
  <1>2. PICK r \in EpRegister : Done(r) /\ ep' = [ep EXCEPT ![e] = r]
    <2>1. CASE usb_ep_out(e, setup)
      <3>. DEFINE r == [ep[e] EXCEPT !.ctr_rx = TRUE, !.stat_rx = NAK]
      <3>1. r \in EpRegister /\ r.ctr_rx
        BY <1>0 DEF EpRegister
      <3>2. ep' = [ep EXCEPT ![e] = r]
        BY <2>1 DEF usb_ep_out
      <3>. QED
        BY <3>1, <3>2 DEF Done
    <2>2. CASE usb_ep_in(e)
      <3>. DEFINE r == [ep[e] EXCEPT !.ctr_tx = TRUE, !.stat_tx = NAK]
      <3>1. r \in EpRegister /\ r.ctr_tx
        BY <1>0 DEF EpRegister
      <3>2. ep' = [ep EXCEPT ![e] = r]
        BY <2>2 DEF usb_ep_in
      <3>. QED
        BY <3>1, <3>2 DEF Done
    <2>. QED
      BY <2>1, <2>2
  <1>3. /\ istr' = [istr EXCEPT !.ctr = TRUE] /\ usbIrq' = (usbIrq \/ ctrm)
        /\ UNCHANGED <<ctrm, ef>>
    BY DEF usb_ep_out, usb_ep_in, usb_set_istr, usb_raise_irq
  <1>4. ep' \in [Endpoints -> EpRegister] /\ ep'[e] = r
    BY <1>1, <1>2
  <1>5. TransferFlagHasCause'
    BY <1>2, <1>4 DEF TransferFlagHasCause
  <1>6. UsbTypeOK'
    BY <1>1, <1>3, <1>4 DEF UsbTypeOK
  <1>. QED
    BY <1>5, <1>6 DEF UsbInv

\* ISTR.CTR goes with the last flag of an endpoint.
LEMMA EndpointWriteStep ==
  ASSUME UsbInv, NEW e \in Endpoints, NEW keep \in Pair(BOOLEAN), NEW tog \in Pair(Stats),
         usb_ep_write(e, keep, tog)
  PROVE  UsbInv'
  <1>1. ep \in [Endpoints -> EpRegister] /\ istr \in [ctr : BOOLEAN, reset : BOOLEAN]
    BY DEF UsbInv, UsbTypeOK
  <1>2. Toggle(ep[e].stat_rx, tog.rx) \in Stats /\ Toggle(ep[e].stat_tx, tog.tx) \in Stats
    BY <1>1, ToggleIsStat DEF EpRegister, Pair
  <1>. DEFINE r == [ep[e] EXCEPT !.ctr_rx = @ /\ keep.rx, !.ctr_tx = @ /\ keep.tx,
                     !.stat_rx = Toggle(@, tog.rx), !.stat_tx = Toggle(@, tog.tx)]
  <1>3. r \in EpRegister
    <2>. DEFINE p == ep[e]
                x == Toggle(p.stat_rx, tog.rx)
                y == Toggle(p.stat_tx, tog.tx)
                v == p.ctr_rx /\ keep.rx
                w == p.ctr_tx /\ keep.tx
    <2>1. p \in EpRegister /\ x \in Stats /\ y \in Stats
      BY <1>1, <1>2
    <2>2. v \in BOOLEAN /\ w \in BOOLEAN
      OBVIOUS
    <2>3. r = [p EXCEPT !.ctr_rx = v, !.ctr_tx = w, !.stat_rx = x, !.stat_tx = y]
      OBVIOUS
    <2>. HIDE DEF p, x, y, v, w, r
    <2>. QED
      BY ONLY <2>1, <2>2, <2>3 DEF EpRegister
  <1>4. ep' = [ep EXCEPT ![e] = r]
    BY <1>1 DEF usb_ep_write
  <1>5. ep' \in [Endpoints -> EpRegister]
    BY <1>1, <1>3, <1>4
  <1>6. istr' = [istr EXCEPT !.ctr = istr.ctr /\ \E f \in Endpoints : Done(ep'[f])]
    BY DEF usb_ep_write
  <1>7. istr' \in [ctr : BOOLEAN, reset : BOOLEAN]
        /\ istr'.ctr = (istr.ctr /\ \E f \in Endpoints : Done(ep'[f]))
    BY <1>1, <1>6
  <1>8. UNCHANGED <<ctrm, ef, usbIrq>>
    BY DEF usb_ep_write
  <1>. QED
    BY <1>5, <1>7, <1>8 DEF UsbInv, UsbTypeOK, TransferFlagHasCause

\* The steps that leave the endpoint registers alone, or clear everything.
LEMMA OtherUsbStep ==
  ASSUME UsbInv,
         \/ usb_bus_reset \/ UsbInterruptTaken \/ mm_stm32h563_usb_reset
         \/ \E keep \in BOOLEAN : WriteIstr(keep)
         \/ \E v \in BOOLEAN : WriteCntr(v) \/ WriteDaddr(v)
         \/ UNCHANGED usbVars
  PROVE  UsbInv'
  <1>. USE DEF UsbInv, UsbTypeOK, TransferFlagHasCause
  <1>1. CASE usb_bus_reset
    BY <1>1 DEF usb_bus_reset, usb_raise_irq
  <1>2. CASE UsbInterruptTaken
    BY <1>2 DEF UsbInterruptTaken
  <1>3. CASE mm_stm32h563_usb_reset
    BY <1>3, UsbZeroTyped DEF mm_stm32h563_usb_reset
  <1>4. ASSUME NEW keep \in BOOLEAN, WriteIstr(keep)
        PROVE  UsbInv'
    BY <1>4 DEF WriteIstr
  <1>5. ASSUME NEW v \in BOOLEAN, WriteCntr(v) \/ WriteDaddr(v)
        PROVE  UsbInv'
    BY <1>5 DEF WriteCntr, WriteDaddr
  <1>6. CASE UNCHANGED usbVars
    BY <1>6 DEF usbVars
  <1>. QED
    BY <1>1, <1>2, <1>3, <1>4, <1>5, <1>6

\* Every step of the device, the host and the software keeps the invariant.
LEMMA UsbInvStep == UsbInv /\ [UsbNext]_usbVars => UsbInv'
  <1>. SUFFICES ASSUME UsbInv, [UsbNext]_usbVars
                PROVE  UsbInv'
    OBVIOUS
  <1>1. ASSUME NEW e \in Endpoints, NEW setup \in BOOLEAN,
               usb_ep_out(e, setup) \/ usb_ep_in(e)
        PROVE  UsbInv'
    BY <1>1, TransferStep
  <1>2. ASSUME NEW e \in Endpoints, NEW keep \in Pair(BOOLEAN), NEW arm \in Pair(BOOLEAN),
               usb_ep_write(e, keep, Arming(e, arm))
        PROVE  UsbInv'
    BY <1>2, ArmingIsStat, EndpointWriteStep DEF UsbInv
  <1>. QED
    BY <1>1, <1>2, OtherUsbStep DEF UsbNext

(***************************************************************************)
(* The fields of every endpoint register keep their width, also under the  *)
(* toggle bits (usb_ep_write).                                             *)
(***************************************************************************)
THEOREM UsbTypeCorrect == UsbSpec => []UsbTypeOK
  <1>1. UsbInv => UsbTypeOK
    BY DEF UsbInv
  <1>. QED
    BY UsbInvInit, UsbInvStep, <1>1, PTL DEF UsbSpec

(***************************************************************************)
(* ISTR.CTR is set only while some endpoint register shows a completed     *)
(* transfer (usb_set_istr, usb_ep_write).                                  *)
(***************************************************************************)
THEOREM TransferFlagHasCauseCorrect == UsbSpec => []TransferFlagHasCause
  <1>1. UsbInv => TransferFlagHasCause
    BY DEF UsbInv
  <1>. QED
    BY UsbInvInit, UsbInvStep, <1>1, PTL DEF UsbSpec

-----------------------------------------------------------------------------
(* The USB/IP server: each URB is answered once. *)

\* What the server has of the client's stream, and what is still to come.
Queue == IF client = 0 THEN << >> ELSE rx \o net

\* The answers that end an URB, and those that answer an unlink.
Final == {"submit", "again", "reset"}
Ending == {"reset", "unlink"}

\* The replies of tx_buf that are still to be sent.
Due(t, o) == o + 1 .. Len(t)

\* URB s has an answer of a kind in H, queued or received.
Replied(H, t, o, g, s) ==
  \/ \E i \in Due(t, o) : t[i].seqnum = s /\ t[i].how \in H
  \/ \E h \in H : g[s][h] > 0

\* No URB has two answers of a kind in H.
Once(H, t, o, g) ==
  /\ \A i, j \in Due(t, o) :
       t[i].seqnum = t[j].seqnum /\ t[i].how \in H /\ t[j].how \in H => i = j
  /\ \A i \in Due(t, o) : t[i].how \in H => \A h \in H : g[t[i].seqnum][h] = 0
  /\ \A s \in Seqs : \A h, k \in H : g[s][h] > 0 /\ g[s][k] > 0 => h = k /\ g[s][h] = 1

InTable(pend, s) == \E k \in 1 .. PendSlots : pend[k].active /\ pend[k].seqnum = s
Queued(q, p, s) == \E i \in DOMAIN q : q[i].pdu = p /\ q[i].seqnum = s
NeedsBody(p, ub) ==
  p.pdu = "import" \/ (p.pdu = "submit" /\ ub[p.seqnum].kind = "bulk out")

\* The stream holds the present client's URBs in the order of their numbers,
\* each unlink once, and each body behind the header that announces it.
QueueOK(q, c, ub) ==
  /\ \A i \in DOMAIN q : q[i].pdu \in {"submit", "unlink"} =>
       q[i].seqnum \in DOMAIN ub /\ ub[q[i].seqnum].by = c
  /\ \A i, j \in DOMAIN q : i < j /\ q[i].pdu = "submit" /\ q[j].pdu = "submit" =>
       q[i].seqnum < q[j].seqnum
  /\ \A i, j \in DOMAIN q : i < j /\ q[i].pdu = "unlink" /\ q[j].pdu = "unlink" =>
       q[i].seqnum # q[j].seqnum
  /\ \A i \in DOMAIN q : NeedsBody(q[i], ub) => i + 1 \in DOMAIN q /\ q[i + 1].pdu = "body"

\* A waiting URB is the present client's, and waits in one slot.
TableOK(pend, c, ub) ==
  /\ \A k \in 1 .. PendSlots : pend[k].active =>
       pend[k].seqnum \in DOMAIN ub /\ ub[pend[k].seqnum].by = c
  /\ \A k, l \in 1 .. PendSlots :
       pend[k].active /\ pend[l].active /\ pend[k].seqnum = pend[l].seqnum => k = l

\* Only a control transfer has a status stage; it may be a former client's.
StatusOK(so, ub) == so # 0 => so \in DOMAIN ub /\ ub[so].kind = "control out"
Mine(s, c, ub) == ub[s].by = c \/ ub[s].kind = "control out"

RepliesOK(t, o, g, c, ub) ==
  /\ Once(Final, t, o, g) /\ Once(Ending, t, o, g)
  /\ \A i \in Due(t, o) : t[i].how # "op" =>
       t[i].seqnum \in DOMAIN ub /\ Mine(t[i].seqnum, c, ub)
  /\ \A s \in Seqs, h \in Answers : g[s][h] > 0 =>
       s \in DOMAIN ub /\ (c = 0 \/ Mine(s, c, ub))

\* An URB is in one place: in the stream, in the table, waiting for its status
\* stage, or answered; and the status stage is that of an earlier URB than
\* those in the stream.
OnePlace(q, pend, so, t, o, g) ==
  /\ \A s \in Seqs : Queued(q, "submit", s) =>
       so < s /\ ~InTable(pend, s) /\ ~Replied(Final, t, o, g, s)
  /\ \A s \in Seqs : InTable(pend, s) => s # so /\ ~Replied(Final, t, o, g, s)
  /\ so # 0 => ~Replied(Final, t, o, g, so)
  /\ \A s \in Seqs : Queued(q, "unlink", s) => ~Replied(Ending, t, o, g, s)

Overtaken(s, ub) == /\ ub[s].kind = "control out"
                    /\ \E x \in DOMAIN ub : x > s /\ ub[x].kind = "control out"

\* And it is in some place, as long as its client is there, with the two
\* exceptions of EachUrbAnsweredOnce.
Covered(q, pend, so, t, o, g, dr, c, ub) ==
  \A s \in DOMAIN ub : ub[s].by = c =>
    \/ Queued(q, "submit", s) \/ InTable(pend, s) \/ so = s
    \/ Replied(Final, t, o, g, s) \/ s \in dr \/ Overtaken(s, ub)

Urb == [kind : Kinds, by : 1 .. MaxClients]
Got == [Seqs -> [Answers -> Nat]]
Pending == [1 .. PendSlots -> Slot]

-----------------------------------------------------------------------------
(* Replies *)

\* A header has a number.
LEMMA PieceNumber ==
  ASSUME NEW p \in Pieces, p.pdu \in {"submit", "unlink"}
  PROVE  p.seqnum \in Seqs
  BY DEF Pieces

\* A reply more is an answer more.
LEMMA ReplyMore ==
  ASSUME NEW t \in Seq(Replies), NEW o \in 0 .. Len(t), NEW g \in Got, NEW r \in Replies,
         NEW H \in SUBSET Answers
  PROVE  /\ Append(t, r) \in Seq(Replies) /\ o \in 0 .. Len(Append(t, r))
         /\ Len(Append(t, r)) = Len(t) + 1
         /\ \A s : Replied(H, Append(t, r), o, g, s) <=>
              Replied(H, t, o, g, s) \/ (r.seqnum = s /\ r.how \in H)
         /\ /\ Once(H, t, o, g)
            /\ r.how \in H => r.seqnum \in Seqs /\ ~Replied(H, t, o, g, r.seqnum)
            => Once(H, Append(t, r), o, g)
  <1>. DEFINE a == Append(t, r)
  <1>1. /\ a \in Seq(Replies) /\ Len(a) = Len(t) + 1 /\ a[Len(t) + 1] = r
        /\ \A i \in 1 .. Len(t) : a[i] = t[i]
    BY AppendProperties
  <1>2. Len(t) \in Nat
    OBVIOUS
  <1>. HIDE DEF a
  <1>3. Due(a, o) = Due(t, o) \cup {Len(t) + 1} /\ \A i \in Due(t, o) : a[i] = t[i]
    BY <1>1, <1>2 DEF Due
  <1>4. \A s : Replied(H, a, o, g, s) <=>
              Replied(H, t, o, g, s) \/ (r.seqnum = s /\ r.how \in H)
    BY <1>1, <1>3 DEF Replied
  <1>5. ASSUME Once(H, t, o, g),
               r.how \in H => r.seqnum \in Seqs /\ ~Replied(H, t, o, g, r.seqnum)
        PROVE  Once(H, a, o, g)
    <2>0. Len(t) + 1 \notin Due(t, o)
      BY <1>2 DEF Due
    <2>1. \A i, j \in Due(a, o) :
            a[i].seqnum = a[j].seqnum /\ a[i].how \in H /\ a[j].how \in H => i = j
      <3>. SUFFICES ASSUME NEW i \in Due(a, o), NEW j \in Due(a, o),
                           a[i].seqnum = a[j].seqnum, a[i].how \in H, a[j].how \in H
                    PROVE  i = j
        OBVIOUS
      <3>1. CASE i \in Due(t, o) /\ j \in Due(t, o)
        BY <1>3, <1>5, <3>1 DEF Once
      <3>2. CASE i = Len(t) + 1 /\ j \in Due(t, o)
        BY <1>1, <1>3, <1>5, <3>2 DEF Replied
      <3>3. CASE j = Len(t) + 1 /\ i \in Due(t, o)
        BY <1>1, <1>3, <1>5, <3>3 DEF Replied
      <3>. QED
        BY <1>3, <3>1, <3>2, <3>3
    <2>2. \A i \in Due(a, o) : a[i].how \in H => \A h \in H : g[a[i].seqnum][h] = 0
      <3>. SUFFICES ASSUME NEW i \in Due(a, o), a[i].how \in H, NEW h \in H
                    PROVE  g[a[i].seqnum][h] = 0
        OBVIOUS
      <3>1. CASE i \in Due(t, o)
        BY <1>3, <1>5, <3>1 DEF Once
      <3>2. CASE i = Len(t) + 1
        <4>1. r.seqnum \in Seqs /\ ~(g[r.seqnum][h] > 0)
          BY <1>1, <1>5, <3>2 DEF Replied
        <4>2. g[r.seqnum][h] \in Nat
          BY <4>1 DEF Got
        <4>. QED
          BY <1>1, <3>2, <4>1, <4>2
      <3>. QED
        BY <1>3, <3>1, <3>2
    <2>. QED
      BY <1>5, <2>1, <2>2 DEF Once
  <1>. QED
    BY <1>1, <1>2, <1>4, <1>5 DEF a

\* The replies from o to n are received: what the client has counted.
Received(g2, g, t, o, n) ==
  \A s \in Seqs, h \in Answers :
    LET M(i) == t[i].seqnum = s /\ t[i].how = h
    IN /\ g2[s][h] >= g[s][h]
       /\ g2[s][h] > g[s][h] <=> \E i \in o + 1 .. n : M(i)
       /\ (\A i, j \in o + 1 .. n : M(i) /\ M(j) => i = j) => g2[s][h] <= g[s][h] + 1

\* Sending moves answers, and makes none.
LEMMA SendMoves ==
  ASSUME NEW t \in Seq(Replies), NEW o \in 0 .. Len(t), NEW n \in o .. Len(t),
         NEW g \in Got, NEW g2 \in Got, Received(g2, g, t, o, n),
         NEW H \in SUBSET Answers
  PROVE  /\ \A s \in Seqs : Replied(H, t, n, g2, s) <=> Replied(H, t, o, g, s)
         /\ (\A i \in Due(t, o) : t[i].how \in H => t[i].seqnum \in Seqs)
              => (Once(H, t, o, g) => Once(H, t, n, g2))
  <1>0. Len(t) \in Nat /\ o \in Nat /\ n \in Nat
    OBVIOUS
  <1>1. Due(t, o) = o + 1 .. n \cup Due(t, n) /\ Due(t, n) \cap o + 1 .. n = {}
    BY <1>0 DEF Due
  <1>2. \A s \in Seqs, h \in Answers : g[s][h] \in Nat /\ g2[s][h] \in Nat
    BY DEF Got
  <1>3. \A s \in Seqs, h \in Answers :
          g2[s][h] > 0 <=> g[s][h] > 0 \/ \E i \in o + 1 .. n : t[i].seqnum = s /\ t[i].how = h
    BY <1>2 DEF Received
  <1>4. \A s \in Seqs : Replied(H, t, n, g2, s) <=> Replied(H, t, o, g, s)
    BY <1>1, <1>3 DEF Replied
  <1>5. ASSUME Once(H, t, o, g), \A i \in Due(t, o) : t[i].how \in H => t[i].seqnum \in Seqs
        PROVE  Once(H, t, n, g2)
    <2>1. \A i \in Due(t, n) : t[i].how \in H => \A h \in H : g2[t[i].seqnum][h] = 0
      <3>. SUFFICES ASSUME NEW i \in Due(t, n), t[i].how \in H, NEW h \in H,
                           g2[t[i].seqnum][h] > 0
                    PROVE  FALSE
        BY <1>1, <1>2, <1>5
      <3>1. t[i].seqnum \in Seqs /\ i \in Due(t, o) /\ i \notin o + 1 .. n /\ h \in Answers
        BY <1>1, <1>5
      <3>2. g[t[i].seqnum][h] = 0
        BY <1>5, <3>1 DEF Once
      <3>3. PICK j \in o + 1 .. n : t[j].seqnum = t[i].seqnum /\ t[j].how = h
        BY <1>3, <3>1, <3>2
      <3>. QED
        BY <1>1, <1>5, <3>1, <3>3 DEF Once
    <2>2. \A s \in Seqs : \A h, k \in H : g2[s][h] > 0 /\ g2[s][k] > 0 => h = k /\ g2[s][h] = 1
      <3>. SUFFICES ASSUME NEW s \in Seqs, NEW h \in H, NEW k \in H, g2[s][h] > 0, g2[s][k] > 0
                    PROVE  h = k /\ g2[s][h] = 1
        OBVIOUS
      <3>0. h \in Answers /\ k \in Answers
        OBVIOUS
      <3>1. \A i, j \in o + 1 .. n :
              t[i].seqnum = s /\ t[i].how \in H /\ t[j].seqnum = s /\ t[j].how \in H => i = j
        BY <1>1, <1>5 DEF Once
      <3>2. (\E i \in o + 1 .. n : t[i].seqnum = s /\ t[i].how \in H)
              => g[s][h] = 0 /\ g[s][k] = 0
        BY <1>1, <1>5 DEF Once
      <3>3. g2[s][h] <= g[s][h] + 1
        BY <3>0, <3>1 DEF Received
      <3>4. CASE \E i \in o + 1 .. n : t[i].seqnum = s /\ t[i].how \in H
        <4>1. g[s][h] = 0 /\ g[s][k] = 0
          BY <3>2, <3>4
        <4>2. /\ \E i \in o + 1 .. n : t[i].seqnum = s /\ t[i].how = h
              /\ \E i \in o + 1 .. n : t[i].seqnum = s /\ t[i].how = k
          BY <1>3, <3>0, <4>1
        <4>3. h = k
          BY <3>1, <4>2
        <4>. QED
          BY <1>2, <3>0, <3>3, <4>1, <4>3
      <3>5. CASE ~\E i \in o + 1 .. n : t[i].seqnum = s /\ t[i].how \in H
        <4>1. g2[s][h] = g[s][h] /\ g2[s][k] = g[s][k]
          BY <1>2, <3>0, <3>5 DEF Received
        <4>. QED
          BY <1>5, <4>1 DEF Once
      <3>. QED
        BY <3>4, <3>5
    <2>3. \A i, j \in Due(t, n) :
            t[i].seqnum = t[j].seqnum /\ t[i].how \in H /\ t[j].how \in H => i = j
      BY <1>1, <1>5 DEF Once
    <2>. QED
      BY <2>1, <2>2, <2>3 DEF Once
  <1>. QED
    BY <1>4, <1>5

-----------------------------------------------------------------------------
(* The stream *)

\* ub2 has the URBs of ub, and perhaps more.
Extends(ub2, ub) == /\ DOMAIN ub \subseteq DOMAIN ub2
                    /\ \A s \in DOMAIN ub : ub2[s] = ub[s]

\* rest is q without its head, and without the body of the head.
Pops(rest, q, k, ub) ==
  /\ rest \in Seq(Pieces) /\ q # << >> /\ k \in {1, 2}
  /\ Len(rest) = Len(q) - k /\ \A i \in 1 .. Len(rest) : rest[i] = q[i + k]
  /\ k = 2 <=> NeedsBody(q[1], ub)

\* The head of the stream goes, with its body.
LEMMA StreamPop ==
  ASSUME NEW q \in Seq(Pieces), NEW c, NEW ub, QueueOK(q, c, ub),
         NEW rest, NEW k, Pops(rest, q, k, ub)
  PROVE  /\ QueueOK(rest, c, ub)
         /\ \A p \in {"submit", "unlink"} : \A s :
              Queued(q, p, s) <=> Queued(rest, p, s) \/ (q[1].pdu = p /\ q[1].seqnum = s)
         /\ q[1].pdu \in {"submit", "unlink"} => ~Queued(rest, q[1].pdu, q[1].seqnum)
         /\ q[1].pdu = "submit" => \A s : Queued(rest, "submit", s) => q[1].seqnum < s
  <1>p. /\ rest \in Seq(Pieces) /\ q # << >> /\ k \in {1, 2}
        /\ Len(rest) = Len(q) - k /\ \A i \in 1 .. Len(rest) : rest[i] = q[i + k]
        /\ k = 2 <=> NeedsBody(q[1], ub)
    BY DEF Pops
  <1>0. /\ Len(q) \in Nat /\ Len(rest) \in Nat /\ Len(q) > 0
        /\ DOMAIN q = 1 .. Len(q) /\ DOMAIN rest = 1 .. Len(rest)
        /\ k \in Nat /\ Len(rest) + k = Len(q)
    BY <1>p, EmptySeq
  <1>1. \A i \in DOMAIN rest : i + k \in DOMAIN q /\ i + k > k /\ rest[i] = q[i + k]
    BY <1>0, <1>p
  <1>2. \A j \in DOMAIN q : j = 1 \/ (j = 2 /\ k = 2) \/ (j - k \in DOMAIN rest /\ rest[j - k] = q[j])
    BY <1>0, <1>p
  <1>3. k = 2 => q[2].pdu = "body"
    <2>1. 1 \in DOMAIN q /\ 1 + 1 = 2
      BY <1>0
    <2>2. k = 2 => q[1 + 1].pdu = "body"
      BY <1>p, <2>1 DEF QueueOK
    <2>. QED
      BY <2>1, <2>2
  <1>4. \A i \in DOMAIN rest : rest[i].pdu \in {"submit", "unlink"} =>
           rest[i].seqnum \in DOMAIN ub /\ ub[rest[i].seqnum].by = c
    BY <1>1 DEF QueueOK
  <1>5. \A i, j \in DOMAIN rest : i < j => i + k < j + k
    BY <1>0
  <1>6. \A i, j \in DOMAIN rest : i < j /\ rest[i].pdu = "submit" /\ rest[j].pdu = "submit" =>
           rest[i].seqnum < rest[j].seqnum
    BY <1>1, <1>5 DEF QueueOK
  <1>7. \A i, j \in DOMAIN rest : i < j /\ rest[i].pdu = "unlink" /\ rest[j].pdu = "unlink" =>
           rest[i].seqnum # rest[j].seqnum
    BY <1>1, <1>5 DEF QueueOK
  <1>8. ASSUME NEW i \in DOMAIN rest, NeedsBody(rest[i], ub)
        PROVE  i + 1 \in DOMAIN rest /\ rest[i + 1].pdu = "body"
    <2>1. i + k \in DOMAIN q /\ NeedsBody(q[i + k], ub)
      BY <1>1, <1>8
    <2>2. i + k + 1 \in DOMAIN q /\ q[i + k + 1].pdu = "body"
      BY <2>1 DEF QueueOK
    <2>3. i + 1 \in DOMAIN rest /\ i + 1 + k = i + k + 1
      BY <1>0, <2>2
    <2>. QED
      BY <1>1, <2>2, <2>3
  <1>9. QueueOK(rest, c, ub)
    BY <1>4, <1>6, <1>7, <1>8 DEF QueueOK
  <1>10. \A p \in {"submit", "unlink"} : \A s :
            Queued(q, p, s) <=> Queued(rest, p, s) \/ (q[1].pdu = p /\ q[1].seqnum = s)
    <2>. SUFFICES ASSUME NEW p \in {"submit", "unlink"}, NEW s
                  PROVE  Queued(q, p, s) <=> Queued(rest, p, s) \/ (q[1].pdu = p /\ q[1].seqnum = s)
      OBVIOUS
    <2>1. Queued(q, p, s) => Queued(rest, p, s) \/ (q[1].pdu = p /\ q[1].seqnum = s)
      BY <1>2, <1>3 DEF Queued
    <2>2. Queued(rest, p, s) => Queued(q, p, s)
      BY <1>1 DEF Queued
    <2>3. 1 \in DOMAIN q
      BY <1>0
    <2>. QED
      BY <2>1, <2>2, <2>3 DEF Queued
  <1>11. \A i \in DOMAIN rest : 1 \in DOMAIN q /\ 1 < i + k /\ i + k \in DOMAIN q /\ rest[i] = q[i + k]
    BY <1>0, <1>1, <1>p
  <1>12. q[1].pdu = "submit" => \A s : Queued(rest, "submit", s) => q[1].seqnum < s
    BY <1>11 DEF Queued, QueueOK
  <1>13. q[1].pdu = "unlink" => ~Queued(rest, "unlink", q[1].seqnum)
    BY <1>11 DEF Queued, QueueOK
  <1>14. q[1].pdu = "submit" => ~Queued(rest, "submit", q[1].seqnum)
    <2>1. q[1].pdu = "submit" => q[1].seqnum \in Int
      BY <1>0, PieceNumber, UsbIpBounds DEF Seqs
    <2>. QED
      BY <1>12, <2>1
  <1>. QED
    BY <1>9, <1>10, <1>12, <1>13, <1>14

\* The client adds a header, with its body.
LEMMA StreamPush ==
  ASSUME NEW q \in Seq(Pieces), NEW c, NEW ub, NEW ub2, QueueOK(q, c, ub), Extends(ub2, ub),
         NEW more, more \in Seq(Pieces), NEW k \in {1, 2}, NEW p \in Pieces,
         Len(more) = Len(q) + k, \A i \in 1 .. Len(q) : more[i] = q[i],
         more[Len(q) + 1] = p, k = 2 => more[Len(q) + 2].pdu = "body",
         NeedsBody(p, ub2) => k = 2,
         p.pdu \in {"submit", "unlink"} => p.seqnum \in DOMAIN ub2 /\ ub2[p.seqnum].by = c,
         p.pdu = "submit" => \A s : Queued(q, "submit", s) => s < p.seqnum,
         p.pdu = "unlink" => ~Queued(q, "unlink", p.seqnum)
  PROVE  /\ QueueOK(more, c, ub2)
         /\ \A x \in {"submit", "unlink"} : \A s :
              Queued(more, x, s) <=> Queued(q, x, s) \/ (p.pdu = x /\ p.seqnum = s)
  <1>. DEFINE n == Len(q) + 1
  <1>0. /\ n \in Nat /\ DOMAIN q = 1 .. n - 1 /\ DOMAIN more = 1 .. n - 1 + k
        /\ k \in Nat /\ Len(q) + 2 = n + 1 /\ Len(q) = n - 1
    OBVIOUS
  <1>1. more[n] = p /\ (k = 2 => more[n + 1].pdu = "body") /\ n \in DOMAIN more
    BY <1>0
  <1>. HIDE DEF n
  <1>2. \A i \in DOMAIN q : i \in DOMAIN more /\ more[i] = q[i] /\ i < n
    BY <1>0
  <1>3. \A i \in DOMAIN more : i \in DOMAIN q \/ i = n \/ (i = n + 1 /\ k = 2)
    BY <1>0
  <1>4. \A i \in DOMAIN more : more[i].pdu \in {"submit", "unlink", "import"} =>
           (i \in DOMAIN q /\ more[i] = q[i]) \/ (i = n /\ more[i] = p)
    BY <1>1, <1>2, <1>3
  <1>5. ASSUME NEW i \in DOMAIN more, more[i].pdu \in {"submit", "unlink"}
        PROVE  more[i].seqnum \in DOMAIN ub2 /\ ub2[more[i].seqnum].by = c
    BY <1>4, <1>5 DEF QueueOK, Extends
  <1>6. \A i \in DOMAIN q : ~(n < i)
    BY <1>0
  <1>7. ASSUME NEW i \in DOMAIN more, NEW j \in DOMAIN more, i < j,
               more[i].pdu = "submit", more[j].pdu = "submit"
        PROVE  more[i].seqnum < more[j].seqnum
    <2>1. i \in DOMAIN q /\ more[i] = q[i]
      BY <1>0, <1>4, <1>6, <1>7
    <2>2. CASE j \in DOMAIN q /\ more[j] = q[j]
      BY <1>7, <2>1, <2>2 DEF QueueOK
    <2>3. CASE j = n /\ more[j] = p
      BY <1>7, <2>1, <2>3 DEF Queued
    <2>. QED
      BY <1>4, <1>7, <2>2, <2>3
  <1>8. ASSUME NEW i \in DOMAIN more, NEW j \in DOMAIN more, i < j,
               more[i].pdu = "unlink", more[j].pdu = "unlink"
        PROVE  more[i].seqnum # more[j].seqnum
    <2>1. i \in DOMAIN q /\ more[i] = q[i]
      BY <1>0, <1>4, <1>6, <1>8
    <2>2. CASE j \in DOMAIN q /\ more[j] = q[j]
      BY <1>8, <2>1, <2>2 DEF QueueOK
    <2>3. CASE j = n /\ more[j] = p
      BY <1>8, <2>1, <2>3 DEF Queued
    <2>. QED
      BY <1>4, <1>8, <2>2, <2>3
  <1>9. ASSUME NEW i \in DOMAIN more, NeedsBody(more[i], ub2)
        PROVE  i + 1 \in DOMAIN more /\ more[i + 1].pdu = "body"
    <2>1. more[i].pdu \in {"submit", "unlink", "import"}
      BY <1>9 DEF NeedsBody
    <2>2. CASE i \in DOMAIN q /\ more[i] = q[i]
      <3>1. NeedsBody(q[i], ub)
        <4>1. q[i].pdu \in {"submit", "unlink"} => ub2[q[i].seqnum] = ub[q[i].seqnum]
          BY <2>2 DEF QueueOK, Extends
        <4>. QED
          BY <1>9, <2>2, <4>1 DEF NeedsBody
      <3>2. i + 1 \in DOMAIN q /\ q[i + 1].pdu = "body"
        BY <2>2, <3>1 DEF QueueOK
      <3>. QED
        BY <1>2, <3>2
    <2>3. CASE i = n /\ more[i] = p
      BY <1>0, <1>1, <1>9, <2>3
    <2>. QED
      BY <1>4, <2>1, <2>2, <2>3
  <1>10. QueueOK(more, c, ub2)
    BY <1>5, <1>7, <1>8, <1>9 DEF QueueOK
  <1>11. \A x \in {"submit", "unlink"} : \A s :
            Queued(more, x, s) <=> Queued(q, x, s) \/ (p.pdu = x /\ p.seqnum = s)
    BY <1>1, <1>2, <1>4 DEF Queued
  <1>. QED
    BY <1>10, <1>11

-----------------------------------------------------------------------------
(* The table *)

\* Slot k takes URB s.
Fills(new, pend, k, s) ==
  /\ new \in Pending /\ k \in 1 .. PendSlots /\ ~pend[k].active
  /\ new[k].active /\ new[k].seqnum = s
  /\ \A i \in 1 .. PendSlots : i # k => new[i] = pend[i]

\* A free slot takes an URB.
LEMMA TableFill ==
  ASSUME NEW pend \in Pending, NEW k, NEW s, NEW new, Fills(new, pend, k, s), NEW c, NEW ub,
         TableOK(pend, c, ub), ~InTable(pend, s), s \in DOMAIN ub, ub[s].by = c
  PROVE  /\ \A x : InTable(new, x) <=> InTable(pend, x) \/ x = s
         /\ TableOK(new, c, ub)
  <1>1. \A x : InTable(new, x) <=> InTable(pend, x) \/ x = s
    BY DEF InTable, Fills
  <1>2. TableOK(new, c, ub)
    BY DEF TableOK, InTable, Fills
  <1>. QED
    BY <1>1, <1>2

\* The slots of URB s are released, and perhaps inactive ones.
Releases(new, pend, s) ==
  /\ new \in Pending
  /\ \A i \in 1 .. PendSlots :
       \/ new[i] = pend[i] /\ ~(pend[i].active /\ pend[i].seqnum = s)
       \/ new[i] = Inactive /\ (pend[i].active => pend[i].seqnum = s)

\* Nothing else in the table changes.
LEMMA TableRelease ==
  ASSUME NEW pend \in Pending, NEW s, NEW new, NEW c, NEW ub, TableOK(pend, c, ub), Releases(new, pend, s)
  PROVE  /\ TableOK(new, c, ub)
         /\ \A x : InTable(new, x) <=> InTable(pend, x) /\ x # s
  <1>1. ~Inactive.active
    BY DEF Inactive
  <1>. QED
    BY <1>1 DEF TableOK, InTable, Releases

\* Nothing waits in the empty table.
LEMMA TableEmpty ==
  /\ EmptyTable \in Pending
  /\ \A x : ~InTable(EmptyTable, x)
  /\ \A c, ub : TableOK(EmptyTable, c, ub)
  <1>1. Inactive \in Slot /\ ~Inactive.active
    BY UsbIpBounds DEF Inactive, Slot
  <1>2. EmptyTable \in Pending /\ \A k \in 1 .. PendSlots : EmptyTable[k] = Inactive
    BY <1>1 DEF EmptyTable, Pending
  <1>. QED
    BY <1>1, <1>2 DEF InTable, TableOK

-----------------------------------------------------------------------------
(* The invariant, as a predicate on the server's state, and the moves an   *)
(* URB makes from place to place.                                          *)

UrbInv(q, pend, so, t, o, g, dr, c, ub) ==
  /\ QueueOK(q, c, ub) /\ TableOK(pend, c, ub) /\ StatusOK(so, ub)
  /\ RepliesOK(t, o, g, c, ub) /\ OnePlace(q, pend, so, t, o, g)
  /\ Covered(q, pend, so, t, o, g, dr, c, ub)

UrbTypes(q, pend, so, t, o, g, ub) ==
  /\ q \in Seq(Pieces) /\ pend \in Pending /\ so \in 0 .. MaxSeq
  /\ t \in Seq(Replies) /\ o \in 0 .. Len(t) /\ g \in Got
  /\ ub \in Seq(Urb) /\ Len(ub) <= MaxSeq

\* URB s has been taken from its place, and not been put anywhere yet.
Nowhere(s, q, pend, so, t, o, g) ==
  ~Queued(q, "submit", s) /\ ~InTable(pend, s) /\ so # s /\ ~Replied(Final, t, o, g, s)

\* URBs are numbered from 1, up to MaxSeq.
LEMMA UrbNumbers ==
  ASSUME NEW ub \in Seq(Urb), Len(ub) <= MaxSeq
  PROVE  DOMAIN ub \subseteq Seqs
  BY UsbIpBounds DEF Seqs

\* No URB has the number that status_out has when no status stage is due.
LEMMA ZeroIsNoUrb == 0 \notin Seqs
  BY UsbIpBounds DEF Seqs

\* A submitted URB leaves the stream.
LEMMA TakeFromStream ==
  ASSUME NEW q, NEW pend, NEW so, NEW t, NEW o, NEW g, NEW dr, NEW c, NEW ub, NEW rest, NEW k,
         UrbTypes(q, pend, so, t, o, g, ub), UrbInv(q, pend, so, t, o, g, dr, c, ub),
         Pops(rest, q, k, ub), q[1].pdu = "submit", NEW s, s = q[1].seqnum
  PROVE  /\ s \in DOMAIN ub /\ ub[s].by = c /\ so < s
         /\ \A x : Queued(rest, "submit", x) => s < x
         /\ Nowhere(s, rest, pend, so, t, o, g)
         /\ UrbInv(rest, pend, so, t, o, g, dr \cup {s}, c, ub)
  <1>1. /\ q \in Seq(Pieces) /\ QueueOK(q, c, ub) /\ 1 \in DOMAIN q
        /\ OnePlace(q, pend, so, t, o, g) /\ Covered(q, pend, so, t, o, g, dr, c, ub)
    BY EmptySeq DEF UrbTypes, UrbInv, Pops
  <1>2. /\ QueueOK(rest, c, ub)
        /\ \A p \in {"submit", "unlink"} : \A x :
              Queued(q, p, x) <=> Queued(rest, p, x) \/ (q[1].pdu = p /\ s = x)
        /\ ~Queued(rest, "submit", s)
        /\ \A x : Queued(rest, "submit", x) => s < x
    <2>1. /\ QueueOK(rest, c, ub)
          /\ \A p \in {"submit", "unlink"} : \A x :
               Queued(q, p, x) <=> Queued(rest, p, x) \/ (q[1].pdu = p /\ q[1].seqnum = x)
          /\ q[1].pdu \in {"submit", "unlink"} => ~Queued(rest, q[1].pdu, q[1].seqnum)
          /\ q[1].pdu = "submit" => \A x : Queued(rest, "submit", x) => q[1].seqnum < x
      BY <1>1, StreamPop
    <2>. QED
      BY <2>1
  <1>3. s \in DOMAIN ub /\ ub[s].by = c /\ s \in Seqs /\ Queued(q, "submit", s)
    BY <1>1, PieceNumber DEF QueueOK, Queued
  <1>4. so < s /\ ~InTable(pend, s) /\ ~Replied(Final, t, o, g, s)
    BY <1>1, <1>3 DEF OnePlace
  <1>5. so # s
    BY <1>3, <1>4, UsbIpBounds DEF UrbTypes, Seqs
  <1>6. OnePlace(rest, pend, so, t, o, g)
    BY <1>1, <1>2 DEF OnePlace
  <1>7. Covered(rest, pend, so, t, o, g, dr \cup {s}, c, ub)
    BY <1>1, <1>2 DEF Covered
  <1>. QED
    BY <1>2, <1>3, <1>4, <1>5, <1>6, <1>7 DEF Nowhere, UrbInv

\* An unlink or another request leaves the stream.
LEMMA TakeOther ==
  ASSUME NEW q, NEW pend, NEW so, NEW t, NEW o, NEW g, NEW dr, NEW c, NEW ub, NEW rest, NEW k,
         UrbTypes(q, pend, so, t, o, g, ub), UrbInv(q, pend, so, t, o, g, dr, c, ub),
         Pops(rest, q, k, ub), q[1].pdu # "submit"
  PROVE  UrbInv(rest, pend, so, t, o, g, dr, c, ub)
  <1>1. /\ q \in Seq(Pieces) /\ QueueOK(q, c, ub)
        /\ OnePlace(q, pend, so, t, o, g) /\ Covered(q, pend, so, t, o, g, dr, c, ub)
    BY DEF UrbTypes, UrbInv
  <1>2. /\ QueueOK(rest, c, ub)
        /\ \A p \in {"submit", "unlink"} : \A x :
              Queued(q, p, x) <=> Queued(rest, p, x) \/ (q[1].pdu = p /\ q[1].seqnum = x)
    BY <1>1, StreamPop
  <1>6. OnePlace(rest, pend, so, t, o, g)
    BY <1>1, <1>2 DEF OnePlace
  <1>7. Covered(rest, pend, so, t, o, g, dr, c, ub)
    BY <1>1, <1>2 DEF Covered
  <1>. QED
    BY <1>2, <1>6, <1>7 DEF UrbInv

\* An unlink that leaves the stream was the only one of its URB, and has no answer.
LEMMA TakeUnlink ==
  ASSUME NEW q, NEW pend, NEW so, NEW t, NEW o, NEW g, NEW dr, NEW c, NEW ub, NEW rest, NEW k,
         UrbTypes(q, pend, so, t, o, g, ub), UrbInv(q, pend, so, t, o, g, dr, c, ub),
         Pops(rest, q, k, ub), q[1].pdu = "unlink", NEW s, s = q[1].seqnum
  PROVE  /\ s \in DOMAIN ub /\ ub[s].by = c
         /\ ~Queued(rest, "unlink", s) /\ ~Replied(Ending, t, o, g, s)
  <1>1. /\ q \in Seq(Pieces) /\ QueueOK(q, c, ub) /\ 1 \in DOMAIN q
        /\ OnePlace(q, pend, so, t, o, g)
    BY EmptySeq DEF UrbTypes, UrbInv, Pops
  <1>2. q[1].pdu \in {"submit", "unlink"} => ~Queued(rest, q[1].pdu, q[1].seqnum)
    BY <1>1, StreamPop
  <1>3. s \in DOMAIN ub /\ ub[s].by = c /\ s \in Seqs /\ Queued(q, "unlink", s)
    BY <1>1, PieceNumber DEF QueueOK, Queued
  <1>4. ~Replied(Ending, t, o, g, s)
    BY <1>1, <1>3 DEF OnePlace
  <1>. QED
    BY <1>2, <1>3, <1>4

\* A reply is queued; it gives its URB a place if it is a final one.
LEMMA PutReply ==
  ASSUME NEW q, NEW pend, NEW so, NEW t, NEW o, NEW g, NEW dr, NEW c, NEW ub, NEW r \in Replies, NEW dr2,
         UrbTypes(q, pend, so, t, o, g, ub), UrbInv(q, pend, so, t, o, g, dr, c, ub),
         r.how # "op" => r.seqnum \in DOMAIN ub /\ Mine(r.seqnum, c, ub),
         r.how \in Final => Nowhere(r.seqnum, q, pend, so, t, o, g),
         r.how \in Ending => ~Queued(q, "unlink", r.seqnum) /\ ~Replied(Ending, t, o, g, r.seqnum),
         \A s \in dr \ dr2 : s = r.seqnum /\ r.how \in Final
  PROVE  /\ UrbTypes(q, pend, so, Append(t, r), o, g, ub)
         /\ UrbInv(q, pend, so, Append(t, r), o, g, dr2, c, ub)
  <1>. DEFINE a == Append(t, r)
  <1>1. t \in Seq(Replies) /\ o \in 0 .. Len(t) /\ g \in Got /\ DOMAIN ub \subseteq Seqs
    BY UrbNumbers DEF UrbTypes
  <1>2. Final \in SUBSET Answers /\ Ending \in SUBSET Answers
    BY DEF Final, Ending, Answers
  <1>3. /\ OnePlace(q, pend, so, t, o, g) /\ Covered(q, pend, so, t, o, g, dr, c, ub)
        /\ RepliesOK(t, o, g, c, ub)
    BY DEF UrbInv
  <1>4. r.how \in Final \cup Ending => r.how # "op" /\ r.seqnum \in Seqs
    BY <1>1 DEF Final, Ending
  <1>5. \A H \in {Final, Ending} :
          /\ \A s : Replied(H, a, o, g, s) <=>
               Replied(H, t, o, g, s) \/ (r.seqnum = s /\ r.how \in H)
          /\ /\ Once(H, t, o, g)
             /\ r.how \in H => r.seqnum \in Seqs /\ ~Replied(H, t, o, g, r.seqnum)
             => Once(H, a, o, g)
    BY <1>1, <1>2, ReplyMore
  <1>6. a \in Seq(Replies) /\ o \in 0 .. Len(a) /\ Len(a) = Len(t) + 1
    BY <1>1, <1>2, ReplyMore
  <1>7. Due(a, o) = Due(t, o) \cup {Len(t) + 1} /\ a[Len(t) + 1] = r
        /\ \A i \in Due(t, o) : a[i] = t[i]
    <2>1. Len(a) = Len(t) + 1 /\ a[Len(t) + 1] = r /\ \A i \in 1 .. Len(t) : a[i] = t[i]
      BY <1>1, AppendProperties
    <2>. HIDE DEF a
    <2>. QED
      BY <1>1, <2>1 DEF Due
  <1>. HIDE DEF a
  <1>8. Once(Final, a, o, g) /\ Once(Ending, a, o, g)
    BY <1>3, <1>4, <1>5 DEF RepliesOK, Nowhere
  <1>9. RepliesOK(a, o, g, c, ub)
    BY <1>3, <1>7, <1>8 DEF RepliesOK
  <1>10. OnePlace(q, pend, so, a, o, g)
    BY <1>3, <1>4, <1>5 DEF OnePlace, Nowhere
  <1>11. Covered(q, pend, so, a, o, g, dr2, c, ub)
    BY <1>3, <1>5 DEF Covered
  <1>. QED
    BY <1>6, <1>9, <1>10, <1>11 DEF UrbTypes, UrbInv, a

\* An URB is put into a free slot.
LEMMA PutInTable ==
  ASSUME NEW q, NEW pend, NEW so, NEW t, NEW o, NEW g, NEW dr, NEW c, NEW ub, NEW s, NEW dr2,
         UrbTypes(q, pend, so, t, o, g, ub), UrbInv(q, pend, so, t, o, g, dr, c, ub),
         s \in DOMAIN ub, ub[s].by = c, Nowhere(s, q, pend, so, t, o, g), dr \ dr2 \subseteq {s},
         NEW k, NEW new, Fills(new, pend, k, s)
  PROVE  UrbInv(q, new, so, t, o, g, dr2, c, ub)
  <1>1. pend \in Pending
    BY DEF UrbTypes
  <1>3. /\ OnePlace(q, pend, so, t, o, g) /\ Covered(q, pend, so, t, o, g, dr, c, ub)
        /\ TableOK(pend, c, ub)
    BY DEF UrbInv
  <1>2. /\ \A x : InTable(new, x) <=> InTable(pend, x) \/ x = s
        /\ TableOK(new, c, ub)
    BY <1>1, <1>3, TableFill DEF Nowhere
  <1>5. OnePlace(q, new, so, t, o, g)
    BY <1>2, <1>3 DEF OnePlace, Nowhere
  <1>6. Covered(q, new, so, t, o, g, dr2, c, ub)
    BY <1>2, <1>3 DEF Covered
  <1>. QED
    BY <1>2, <1>5, <1>6 DEF UrbInv

\* An URB leaves the table.
LEMMA TakeFromTable ==
  ASSUME NEW q, NEW pend, NEW so, NEW t, NEW o, NEW g, NEW dr, NEW c, NEW ub, NEW s \in Seqs, NEW new,
         UrbTypes(q, pend, so, t, o, g, ub), UrbInv(q, pend, so, t, o, g, dr, c, ub),
         Releases(new, pend, s)
  PROVE  /\ InTable(pend, s) => /\ s \in DOMAIN ub /\ ub[s].by = c
                                /\ Nowhere(s, q, new, so, t, o, g)
                                /\ UrbInv(q, new, so, t, o, g, dr \cup {s}, c, ub)
         /\ ~InTable(pend, s) => UrbInv(q, new, so, t, o, g, dr, c, ub)
  <1>1. /\ OnePlace(q, pend, so, t, o, g) /\ Covered(q, pend, so, t, o, g, dr, c, ub)
        /\ TableOK(pend, c, ub) /\ pend \in Pending
    BY DEF UrbInv, UrbTypes
  <1>2. /\ TableOK(new, c, ub)
        /\ \A x : InTable(new, x) <=> InTable(pend, x) /\ x # s
    BY <1>1, TableRelease
  <1>3. OnePlace(q, new, so, t, o, g)
    BY <1>1, <1>2 DEF OnePlace
  <1>4. ASSUME InTable(pend, s)
        PROVE  /\ s \in DOMAIN ub /\ ub[s].by = c
               /\ Nowhere(s, q, new, so, t, o, g)
    <2>1. s \in DOMAIN ub /\ ub[s].by = c
      BY <1>1, <1>4 DEF InTable, TableOK
    <2>2. Nowhere(s, q, new, so, t, o, g)
      BY <1>1, <1>2, <1>4 DEF OnePlace, Nowhere
    <2>. QED
      BY <2>1, <2>2
  <1>5. Covered(q, new, so, t, o, g, dr \cup {s}, c, ub)
    BY <1>1, <1>2 DEF Covered
  <1>6. ~InTable(pend, s) => Covered(q, new, so, t, o, g, dr, c, ub)
    BY <1>1, <1>2 DEF Covered
  <1>. QED
    BY <1>2, <1>3, <1>4, <1>5, <1>6 DEF UrbInv

\* The status stage of a control transfer becomes due, and takes the place of
\* the one that was.
LEMMA PutStatus ==
  ASSUME NEW q, NEW pend, NEW so, NEW t, NEW o, NEW g, NEW dr, NEW c, NEW ub, NEW s, NEW dr2,
         UrbTypes(q, pend, so, t, o, g, ub), UrbInv(q, pend, so, t, o, g, dr, c, ub),
         s \in DOMAIN ub, ub[s].kind = "control out", Nowhere(s, q, pend, so, t, o, g),
         so < s, \A x : Queued(q, "submit", x) => s < x, dr \ dr2 \subseteq {s}
  PROVE  UrbInv(q, pend, s, t, o, g, dr2, c, ub)
  <1>1. /\ OnePlace(q, pend, so, t, o, g) /\ Covered(q, pend, so, t, o, g, dr, c, ub)
        /\ StatusOK(so, ub) /\ so \in 0 .. MaxSeq /\ s \in Seqs
    BY UrbNumbers DEF UrbInv, UrbTypes
  <1>2. StatusOK(s, ub)
    BY DEF StatusOK
  <1>3. OnePlace(q, pend, s, t, o, g)
    BY <1>1 DEF OnePlace, Nowhere
  <1>4. so # 0 => Overtaken(so, ub)
    BY <1>1 DEF StatusOK, Overtaken
  <1>5. 0 \notin DOMAIN ub
    <2>1. DOMAIN ub \subseteq Seqs
      BY UrbNumbers DEF UrbTypes
    <2>. QED
      BY <2>1, ZeroIsNoUrb
  <1>6. Covered(q, pend, s, t, o, g, dr2, c, ub)
    BY <1>1, <1>4, <1>5 DEF Covered
  <1>. QED
    BY <1>2, <1>3, <1>6 DEF UrbInv

\* The URB whose status stage was due leaves its place.
LEMMA TakeStatus ==
  ASSUME NEW q, NEW pend, NEW so, NEW t, NEW o, NEW g, NEW dr, NEW c, NEW ub,
         UrbTypes(q, pend, so, t, o, g, ub), UrbInv(q, pend, so, t, o, g, dr, c, ub), so # 0
  PROVE  /\ so \in DOMAIN ub /\ ub[so].kind = "control out" /\ Nowhere(so, q, pend, 0, t, o, g)
         /\ UrbInv(q, pend, 0, t, o, g, dr \cup {so}, c, ub)
  <1>1. /\ OnePlace(q, pend, so, t, o, g) /\ Covered(q, pend, so, t, o, g, dr, c, ub)
        /\ StatusOK(so, ub) /\ so \in Seqs
    BY UsbIpBounds DEF UrbInv, UrbTypes, Seqs
  <1>2. StatusOK(0, ub)
    BY DEF StatusOK
  <1>3. \A s \in Seqs : 0 < s /\ s # 0 /\ ~(s < s)
    BY UsbIpBounds DEF Seqs
  <1>4. OnePlace(q, pend, 0, t, o, g)
    BY <1>1, <1>3 DEF OnePlace
  <1>5. Covered(q, pend, 0, t, o, g, dr \cup {so}, c, ub)
    BY <1>1 DEF Covered
  <1>6. so \in DOMAIN ub /\ ub[so].kind = "control out"
    BY <1>1 DEF StatusOK
  <1>7. Nowhere(so, q, pend, 0, t, o, g)
    BY <1>1, <1>3 DEF OnePlace, Nowhere
  <1>. QED
    BY <1>2, <1>4, <1>5, <1>6, <1>7 DEF UrbInv

\* The server sends some of its replies; t2 from o2 is what is left of them.
LEMMA SendReplies ==
  ASSUME NEW q, NEW pend, NEW so, NEW t, NEW o, NEW g, NEW dr, NEW c, NEW ub,
         UrbTypes(q, pend, so, t, o, g, ub), UrbInv(q, pend, so, t, o, g, dr, c, ub),
         NEW n \in o .. Len(t), NEW g2 \in Got, Received(g2, g, t, o, n), NEW t2, NEW o2,
         \/ t2 = t /\ o2 = n
         \/ t2 = << >> /\ o2 = 0 /\ n = Len(t)
  PROVE  UrbInv(q, pend, so, t2, o2, g2, dr, c, ub)
  <1>1. t \in Seq(Replies) /\ o \in 0 .. Len(t) /\ g \in Got /\ DOMAIN ub \subseteq Seqs
    BY UrbNumbers DEF UrbTypes
  <1>2. Final \in SUBSET Answers /\ Ending \in SUBSET Answers /\ "op" \notin Answers
    BY DEF Final, Ending, Answers
  <1>3. /\ OnePlace(q, pend, so, t, o, g) /\ Covered(q, pend, so, t, o, g, dr, c, ub)
        /\ RepliesOK(t, o, g, c, ub)
    BY DEF UrbInv
  <1>4. \A H \in {Final, Ending} : \A i \in Due(t, o) : t[i].how \in H => t[i].seqnum \in Seqs
    BY <1>1, <1>2, <1>3 DEF RepliesOK
  <1>5. \A H \in {Final, Ending} :
          /\ \A s \in Seqs : Replied(H, t, n, g2, s) <=> Replied(H, t, o, g, s)
          /\ (\A i \in Due(t, o) : t[i].how \in H => t[i].seqnum \in Seqs)
              => (Once(H, t, o, g) => Once(H, t, n, g2))
    <2>1. ASSUME NEW H \in SUBSET Answers
          PROVE  /\ \A s \in Seqs : Replied(H, t, n, g2, s) <=> Replied(H, t, o, g, s)
                 /\ (\A i \in Due(t, o) : t[i].how \in H => t[i].seqnum \in Seqs)
                      => (Once(H, t, o, g) => Once(H, t, n, g2))
      BY <1>1, SendMoves
    <2>. QED
      BY <1>2, <2>1
  <1>6. Due(t, o) = o + 1 .. n \cup Due(t, n)
    BY <1>1 DEF Due
  <1>7. (Due(t2, o2) = Due(t, n)) /\ \A i \in Due(t2, o2) : t2[i] = t[i]
    <2>1. CASE t2 = t /\ o2 = n
      BY <2>1
    <2>2. CASE t2 = << >> /\ o2 = 0 /\ n = Len(t)
      <3>1. Due(t, n) = {}
        BY <1>1, <2>2 DEF Due
      <3>2. Len(t2) = 0
        BY <2>2
      <3>3. Due(t2, o2) = {}
        BY <2>2, <3>2 DEF Due
      <3>. QED
        BY <3>1, <3>3
    <2>. QED
      BY <2>1, <2>2
  <1>8. \A H \in {Final, Ending} :
          /\ \A s \in Seqs : Replied(H, t2, o2, g2, s) <=> Replied(H, t, o, g, s)
          /\ Once(H, t2, o2, g2)
    <2>1. \A H \in {Final, Ending} : Once(H, t, n, g2)
      BY <1>3, <1>4, <1>5 DEF RepliesOK
    <2>2. \A H : Once(H, t, n, g2) => Once(H, t2, o2, g2)
      BY <1>7 DEF Once
    <2>3. \A H, s : Replied(H, t, n, g2, s) <=> Replied(H, t2, o2, g2, s)
      BY <1>7 DEF Replied
    <2>. QED
      BY <1>5, <2>1, <2>2, <2>3
  <1>9. ASSUME NEW s \in Seqs, NEW h \in Answers, g2[s][h] > 0
        PROVE  s \in DOMAIN ub /\ (c = 0 \/ Mine(s, c, ub))
    <2>1. g[s][h] \in Nat /\ g2[s][h] \in Nat
      BY <1>1 DEF Got
    <2>2. CASE g[s][h] > 0
      BY <1>3, <2>2 DEF RepliesOK
    <2>3. CASE g[s][h] = 0
      <3>1. PICK i \in o + 1 .. n : t[i].seqnum = s /\ t[i].how = h
        BY <1>9, <2>3 DEF Received
      <3>2. i \in Due(t, o) /\ t[i].how # "op"
        BY <1>2, <1>6, <3>1
      <3>. QED
        BY <1>3, <3>1, <3>2 DEF RepliesOK
    <2>. QED
      BY <2>1, <2>2, <2>3
  <1>10. \A i \in Due(t2, o2) : t2[i].how # "op" =>
           t2[i].seqnum \in DOMAIN ub /\ Mine(t2[i].seqnum, c, ub)
    BY <1>3, <1>6, <1>7 DEF RepliesOK
  <1>11. RepliesOK(t2, o2, g2, c, ub)
    BY <1>8, <1>9, <1>10 DEF RepliesOK
  <1>12. so # 0 => so \in Seqs
    BY UsbIpBounds DEF UrbTypes, Seqs
  <1>13. OnePlace(q, pend, so, t2, o2, g2)
    BY <1>3, <1>8, <1>12 DEF OnePlace
  <1>14. Covered(q, pend, so, t2, o2, g2, dr, c, ub)
    BY <1>1, <1>3, <1>8 DEF Covered
  <1>. QED
    BY <1>11, <1>13, <1>14 DEF UrbInv

\* The connection ends: everything goes but, perhaps, the status stage.
LEMMA EndOfConnection ==
  ASSUME NEW q, NEW pend, NEW so, NEW t, NEW o, NEW g, NEW dr, NEW c, NEW ub,
         UrbTypes(q, pend, so, t, o, g, ub), UrbInv(q, pend, so, t, o, g, dr, c, ub),
         NEW so2 \in {0, so}
  PROVE  UrbInv(<< >>, EmptyTable, so2, << >>, 0, g, dr, 0, ub)
  <1>1. /\ OnePlace(q, pend, so, t, o, g) /\ StatusOK(so, ub) /\ RepliesOK(t, o, g, c, ub)
        /\ ub \in Seq(Urb)
    BY DEF UrbInv, UrbTypes
  <1>2. Due(<< >>, 0) = {}
    BY DEF Due
  <1>3. \A p, s : ~Queued(<< >>, p, s)
    BY DEF Queued
  <1>4. QueueOK(<< >>, 0, ub)
    BY DEF QueueOK
  <1>5. StatusOK(so2, ub)
    BY <1>1 DEF StatusOK
  <1>6. \A H, s : Replied(H, << >>, 0, g, s) => Replied(H, t, o, g, s)
    BY <1>2 DEF Replied
  <1>7. OnePlace(<< >>, EmptyTable, so2, << >>, 0, g)
    BY <1>1, <1>3, <1>6, TableEmpty DEF OnePlace
  <1>8. RepliesOK(<< >>, 0, g, 0, ub)
    BY <1>1, <1>2 DEF RepliesOK, Once
  <1>9. \A s \in DOMAIN ub : ub[s].by # 0
    <2>1. \A s \in DOMAIN ub : ub[s] \in Urb
      BY <1>1
    <2>. QED
      BY <2>1, UsbIpBounds DEF Urb
  <1>10. Covered(<< >>, EmptyTable, so2, << >>, 0, g, dr, 0, ub)
    BY <1>9 DEF Covered
  <1>. QED
    BY <1>4, <1>5, <1>7, <1>8, <1>10, TableEmpty DEF UrbInv

\* A new client has no URB, and no answer.
LEMMA StartOfConnection ==
  ASSUME NEW so \in 0 .. MaxSeq, NEW ub, StatusOK(so, ub), NEW c,
         \A s \in DOMAIN ub : ub[s].by # c
  PROVE  UrbInv(<< >>, EmptyTable, so, << >>, 0, NoAnswers, {}, c, ub)
  <1>2. Due(<< >>, 0) = {}
    BY DEF Due
  <1>3. \A p, s : ~Queued(<< >>, p, s)
    BY DEF Queued
  <1>4. QueueOK(<< >>, c, ub)
    BY DEF QueueOK
  <1>5. \A s \in Seqs, h \in Answers : ~(NoAnswers[s][h] > 0) /\ NoAnswers[s][h] = 0
    BY DEF NoAnswers
  <1>0. Final \in SUBSET Answers /\ Ending \in SUBSET Answers
    BY DEF Final, Ending, Answers
  <1>6. \A H \in SUBSET Answers, s \in Seqs : ~Replied(H, << >>, 0, NoAnswers, s)
    BY <1>2, <1>5 DEF Replied
  <1>9. so # 0 => so \in Seqs
    BY UsbIpBounds DEF Seqs
  <1>7. OnePlace(<< >>, EmptyTable, so, << >>, 0, NoAnswers)
    BY <1>0, <1>3, <1>6, <1>9, TableEmpty DEF OnePlace
  <1>8. \A H \in SUBSET Answers : Once(H, << >>, 0, NoAnswers)
    BY <1>2, <1>5 DEF Once
  <1>11. RepliesOK(<< >>, 0, NoAnswers, c, ub)
    BY <1>0, <1>2, <1>5, <1>8 DEF RepliesOK
  <1>10. Covered(<< >>, EmptyTable, so, << >>, 0, NoAnswers, {}, c, ub)
    BY DEF Covered
  <1>. QED
    BY <1>4, <1>7, <1>11, <1>10, TableEmpty DEF UrbInv

\* A packet more for an URB that goes on waiting.
LEMMA SameTable ==
  ASSUME NEW q, NEW pend, NEW so, NEW t, NEW o, NEW g, NEW dr, NEW c, NEW ub, NEW new,
         UrbInv(q, pend, so, t, o, g, dr, c, ub),
         \A k \in 1 .. PendSlots : new[k].active = pend[k].active /\ new[k].seqnum = pend[k].seqnum
  PROVE  UrbInv(q, new, so, t, o, g, dr, c, ub)
  <1>1. \A s : InTable(new, s) <=> InTable(pend, s)
    BY DEF InTable
  <1>2. TableOK(pend, c, ub) => TableOK(new, c, ub)
    BY DEF TableOK
  <1>3. OnePlace(q, pend, so, t, o, g) => OnePlace(q, new, so, t, o, g)
    BY <1>1 DEF OnePlace
  <1>4. Covered(q, pend, so, t, o, g, dr, c, ub) => Covered(q, new, so, t, o, g, dr, c, ub)
    BY <1>1 DEF Covered
  <1>. QED
    BY <1>2, <1>3, <1>4 DEF UrbInv

\* What the server and the client know is about URBs that were submitted.
LEMMA UnknownIsNowhere ==
  ASSUME NEW q, NEW pend, NEW so, NEW t, NEW o, NEW g, NEW dr, NEW c, NEW ub, NEW s \in Seqs,
         UrbTypes(q, pend, so, t, o, g, ub), UrbInv(q, pend, so, t, o, g, dr, c, ub),
         s \notin DOMAIN ub
  PROVE  Nowhere(s, q, pend, so, t, o, g)
  <1>1. /\ QueueOK(q, c, ub) /\ TableOK(pend, c, ub) /\ StatusOK(so, ub)
        /\ RepliesOK(t, o, g, c, ub)
    BY DEF UrbInv
  <1>2. Final \subseteq Answers /\ "op" \notin Final
    BY DEF Final, Answers
  <1>3. ~Queued(q, "submit", s) /\ ~InTable(pend, s)
    BY <1>1 DEF Queued, QueueOK, InTable, TableOK
  <1>4. so # s
    BY <1>1, ZeroIsNoUrb DEF StatusOK
  <1>5. ~Replied(Final, t, o, g, s)
    BY <1>1, <1>2 DEF RepliesOK, Replied
  <1>. QED
    BY <1>3, <1>4, <1>5 DEF Nowhere

\* The client sends a request; a submission is that of a new URB.
LEMMA ClientSends ==
  ASSUME NEW q, NEW pend, NEW so, NEW t, NEW o, NEW g, NEW dr, NEW c, NEW ub,
         UrbTypes(q, pend, so, t, o, g, ub), UrbInv(q, pend, so, t, o, g, dr, c, ub),
         NEW ub2, Extends(ub2, ub), NEW more, more \in Seq(Pieces), NEW k \in {1, 2}, NEW p \in Pieces,
         Len(more) = Len(q) + k, \A i \in 1 .. Len(q) : more[i] = q[i],
         more[Len(q) + 1] = p, k = 2 => more[Len(q) + 2].pdu = "body",
         NeedsBody(p, ub2) => k = 2,
         p.pdu \in {"submit", "unlink"} => p.seqnum \in DOMAIN ub2 /\ ub2[p.seqnum].by = c,
         p.pdu = "submit" => \A s \in DOMAIN ub : s < p.seqnum,
         p.pdu = "unlink" => ~Queued(q, "unlink", p.seqnum) /\ ~Replied(Ending, t, o, g, p.seqnum),
         \A s \in DOMAIN ub2 \ DOMAIN ub : p.pdu = "submit" /\ p.seqnum = s
  PROVE  UrbInv(more, pend, so, t, o, g, dr, c, ub2)
  <1>1. /\ q \in Seq(Pieces) /\ QueueOK(q, c, ub) /\ TableOK(pend, c, ub) /\ StatusOK(so, ub)
        /\ RepliesOK(t, o, g, c, ub) /\ OnePlace(q, pend, so, t, o, g)
        /\ Covered(q, pend, so, t, o, g, dr, c, ub) /\ so \in 0 .. MaxSeq
        /\ DOMAIN ub \subseteq Seqs
    BY UrbNumbers DEF UrbInv, UrbTypes
  <1>2. p.pdu = "submit" => \A s : Queued(q, "submit", s) => s < p.seqnum
    <2>1. \A s : Queued(q, "submit", s) => s \in DOMAIN ub
      BY <1>1 DEF Queued, QueueOK
    <2>. QED
      BY <2>1
  <1>3. /\ QueueOK(more, c, ub2)
        /\ \A x \in {"submit", "unlink"} : \A s :
             Queued(more, x, s) <=> Queued(q, x, s) \/ (p.pdu = x /\ p.seqnum = s)
    <2>1. p.pdu = "unlink" => ~Queued(q, "unlink", p.seqnum)
      OBVIOUS
    <2>2. /\ Extends(ub2, ub) /\ more \in Seq(Pieces) /\ k \in {1, 2} /\ p \in Pieces
          /\ Len(more) = Len(q) + k /\ \A i \in 1 .. Len(q) : more[i] = q[i]
    OBVIOUS
    <2>3. more[Len(q) + 1] = p /\ (k = 2 => more[Len(q) + 2].pdu = "body")
      OBVIOUS
    <2>4. /\ NeedsBody(p, ub2) => k = 2
          /\ p.pdu \in {"submit", "unlink"} => p.seqnum \in DOMAIN ub2 /\ ub2[p.seqnum].by = c
      OBVIOUS
    <2>. QED
      BY ONLY <1>1, <1>2, <2>1, <2>2, <2>3, <2>4, StreamPush
  <1>4. TableOK(pend, c, ub2)
    BY <1>1 DEF TableOK, Extends
  <1>5. StatusOK(so, ub2)
    BY <1>1 DEF StatusOK, Extends
  <1>6. RepliesOK(t, o, g, c, ub2)
    BY <1>1 DEF RepliesOK, Extends, Mine
  <1>7. p.pdu = "submit" => /\ p.seqnum \in Seqs /\ so < p.seqnum
                            /\ Nowhere(p.seqnum, q, pend, so, t, o, g)
    <2>. SUFFICES ASSUME p.pdu = "submit"
                  PROVE  p.seqnum \in Seqs /\ so < p.seqnum /\ Nowhere(p.seqnum, q, pend, so, t, o, g)
      OBVIOUS
    <2>1. p.seqnum \in Seqs
      BY PieceNumber
    <2>2. p.seqnum \notin DOMAIN ub
      <3>1. p.seqnum \in Nat
        BY <2>1, UsbIpBounds DEF Seqs
      <3>2. ~(p.seqnum < p.seqnum)
        BY <3>1
      <3>. QED
        BY <3>2
    <2>3. Nowhere(p.seqnum, q, pend, so, t, o, g)
      BY <2>1, <2>2, UnknownIsNowhere
    <2>4. so < p.seqnum
      <3>1. CASE so = 0
        BY <2>1, <3>1, UsbIpBounds DEF Seqs
      <3>2. CASE so # 0
        BY <1>1, <3>2 DEF StatusOK
      <3>. QED
        BY <3>1, <3>2
    <2>. QED
      BY <2>1, <2>3, <2>4
  <1>8. OnePlace(more, pend, so, t, o, g)
    BY <1>1, <1>3, <1>7 DEF OnePlace, Nowhere
  <1>9. ASSUME NEW s \in DOMAIN ub, Overtaken(s, ub)
        PROVE  Overtaken(s, ub2)
    BY <1>9 DEF Overtaken, Extends
  <1>10. Covered(more, pend, so, t, o, g, dr, c, ub2)
    <2>. SUFFICES ASSUME NEW s \in DOMAIN ub2, ub2[s].by = c
                  PROVE  \/ Queued(more, "submit", s) \/ InTable(pend, s) \/ so = s
                         \/ Replied(Final, t, o, g, s) \/ s \in dr \/ Overtaken(s, ub2)
      BY DEF Covered
    <2>1. CASE s \in DOMAIN ub
      BY <1>1, <1>3, <1>9, <2>1 DEF Covered, Extends
    <2>2. CASE s \notin DOMAIN ub
      BY <1>3, <2>2
    <2>. QED
      BY <2>1, <2>2
  <1>. QED
    BY <1>3, <1>4, <1>5, <1>6, <1>8, <1>10 DEF UrbInv

-----------------------------------------------------------------------------
(* The invariant of the specification *)

\* Where the poll is: with a PDU in the loop, and with a connection.
Control ==
  /\ client \in 0 .. MaxClients /\ calls \in 0 .. MaxClients /\ client <= calls
  /\ gone \in BOOLEAN /\ imported \in BOOLEAN /\ wait_more \in BOOLEAN
  /\ rxArmed \in BOOLEAN /\ txData \in [Eps -> {"none", "short", "full"}]
  /\ phase \in {"idle", "loop", "status", "complete", "flush", "crash"}
  /\ slot \in 1 .. PendSlots
  /\ phase = "loop" => client # 0 /\ rx # << >>
  /\ client = 0 => net = << >>

\* rx_len goes below zero only when the connection goes as well.
RxTyped ==
  /\ rx \in Seq(Pieces) \/ (client = 0 /\ rx = Underflow)
  /\ Len(rx) <= RxSlots

Data ==
  /\ net \in Seq(Pieces) /\ Len(net) <= NetSlots /\ RxTyped
  /\ pending \in Pending /\ status_out \in 0 .. MaxSeq
  /\ tx \in Seq(Replies) /\ Len(tx) <= TxSlots /\ tx_off \in 0 .. Len(tx)
  /\ urbs \in Seq(Urb) /\ Len(urbs) <= MaxSeq /\ \A s \in DOMAIN urbs : urbs[s].by <= calls
  /\ got \in Got /\ dropped \subseteq Seqs

UrbNow == UrbInv(Queue, pending, status_out, tx, tx_off, got, dropped, client, urbs)

UsbIpInv == Control /\ Data /\ UrbNow

\* The types the moves need.
LEMMA DataTypes ==
  ASSUME Data
  PROVE  /\ UrbTypes(Queue, pending, status_out, tx, tx_off, got, urbs)
         /\ client # 0 =>
              /\ rx \in Seq(Pieces) /\ Len(Queue) = Len(rx) + Len(net)
              /\ \A i \in 1 .. Len(Queue) :
                   Queue[i] = IF i <= Len(rx) THEN rx[i] ELSE net[i - Len(rx)]
  <1>1. net \in Seq(Pieces) /\ (client # 0 => rx \in Seq(Pieces))
    BY DEF Data, RxTyped
  <1>2. ASSUME client # 0
        PROVE  /\ Queue \in Seq(Pieces) /\ Len(Queue) = Len(rx) + Len(net)
               /\ \A i \in 1 .. Len(rx) + Len(net) :
                    Queue[i] = IF i <= Len(rx) THEN rx[i] ELSE net[i - Len(rx)]
    <2>1. Queue = rx \o net /\ rx \in Seq(Pieces) /\ net \in Seq(Pieces)
      BY <1>1, <1>2 DEF Queue
    <2>. QED
      BY <2>1, ConcatProperties
  <1>3. Queue \in Seq(Pieces)
    <2>1. CASE client = 0
      BY <2>1, EmptySeq DEF Queue
    <2>. QED
      BY <1>2, <2>1
  <1>. QED
    BY <1>1, <1>2, <1>3 DEF Data, UrbTypes

\* The receive buffer is left alone, or emptied together with the connection.
LEMMA RxStays ==
  ASSUME Data, client' = client, net' = net, rx' = rx \/ rx' = IF client' = 0 THEN << >> ELSE rx
  PROVE  RxTyped' /\ Queue' = Queue
  <1>1. CASE client = 0
    <2>1. Queue' = << >> /\ Queue = << >>
      BY <1>1 DEF Queue
    <2>2. CASE rx' = rx
      BY <2>1, <2>2 DEF Data, RxTyped
    <2>3. CASE rx' = << >>
      <3>1. rx' \in Seq(Pieces) /\ Len(rx') = 0 /\ 0 <= RxSlots
        BY <2>3, EmptySeq, UsbIpBounds
      <3>. QED
        BY <2>1, <3>1 DEF RxTyped
    <2>. QED
      BY <1>1, <2>2, <2>3
  <1>2. CASE client # 0
    <2>1. rx' = rx
      BY <1>2
    <2>. QED
      BY <1>2, <2>1 DEF Data, RxTyped, Queue
  <1>. QED
    BY <1>1, <1>2

\* A step that touches nothing an URB can be in.
LEMMA UrbsUnchanged ==
  ASSUME UsbIpInv, UNCHANGED << client, rx, net, pending, status_out, tx, tx_off, got, dropped, urbs >>,
         calls' = calls
  PROVE  Data' /\ UrbNow'
  <1>1. Queue' = Queue /\ RxTyped'
    BY RxStays DEF UsbIpInv
  <1>. QED
    BY <1>1 DEF UsbIpInv, Data, UrbNow

\* The connection ends; a failed send forgets the status stage.
Ended ==
  /\ client' = 0 /\ rx' \in {<< >>, Underflow} /\ tx' = << >> /\ tx_off' = 0
  /\ imported' = FALSE /\ status_out' \in {0, status_out} /\ pending' = EmptyTable /\ UNCHANGED dropped

\* The same but for rx, of which the caller of usbip_reset_client decides.
Closed ==
  /\ client' = 0 /\ tx' = << >> /\ tx_off' = 0 /\ imported' = FALSE
  /\ status_out' = 0 /\ pending' = EmptyTable /\ UNCHANGED dropped

LEMMA ClosedEnds == Closed /\ rx' \in {<< >>, Underflow} => Ended
  BY DEF Closed, Ended

\* The end of a connection takes its URBs with it.
LEMMA EndedStep ==
  ASSUME UsbIpInv, Ended, net' = << >>, UNCHANGED << got, urbs, calls >>
  PROVE  Data' /\ UrbNow'
  <1>1. Queue' = << >>
    BY DEF Queue, Ended
  <1>2. /\ UrbTypes(Queue, pending, status_out, tx, tx_off, got, urbs)
        /\ UrbInv(Queue, pending, status_out, tx, tx_off, got, dropped, client, urbs)
    BY DataTypes DEF UsbIpInv, UrbNow
  <1>3. UrbInv(<< >>, EmptyTable, status_out', << >>, 0, got, dropped, 0, urbs)
    BY <1>2, EndOfConnection DEF Ended
  <1>4. UrbNow'
    BY <1>1, <1>3 DEF UrbNow, Ended
  <1>5. RxTyped'
    <2>1. 0 <= RxSlots /\ 1 <= RxSlots
      BY UsbIpBounds
    <2>2. CASE rx' = << >>
      <3>1. rx' \in Seq(Pieces) /\ Len(rx') = 0
        BY <2>2, EmptySeq
      <3>. QED
        BY <2>1, <3>1 DEF RxTyped
    <2>3. CASE rx' = Underflow
      <3>1. Len(rx') = 1 /\ client' = 0
        BY <2>3 DEF Underflow, Ended
      <3>. QED
        BY <2>1, <2>3, <3>1 DEF RxTyped
    <2>. QED
      BY <2>2, <2>3 DEF Ended
  <1>6. Data'
    BY <1>5, TableEmpty, UsbIpBounds DEF UsbIpInv, Data, Ended
  <1>. QED
    BY <1>4, <1>6

\* The effects of a PDU on the URBs.
WaitEffect(s) ==
  \/ \E k : /\ Fills(pending', pending, k, s) /\ UNCHANGED << tx, dropped, status_out >>
  \/ /\ UNCHANGED << pending, status_out >>
     /\ \/ Room(1) /\ tx' = Append(tx, [seqnum |-> s, how |-> "again"]) /\ dropped' = dropped
        \/ tx' = tx /\ dropped' = dropped \cup {s}
SubmitEffect(s) ==
  \/ Room(1) /\ tx' = Append(tx, Answer(s)) /\ UNCHANGED << pending, status_out, dropped >>
  \/ Kind(s) = "control out" /\ status_out' = s /\ UNCHANGED << tx, pending, dropped >>
  \/ WaitEffect(s)
OtherEffect ==
  /\ UNCHANGED << pending, status_out, dropped >>
  /\ tx' = tx \/ (Room(1) /\ tx' = Append(tx, Op))

\* The first inactive slot of the table is one.
LEMMA FirstFreeSlot ==
  ASSUME usbip_alloc_pending # {}
  PROVE  FirstFree \in 1 .. PendSlots /\ ~pending[FirstFree].active
  <1>1. usbip_alloc_pending \subseteq Nat
    BY DEF usbip_alloc_pending
  <1>2. \E i \in usbip_alloc_pending : \A j \in usbip_alloc_pending : i <= j
    BY <1>1, LeastMember
  <1>3. FirstFree \in usbip_alloc_pending
    BY <1>2 DEF FirstFree
  <1>. QED
    BY <1>3 DEF usbip_alloc_pending

\* Wait fills a slot, or refuses the URB.
LEMMA WaitHasEffect ==
  ASSUME Data, NEW s \in Seqs, NEW n \in {0, 1}, Wait(s, n)
  PROVE  WaitEffect(s) /\ UNCHANGED << client, tx_off, imported >>
  <1>1. CASE usbip_alloc_pending # {}
    <2>. DEFINE e == [active |-> TRUE, seqnum |-> s, data_len |-> n]
                k == FirstFree
    <2>1. k \in 1 .. PendSlots /\ ~pending[k].active
      BY <1>1, FirstFreeSlot
    <2>. HIDE DEF k
    <2>2. e \in Slot /\ e.active /\ e.seqnum = s
      BY UsbIpBounds DEF Slot, Seqs
    <2>3. pending' = [pending EXCEPT ![k] = e] /\ pending \in Pending
      BY <1>1 DEF Wait, Data, k
    <2>. HIDE DEF e
    <2>4. /\ pending' \in Pending /\ pending'[k] = e
          /\ \A i \in 1 .. PendSlots : i # k => pending'[i] = pending[i]
      BY <2>1, <2>2, <2>3 DEF Pending
    <2>5. Fills(pending', pending, k, s)
      BY <2>1, <2>2, <2>4 DEF Fills
    <2>. QED
      BY <1>1, <2>5 DEF Wait, WaitEffect
  <1>2. CASE usbip_alloc_pending = {}
    <2>1. SendOrDrop([seqnum |-> s, how |-> "again"]) /\ UNCHANGED pending
      BY <1>2 DEF Wait
    <2>2. UNCHANGED << client, tx_off, imported, status_out >>
      BY DEF Wait
    <2>. QED
      BY <2>1, <2>2 DEF SendOrDrop, WaitEffect
  <1>. QED
    BY <1>1, <1>2

\* The flags a PDU may change keep their type.
FlagsTyped ==
  /\ imported' \in BOOLEAN /\ wait_more' \in BOOLEAN /\ rxArmed' \in BOOLEAN
  /\ txData' \in [Eps -> {"none", "short", "full"}]

\* The ways a submission goes.
LEMMA SubmitHasEffect ==
  ASSUME Control, Data, NEW s \in Seqs, usbip_handle_submit(s)
  PROVE  /\ \/ SubmitEffect(s) /\ UNCHANGED << client, tx_off, imported >>
            \/ Closed
         /\ imported' \in BOOLEAN /\ rxArmed' \in BOOLEAN
         /\ txData' \in [Eps -> {"none", "short", "full"}]
  <1>t. imported \in BOOLEAN /\ rxArmed \in BOOLEAN /\ txData \in [Eps -> {"none", "short", "full"}]
    BY DEF Control
  <1>1. CASE SubmitControlOut(s)
    <2>1. rxArmed' = FALSE /\ Kind(s) = "control out" /\ txData' = txData
      BY <1>1 DEF SubmitControlOut
    <2>2. status_out' = s /\ UNCHANGED << client, tx, tx_off, imported, pending, dropped >>
      BY <1>1, <2>1 DEF SubmitControlOut, ep_out_ok
    <2>. QED
      BY <1>t, <2>1, <2>2 DEF SubmitEffect
  <1>2. CASE SubmitBulkOut(s)
    <2>1. SendOrReset(Answer(s), UNCHANGED << imported, pending, status_out >>)
          /\ UNCHANGED << rxArmed, txData >>
      BY <1>2 DEF SubmitBulkOut
    <2>2. \/ /\ Room(1) /\ tx' = Append(tx, Answer(s)) /\ UNCHANGED << client, tx_off, dropped >>
             /\ UNCHANGED << imported, pending, status_out >>
          \/ Closed
      BY <2>1 DEF SendOrReset, usbip_tx_queue, usbip_reset_client, Closed, NoStatus
    <2>3. imported' \in BOOLEAN
      BY <1>t, <2>2 DEF Closed
    <2>. QED
      BY <1>t, <2>1, <2>2, <2>3 DEF SubmitEffect
  <1>3. CASE SubmitIn(s)
    <2>. DEFINE e == EndpointOf(Kind(s))
    <2>1. e \in Eps
      BY DEF EndpointOf, Eps
    <2>. HIDE DEF e
    <2>2. rxArmed' = (rxArmed /\ e # 0)
      BY <1>3 DEF SubmitIn, e
    <2>3. rxArmed' \in BOOLEAN
      BY <2>2
    <2>4. CASE ~ep_in_ok(e)
      <3>1. Wait(s, 0) /\ txData' = txData
        BY <1>3, <2>4 DEF SubmitIn, e
      <3>2. WaitEffect(s) /\ UNCHANGED << client, tx_off, imported >>
        BY <3>1, WaitHasEffect
      <3>. QED
        BY <1>t, <2>3, <3>1, <3>2 DEF SubmitEffect
    <2>5. CASE ep_in_ok(e)
      <3>1. Taken(e)
        BY <1>3, <2>5 DEF SubmitIn, e
      <3>2. txData' \in [Eps -> {"none", "short", "full"}]
        BY <1>t, <2>1, <3>1 DEF Taken
      <3>3. CASE e = 0 /\ txData[e] = "full"
        <4>1. Wait(s, 1)
          BY <1>3, <2>5, <3>3 DEF SubmitIn, e
        <4>2. WaitEffect(s) /\ UNCHANGED << client, tx_off, imported >>
          BY <4>1, WaitHasEffect
        <4>. QED
          BY <1>t, <2>3, <3>2, <4>2 DEF SubmitEffect
      <3>4. CASE ~(e = 0 /\ txData[e] = "full")
        <4>1. SendOrReset(Answer(s), UNCHANGED << imported, pending, status_out >>)
          BY <1>3, <2>5, <3>4 DEF SubmitIn, e
        <4>2. \/ /\ Room(1) /\ tx' = Append(tx, Answer(s)) /\ UNCHANGED << client, tx_off, dropped >>
                 /\ UNCHANGED << imported, pending, status_out >>
              \/ Closed
          BY <4>1 DEF SendOrReset, usbip_tx_queue, usbip_reset_client, Closed, NoStatus
        <4>3. imported' \in BOOLEAN
          BY <1>t, <4>2 DEF Closed
        <4>. QED
          BY <2>3, <3>2, <4>2, <4>3 DEF SubmitEffect
      <3>. QED
        BY <3>3, <3>4
    <2>. QED
      BY <2>4, <2>5
  <1>. QED
    BY <1>1, <1>2, <1>3 DEF usbip_handle_submit

\* What one turn of the loop over the received PDUs may do.
PduEffect ==
  \/ Ended
  \/ /\ UNCHANGED << client, tx_off, rx, pending, status_out, tx, dropped >>
  \/ /\ UNCHANGED << client, tx_off >> /\ ~Partial /\ rx' = DropPdu
     /\ \/ Head(rx).pdu \notin {"submit", "unlink"} /\ OtherEffect
        \/ Head(rx).pdu = "submit" /\ SubmitEffect(Head(rx).seqnum)
        \/ Head(rx).pdu = "unlink" /\ usbip_handle_unlink(Head(rx).seqnum)

\* And that is all that mgmt and urb do.
LEMMA PduHasEffect ==
  ASSUME Control, Data, phase = "loop", usbip_handle_mgmt \/ usbip_handle_urb
  PROVE  PduEffect /\ FlagsTyped
  <1>t. /\ imported \in BOOLEAN /\ rxArmed \in BOOLEAN /\ wait_more \in BOOLEAN
        /\ txData \in [Eps -> {"none", "short", "full"}]
        /\ client # 0 /\ rx # << >> /\ rx \in Seq(Pieces)
    BY DEF Control, Data, RxTyped
  <1>h. /\ Head(rx) \in Pieces
        /\ Head(rx).pdu \in {"submit", "unlink"} => Head(rx).seqnum \in Seqs
    BY <1>t, PieceNumber, HeadTailProperties
  <1>1. CASE usbip_handle_urb
    <2>1. UNCHANGED wait_more
      BY <1>1 DEF usbip_handle_urb
    <2>2. CASE Partial /\ UNCHANGED << client, rx, imported, pending, status_out, tx,
                                tx_off, rxArmed, txData, dropped >>
      BY <1>t, <2>1, <2>2 DEF PduEffect, FlagsTyped
    <2>3. CASE ~Partial
      <3>0. rx' = IF client' = 0 THEN Underflow ELSE DropPdu
        BY <1>1, <2>3 DEF usbip_handle_urb
      <3>1. CASE Head(rx).pdu = "submit" /\ usbip_handle_submit(Head(rx).seqnum)
        <4>1. /\ \/ SubmitEffect(Head(rx).seqnum) /\ UNCHANGED << client, tx_off, imported >>
                 \/ Closed
              /\ imported' \in BOOLEAN /\ rxArmed' \in BOOLEAN
              /\ txData' \in [Eps -> {"none", "short", "full"}]
          BY <1>h, <3>1, SubmitHasEffect
        <4>2. FlagsTyped
          BY <1>t, <2>1, <4>1 DEF FlagsTyped
        <4>3. CASE Closed
          <5>1. Ended
            BY <3>0, <4>3, ClosedEnds DEF Closed
          <5>. QED
            BY <4>2, <5>1 DEF PduEffect
        <4>4. CASE SubmitEffect(Head(rx).seqnum) /\ UNCHANGED << client, tx_off, imported >>
          <5>1. rx' = DropPdu
            BY <1>t, <3>0, <4>4
          <5>. QED
            BY <2>3, <3>1, <4>2, <4>4, <5>1 DEF PduEffect
        <4>. QED
          BY <4>1, <4>3, <4>4
      <3>2. CASE Head(rx).pdu = "unlink" /\ usbip_handle_unlink(Head(rx).seqnum)
        <4>1. UNCHANGED << client, tx_off, imported, rxArmed, txData >>
          BY <3>2 DEF usbip_handle_unlink
        <4>. QED
          BY <1>t, <2>1, <2>3, <3>0, <3>2, <4>1 DEF PduEffect, FlagsTyped
      <3>3. CASE Head(rx).pdu = "unknown" /\
                 UNCHANGED << client, imported, pending, status_out, tx, tx_off,
                              rxArmed, txData, dropped >>
        BY <1>t, <2>1, <2>3, <3>0, <3>3 DEF PduEffect, FlagsTyped, OtherEffect
      <3>. QED
        BY <1>1, <2>3, <3>1, <3>2, <3>3 DEF usbip_handle_urb
    <2>. QED
      BY <1>1, <2>2, <2>3 DEF usbip_handle_urb
  <1>2. CASE usbip_handle_devlist
    <2>0. Head(rx).pdu = "devlist" /\ UNCHANGED << wait_more, rxArmed, txData >>
      BY <1>2 DEF usbip_handle_devlist
    <2>1. \/ /\ Room(1) /\ tx' = Append(tx, Op) /\ UNCHANGED << client, tx_off, dropped >>
             /\ UNCHANGED << imported, pending, status_out >>
          \/ Closed
      BY <1>2 DEF usbip_handle_devlist, SendOrReset, usbip_tx_queue, usbip_reset_client, Closed, NoStatus
    <2>2. ~HasBody(Head(rx)) /\ ~Partial /\ DropPdu = Tail(rx)
      BY <2>0 DEF HasBody, Partial, DropPdu
    <2>3. rx' = IF client' = 0 THEN << >> ELSE DropPdu
      BY <1>2, <2>2 DEF usbip_handle_devlist
    <2>4. imported' \in BOOLEAN
      BY <1>t, <2>1 DEF Closed
    <2>5. FlagsTyped
      BY <1>t, <2>0, <2>4 DEF FlagsTyped
    <2>6. CASE Closed
      <3>1. Ended
        BY <2>3, <2>6, ClosedEnds DEF Closed
      <3>. QED
        BY <2>5, <3>1 DEF PduEffect
    <2>. QED
      BY <1>t, <2>0, <2>1, <2>2, <2>3, <2>5, <2>6 DEF PduEffect, OtherEffect
  <1>3. CASE usbip_handle_import
    <2>0. Head(rx).pdu = "import" /\ UNCHANGED << rxArmed, txData >>
      BY <1>3 DEF usbip_handle_import
    <2>1. CASE Partial
      <3>1. wait_more' = TRUE /\ UNCHANGED << client, rx, imported, pending, status_out, tx, tx_off,
                                              dropped >>
        BY <1>3, <2>1 DEF usbip_handle_import
      <3>. QED
        BY <1>t, <2>0, <3>1 DEF PduEffect, FlagsTyped
    <2>2. CASE ~Partial
      <3>1. wait_more' = FALSE /\ rx' = IF client' = 0 THEN Underflow ELSE DropPdu
        BY <1>3, <2>2 DEF usbip_handle_import
      <3>2. \/ /\ Room(1) /\ tx' = Append(tx, Op) /\ UNCHANGED << client, tx_off, dropped >>
               /\ imported' = TRUE /\ UNCHANGED << pending, status_out >>
            \/ Closed
        BY <1>3, <2>2 DEF usbip_handle_import, SendOrReset, usbip_tx_queue, usbip_reset_client, Closed,
                          NoStatus
      <3>3. imported' \in BOOLEAN
        BY <3>2 DEF Closed
      <3>4. FlagsTyped
        BY <1>t, <2>0, <3>1, <3>3 DEF FlagsTyped
      <3>5. CASE Closed
        <4>1. Ended
          BY <3>1, <3>5, ClosedEnds DEF Closed
        <4>. QED
          BY <3>4, <4>1 DEF PduEffect
      <3>. QED
        BY <1>t, <2>0, <2>2, <3>1, <3>2, <3>4, <3>5 DEF PduEffect, OtherEffect
    <2>. QED
      BY <2>1, <2>2
  <1>4. CASE usbip_reset_client /\ rx' = << >> /\ UNCHANGED << wait_more, rxArmed, txData, dropped >>
    BY <1>t, <1>4 DEF usbip_reset_client, PduEffect, FlagsTyped, Ended, NoStatus
  <1>. QED
    BY <1>1, <1>2, <1>3, <1>4 DEF usbip_handle_mgmt

\* The stream after its head, and the body of the head, are gone.
LEMMA PopsHead ==
  ASSUME Data, client # 0, client' = client, rx # << >>, ~Partial, rx' = DropPdu, net' = net
  PROVE  /\ rx' \in Seq(Pieces) /\ Len(rx') <= RxSlots /\ Queue' \in Seq(Pieces) /\ Queue # << >>
         /\ Queue[1] = Head(rx)
         /\ \E k : Pops(Queue', Queue, k, urbs)
  <1>. DEFINE k == IF HasBody(Head(rx)) THEN 2 ELSE 1
  <1>1. rx \in Seq(Pieces) /\ net \in Seq(Pieces) /\ Len(rx) \in Nat /\ Len(rx) > 0 /\ Len(net) \in Nat
    BY EmptySeq DEF Data, RxTyped
  <1>2. k \in {1, 2} /\ k <= Len(rx)
    <2>1. HasBody(Head(rx)) => Len(rx) # 1
      BY DEF Partial
    <2>2. CASE HasBody(Head(rx))
      <3>1. k = 2
        BY <2>2
      <3>. HIDE DEF k
      <3>. QED
        <4>1. Len(rx) # 1
          BY <2>1, <2>2, Zenon
        <4>2. 2 <= Len(rx)
          <5>. DEFINE n == Len(rx)
          <5>1. n \in Nat /\ n > 0 /\ n # 1
            BY <1>1, <4>1
          <5>. HIDE DEF n
          <5>2. 2 <= n
            BY ONLY <5>1
          <5>. QED
            BY <5>2 DEF n
        <4>. QED
          BY <3>1, <4>2
    <2>3. CASE ~HasBody(Head(rx))
      <3>1. k = 1
        BY <2>3
      <3>. HIDE DEF k
      <3>. QED
        BY <1>1, <3>1
    <2>. QED
      BY <2>2, <2>3
  <1>3. /\ Tail(rx) \in Seq(Pieces) /\ Len(Tail(rx)) = Len(rx) - 1
        /\ \A i \in 1 .. Len(Tail(rx)) : Tail(rx)[i] = rx[i + 1]
    BY <1>1, HeadTailProperties
  <1>4. /\ rx' \in Seq(Pieces) /\ Len(rx') = Len(rx) - k
        /\ \A i \in 1 .. Len(rx') : rx'[i] = rx[i + k]
    <2>1. CASE HasBody(Head(rx))
      <3>. DEFINE y == Tail(rx)
      <3>1. k = 2 /\ rx' = Tail(y)
        BY <2>1 DEF DropPdu
      <3>2. /\ y \in Seq(Pieces) /\ Len(y) = Len(rx) - 1 /\ Len(y) > 0 /\ y # << >>
            /\ \A i \in 1 .. Len(y) : y[i] = rx[i + 1]
        <4>1. /\ y \in Seq(Pieces) /\ Len(y) = Len(rx) - 1
              /\ \A i \in 1 .. Len(y) : y[i] = rx[i + 1]
          BY <1>3
        <4>2. 2 <= Len(rx) /\ Len(rx) \in Nat
          BY <1>1, <1>2, <3>1
        <4>. HIDE DEF y, k
        <4>3. Len(y) > 0
          BY ONLY <4>1, <4>2
        <4>. QED
          BY <4>1, <4>3
      <3>. HIDE DEF y, k
      <3>3. /\ Tail(y) \in Seq(Pieces) /\ Len(Tail(y)) = Len(y) - 1
            /\ \A i \in 1 .. Len(Tail(y)) : Tail(y)[i] = y[i + 1]
        BY <3>2, HeadTailProperties
      <3>. DEFINE z == Tail(y)
      <3>4. rx' = z /\ Len(z) = Len(rx) - 2 /\ Len(y) = Len(rx) - 1 /\ Len(z) \in Nat
        BY <1>1, <3>1, <3>2, <3>3
      <3>. HIDE DEF z
      <3>5. ASSUME NEW i \in 1 .. Len(z) PROVE z[i] = rx[i + 2]
        <4>1. i + 1 \in 1 .. Len(y) /\ i + 1 + 1 = i + 2
          BY <1>1, <3>4, <3>5
        <4>2. z[i] = y[i + 1]
          BY <3>3, <3>5 DEF z
        <4>. QED
          BY <3>2, <4>1, <4>2
      <3>. QED
        BY <3>1, <3>3, <3>4, <3>5
    <2>2. CASE ~HasBody(Head(rx))
      <3>1. k = 1 /\ rx' = Tail(rx)
        BY <2>2 DEF DropPdu
      <3>. QED
        BY <1>3, <3>1
    <2>. QED
      BY <2>1, <2>2
  <1>. HIDE DEF k
  <1>5. /\ Queue \in Seq(Pieces) /\ Len(Queue) = Len(rx) + Len(net)
        /\ \A i \in 1 .. Len(rx) + Len(net) :
             Queue[i] = IF i <= Len(rx) THEN rx[i] ELSE net[i - Len(rx)]
    BY <1>1, ConcatProperties DEF Queue
  <1>6. /\ Queue' \in Seq(Pieces) /\ Len(Queue') = Len(rx') + Len(net)
        /\ \A i \in 1 .. Len(rx') + Len(net) :
             Queue'[i] = IF i <= Len(rx') THEN rx'[i] ELSE net[i - Len(rx')]
    <2>1. Queue' = rx' \o net
      BY DEF Queue
    <2>. QED
      BY <1>1, <1>4, <2>1, ConcatProperties
  <1>7. Len(Queue') = Len(Queue) - k
    BY <1>1, <1>2, <1>4, <1>5, <1>6
  <1>8. ASSUME NEW i \in 1 .. Len(Queue') PROVE Queue'[i] = Queue[i + k]
    <2>. DEFINE m == i + k
    <2>0. /\ i \in 1 .. Len(rx') + Len(net) /\ m \in 1 .. Len(rx) + Len(net)
          /\ Len(rx') \in Nat /\ m = i + k
      BY <1>1, <1>2, <1>4, <1>6, <1>8
    <2>. HIDE DEF m
    <2>1. CASE i <= Len(rx')
      <3>1. m <= Len(rx) /\ rx'[i] = rx[m]
        BY <1>1, <1>2, <1>4, <2>0, <2>1
      <3>2. Queue'[i] = rx'[i] /\ Queue[m] = rx[m]
        BY ONLY <1>5, <1>6, <2>0, <2>1, <3>1
      <3>. QED
        BY <3>1, <3>2 DEF m
    <2>2. CASE ~(i <= Len(rx'))
      <3>1. ~(m <= Len(rx)) /\ m - Len(rx) = i - Len(rx')
        BY <1>1, <1>2, <1>4, <2>0, <2>2
      <3>2. Queue'[i] = net[i - Len(rx')] /\ Queue[m] = net[m - Len(rx)]
        BY ONLY <1>5, <1>6, <2>0, <2>2, <3>1
      <3>3. Queue'[i] = Queue[m]
        BY ONLY <3>1, <3>2
      <3>. QED
        BY <3>3 DEF m
    <2>. QED
      BY <2>1, <2>2
  <1>9. Queue[1] = Head(rx) /\ Queue # << >>
    <2>1. 1 \in 1 .. Len(rx) + Len(net) /\ 1 <= Len(rx)
      BY <1>1
    <2>2. Head(rx) = rx[1]
      BY <1>1, HeadTailProperties
    <2>3. Len(Queue) > 0
      BY <1>1, <1>5
    <2>. QED
      BY <1>5, <2>1, <2>2, <2>3
  <1>10. k = 2 <=> NeedsBody(Queue[1], urbs)
    <2>1. HasBody(Head(rx)) <=> NeedsBody(Head(rx), urbs)
      BY DEF HasBody, NeedsBody, Kind
    <2>. QED
      BY <1>9, <2>1 DEF k
  <1>11. Len(rx') <= RxSlots
    <2>1. Len(rx) \in Nat /\ Len(rx) <= RxSlots /\ Len(rx') = Len(rx) - k /\ k \in {1, 2}
      BY <1>1, <1>2, <1>4 DEF Data, RxTyped
    <2>. QED
      BY ONLY <2>1, UsbIpBounds
  <1>. QED
    BY <1>2, <1>4, <1>6, <1>7, <1>8, <1>9, <1>10, <1>11 DEF Pops

\* A reply to URB s is one.
LEMMA IsReply ==
  ASSUME NEW s \in Seqs, NEW how \in Answers
  PROVE  /\ [seqnum |-> s, how |-> how] \in Replies
         /\ [seqnum |-> s, how |-> how].seqnum = s /\ [seqnum |-> s, how |-> how].how = how
  BY UsbIpBounds DEF Seqs, Replies

\* The reply to a request for the list or to an import answers no URB.
LEMMA OpIsReply == Op \in Replies /\ Op.how = "op" /\ "op" \notin Final /\ "op" \notin Ending
  BY UsbIpBounds DEF Op, Replies, Final, Ending

\* What is left to show of a step that follows from a move.
Moved ==
  /\ pending' \in Pending /\ status_out' \in 0 .. MaxSeq
  /\ tx' \in Seq(Replies) /\ Len(tx') <= TxSlots /\ tx_off \in 0 .. Len(tx')
  /\ dropped' \subseteq Seqs
  /\ UrbInv(Queue', pending', status_out', tx', tx_off, got, dropped', client, urbs)

\* A reply that finds room.
LEMMA RoomForReply ==
  ASSUME NEW t \in Seq(Replies), NEW o \in 0 .. Len(t), NEW r \in Replies, Len(t) + 1 <= TxSlots
  PROVE  /\ Append(t, r) \in Seq(Replies) /\ Len(Append(t, r)) <= TxSlots
         /\ o \in 0 .. Len(Append(t, r))
  <1>1. Append(t, r) \in Seq(Replies) /\ Len(Append(t, r)) = Len(t) + 1 /\ Len(t) \in Nat
    BY AppendProperties
  <1>. QED
    BY <1>1

\* An URB is submitted.
LEMMA SubmitMoves ==
  ASSUME UsbIpInv, client # 0, client' = client, rx # << >>, ~Partial, rx' = DropPdu, net' = net,
         Head(rx).pdu = "submit", SubmitEffect(Head(rx).seqnum)
  PROVE  Moved
  <1>. DEFINE s == Head(rx).seqnum
  <1>1. /\ Queue' \in Seq(Pieces) /\ Queue[1] = Head(rx)
        /\ \E k : Pops(Queue', Queue, k, urbs)
    BY PopsHead DEF UsbIpInv
  <1>2. /\ UrbTypes(Queue, pending, status_out, tx, tx_off, got, urbs)
        /\ UrbInv(Queue, pending, status_out, tx, tx_off, got, dropped, client, urbs)
    BY DataTypes DEF UsbIpInv, UrbNow
  <1>3. /\ s \in DOMAIN urbs /\ urbs[s].by = client /\ status_out < s
        /\ \A x : Queued(Queue', "submit", x) => s < x
        /\ Nowhere(s, Queue', pending, status_out, tx, tx_off, got)
        /\ UrbInv(Queue', pending, status_out, tx, tx_off, got, dropped \cup {s}, client, urbs)
    <2>1. PICK k : Pops(Queue', Queue, k, urbs)
      BY <1>1
    <2>2. Queue[1].pdu = "submit" /\ s = Queue[1].seqnum
      BY <1>1
    <2>. HIDE DEF s
    <2>. QED
      BY ONLY <1>1, <1>2, <2>1, <2>2, TakeFromStream
  <1>4. SubmitEffect(s)
    OBVIOUS
  <1>. HIDE DEF s
  <1>5. /\ UrbTypes(Queue', pending, status_out, tx, tx_off, got, urbs)
        /\ pending \in Pending /\ status_out \in 0 .. MaxSeq /\ tx \in Seq(Replies)
        /\ Len(tx) <= TxSlots /\ tx_off \in 0 .. Len(tx) /\ dropped \subseteq Seqs
    BY <1>1, <1>2 DEF UsbIpInv, Data, UrbTypes
  <1>6. s \in Seqs /\ Mine(s, client, urbs)
    BY <1>2, <1>3, UrbNumbers DEF UrbTypes, Mine
  <1>7. ASSUME NEW how \in {"submit", "again"}, Room(1),
               tx' = Append(tx, [seqnum |-> s, how |-> how]),
               UNCHANGED << pending, status_out, dropped >>
        PROVE  Moved
    <2>. DEFINE r == [seqnum |-> s, how |-> how]
    <2>1. r \in Replies /\ r.seqnum = s /\ r.how = how
      BY <1>6, IsReply DEF Answers
    <2>2. r.how # "op" /\ r.how \in Final /\ r.how \notin Ending
      BY <2>1 DEF Final, Ending
    <2>3. tx' = Append(tx, r) /\ Len(tx) + 1 <= TxSlots
      BY <1>7 DEF Room
    <2>. HIDE DEF r
    <2>4. UrbInv(Queue', pending, status_out, Append(tx, r), tx_off, got, dropped, client, urbs)
      <3>. DEFINE d == dropped \cup {s}
      <3>1. \A x \in d \ dropped : x = r.seqnum /\ r.how \in Final
        BY <2>1, <2>2
      <3>2. UrbInv(Queue', pending, status_out, tx, tx_off, got, d, client, urbs)
        BY <1>3
      <3>. HIDE DEF d
      <3>. QED
        BY <1>3, <1>5, <1>6, <2>1, <2>2, <3>1, <3>2, PutReply
    <2>5. tx' \in Seq(Replies) /\ Len(tx') <= TxSlots /\ tx_off \in 0 .. Len(tx')
      BY <1>5, <2>1, <2>3, RoomForReply
    <2>. QED
      BY <1>5, <1>7, <2>3, <2>4, <2>5 DEF Moved
  <1>8. CASE Room(1) /\ tx' = Append(tx, Answer(s)) /\ UNCHANGED << pending, status_out, dropped >>
    BY <1>7, <1>8 DEF Answer
  <1>9. CASE Kind(s) = "control out" /\ status_out' = s /\ UNCHANGED << tx, pending, dropped >>
    <2>1. (dropped \cup {s}) \ dropped \subseteq {s} /\ urbs[s].kind = "control out"
      BY <1>9 DEF Kind
    <2>2. UrbInv(Queue', pending, s, tx, tx_off, got, dropped, client, urbs)
      BY <1>3, <1>5, <2>1, PutStatus
    <2>3. s \in 0 .. MaxSeq
      BY <1>6, UsbIpBounds DEF Seqs
    <2>. QED
      BY <1>5, <1>9, <2>2, <2>3 DEF Moved
  <1>10. ASSUME NEW k, Fills(pending', pending, k, s), UNCHANGED << tx, dropped, status_out >>
         PROVE  Moved
    <2>1. (dropped \cup {s}) \ dropped \subseteq {s}
      OBVIOUS
    <2>2. UrbInv(Queue', pending', status_out, tx, tx_off, got, dropped, client, urbs)
      BY <1>3, <1>5, <1>10, <2>1, PutInTable
    <2>3. pending' \in Pending
      BY <1>10 DEF Fills
    <2>. QED
      BY <1>5, <1>10, <2>2, <2>3 DEF Moved
  <1>11. CASE UNCHANGED << pending, status_out, tx >> /\ dropped' = dropped \cup {s}
    BY <1>3, <1>5, <1>6, <1>11 DEF Moved
  <1>. QED
    BY <1>4, <1>7, <1>8, <1>9, <1>10, <1>11 DEF SubmitEffect, WaitEffect

\* An URB is unlinked.
LEMMA UnlinkMoves ==
  ASSUME UsbIpInv, client # 0, client' = client, rx # << >>, ~Partial, rx' = DropPdu, net' = net,
         Head(rx).pdu = "unlink", usbip_handle_unlink(Head(rx).seqnum)
  PROVE  Moved
  <1>. DEFINE s == Head(rx).seqnum
  <1>1. /\ Queue' \in Seq(Pieces) /\ Queue[1] = Head(rx)
        /\ \E k : Pops(Queue', Queue, k, urbs)
    BY PopsHead DEF UsbIpInv
  <1>2. /\ UrbTypes(Queue, pending, status_out, tx, tx_off, got, urbs)
        /\ UrbInv(Queue, pending, status_out, tx, tx_off, got, dropped, client, urbs)
    BY DataTypes DEF UsbIpInv, UrbNow
  <1>3. /\ s \in DOMAIN urbs /\ urbs[s].by = client
        /\ ~Queued(Queue', "unlink", s) /\ ~Replied(Ending, tx, tx_off, got, s)
        /\ UrbInv(Queue', pending, status_out, tx, tx_off, got, dropped, client, urbs)
    <2>1. PICK k : Pops(Queue', Queue, k, urbs)
      BY <1>1
    <2>2. Queue[1].pdu = "unlink" /\ Queue[1].pdu # "submit" /\ s = Queue[1].seqnum
      BY <1>1
    <2>. HIDE DEF s
    <2>3. UrbInv(Queue', pending, status_out, tx, tx_off, got, dropped, client, urbs)
      BY ONLY <1>2, <2>1, <2>2, TakeOther
    <2>4. /\ s \in DOMAIN urbs /\ urbs[s].by = client
          /\ ~Queued(Queue', "unlink", s) /\ ~Replied(Ending, tx, tx_off, got, s)
      BY ONLY <1>2, <2>1, <2>2, TakeUnlink
    <2>. QED
      BY <2>3, <2>4
  <1>4. usbip_handle_unlink(s)
    OBVIOUS
  <1>. HIDE DEF s
  <1>5. /\ UrbTypes(Queue', pending, status_out, tx, tx_off, got, urbs)
        /\ pending \in Pending /\ status_out \in 0 .. MaxSeq /\ tx \in Seq(Replies)
        /\ Len(tx) <= TxSlots /\ tx_off \in 0 .. Len(tx) /\ dropped \subseteq Seqs
    BY <1>1, <1>2 DEF UsbIpInv, Data, UrbTypes
  <1>6. s \in Seqs /\ Mine(s, client, urbs)
    BY <1>2, <1>3, UrbNumbers DEF UrbTypes, Mine
  <1>7. pending' \in Pending /\ Releases(pending', pending, s)
    <2>1. Inactive \in Slot
      BY UsbIpBounds DEF Slot, Inactive
    <2>2. pending' = [i \in 1 .. PendSlots |-> IF pending[i].seqnum = s THEN Inactive ELSE pending[i]]
      BY <1>4 DEF usbip_handle_unlink
    <2>. QED
      BY <1>5, <2>1, <2>2 DEF Pending, Releases
  <1>8. UNCHANGED status_out /\ SendOrDrop([seqnum |-> s, how |-> IF InTable(pending, s) THEN "reset" ELSE "unlink"])
    BY <1>4 DEF usbip_handle_unlink, InTable
  <1>9. UrbTypes(Queue', pending', status_out, tx, tx_off, got, urbs)
    BY <1>5, <1>7 DEF UrbTypes
  <1>10. ASSUME NEW how \in Ending, NEW d,
                how = "reset" => Nowhere(s, Queue', pending', status_out, tx, tx_off, got),
                \A x \in d \ dropped : x = s /\ how = "reset",
                UrbInv(Queue', pending', status_out, tx, tx_off, got, d, client, urbs),
                Room(1), tx' = Append(tx, [seqnum |-> s, how |-> how]), dropped' = dropped
         PROVE  Moved
    <2>. DEFINE r == [seqnum |-> s, how |-> how]
    <2>1. r \in Replies /\ r.seqnum = s /\ r.how = how
      BY <1>6, <1>10, IsReply DEF Answers, Ending
    <2>2. r.how # "op" /\ (r.how \in Final <=> how = "reset") /\ r.how \in Ending
      BY <1>10, <2>1 DEF Final, Ending
    <2>3. tx' = Append(tx, r) /\ Len(tx) + 1 <= TxSlots
      BY <1>10 DEF Room
    <2>. HIDE DEF r
    <2>4. UrbInv(Queue', pending', status_out, Append(tx, r), tx_off, got, dropped, client, urbs)
      <3>1. \A x \in d \ dropped : x = r.seqnum /\ r.how \in Final
        BY <1>10, <2>1, <2>2
      <3>2. r.how \in Final => Nowhere(r.seqnum, Queue', pending', status_out, tx, tx_off, got)
        BY <1>10, <2>1, <2>2
      <3>3. r.how \in Ending => ~Queued(Queue', "unlink", r.seqnum) /\ ~Replied(Ending, tx, tx_off, got, r.seqnum)
        BY <1>3, <2>1
      <3>4. r.how # "op" => r.seqnum \in DOMAIN urbs /\ Mine(r.seqnum, client, urbs)
        BY <1>3, <1>6, <2>1
      <3>. QED
        BY <1>9, <1>10, <2>1, <3>1, <3>2, <3>3, <3>4, PutReply
    <2>5. tx' \in Seq(Replies) /\ Len(tx') <= TxSlots /\ tx_off \in 0 .. Len(tx')
      BY <1>5, <2>1, <2>3, RoomForReply
    <2>. QED
      BY <1>5, <1>7, <1>8, <1>10, <2>3, <2>4, <2>5 DEF Moved
  <1>11. /\ InTable(pending, s) =>
              /\ Nowhere(s, Queue', pending', status_out, tx, tx_off, got)
              /\ UrbInv(Queue', pending', status_out, tx, tx_off, got, dropped \cup {s}, client, urbs)
         /\ ~InTable(pending, s) =>
              UrbInv(Queue', pending', status_out, tx, tx_off, got, dropped, client, urbs)
    BY ONLY <1>3, <1>5, <1>6, <1>7, TakeFromTable
  <1>12. CASE Room(1)
    <2>1. CASE InTable(pending, s)
      <3>. DEFINE d == dropped \cup {s}
      <3>1. \A x \in d \ dropped : x = s
        OBVIOUS
      <3>2. UrbInv(Queue', pending', status_out, tx, tx_off, got, d, client, urbs)
        BY <1>11, <2>1
      <3>. HIDE DEF d
      <3>3. tx' = Append(tx, [seqnum |-> s, how |-> "reset"]) /\ dropped' = dropped
        BY <1>8, <1>12, <2>1 DEF SendOrDrop
      <3>4. "reset" \in Ending
        BY DEF Ending
      <3>. QED
        BY <1>10, <1>11, <1>12, <2>1, <3>1, <3>2, <3>3, <3>4
    <2>2. CASE ~InTable(pending, s)
      <3>1. tx' = Append(tx, [seqnum |-> s, how |-> "unlink"]) /\ dropped' = dropped
        BY <1>8, <1>12, <2>2 DEF SendOrDrop
      <3>2. "unlink" \in Ending
        BY DEF Ending
      <3>. QED
        BY <1>10, <1>11, <1>12, <2>2, <3>1, <3>2
    <2>. QED
      BY <2>1, <2>2
  <1>13. CASE ~Room(1)
    <2>1. /\ tx' = tx /\ (InTable(pending, s) => dropped' = dropped \cup {s})
          /\ (~InTable(pending, s) => dropped' = dropped)
      BY <1>8, <1>13 DEF SendOrDrop
    <2>2. UrbInv(Queue', pending', status_out, tx, tx_off, got, dropped', client, urbs)
      BY <1>11, <2>1
    <2>3. dropped' \subseteq Seqs
      BY <1>5, <1>6, <2>1
    <2>. QED
      BY <1>5, <1>7, <1>8, <2>1, <2>2, <2>3 DEF Moved
  <1>. QED
    BY <1>12, <1>13

\* Any other request is answered, or not.
LEMMA OtherMoves ==
  ASSUME UsbIpInv, client # 0, client' = client, rx # << >>, ~Partial, rx' = DropPdu, net' = net,
         Head(rx).pdu # "submit", OtherEffect
  PROVE  Moved
  <1>1. /\ Queue' \in Seq(Pieces) /\ Queue[1] = Head(rx)
        /\ \E k : Pops(Queue', Queue, k, urbs)
    BY PopsHead DEF UsbIpInv
  <1>2. /\ UrbTypes(Queue, pending, status_out, tx, tx_off, got, urbs)
        /\ UrbInv(Queue, pending, status_out, tx, tx_off, got, dropped, client, urbs)
    BY DataTypes DEF UsbIpInv, UrbNow
  <1>3. UrbInv(Queue', pending, status_out, tx, tx_off, got, dropped, client, urbs)
    <2>1. PICK k : Pops(Queue', Queue, k, urbs)
      BY <1>1
    <2>2. Queue[1].pdu # "submit"
      BY <1>1
    <2>. QED
      BY ONLY <1>2, <2>1, <2>2, TakeOther
  <1>5. /\ UrbTypes(Queue', pending, status_out, tx, tx_off, got, urbs)
        /\ pending \in Pending /\ status_out \in 0 .. MaxSeq /\ tx \in Seq(Replies)
        /\ Len(tx) <= TxSlots /\ tx_off \in 0 .. Len(tx) /\ dropped \subseteq Seqs
    BY <1>1, <1>2 DEF UsbIpInv, Data, UrbTypes
  <1>6. CASE tx' = tx
    BY <1>3, <1>5, <1>6 DEF OtherEffect, Moved
  <1>7. CASE Room(1) /\ tx' = Append(tx, Op)
    <2>1. Len(tx) + 1 <= TxSlots
      BY <1>7 DEF Room
    <2>2. tx' \in Seq(Replies) /\ Len(tx') <= TxSlots /\ tx_off \in 0 .. Len(tx')
      BY <1>5, <1>7, <2>1, OpIsReply, RoomForReply
    <2>3. \A x \in dropped \ dropped : x = Op.seqnum /\ Op.how \in Final
      OBVIOUS
    <2>4. /\ Op \in Replies /\ (Op.how # "op" => Op.seqnum \in DOMAIN urbs /\ Mine(Op.seqnum, client, urbs))
          /\ (Op.how \in Final => Nowhere(Op.seqnum, Queue', pending, status_out, tx, tx_off, got))
          /\ (Op.how \in Ending => ~Queued(Queue', "unlink", Op.seqnum)
                                     /\ ~Replied(Ending, tx, tx_off, got, Op.seqnum))
      BY OpIsReply
    <2>5. UrbInv(Queue', pending, status_out, Append(tx, Op), tx_off, got, dropped, client, urbs)
      BY ONLY <1>3, <1>5, <2>3, <2>4, PutReply
    <2>. QED
      BY <1>5, <1>7, <2>2, <2>5 DEF OtherEffect, Moved
  <1>. QED
    BY <1>6, <1>7 DEF OtherEffect

\* One turn of the loop over the received PDUs.
LEMMA HandlePduStep ==
  ASSUME UsbIpInv, HandlePdu
  PROVE  UsbIpInv'
  <1>0. Control /\ Data /\ UrbNow
    BY DEF UsbIpInv
  <1>1. phase = "loop" /\ client # 0 /\ rx # << >>
    BY <1>0 DEF HandlePdu, Control
  <1>2. PduEffect /\ FlagsTyped
    BY <1>0, <1>1, PduHasEffect DEF HandlePdu
  <1>3. Socket /\ After /\ UNCHANGED << calls, slot, urbs, got >>
    BY DEF HandlePdu
  <1>4. /\ client' \in {0, client}
        /\ Data' /\ UrbNow'
    <2>1. CASE Ended
      <3>1. client' = 0 /\ net' = << >>
        BY <1>3, <2>1 DEF Ended, Socket
      <3>2. Data' /\ UrbNow'
        BY <1>3, <2>1, <3>1, EndedStep
      <3>. QED
        BY <3>1, <3>2
    <2>2. CASE UNCHANGED << client, tx_off, rx, pending, status_out, tx, dropped >>
      <3>1. net' = net /\ client' = client
        BY <1>1, <1>3, <2>2 DEF Socket
      <3>2. Data' /\ UrbNow'
        BY <1>3, <2>2, <3>1, UrbsUnchanged
      <3>. QED
        BY <3>1, <3>2
    <2>3. CASE /\ UNCHANGED << client, tx_off >> /\ ~Partial /\ rx' = DropPdu
               /\ \/ Head(rx).pdu \notin {"submit", "unlink"} /\ OtherEffect
                  \/ Head(rx).pdu = "submit" /\ SubmitEffect(Head(rx).seqnum)
                  \/ Head(rx).pdu = "unlink" /\ usbip_handle_unlink(Head(rx).seqnum)
      <3>1. net' = net /\ client' = client /\ tx_off' = tx_off
        BY <1>1, <1>3, <2>3 DEF Socket
      <3>2. Moved
        BY <1>1, <2>3, <3>1, SubmitMoves, UnlinkMoves, OtherMoves
      <3>3. RxTyped'
        BY <1>0, <1>1, <2>3, <3>1, PopsHead DEF RxTyped
      <3>4. UrbNow'
        BY <1>3, <3>1, <3>2 DEF UrbNow, Moved
      <3>5. Data'
        BY <1>0, <1>3, <3>1, <3>2, <3>3 DEF Data, Moved
      <3>. QED
        BY <3>1, <3>4, <3>5
    <2>. QED
      BY <1>2, <2>1, <2>2, <2>3 DEF PduEffect
  <1>5. Control'
    <2>1. client' \in 0 .. MaxClients /\ calls' \in 0 .. MaxClients /\ client' <= calls'
      BY <1>0, <1>3, <1>4, UsbIpBounds DEF Control
    <2>2. gone' \in BOOLEAN /\ slot' \in 1 .. PendSlots
      BY <1>0, <1>3 DEF Control, Socket
    <2>3. client' = 0 => net' = << >>
      BY <1>3 DEF Socket
    <2>4. /\ phase' \in {"idle", "loop", "status", "complete", "flush", "crash"}
          /\ phase' = "loop" => client' # 0 /\ rx' # << >>
      <3>1. CASE Overrun
        BY <1>3, <3>1 DEF After
      <3>2. CASE ~Overrun
        BY <1>3, <3>2 DEF After
      <3>. QED
        BY <3>1, <3>2
    <2>. QED
      BY <1>2, <2>1, <2>2, <2>3, <2>4 DEF Control, FlagsTyped
  <1>. QED
    BY <1>4, <1>5 DEF UsbIpInv

-----------------------------------------------------------------------------
(* The steps of the poll *)

\* A step that leaves the connection, or ends it, leaves the socket with it.
LEMMA SocketStays ==
  ASSUME Control, Socket
  PROVE  /\ client' = client => net' = net
         /\ client' = 0 => net' = << >>
         /\ gone' \in BOOLEAN
  BY DEF Control, Socket

\* Control is kept by a step outside the loop that leaves or ends the connection.
LEMMA ControlStep ==
  ASSUME Control, Socket, client' \in {0, client}, calls' = calls,
         imported' \in BOOLEAN, wait_more' \in BOOLEAN, rxArmed' \in BOOLEAN,
         txData' \in [Eps -> {"none", "short", "full"}],
         phase' \in {"idle", "status", "complete", "flush"}, slot' \in 1 .. PendSlots
  PROVE  Control'
  <1>1. client' \in 0 .. MaxClients /\ calls' \in 0 .. MaxClients /\ client' <= calls'
    BY UsbIpBounds DEF Control
  <1>2. gone' \in BOOLEAN /\ (client' = 0 => net' = << >>)
    BY SocketStays
  <1>3. phase' \in {"idle", "loop", "status", "complete", "flush", "crash"} /\ phase' # "loop"
    OBVIOUS
  <1>. QED
    BY <1>1, <1>2, <1>3 DEF Control

\* A client connects.
LEMMA AcceptStep ==
  ASSUME UsbIpInv, Accept
  PROVE  UsbIpInv'
  <1>0. Control /\ Data /\ UrbNow
    BY DEF UsbIpInv
  <1>1. /\ client' = calls + 1 /\ calls' = calls + 1 /\ calls < MaxClients /\ net' = << >>
        /\ rx' = << >> /\ tx' = << >> /\ tx_off' = 0 /\ pending' = EmptyTable
        /\ got' = NoAnswers /\ dropped' = {} /\ status_out' = status_out /\ urbs' = urbs
    BY DEF Accept
  <1>2. Queue' = << >>
    BY <1>1 DEF Queue
  <1>3. calls \in Nat /\ calls + 1 \in 0 .. MaxClients
    BY <1>0, <1>1, UsbIpBounds DEF Control
  <1>4. ASSUME NEW s \in DOMAIN urbs
        PROVE  urbs[s].by # calls + 1 /\ urbs[s].by <= calls + 1
    <2>1. urbs[s] \in Urb
      BY <1>0 DEF Data
    <2>2. urbs[s].by \in Nat /\ urbs[s].by <= calls
      BY <1>0, <2>1, UsbIpBounds DEF Data, Urb
    <2>. QED
      BY <1>3, <2>2
  <1>5. status_out \in 0 .. MaxSeq /\ StatusOK(status_out, urbs)
    BY <1>0 DEF Data, UrbNow, UrbInv
  <1>6. UrbNow'
    BY <1>1, <1>2, <1>4, <1>5, StartOfConnection DEF UrbNow
  <1>7. NoAnswers \in Got
    BY DEF NoAnswers, Got
  <1>8. Data'
    <2>1. RxTyped'
      BY <1>1, EmptySeq, UsbIpBounds DEF RxTyped
    <2>. QED
      BY <1>0, <1>1, <1>4, <1>7, <2>1, TableEmpty, UsbIpBounds DEF Data
  <1>9. Control'
    <2>1. client' # 0 /\ client' \in 0 .. MaxClients /\ client' <= calls'
      BY <1>1, <1>3
    <2>. QED
      BY <1>0, <1>1, <1>3, <2>1 DEF Control, Accept
  <1>. QED
    BY <1>6, <1>8, <1>9 DEF UsbIpInv

\* What has been received leaves the socket for the buffer.
LEMMA ReceivedIsQueued ==
  ASSUME Data, client # 0, client' = client, NEW n \in 0 .. Len(net),
         rx' = rx \o SubSeq(net, 1, n), net' = SubSeq(net, n + 1, Len(net))
  PROVE  /\ Queue' = Queue /\ rx' \in Seq(Pieces) /\ net' \in Seq(Pieces)
         /\ Len(net') <= NetSlots /\ Len(rx') = Len(rx) + n
  <1>1. rx \in Seq(Pieces) /\ net \in Seq(Pieces) /\ Len(net) \in Nat /\ Len(net) <= NetSlots
    BY DEF Data, RxTyped
  <1>. DEFINE a == SubSeq(net, 1, n)
              b == SubSeq(net, n + 1, Len(net))
  <1>2. a \in Seq(Pieces) /\ b \in Seq(Pieces)
    <2>1. \A i \in 1 .. n : net[i] \in Pieces
      BY <1>1
    <2>2. \A i \in n + 1 .. Len(net) : net[i] \in Pieces
      BY <1>1
    <2>. QED
      BY <1>1, <2>1, <2>2, SubSeqProperties
  <1>3. Len(b) <= NetSlots
    <2>1. \A i \in n + 1 .. Len(net) : net[i] \in Pieces
      BY <1>1
    <2>2. Len(b) = IF n + 1 <= Len(net) THEN Len(net) - (n + 1) + 1 ELSE 0
      BY <1>1, <2>1, SubSeqProperties
    <2>. QED
      BY <1>1, <2>2, UsbIpBounds
  <1>4. a \o b = net
    <2>1. a \o b = SubSeq(net, 1, Len(net))
      <3>1. 1 \in 1 .. Len(net) + 1 /\ n \in 1 - 1 .. Len(net) /\ Len(net) \in n .. Len(net)
        BY <1>1
      <3>. QED
        BY <1>1, <3>1, ConcatAdjacentSubSeq
    <2>2. SubSeq(net, 1, Len(net)) = net
      BY <1>1, SubSeqFull
    <2>. QED
      BY <2>1, <2>2
  <1>5. rx' = rx \o a /\ net' = b
    OBVIOUS
  <1>8. Len(a) = n
    <2>1. \A i \in 1 .. n : net[i] \in Pieces
      BY <1>1
    <2>. QED
      BY <1>1, <2>1, SubSeqProperties
  <1>. HIDE DEF a, b
  <1>6. (rx \o a) \o b = rx \o (a \o b)
    BY ONLY <1>1, <1>2, ConcatAssociative
  <1>7. rx \o a \in Seq(Pieces) /\ Len(rx \o a) = Len(rx) + Len(a)
    BY ONLY <1>1, <1>2, ConcatProperties
  <1>. QED
    BY <1>2, <1>3, <1>4, <1>5, <1>6, <1>7, <1>8 DEF Queue

\* The server receives, or sees that the client has left.
LEMMA RecvStep ==
  ASSUME UsbIpInv, Recv
  PROVE  UsbIpInv'
  <1>0. Control /\ Data /\ UrbNow
    BY DEF UsbIpInv
  <1>1. client # 0 /\ UNCHANGED << calls, wait_more, rxArmed, txData, slot, urbs, got, dropped >>
    BY DEF Recv
  <1>2. ASSUME NEW n \in 0 .. Len(net),
               rx' = rx \o SubSeq(net, 1, n), net' = SubSeq(net, n + 1, Len(net)),
               phase' = IF rx' = << >> THEN "status" ELSE "loop",
               Len(rx) + n <= RxSlots,
               UNCHANGED << client, imported, pending, status_out, tx, tx_off >>, UNCHANGED gone
        PROVE  UsbIpInv'
    <2>1. /\ Queue' = Queue /\ RxTyped' /\ net' \in Seq(Pieces)
          /\ Len(net') <= NetSlots
      BY <1>0, <1>1, <1>2, ReceivedIsQueued DEF RxTyped
    <2>2. UrbNow'
      BY <1>0, <1>1, <1>2, <2>1 DEF UrbNow
    <2>3. Data'
      BY <1>0, <1>1, <1>2, <2>1 DEF Data
    <2>4. Control'
      BY <1>0, <1>1, <1>2 DEF Control
    <2>. QED
      BY <2>2, <2>3, <2>4 DEF UsbIpInv
  <1>3. CASE net = << >> /\ gone /\ usbip_reset_client /\ rx' = << >> /\ phase' = "status" /\ Socket
    <2>1. Ended
      BY <1>1, <1>3 DEF usbip_reset_client, Ended, NoStatus
    <2>2. net' = << >> /\ client' = 0 /\ imported' = FALSE
      BY <1>3, <2>1 DEF Socket, Ended
    <2>3. Data' /\ UrbNow'
      BY <1>1, <2>1, <2>2, EndedStep
    <2>4. Control'
      BY <1>0, <1>1, <1>3, <2>2, ControlStep DEF Control
    <2>. QED
      BY <2>3, <2>4 DEF UsbIpInv
  <1>. QED
    BY <1>2, <1>3 DEF Recv

\* An URB that was taken from its place is answered.
LEMMA AnswerMoves ==
  ASSUME UsbIpInv, Room(1), NEW pend \in Pending, NEW so \in 0 .. MaxSeq, NEW s \in DOMAIN urbs,
         Mine(s, client, urbs), Nowhere(s, Queue, pend, so, tx, tx_off, got),
         UrbInv(Queue, pend, so, tx, tx_off, got, dropped \cup {s}, client, urbs)
  PROVE  /\ UrbInv(Queue, pend, so, Append(tx, Answer(s)), tx_off, got, dropped, client, urbs)
         /\ Append(tx, Answer(s)) \in Seq(Replies) /\ Len(Append(tx, Answer(s))) <= TxSlots
         /\ tx_off \in 0 .. Len(Append(tx, Answer(s)))
  <1>1. UrbTypes(Queue, pending, status_out, tx, tx_off, got, urbs)
    BY DataTypes DEF UsbIpInv
  <1>2. UrbTypes(Queue, pend, so, tx, tx_off, got, urbs) /\ s \in Seqs
    BY <1>1, UrbNumbers DEF UrbTypes
  <1>. DEFINE r == Answer(s)
              d == dropped \cup {s}
  <1>3. r \in Replies /\ r.seqnum = s /\ r.how = "submit"
    BY <1>2, IsReply DEF Answer, Answers
  <1>4. r.how # "op" /\ r.how \in Final /\ r.how \notin Ending
    BY <1>3 DEF Final, Ending
  <1>5. \A x \in d \ dropped : x = r.seqnum /\ r.how \in Final
    BY <1>3, <1>4
  <1>6. UrbInv(Queue, pend, so, tx, tx_off, got, d, client, urbs)
    OBVIOUS
  <1>7. tx \in Seq(Replies) /\ tx_off \in 0 .. Len(tx) /\ Len(tx) + 1 <= TxSlots
    BY DEF UsbIpInv, Data, Room
  <1>9. Nowhere(r.seqnum, Queue, pend, so, tx, tx_off, got) /\ r.seqnum \in DOMAIN urbs /\ Mine(r.seqnum, client, urbs)
    BY <1>3
  <1>. HIDE DEF r, d
  <1>8. UrbInv(Queue, pend, so, Append(tx, r), tx_off, got, dropped, client, urbs)
    BY ONLY <1>2, <1>3, <1>4, <1>5, <1>6, <1>9, PutReply
  <1>10. Append(tx, r) \in Seq(Replies) /\ Len(Append(tx, r)) <= TxSlots
         /\ tx_off \in 0 .. Len(Append(tx, r))
    BY <1>3, <1>7, RoomForReply
  <1>. QED
    BY <1>8, <1>10 DEF r

\* The status stage of a control transfer.
LEMMA StatusOutStep ==
  ASSUME UsbIpInv, usbip_try_status_out
  PROVE  UsbIpInv'
  <1>0. Control /\ Data /\ UrbNow
    BY DEF UsbIpInv
  <1>1. /\ phase' = "complete" /\ UNCHANGED << slot, calls, wait_more, txData, urbs, got >>
        /\ Socket
    BY DEF usbip_try_status_out
  <1>2. rxArmed' \in BOOLEAN
    BY <1>0 DEF usbip_try_status_out, Control
  <1>3. \/ UNCHANGED << client, rx, imported, pending, status_out, tx, tx_off, dropped >>
        \/ /\ status_out # 0 /\ Room(1) /\ tx' = Append(tx, Answer(status_out)) /\ status_out' = 0
           /\ UNCHANGED << client, imported, pending, tx_off, dropped >>
           /\ rx' = IF client' = 0 THEN << >> ELSE rx
        \/ Ended
    BY DEF usbip_try_status_out, SendOrReset, usbip_tx_queue, usbip_reset_client, Ended, NoStatus
  <1>4. CASE UNCHANGED << client, rx, imported, pending, status_out, tx, tx_off, dropped >>
    <2>1. net' = net
      BY <1>0, <1>1, <1>4, SocketStays
    <2>2. Data' /\ UrbNow'
      BY <1>1, <1>4, <2>1, UrbsUnchanged
    <2>3. Control'
      BY <1>0, <1>1, <1>2, <1>4, ControlStep DEF Control
    <2>. QED
      BY <2>2, <2>3 DEF UsbIpInv
  <1>5. CASE /\ status_out # 0 /\ Room(1) /\ tx' = Append(tx, Answer(status_out)) /\ status_out' = 0
             /\ UNCHANGED << client, imported, pending, tx_off, dropped >>
             /\ rx' = IF client' = 0 THEN << >> ELSE rx
    <2>1. net' = net
      BY <1>0, <1>1, <1>5, SocketStays
    <2>2. /\ UrbTypes(Queue, pending, status_out, tx, tx_off, got, urbs)
          /\ UrbInv(Queue, pending, status_out, tx, tx_off, got, dropped, client, urbs)
          /\ status_out # 0
      BY <1>0, <1>5, DataTypes DEF UrbNow
    <2>3. /\ status_out \in DOMAIN urbs /\ urbs[status_out].kind = "control out"
          /\ Nowhere(status_out, Queue, pending, 0, tx, tx_off, got)
          /\ UrbInv(Queue, pending, 0, tx, tx_off, got, dropped \cup {status_out}, client, urbs)
      BY ONLY <2>2, TakeStatus
    <2>4. pending \in Pending /\ 0 \in 0 .. MaxSeq /\ Mine(status_out, client, urbs)
      <3>1. Mine(status_out, client, urbs)
        BY <2>3 DEF Mine
      <3>2. pending \in Pending /\ 0 \in 0 .. MaxSeq
        BY <1>0, UsbIpBounds DEF Data
      <3>. QED
        BY <3>1, <3>2
    <2>5. /\ UrbInv(Queue, pending, 0, tx', tx_off, got, dropped, client, urbs)
          /\ tx' \in Seq(Replies) /\ Len(tx') <= TxSlots /\ tx_off \in 0 .. Len(tx')
      <3>. DEFINE s == status_out
      <3>1. /\ s \in DOMAIN urbs /\ Mine(s, client, urbs) /\ Nowhere(s, Queue, pending, 0, tx, tx_off, got)
            /\ UrbInv(Queue, pending, 0, tx, tx_off, got, dropped \cup {s}, client, urbs)
            /\ tx' = Append(tx, Answer(s)) /\ Room(1) /\ UsbIpInv
        BY <1>5, <2>3, <2>4
      <3>. HIDE DEF s
      <3>. QED
        BY ONLY <2>4, <3>1, AnswerMoves
    <2>6. Queue' = Queue /\ RxTyped'
      BY <1>0, <1>5, <2>1, RxStays
    <2>7. UrbNow'
      BY <1>1, <1>5, <2>5, <2>6 DEF UrbNow
    <2>8. Data'
      BY <1>0, <1>1, <1>5, <2>1, <2>4, <2>5, <2>6 DEF Data
    <2>9. Control'
      BY <1>0, <1>1, <1>2, <1>5, ControlStep DEF Control
    <2>. QED
      BY <2>7, <2>8, <2>9 DEF UsbIpInv
  <1>6. CASE Ended
    <2>1. client' = 0 /\ net' = << >> /\ imported' = FALSE
      BY <1>1, <1>6 DEF Ended, Socket
    <2>2. Data' /\ UrbNow'
      BY <1>1, <1>6, <2>1, EndedStep
    <2>3. Control'
      BY <1>0, <1>1, <1>2, <2>1, ControlStep DEF Control
    <2>. QED
      BY <2>2, <2>3 DEF UsbIpInv
  <1>. QED
    BY <1>3, <1>4, <1>5, <1>6

\* A slot of the table is looked at.
LEMMA CompleteSlotMoves ==
  ASSUME UsbIpInv, CompleteSlot, net' = IF client' = 0 THEN << >> ELSE net,
         UNCHANGED << calls, urbs, got >>
  PROVE  /\ Data' /\ UrbNow' /\ client' \in {0, client} /\ imported' \in BOOLEAN
         /\ txData' \in [Eps -> {"none", "short", "full"}]
  <1>. DEFINE p == pending[slot]
              e == EndpointOf(Kind(p.seqnum))
              s == p.seqnum
  <1>0. Control /\ Data /\ UrbNow
    BY DEF UsbIpInv
  <1>1. /\ slot \in 1 .. PendSlots /\ pending \in Pending /\ p \in Slot /\ imported \in BOOLEAN
        /\ txData \in [Eps -> {"none", "short", "full"}] /\ e \in Eps
        /\ client = 0 => net = << >>
    BY <1>0 DEF Control, Data, Pending, EndpointOf, Eps
  <1>2. \/ UNCHANGED << client, rx, imported, pending, status_out, tx, tx_off, txData, dropped >>
        \/ /\ p.active /\ Taken(e) /\ Room(1) /\ tx' = Append(tx, Answer(s))
           /\ pending' = [pending EXCEPT ![slot] = Inactive]
           /\ UNCHANGED << client, imported, status_out, tx_off, dropped >>
           /\ rx' = IF client' = 0 THEN << >> ELSE rx
        \/ Taken(e) /\ Ended
        \/ /\ Taken(e) /\ p.data_len + 1 < ExpectedLen
           /\ pending' = [pending EXCEPT ![slot].data_len = p.data_len + 1]
           /\ UNCHANGED << client, rx, imported, status_out, tx, tx_off, dropped >>
    BY <1>1 DEF CompleteSlot, SendOrReset, usbip_tx_queue, usbip_reset_client, Ended, NoStatus, Slot, ExpectedLen
  <1>3. Taken(e) => txData' \in [Eps -> {"none", "short", "full"}]
    BY <1>1 DEF Taken
  <1>4. /\ UrbTypes(Queue, pending, status_out, tx, tx_off, got, urbs)
        /\ UrbInv(Queue, pending, status_out, tx, tx_off, got, dropped, client, urbs)
    BY <1>0, DataTypes DEF UrbNow
  <1>5. ASSUME UNCHANGED << client, rx, imported, pending, status_out, tx, tx_off, txData, dropped >>
        PROVE  Data' /\ UrbNow'
    BY <1>1, <1>5, UrbsUnchanged
  <1>6. ASSUME p.active, Room(1), tx' = Append(tx, Answer(s)),
               pending' = [pending EXCEPT ![slot] = Inactive],
               UNCHANGED << client, imported, status_out, tx_off, dropped >>,
               rx' = IF client' = 0 THEN << >> ELSE rx
        PROVE  Data' /\ UrbNow'
    <2>1. TableOK(pending, client, urbs)
      BY <1>4 DEF UrbInv
    <2>2. s \in DOMAIN urbs /\ s \in Seqs /\ InTable(pending, s)
      <3>1. s \in DOMAIN urbs /\ InTable(pending, s)
        BY <1>1, <1>6, <2>1 DEF TableOK, InTable
      <3>. QED
        BY <1>4, <3>1, UrbNumbers DEF UrbTypes
    <2>3. Releases(pending', pending, s)
      <3>1. Inactive \in Slot
        BY UsbIpBounds DEF Slot, Inactive
      <3>2. /\ pending' \in Pending /\ pending'[slot] = Inactive
            /\ \A i \in 1 .. PendSlots : i # slot => pending'[i] = pending[i]
        BY <1>1, <1>6, <3>1 DEF Pending
      <3>3. \A i \in 1 .. PendSlots : i # slot => ~(pending[i].active /\ pending[i].seqnum = s)
        BY <1>1, <1>6, <2>1 DEF TableOK
      <3>. QED
        BY <1>1, <3>2, <3>3 DEF Releases
    <2>. HIDE DEF s
    <2>4. /\ s \in DOMAIN urbs /\ urbs[s].by = client
          /\ Nowhere(s, Queue, pending', status_out, tx, tx_off, got)
          /\ UrbInv(Queue, pending', status_out, tx, tx_off, got, dropped \cup {s}, client, urbs)
      BY ONLY <1>4, <2>2, <2>3, TakeFromTable
    <2>5. pending' \in Pending /\ status_out \in 0 .. MaxSeq /\ Mine(s, client, urbs)
      BY <1>0, <2>3, <2>4 DEF Releases, Data, Mine
    <2>6. Room(1) /\ UsbIpInv /\ tx' = Append(tx, Answer(s))
      BY <1>6
    <2>7. /\ UrbInv(Queue, pending', status_out, tx', tx_off, got, dropped, client, urbs)
          /\ tx' \in Seq(Replies) /\ Len(tx') <= TxSlots /\ tx_off \in 0 .. Len(tx')
      BY ONLY <2>4, <2>5, <2>6, AnswerMoves
    <2>8. Queue' = Queue /\ RxTyped' /\ net' = net
      <3>1. net' = net
        BY <1>1, <1>6
      <3>. QED
        BY <1>0, <1>6, <3>1, RxStays
    <2>9. UrbNow'
      BY <1>6, <2>7, <2>8 DEF UrbNow
    <2>10. Data'
      BY <1>0, <1>6, <2>5, <2>7, <2>8 DEF Data
    <2>. QED
      BY <2>9, <2>10
  <1>7. ASSUME Ended PROVE Data' /\ UrbNow' /\ client' = 0 /\ imported' = FALSE
    <2>1. client' = 0 /\ net' = << >> /\ imported' = FALSE
      BY <1>7 DEF Ended
    <2>. QED
      BY <1>7, <2>1, EndedStep
  <1>8. ASSUME p.data_len + 1 < ExpectedLen, pending' = [pending EXCEPT ![slot].data_len = p.data_len + 1],
               UNCHANGED << client, rx, imported, status_out, tx, tx_off, dropped >>
        PROVE  Data' /\ UrbNow'
    <2>. DEFINE n == p.data_len + 1
                new == [p EXCEPT !.data_len = n]
    <2>1. n \in 0 .. 2
      BY <1>1, <1>8 DEF Slot, ExpectedLen
    <2>. HIDE DEF n
    <2>2. new \in Slot /\ new.active = p.active /\ new.seqnum = p.seqnum
      BY <1>1, <2>1 DEF Slot
    <2>3. pending' = [pending EXCEPT ![slot] = new]
      BY <1>8 DEF n
    <2>. HIDE DEF new
    <2>4. /\ pending' \in Pending
          /\ \A k \in 1 .. PendSlots : /\ pending'[k].active = pending[k].active
                                       /\ pending'[k].seqnum = pending[k].seqnum
      <3>1. /\ pending' \in Pending /\ pending'[slot] = new
            /\ \A i \in 1 .. PendSlots : i # slot => pending'[i] = pending[i]
        BY <1>1, <2>2, <2>3 DEF Pending
      <3>. QED
        BY <2>2, <3>1
    <2>5. UrbInv(Queue, pending', status_out, tx, tx_off, got, dropped, client, urbs)
      BY ONLY <1>4, <2>4, SameTable
    <2>6. Queue' = Queue /\ RxTyped' /\ net' = net
      <3>1. net' = net
        BY <1>1, <1>8
      <3>. QED
        BY <1>0, <1>8, <3>1, RxStays
    <2>7. UrbNow'
      BY <1>8, <2>5, <2>6 DEF UrbNow
    <2>8. Data'
      BY <1>0, <1>8, <2>4, <2>6 DEF Data
    <2>. QED
      BY <2>7, <2>8
  <1>. HIDE DEF p, e, s
  <1>9. /\ client' \in {0, client} /\ imported' \in BOOLEAN
        /\ txData' \in [Eps -> {"none", "short", "full"}]
    BY <1>1, <1>2, <1>3 DEF Ended
  <1>. QED
    BY <1>2, <1>5, <1>6, <1>7, <1>8, <1>9

\* The server looks at a slot, and goes on to the next.
LEMMA CompleteStep ==
  ASSUME UsbIpInv, usbip_complete_pending
  PROVE  UsbIpInv'
  <1>0. Control /\ Data /\ UrbNow
    BY DEF UsbIpInv
  <1>1. /\ CompleteSlot /\ Socket /\ UNCHANGED << calls, wait_more, rxArmed, urbs, got >>
        /\ phase' \in {"flush", "complete"}
        /\ slot' = IF slot = PendSlots THEN 1 ELSE slot + 1
    BY DEF usbip_complete_pending
  <1>2. slot' \in 1 .. PendSlots
    BY <1>0, <1>1, UsbIpBounds DEF Control
  <1>3. net' = IF client' = 0 THEN << >> ELSE net
    BY <1>1 DEF Socket
  <1>4. /\ Data' /\ UrbNow' /\ client' \in {0, client} /\ imported' \in BOOLEAN
        /\ txData' \in [Eps -> {"none", "short", "full"}]
    BY <1>1, <1>3, CompleteSlotMoves
  <1>5. Control'
    <2>1. wait_more' \in BOOLEAN /\ rxArmed' \in BOOLEAN
          /\ phase' \in {"idle", "status", "complete", "flush"}
      BY <1>0, <1>1 DEF Control
    <2>. QED
      BY <1>0, <1>1, <1>2, <1>4, <2>1, ControlStep
  <1>. QED
    BY <1>4, <1>5 DEF UsbIpInv

\* A reply is that of URB s, and of its kind, or not.
LEMMA SameReply ==
  ASSUME NEW r \in Replies, NEW s, NEW h
  PROVE  r = [seqnum |-> s, how |-> h] <=> r.seqnum = s /\ r.how = h
  BY DEF Replies

\* A finite set is counted.
LEMMA CountOfFinite ==
  ASSUME NEW C, IsFiniteSet(C)
  PROVE  /\ Cardinality(C) \in Nat
         /\ Cardinality(C) > 0 <=> C # {}
         /\ (\A i, j \in C : i = j) => Cardinality(C) <= 1
  <1>2. Cardinality(C) \in Nat
    BY FS_CardinalityType
  <1>3. Cardinality(C) = 0 <=> C = {}
    BY FS_EmptySet
  <1>4. ASSUME \A i, j \in C : i = j, C # {}
        PROVE  Cardinality(C) = 1
    <2>1. PICK x \in C : TRUE
      BY <1>4
    <2>2. C = {x}
      BY <1>4, <2>1
    <2>. QED
      BY <2>2, FS_Singleton
  <1>. QED
    BY <1>2, <1>3, <1>4

\* A set of numbers is counted.
LEMMA CountOf ==
  ASSUME NEW C, NEW m \in Nat, C \subseteq 1 .. m
  PROVE  /\ Cardinality(C) \in Nat
         /\ Cardinality(C) > 0 <=> C # {}
         /\ (\A i, j \in C : i = j) => Cardinality(C) <= 1
  <1>1. IsFiniteSet(1 .. m)
    BY FS_Interval
  <1>2. IsFiniteSet(C)
    BY <1>1, FS_Subset
  <1>. QED
    BY <1>2, CountOfFinite

\* The client counts the replies it is sent.
LEMMA CountedIsReceived ==
  ASSUME NEW t \in Seq(Replies), NEW o \in 0 .. Len(t), NEW n \in o .. Len(t), got \in Got
  PROVE  /\ Counted(SubSeq(t, o + 1, n)) \in Got
         /\ Received(Counted(SubSeq(t, o + 1, n)), got, t, o, n)
  <1>. DEFINE q == SubSeq(t, o + 1, n)
              C(s, h) == {i \in DOMAIN q : q[i] = [seqnum |-> s, how |-> h]}
              m == n - o
  <1>1. o \in Nat /\ n \in Nat /\ Len(t) \in Nat /\ m \in Nat /\ o + m = n
    OBVIOUS
  <1>2. DOMAIN q = 1 .. m /\ \A i \in 1 .. m : q[i] = t[o + i]
    <2>1. \A i \in o + 1 .. n : t[i] \in Replies
      BY <1>1
    <2>2. /\ q \in Seq(Replies)
          /\ Len(q) = IF o + 1 <= n THEN n - (o + 1) + 1 ELSE 0
          /\ \A i \in 1 .. n - (o + 1) + 1 : q[i] = t[o + 1 + i - 1]
      BY <1>1, <2>1, SubSeqProperties
    <2>. HIDE DEF q
    <2>3. Len(q) = m /\ n - (o + 1) + 1 = m
      BY <1>1, <2>2
    <2>4. \A i \in 1 .. m : o + 1 + i - 1 = o + i
      BY <1>1
    <2>. QED
      BY <2>2, <2>3, <2>4
  <1>. HIDE DEF q, m
  <1>3. ASSUME NEW s \in Seqs, NEW h \in Answers
        PROVE  LET M(i) == t[i].seqnum = s /\ t[i].how = h
               IN /\ Cardinality(C(s, h)) \in Nat
                  /\ Cardinality(C(s, h)) > 0 <=> \E i \in o + 1 .. n : M(i)
                  /\ (\A i, j \in o + 1 .. n : M(i) /\ M(j) => i = j) => Cardinality(C(s, h)) <= 1
    <2>. DEFINE M(i) == t[i].seqnum = s /\ t[i].how = h
                c == C(s, h)
    <2>1. \A i \in 1 .. m : o + i \in o + 1 .. n /\ t[o + i] \in Replies
      BY <1>1
    <2>2. \A i \in 1 .. m : i \in c <=> M(o + i)
      <3>. SUFFICES ASSUME NEW i \in 1 .. m PROVE i \in c <=> M(o + i)
        OBVIOUS
      <3>1. i \in c <=> q[i] = [seqnum |-> s, how |-> h]
        BY <1>2
      <3>2. t[o + i] = [seqnum |-> s, how |-> h] <=> t[o + i].seqnum = s /\ t[o + i].how = h
        BY <2>1, SameReply
      <3>. QED
        BY <1>2, <3>1, <3>2
    <2>3. c \subseteq 1 .. m
      BY <1>2
    <2>4. \A j \in o + 1 .. n : j - o \in 1 .. m /\ o + (j - o) = j
      BY <1>1
    <2>. HIDE DEF c, M
    <2>5. c # {} <=> \E i \in o + 1 .. n : M(i)
      BY <2>1, <2>2, <2>3, <2>4
    <2>6. ASSUME \A i, j \in o + 1 .. n : M(i) /\ M(j) => i = j, NEW i \in c, NEW j \in c
          PROVE  i = j
      <3>1. i \in 1 .. m /\ j \in 1 .. m /\ M(o + i) /\ M(o + j)
        BY <2>2, <2>3, <2>6
      <3>2. o + i = o + j
        BY <2>1, <2>6, <3>1
      <3>. QED
        BY <1>1, <3>1, <3>2
    <2>7. /\ Cardinality(c) \in Nat
          /\ Cardinality(c) > 0 <=> c # {}
          /\ (\A i, j \in c : i = j) => Cardinality(c) <= 1
      BY <1>1, <2>3, CountOf
    <2>8. /\ Cardinality(c) \in Nat
          /\ Cardinality(c) > 0 <=> \E i \in o + 1 .. n : M(i)
          /\ (\A i, j \in o + 1 .. n : M(i) /\ M(j) => i = j) => Cardinality(c) <= 1
      BY <2>5, <2>6, <2>7
    <2>. QED
      BY <2>8 DEF M, c
  <1>4. Counted(q) = [s \in Seqs |-> [h \in Answers |-> got[s][h] + Cardinality(C(s, h))]]
    BY DEF Counted
  <1>. DEFINE k(s, h) == Cardinality(C(s, h))
  <1>5. \A s \in Seqs, h \in Answers : got[s][h] \in Nat
    BY DEF Got
  <1>6. Counted(q) = [s \in Seqs |-> [h \in Answers |-> got[s][h] + k(s, h)]]
    BY <1>4
  <1>7. \A s \in Seqs, h \in Answers : k(s, h) \in Nat
    BY <1>3
  <1>8. \A s \in Seqs, h \in Answers :
          /\ k(s, h) > 0 <=> \E i \in o + 1 .. n : t[i].seqnum = s /\ t[i].how = h
          /\ (\A i, j \in o + 1 .. n :
                t[i].seqnum = s /\ t[i].how = h /\ t[j].seqnum = s /\ t[j].how = h => i = j)
               => k(s, h) <= 1
    BY <1>3
  <1>. HIDE DEF k, C
  <1>9. \A s \in Seqs, h \in Answers : Counted(q)[s][h] = got[s][h] + k(s, h)
    BY <1>6
  <1>10. Counted(q) \in Got
    BY <1>5, <1>6, <1>7 DEF Got
  <1>11. Received(Counted(q), got, t, o, n)
    <2>. SUFFICES ASSUME NEW s \in Seqs, NEW h \in Answers
                  PROVE  LET M(i) == t[i].seqnum = s /\ t[i].how = h
                         IN /\ Counted(q)[s][h] >= got[s][h]
                            /\ Counted(q)[s][h] > got[s][h] <=> \E i \in o + 1 .. n : M(i)
                            /\ (\A i, j \in o + 1 .. n : M(i) /\ M(j) => i = j)
                                 => Counted(q)[s][h] <= got[s][h] + 1
      BY DEF Received
    <2>. DEFINE x == got[s][h]
                y == k(s, h)
                z == Counted(q)[s][h]
    <2>1. x \in Nat /\ y \in Nat /\ z = x + y
      BY <1>5, <1>7, <1>9
    <2>. HIDE DEF x, y, z
    <2>2. z >= x /\ (z > x <=> y > 0) /\ (y <= 1 => z <= x + 1)
      BY <2>1
    <2>3. /\ y > 0 <=> \E i \in o + 1 .. n : t[i].seqnum = s /\ t[i].how = h
          /\ (\A i, j \in o + 1 .. n :
                t[i].seqnum = s /\ t[i].how = h /\ t[j].seqnum = s /\ t[j].how = h => i = j)
               => y <= 1
      BY <1>8 DEF y
    <2>4. /\ z >= x /\ (z > x <=> \E i \in o + 1 .. n : t[i].seqnum = s /\ t[i].how = h)
          /\ (\A i, j \in o + 1 .. n :
                t[i].seqnum = s /\ t[i].how = h /\ t[j].seqnum = s /\ t[j].how = h => i = j)
               => z <= x + 1
      BY ONLY <2>2, <2>3
    <2>. QED
      BY ONLY <2>4 DEF x, z
  <1>. QED
    BY <1>10, <1>11 DEF q

\* With no client, tx_buf is emptied.
LEMMA ClearReplies ==
  ASSUME NEW q, NEW pend, NEW so, NEW t, NEW o, NEW g, NEW dr, NEW ub,
         UrbTypes(q, pend, so, t, o, g, ub), UrbInv(q, pend, so, t, o, g, dr, 0, ub)
  PROVE  UrbInv(q, pend, so, << >>, 0, g, dr, 0, ub)
  <1>1. /\ RepliesOK(t, o, g, 0, ub) /\ OnePlace(q, pend, so, t, o, g) /\ ub \in Seq(Urb)
    BY DEF UrbInv, UrbTypes
  <1>2. Due(<< >>, 0) = {}
    BY DEF Due
  <1>3. \A H, s : Replied(H, << >>, 0, g, s) => Replied(H, t, o, g, s)
    BY <1>2 DEF Replied
  <1>4. OnePlace(q, pend, so, << >>, 0, g)
    BY <1>1, <1>3 DEF OnePlace
  <1>5. RepliesOK(<< >>, 0, g, 0, ub)
    BY <1>1, <1>2 DEF RepliesOK, Once
  <1>6. \A s \in DOMAIN ub : ub[s].by # 0
    <2>1. \A s \in DOMAIN ub : ub[s] \in Urb
      BY <1>1
    <2>. QED
      BY <2>1, UsbIpBounds DEF Urb
  <1>7. Covered(q, pend, so, << >>, 0, g, dr, 0, ub)
    BY <1>6 DEF Covered
  <1>. QED
    BY <1>4, <1>5, <1>7 DEF UrbInv

\* The replies are sent, or as many of them as the socket takes.
LEMMA FlushStep ==
  ASSUME UsbIpInv, usbip_tx_flush
  PROVE  UsbIpInv'
  <1>0. Control /\ Data /\ UrbNow
    BY DEF UsbIpInv
  <1>1. /\ phase' = "idle" /\ Socket
        /\ UNCHANGED << calls, wait_more, rxArmed, txData, slot, urbs, dropped >>
    BY DEF usbip_tx_flush
  <1>2. /\ UrbTypes(Queue, pending, status_out, tx, tx_off, got, urbs)
        /\ UrbInv(Queue, pending, status_out, tx, tx_off, got, dropped, client, urbs)
    BY <1>0, DataTypes DEF UrbNow
  <1>3. /\ wait_more' \in BOOLEAN /\ rxArmed' \in BOOLEAN /\ slot' \in 1 .. PendSlots
        /\ txData' \in [Eps -> {"none", "short", "full"}] /\ imported \in BOOLEAN
        /\ phase' \in {"idle", "status", "complete", "flush"} /\ calls' = calls
    BY <1>0, <1>1 DEF Control
  <1>t. tx \in Seq(Replies) /\ Len(tx) \in Nat /\ tx_off \in 0 .. Len(tx) /\ Len(tx) <= TxSlots
        /\ got \in Got
    BY <1>0 DEF Data
  <1>4. ASSUME UNCHANGED << client, rx, imported, pending, status_out >>, got' \in Got,
               tx' \in Seq(Replies), Len(tx') <= TxSlots, tx_off' \in 0 .. Len(tx'),
               UrbInv(Queue, pending, status_out, tx', tx_off', got', dropped, client, urbs)
        PROVE  UsbIpInv'
    <2>1. net' = net /\ Queue' = Queue /\ RxTyped'
      <3>1. net' = net
        BY <1>0, <1>1, <1>4, SocketStays
      <3>. QED
        BY <1>0, <1>4, <3>1, RxStays
    <2>2. UrbNow'
      BY <1>1, <1>4, <2>1 DEF UrbNow
    <2>3. Data'
      BY <1>0, <1>1, <1>4, <2>1 DEF Data
    <2>4. Control'
      <3>1. imported' \in BOOLEAN /\ client' \in {0, client}
        BY <1>3, <1>4
      <3>. QED
        BY <1>0, <1>1, <1>3, <3>1, ControlStep
    <2>. QED
      BY <2>2, <2>3, <2>4 DEF UsbIpInv
  <1>e. << >> \in Seq(Replies) /\ Len(<< >>) = 0 /\ 0 \in 0 .. 0 /\ 0 <= TxSlots
    BY EmptySeq, UsbIpBounds
  <1>5. CASE /\ client = 0 /\ tx' = << >> /\ tx_off' = 0
             /\ UNCHANGED << client, rx, imported, pending, status_out, got >>
    <2>1. UrbInv(Queue, pending, status_out, << >>, 0, got, dropped, client, urbs)
      BY <1>2, <1>5, ClearReplies
    <2>. QED
      BY <1>4, <1>5, <1>e, <1>t, <2>1
  <1>6. CASE /\ tx_off = Len(tx) /\ tx' = << >> /\ tx_off' = 0
             /\ UNCHANGED << client, rx, imported, pending, status_out, got >>
    <2>1. Received(got, got, tx, tx_off, tx_off) /\ tx_off \in tx_off .. Len(tx)
      <3>1. tx_off + 1 .. tx_off = {} /\ tx_off \in tx_off .. Len(tx)
        BY <1>t
      <3>2. \A s \in Seqs, h \in Answers : got[s][h] \in Nat
        BY <1>t DEF Got
      <3>3. \A s \in Seqs, h \in Answers : got[s][h] >= got[s][h] /\ ~(got[s][h] > got[s][h])
                                           /\ got[s][h] <= got[s][h] + 1
        BY <3>2
      <3>. QED
        BY <3>1, <3>3 DEF Received
    <2>. DEFINE t2 == << >>
                o2 == 0
    <2>2. t2 = << >> /\ o2 = 0 /\ tx_off = Len(tx)
      BY <1>6
    <2>. HIDE DEF t2, o2
    <2>3. UrbInv(Queue, pending, status_out, t2, o2, got, dropped, client, urbs)
      BY ONLY <1>2, <1>t, <2>1, <2>2, SendReplies
    <2>. QED
      BY <1>4, <1>6, <1>e, <1>t, <2>2, <2>3
  <1>7. ASSUME NEW n \in tx_off .. Len(tx), got' = Counted(SubSeq(tx, tx_off + 1, n)),
               tx' = (IF n = Len(tx) THEN << >> ELSE tx), tx_off' = (IF n = Len(tx) THEN 0 ELSE n),
               UNCHANGED << client, rx, imported, pending, status_out >>
        PROVE  UsbIpInv'
    <2>1. got' \in Got /\ Received(got', got, tx, tx_off, n)
      BY <1>7, <1>t, CountedIsReceived
    <2>2. (tx' = tx /\ tx_off' = n) \/ (tx' = << >> /\ tx_off' = 0 /\ n = Len(tx))
      BY <1>7
    <2>n. n \in tx_off .. Len(tx)
      OBVIOUS
    <2>3. UrbInv(Queue, pending, status_out, tx', tx_off', got', dropped, client, urbs)
      BY ONLY <1>2, <2>n, <2>1, <2>2, SendReplies
    <2>4. tx' \in Seq(Replies) /\ Len(tx') <= TxSlots /\ tx_off' \in 0 .. Len(tx')
      <3>1. CASE tx' = tx /\ tx_off' = n
        BY <1>t, <2>n, <3>1
      <3>2. CASE tx' = << >> /\ tx_off' = 0
        BY <1>e, <3>2
      <3>. QED
        BY <2>2, <3>1, <3>2
    <2>. QED
      BY <1>4, <1>7, <2>1, <2>3, <2>4
  <1>8. CASE /\ client' = 0 /\ imported' = FALSE /\ tx' = << >> /\ tx_off' = 0
             /\ rx' = << >> /\ pending' = EmptyTable /\ UNCHANGED << status_out, got >>
    <2>1. Ended /\ net' = << >>
      BY <1>1, <1>8 DEF Ended, Socket
    <2>2. Data' /\ UrbNow'
      BY <1>1, <1>8, <2>1, EndedStep
    <2>3. Control'
      <3>1. imported' \in BOOLEAN /\ client' \in {0, client}
        BY <1>8
      <3>. QED
        BY <1>0, <1>1, <1>3, <3>1, ControlStep
    <2>. QED
      BY <2>2, <2>3 DEF UsbIpInv
  <1>. QED
    BY <1>5, <1>6, <1>7, <1>8 DEF usbip_tx_flush

-----------------------------------------------------------------------------
(* The steps of the client and of the firmware *)

BodyPiece == [pdu |-> "body"]

\* more is q with a header p, and k - 1 bodies, behind it.
Follows(more, q, p, k) ==
  /\ more \in Seq(Pieces) /\ k \in {1, 2} /\ p \in Pieces
  /\ Len(more) = Len(q) + k /\ \A i \in 1 .. Len(q) : more[i] = q[i]
  /\ more[Len(q) + 1] = p /\ (k = 2 => more[Len(q) + 2].pdu = "body")

\* The two ways in which the client sends a header.
LEMMA HeaderFollows ==
  ASSUME NEW q \in Seq(Pieces), NEW p \in Pieces, NEW k, NEW more,
         \/ k = 1 /\ more = Append(q, p)
         \/ k = 2 /\ more = q \o << p, BodyPiece >>
  PROVE  Follows(more, q, p, k)
  <1>0. Len(q) \in Nat
    OBVIOUS
  <1>1. CASE k = 1 /\ more = Append(q, p)
    BY <1>1, AppendProperties DEF Follows
  <1>2. CASE k = 2 /\ more = q \o << p, BodyPiece >>
    <2>. DEFINE b == << p, BodyPiece >>
    <2>1. BodyPiece \in Pieces /\ BodyPiece.pdu = "body"
      BY DEF BodyPiece, Pieces
    <2>2. b \in Seq(Pieces) /\ Len(b) = 2 /\ b[1] = p /\ b[2] = BodyPiece
      BY <2>1
    <2>. HIDE DEF b
    <2>. DEFINE n == Len(q)
    <2>3. /\ q \o b \in Seq(Pieces) /\ Len(q \o b) = n + 2
          /\ \A i \in 1 .. n + 2 : (q \o b)[i] = IF i <= n THEN q[i] ELSE b[i - n]
      <3>1. /\ q \o b \in Seq(Pieces) /\ Len(q \o b) = n + Len(b)
            /\ \A i \in 1 .. n + Len(b) : (q \o b)[i] = IF i <= n THEN q[i] ELSE b[i - n]
        BY <2>2, ConcatProperties
      <3>. HIDE DEF n
      <3>. QED
        BY <2>2, <3>1
    <2>4. n \in Nat
      BY <1>0
    <2>. HIDE DEF n
    <2>5. \A i \in 1 .. n : (q \o b)[i] = q[i]
      BY <2>3, <2>4
    <2>6. (q \o b)[n + 1] = p /\ (q \o b)[n + 2] = BodyPiece
      <3>. DEFINE i == n + 1
                  j == n + 2
      <3>1. i \in 1 .. n + 2 /\ ~(i <= n) /\ i - n = 1 /\ j \in 1 .. n + 2 /\ ~(j <= n) /\ j - n = 2
        BY <2>4
      <3>. HIDE DEF i, j
      <3>2. (q \o b)[i] = b[i - n] /\ (q \o b)[j] = b[j - n]
        BY <2>3, <3>1
      <3>3. (q \o b)[i] = p /\ (q \o b)[j] = BodyPiece
        BY <2>2, <3>1, <3>2
      <3>. QED
        BY <3>3 DEF i, j
    <2>7. more = q \o b /\ k = 2
      BY <1>2 DEF b
    <2>. QED
      BY <2>1, <2>3, <2>5, <2>6, <2>7 DEF n, Follows
  <1>. QED
    BY <1>1, <1>2

\* What follows what is on its way follows the whole stream.
LEMMA StreamFollows ==
  ASSUME Data, client # 0, client' = client, rx' = rx, NEW p, NEW k, Follows(net', net, p, k)
  PROVE  Follows(Queue', Queue, p, k)
  <1>1. /\ rx \in Seq(Pieces) /\ net \in Seq(Pieces) /\ net' \in Seq(Pieces) /\ k \in {1, 2}
        /\ Queue' = rx \o net'
    BY DEF Data, RxTyped, Queue, Follows
  <1>. DEFINE a == Len(rx)
              b == Len(net)
              c == Len(net')
  <1>2. a \in Nat /\ b \in Nat /\ c = b + k
    BY <1>1 DEF Follows
  <1>3. /\ Queue \in Seq(Pieces) /\ Len(Queue) = a + b
        /\ \A i \in 1 .. a + b : Queue[i] = IF i <= a THEN rx[i] ELSE net[i - a]
    BY <1>1, ConcatProperties DEF Queue
  <1>4. /\ Queue' \in Seq(Pieces) /\ Len(Queue') = a + c
        /\ \A i \in 1 .. a + c : Queue'[i] = IF i <= a THEN rx[i] ELSE net'[i - a]
    BY <1>1, ConcatProperties
  <1>5. /\ p \in Pieces /\ \A i \in 1 .. b : net'[i] = net[i]
        /\ net'[b + 1] = p /\ (k = 2 => net'[b + 2].pdu = "body")
    BY DEF Follows
  <1>. HIDE DEF a, b, c
  <1>6. ASSUME NEW i \in 1 .. a + b PROVE Queue'[i] = Queue[i]
    <2>1. i \in 1 .. a + c
      BY <1>1, <1>2
    <2>2. CASE i <= a
      BY <1>3, <1>4, <2>1, <2>2
    <2>3. CASE ~(i <= a)
      <3>1. i - a \in 1 .. b
        BY <1>2, <2>3
      <3>. QED
        BY <1>3, <1>4, <1>5, <2>1, <2>3, <3>1
    <2>. QED
      BY <2>2, <2>3
  <1>7. Queue'[a + b + 1] = p
    <2>. DEFINE j == a + b + 1
    <2>1. j \in 1 .. a + c /\ ~(j <= a) /\ j - a = b + 1
      BY <1>1, <1>2
    <2>. HIDE DEF j
    <2>2. Queue'[j] = net'[j - a]
      BY <1>4, <2>1
    <2>3. Queue'[j] = p
      BY <1>5, <2>1, <2>2
    <2>. QED
      BY <2>3 DEF j
  <1>8. k = 2 => Queue'[a + b + 2].pdu = "body"
    <2>. SUFFICES ASSUME k = 2 PROVE Queue'[a + b + 2].pdu = "body"
      OBVIOUS
    <2>. DEFINE j == a + b + 2
    <2>1. j \in 1 .. a + c /\ ~(j <= a) /\ j - a = b + 2
      BY <1>1, <1>2
    <2>. HIDE DEF j
    <2>2. Queue'[j] = net'[j - a]
      BY <1>4, <2>1
    <2>3. Queue'[j].pdu = "body"
      BY <1>5, <2>1, <2>2
    <2>. QED
      BY <2>3 DEF j
  <1>9. Len(Queue') = Len(Queue) + k
    BY <1>1, <1>2, <1>3, <1>4
  <1>. QED
    BY <1>1, <1>3, <1>4, <1>5, <1>6, <1>7, <1>8, <1>9 DEF Follows

\* The client sends a request.
LEMMA SendStep ==
  ASSUME UsbIpInv, Quiet, NEW p, NEW k, Follows(net', net, p, k), Len(net) + k <= NetSlots,
         client # 0, gone' \in BOOLEAN, Extends(urbs', urbs), urbs' \in Seq(Urb), Len(urbs') <= MaxSeq,
         \A s \in DOMAIN urbs' : urbs'[s].by <= calls,
         NeedsBody(p, urbs') => k = 2,
         p.pdu \in {"submit", "unlink"} => p.seqnum \in DOMAIN urbs' /\ urbs'[p.seqnum].by = client,
         p.pdu = "submit" => \A s \in DOMAIN urbs : s < p.seqnum,
         p.pdu = "unlink" => /\ ~Queued(Queue, "unlink", p.seqnum)
                             /\ ~Replied(Ending, tx, tx_off, got, p.seqnum),
         \A s \in DOMAIN urbs' \ DOMAIN urbs : p.pdu = "submit" /\ p.seqnum = s
  PROVE  UsbIpInv'
  <1>0. Control /\ Data /\ UrbNow
    BY DEF UsbIpInv
  <1>1. UNCHANGED << client, calls, rx, imported, wait_more, pending, status_out, tx, tx_off,
                     rxArmed, txData, phase, slot, got, dropped >>
    BY DEF Quiet
  <1>2. /\ UrbTypes(Queue, pending, status_out, tx, tx_off, got, urbs)
        /\ UrbInv(Queue, pending, status_out, tx, tx_off, got, dropped, client, urbs)
    BY <1>0, DataTypes DEF UrbNow
  <1>3. Follows(Queue', Queue, p, k)
    BY <1>0, <1>1, StreamFollows
  <1>4. /\ Queue' \in Seq(Pieces) /\ k \in {1, 2} /\ p \in Pieces
        /\ Len(Queue') = Len(Queue) + k /\ (\A i \in 1 .. Len(Queue) : Queue'[i] = Queue[i])
        /\ Queue'[Len(Queue) + 1] = p /\ (k = 2 => Queue'[Len(Queue) + 2].pdu = "body")
    BY <1>3 DEF Follows
  <1>5. /\ Extends(urbs', urbs) /\ (NeedsBody(p, urbs') => k = 2)
        /\ (p.pdu \in {"submit", "unlink"} => p.seqnum \in DOMAIN urbs' /\ urbs'[p.seqnum].by = client)
        /\ (p.pdu = "submit" => \A s \in DOMAIN urbs : s < p.seqnum)
        /\ (p.pdu = "unlink" => ~Queued(Queue, "unlink", p.seqnum) /\ ~Replied(Ending, tx, tx_off, got, p.seqnum))
        /\ (\A s \in DOMAIN urbs' \ DOMAIN urbs : p.pdu = "submit" /\ p.seqnum = s)
    OBVIOUS
  <1>6. UrbInv(Queue', pending, status_out, tx, tx_off, got, dropped, client, urbs')
    BY ONLY <1>2, <1>4, <1>5, ClientSends
  <1>7. UrbNow'
    BY <1>1, <1>6 DEF UrbNow
  <1>8. net' \in Seq(Pieces) /\ Len(net') <= NetSlots
    BY DEF Follows
  <1>9. Data'
    BY <1>0, <1>1, <1>8 DEF Data, RxTyped
  <1>10. Control'
    BY <1>0, <1>1 DEF Control
  <1>. QED
    BY <1>7, <1>9, <1>10 DEF UsbIpInv

\* The client asks for the list, imports the device, or sends something else.
LEMMA ClientOpStep ==
  ASSUME UsbIpInv, NEW op \in {"devlist", "import", "unknown"}, ClientOp(op)
  PROVE  UsbIpInv'
  <1>. DEFINE p == [pdu |-> op]
              k == IF op = "import" THEN 2 ELSE 1
  <1>0. Control /\ Data
    BY DEF UsbIpInv
  <1>1. p \in Pieces /\ p.pdu = op /\ k \in {1, 2} /\ (k = 2 <=> op = "import")
    BY DEF Pieces
  <1>2. /\ Quiet /\ UNCHANGED << gone, urbs >> /\ client # 0 /\ Len(net) + k <= NetSlots
        /\ \/ k = 1 /\ net' = Append(net, p)
           \/ k = 2 /\ net' = net \o << p, BodyPiece >>
    BY DEF ClientOp, BodyPiece
  <1>. HIDE DEF p, k
  <1>3. net \in Seq(Pieces)
    BY <1>0 DEF Data
  <1>4. Follows(net', net, p, k)
    BY <1>1, <1>2, <1>3, HeaderFollows
  <1>5. p.pdu \notin {"submit", "unlink"}
    BY <1>1
  <1>6. /\ gone' \in BOOLEAN /\ Extends(urbs', urbs) /\ urbs' \in Seq(Urb) /\ Len(urbs') <= MaxSeq
        /\ (\A s \in DOMAIN urbs' : urbs'[s].by <= calls)
        /\ (\A s \in DOMAIN urbs' \ DOMAIN urbs : p.pdu = "submit" /\ p.seqnum = s)
    BY <1>0, <1>2 DEF Control, Data, Extends
  <1>7. NeedsBody(p, urbs') => k = 2
    BY <1>1, <1>5 DEF NeedsBody
  <1>. QED
    BY <1>2, <1>4, <1>5, <1>6, <1>7, SendStep

\* The client submits an URB.
LEMMA SubmitStep ==
  ASSUME UsbIpInv, NEW kind \in Kinds, Submit(kind)
  PROVE  UsbIpInv'
  <1>. DEFINE s == Len(urbs) + 1
              p == [pdu |-> "submit", seqnum |-> s]
              k == IF kind = "bulk out" THEN 2 ELSE 1
              u == [kind |-> kind, by |-> client]
  <1>0. Control /\ Data
    BY DEF UsbIpInv
  <1>t. urbs \in Seq(Urb) /\ Len(urbs) \in Nat /\ net \in Seq(Pieces) /\ DOMAIN urbs = 1 .. Len(urbs)
    BY <1>0 DEF Data
  <1>1. /\ Quiet /\ UNCHANGED gone /\ client # 0 /\ Len(net) + k <= NetSlots /\ s <= MaxSeq
        /\ urbs' = Append(urbs, u)
        /\ \/ k = 1 /\ net' = Append(net, p)
           \/ k = 2 /\ net' = net \o << p, BodyPiece >>
    BY DEF Submit, BodyPiece
  <1>2. s \in Seqs /\ s \in Nat
    <2>. DEFINE n == Len(urbs)
    <2>1. n \in Nat /\ n + 1 <= MaxSeq /\ s = n + 1
      BY <1>t, <1>1
    <2>. HIDE DEF n, s
    <2>. QED
      BY <2>1, UsbIpBounds DEF Seqs
  <1>3. u \in Urb /\ u.kind = kind /\ u.by = client
    <2>1. client \in 1 .. MaxClients
      <3>1. client \in 0 .. MaxClients /\ client # 0
        BY <1>0, <1>1 DEF Control
      <3>. QED
        BY <3>1, UsbIpBounds
    <2>. QED
      BY <2>1 DEF Urb
  <1>4. \A x \in DOMAIN urbs : x < s /\ x # s
    BY <1>t
  <1>. HIDE DEF u
  <1>5. /\ urbs' \in Seq(Urb) /\ Len(urbs') = s /\ urbs'[s] = u
        /\ \A i \in 1 .. Len(urbs) : urbs'[i] = urbs[i]
    <2>1. urbs' = Append(urbs, u) /\ u \in Urb
      BY <1>1, <1>3
    <2>. QED
      BY <1>t, <2>1, AppendProperties
  <1>6. DOMAIN urbs' = DOMAIN urbs \cup {s}
    <2>1. DOMAIN urbs' = 1 .. s
      BY <1>5
    <2>. QED
      BY <1>t, <2>1
  <1>. HIDE DEF s
  <1>7. p \in Pieces /\ p.pdu = "submit" /\ p.seqnum = s /\ k \in {1, 2} /\ (k = 2 <=> kind = "bulk out")
    <2>1. p \in Pieces /\ p.pdu = "submit" /\ p.seqnum = s
      BY <1>2 DEF Pieces
    <2>2. k \in {1, 2} /\ (k = 2 <=> kind = "bulk out")
      <3>1. (kind = "bulk out" => k = 2) /\ (kind # "bulk out" => k = 1)
        OBVIOUS
      <3>. HIDE DEF k
      <3>2. CASE kind = "bulk out"
        BY <3>1, <3>2
      <3>3. CASE kind # "bulk out"
        <4>1. k = 1
          BY <3>1, <3>3, Zenon
        <4>2. 1 # 2 /\ 1 \in {1, 2}
          BY ONLY TRUE
        <4>. QED
          BY <3>3, <4>1, <4>2, Zenon
      <3>. QED
        BY <3>2, <3>3
    <2>. QED
      BY <2>1, <2>2
  <1>. HIDE DEF p, k
  <1>8. Follows(net', net, p, k)
    BY <1>1, <1>7, <1>t, HeaderFollows
  <1>9. \A x \in DOMAIN urbs' : urbs'[x].by <= calls
    BY <1>0, <1>3, <1>5, <1>6, <1>t DEF Control, Data
  <1>10. Extends(urbs', urbs)
    BY <1>5, <1>6, <1>t DEF Extends
  <1>11. NeedsBody(p, urbs') => k = 2
    BY <1>3, <1>5, <1>7 DEF NeedsBody
  <1>12. /\ p.seqnum \in DOMAIN urbs' /\ urbs'[p.seqnum].by = client
         /\ \A x \in DOMAIN urbs : x < p.seqnum
         /\ \A x \in DOMAIN urbs' \ DOMAIN urbs : p.pdu = "submit" /\ p.seqnum = x
    BY <1>3, <1>4, <1>5, <1>6, <1>7
  <1>13. gone' \in BOOLEAN /\ Len(urbs') <= MaxSeq /\ urbs' \in Seq(Urb)
    BY <1>0, <1>1, <1>5 DEF Control
  <1>. QED
    BY <1>1, <1>7, <1>8, <1>9, <1>10, <1>11, <1>12, <1>13, SendStep

\* The client unlinks an URB it has no answer to.
LEMMA UnlinkStep ==
  ASSUME UsbIpInv, NEW s \in DOMAIN urbs, Unlink(s)
  PROVE  UsbIpInv'
  <1>. DEFINE p == [pdu |-> "unlink", seqnum |-> s]
  <1>0. Control /\ Data
    BY DEF UsbIpInv
  <1>t. /\ urbs \in Seq(Urb) /\ net \in Seq(Pieces) /\ rx \in Seq(Pieces) /\ s \in Seqs
        /\ tx \in Seq(Replies) /\ tx_off \in 0 .. Len(tx) /\ Len(net) \in Nat
    BY <1>0, UrbNumbers DEF Data, RxTyped, Unlink
  <1>1. /\ Quiet /\ UNCHANGED << gone, urbs >> /\ client # 0 /\ Len(net) < NetSlots
        /\ urbs[s].by = client /\ (\A h \in Answers : got[s][h] = 0)
        /\ ~(\E i \in DOMAIN net : net[i] = p) /\ ~(\E i \in DOMAIN rx : rx[i] = p)
        /\ ~(\E i \in DOMAIN tx : tx[i].seqnum = s /\ tx[i].how \in {"reset", "unlink"})
        /\ net' = Append(net, p)
    BY DEF Unlink
  <1>2. p \in Pieces /\ p.pdu = "unlink" /\ p.seqnum = s
    BY <1>t DEF Pieces
  <1>3. \A x \in Pieces : x.pdu = "unlink" /\ x.seqnum = s => x = p
    BY DEF Pieces
  <1>. HIDE DEF p
  <1>4. ~Queued(Queue, "unlink", s)
    <2>1. /\ Queue \in Seq(Pieces) /\ Len(Queue) = Len(rx) + Len(net)
          /\ \A i \in 1 .. Len(Queue) : Queue[i] = IF i <= Len(rx) THEN rx[i] ELSE net[i - Len(rx)]
      BY <1>0, <1>1, DataTypes DEF UrbTypes
    <2>2. ASSUME NEW i \in DOMAIN Queue, Queue[i].pdu = "unlink", Queue[i].seqnum = s
          PROVE  FALSE
      <3>1. i \in 1 .. Len(rx) + Len(net) /\ Queue[i] = p /\ Len(rx) \in Nat
        BY <1>3, <1>t, <2>1, <2>2
      <3>2. CASE i <= Len(rx)
        <4>1. i \in DOMAIN rx /\ rx[i] = p
          BY <1>t, <2>1, <3>1, <3>2
        <4>. QED
          BY <1>1, <4>1
      <3>3. CASE ~(i <= Len(rx))
        <4>1. i - Len(rx) \in DOMAIN net /\ net[i - Len(rx)] = p
          BY <1>t, <2>1, <3>1, <3>3
        <4>. QED
          BY <1>1, <4>1
      <3>. QED
        BY <3>2, <3>3
    <2>. QED
      BY <2>2 DEF Queued
  <1>5. ~Replied(Ending, tx, tx_off, got, s)
    <2>1. Due(tx, tx_off) \subseteq DOMAIN tx
      BY <1>t DEF Due
    <2>2. \A h \in Ending : h \in Answers /\ ~(got[s][h] > 0)
      BY <1>1 DEF Ending, Answers
    <2>. QED
      BY <1>1, <2>1, <2>2 DEF Replied, Ending
  <1>6. Follows(net', net, p, 1)
    BY <1>1, <1>2, <1>t, HeaderFollows
  <1>7. /\ gone' \in BOOLEAN /\ Extends(urbs', urbs) /\ urbs' \in Seq(Urb) /\ Len(urbs') <= MaxSeq
        /\ (\A x \in DOMAIN urbs' : urbs'[x].by <= calls)
        /\ (\A x \in DOMAIN urbs' \ DOMAIN urbs : p.pdu = "submit" /\ p.seqnum = x)
        /\ p.seqnum \in DOMAIN urbs' /\ urbs'[p.seqnum].by = client
    BY <1>0, <1>1, <1>2 DEF Control, Data, Extends
  <1>8. ~NeedsBody(p, urbs')
    BY <1>2 DEF NeedsBody
  <1>9. Len(net) + 1 <= NetSlots
    BY <1>1, <1>t, UsbIpBounds
  <1>. QED
    BY <1>1, <1>2, <1>4, <1>5, <1>6, <1>7, <1>8, <1>9, SendStep

\* The client leaves, or the firmware arms an endpoint.
LEMMA OtherUsbIpStep ==
  ASSUME UsbIpInv, \/ Leave \/ ArmRx
                   \/ \E e \in Eps, d \in {"short", "full"} : ArmTx(e, d)
                   \/ UNCHANGED usbipVars
  PROVE  UsbIpInv'
  <1>0. Control /\ Data /\ UrbNow
    BY DEF UsbIpInv
  <1>1. /\ UNCHANGED << client, rx, net, pending, status_out, tx, tx_off, got, dropped, urbs, calls >>
        /\ UNCHANGED << imported, wait_more, phase, slot >>
    BY DEF Leave, Quiet, ArmRx, ArmTx, usbipVars
  <1>2. Data' /\ UrbNow'
    BY <1>1, UrbsUnchanged
  <1>3. gone' \in BOOLEAN /\ rxArmed' \in BOOLEAN
    BY <1>0 DEF Leave, Quiet, ArmRx, ArmTx, usbipVars, Control
  <1>4. txData' \in [Eps -> {"none", "short", "full"}]
    BY <1>0 DEF Leave, Quiet, ArmRx, ArmTx, usbipVars, Control
  <1>5. Control'
    BY <1>0, <1>1, <1>3, <1>4 DEF Control
  <1>. QED
    BY <1>2, <1>5 DEF UsbIpInv

-----------------------------------------------------------------------------

\* Nothing has been sent, and nobody is there.
LEMMA UsbIpInvInit == UsbIpInit => UsbIpInv
  <1>. SUFFICES ASSUME UsbIpInit PROVE UsbIpInv
    OBVIOUS
  <1>1. urbs = << >> /\ status_out = 0 /\ Queue = << >>
    BY DEF UsbIpInit, Queue, NoStatus
  <1>2. StatusOK(0, urbs) /\ \A s \in DOMAIN urbs : urbs[s].by # 0
    BY <1>1 DEF StatusOK
  <1>3. 0 \in 0 .. MaxSeq /\ 0 \in 0 .. MaxClients /\ 1 \in 1 .. PendSlots
    BY UsbIpBounds
  <1>4. UrbNow
    BY <1>1, <1>2, <1>3, StartOfConnection DEF UrbNow, UsbIpInit
  <1>5. NoAnswers \in Got
    BY DEF NoAnswers, Got
  <1>6. Data
    <2>1. \A S : << >> \in Seq(S) /\ Len(<< >>) = 0
      OBVIOUS
    <2>2. RxTyped
      BY <2>1, UsbIpBounds DEF UsbIpInit, RxTyped
    <2>. QED
      BY <1>1, <1>3, <1>5, <2>1, <2>2, TableEmpty, UsbIpBounds DEF UsbIpInit, Data
  <1>7. Control
    <2>1. client \in 0 .. MaxClients /\ calls \in 0 .. MaxClients /\ client <= calls /\ slot \in 1 .. PendSlots
      BY <1>3 DEF UsbIpInit
    <2>2. txData \in [Eps -> {"none", "short", "full"}]
      BY DEF UsbIpInit
    <2>3. /\ gone \in BOOLEAN /\ imported \in BOOLEAN /\ wait_more \in BOOLEAN /\ rxArmed \in BOOLEAN
          /\ phase = "idle" /\ net = << >>
      BY DEF UsbIpInit
    <2>. QED
      BY <2>1, <2>2, <2>3 DEF Control
  <1>. QED
    BY <1>4, <1>6, <1>7 DEF UsbIpInv

\* Every step keeps the invariant.
LEMMA UsbIpInvStep == UsbIpInv /\ [UsbIpNext]_usbipVars => UsbIpInv'
  BY AcceptStep, RecvStep, HandlePduStep, StatusOutStep, CompleteStep, FlushStep,
     ClientOpStep, SubmitStep, UnlinkStep, OtherUsbIpStep DEF UsbIpNext, mm_usbdev_poll

-----------------------------------------------------------------------------
(* What the invariant says of the answers *)

\* There are four kinds of answers.
LEMMA AnswersFinite == IsFiniteSet(Answers)
  <1>. DEFINE a == {"submit"}
              b == a \cup {"again"}
              c == b \cup {"unlink"}
              d == c \cup {"reset"}
  <1>1. IsFiniteSet(a)
    BY FS_Singleton
  <1>2. Answers = d
    BY DEF Answers
  <1>. HIDE DEF a
  <1>3. IsFiniteSet(b)
    BY <1>1, FS_AddElement
  <1>. HIDE DEF b
  <1>4. IsFiniteSet(c)
    BY <1>3, FS_AddElement
  <1>. HIDE DEF c
  <1>5. IsFiniteSet(d)
    BY <1>4, FS_AddElement
  <1>. QED
    BY <1>2, <1>5

\* The answers to an URB that HowOften counts are those it has.
LEMMA HowOftenCounts ==
  ASSUME Data, NEW s \in Seqs, NEW H \in SUBSET Answers
  PROVE  /\ HowOften(s, H) \in Nat
         /\ HowOften(s, H) > 0 <=> Replied(H, tx, tx_off, got, s)
         /\ Once(H, tx, tx_off, got) => HowOften(s, H) <= 1
  <1>. DEFINE A == {i \in tx_off + 1 .. Len(tx) : tx[i].seqnum = s /\ tx[i].how \in H}
              G == {h \in H : got[s][h] > 0}
              a == Cardinality(A)
              g == Cardinality(G)
              m == IF \E h \in H : got[s][h] > 1 THEN 1 ELSE 0
  <1>t. Len(tx) \in Nat /\ tx_off \in Nat /\ \A h \in H : got[s][h] \in Nat
    BY DEF Data, Got
  <1>1. /\ a \in Nat /\ (a > 0 <=> A # {})
        /\ (\A i, j \in A : i = j) => a <= 1
    <2>1. A \subseteq 1 .. Len(tx)
      BY <1>t
    <2>. HIDE DEF A
    <2>. QED
      BY <1>t, <2>1, CountOf
  <1>2. /\ g \in Nat /\ (g > 0 <=> G # {})
        /\ (\A i, j \in G : i = j) => g <= 1
    <2>1. IsFiniteSet(G)
      <3>1. G \in SUBSET Answers
        OBVIOUS
      <3>. HIDE DEF G
      <3>. QED
        BY <3>1, AnswersFinite, FS_Subset
    <2>. HIDE DEF G
    <2>. QED
      BY <2>1, CountOfFinite
  <1>3. m \in {0, 1} /\ (m = 1 <=> \E h \in H : got[s][h] > 1)
    OBVIOUS
  <1>4. HowOften(s, H) = a + (IF G # {} THEN g + m ELSE 0)
    <2>1. (\E h \in H : got[s][h] > 0) <=> G # {}
      OBVIOUS
    <2>2. HowOften(s, H) = a + (IF \E h \in H : got[s][h] > 0 THEN g + m ELSE 0)
      BY DEF HowOften
    <2>. HIDE DEF a, g, m, G
    <2>. QED
      BY <2>1, <2>2
  <1>5. Replied(H, tx, tx_off, got, s) <=> A # {} \/ G # {}
    BY DEF Replied, Due
  <1>6. ASSUME Once(H, tx, tx_off, got)
        PROVE  /\ \A i, j \in A : i = j
               /\ G # {} => A = {} /\ m = 0
               /\ \A i, j \in G : i = j
    <2>1. \A i, j \in A : i = j
      BY <1>6 DEF Once, Due
    <2>2. \A h, k \in H : got[s][h] > 0 /\ got[s][k] > 0 => h = k /\ got[s][h] = 1
      BY <1>6 DEF Once
    <2>3. \A i, j \in G : i = j
      BY <2>2
    <2>4. G # {} => A = {}
      <3>. SUFFICES ASSUME NEW h \in G, NEW i \in A PROVE FALSE
        OBVIOUS
      <3>1. got[s][h] = 0 /\ got[s][h] > 0
        BY <1>6 DEF Once, Due
      <3>. QED
        BY <3>1
    <2>5. \A h \in H : ~(got[s][h] > 1)
      <3>. SUFFICES ASSUME NEW h \in H, got[s][h] > 1 PROVE FALSE
        OBVIOUS
      <3>1. got[s][h] \in Nat
        BY <1>t
      <3>2. got[s][h] > 0
        BY <3>1
      <3>3. got[s][h] = 1
        BY <2>2, <3>2
      <3>. QED
        BY <3>3
    <2>6. m = 0
      BY <2>5
    <2>. QED
      BY <2>1, <2>3, <2>4, <2>6
  <1>. HIDE DEF a, g, m, A, G
  <1>7. HowOften(s, H) \in Nat
    BY <1>1, <1>2, <1>3, <1>4
  <1>8. HowOften(s, H) > 0 <=> A # {} \/ G # {}
    <2>1. CASE G = {}
      BY <1>1, <1>4, <2>1
    <2>2. CASE G # {}
      BY <1>1, <1>2, <1>3, <1>4, <2>2
    <2>. QED
      BY <2>1, <2>2
  <1>9. ASSUME Once(H, tx, tx_off, got)
        PROVE  HowOften(s, H) <= 1
    <2>1. CASE G = {}
      BY <1>1, <1>4, <1>6, <1>9, <2>1
    <2>2. CASE G # {}
      <3>1. a = 0 /\ g <= 1 /\ m = 0
        BY <1>1, <1>2, <1>6, <1>9, <2>2
      <3>. QED
        BY <1>2, <1>4, <2>2, <3>1
    <2>. QED
      BY <2>1, <2>2
  <1>. QED
    BY <1>5, <1>7, <1>8, <1>9

\* An URB in the stream is held by the server.
LEMMA QueuedIsHeld ==
  ASSUME Data, NEW s \in Seqs, Queued(Queue, "submit", s)
  PROVE  Held(s)
  <1>0. client # 0
    BY DEF Queued, Queue
  <1>1. /\ Queue \in Seq(Pieces) /\ Len(Queue) = Len(rx) + Len(net)
        /\ \A i \in 1 .. Len(Queue) : Queue[i] = IF i <= Len(rx) THEN rx[i] ELSE net[i - Len(rx)]
    BY <1>0, DataTypes DEF UrbTypes
  <1>2. PICK i \in DOMAIN Queue : Queue[i].pdu = "submit" /\ Queue[i].seqnum = s
    BY DEF Queued
  <1>3. rx \in Seq(Pieces) /\ net \in Seq(Pieces) /\ Len(rx) \in Nat /\ Len(net) \in Nat
    BY <1>0 DEF Data, RxTyped
  <1>. DEFINE p == [pdu |-> "submit", seqnum |-> s]
  <1>4. \A x \in Pieces : x.pdu = "submit" /\ x.seqnum = s => x = p
    BY DEF Pieces
  <1>. HIDE DEF p
  <1>5. i \in 1 .. Len(rx) + Len(net) /\ Queue[i] = p
    BY <1>1, <1>2, <1>4
  <1>6. CASE i <= Len(rx)
    <2>1. i \in DOMAIN rx /\ rx[i] = p
      BY <1>1, <1>3, <1>5, <1>6
    <2>. QED
      BY <2>1 DEF Held, p
  <1>7. CASE ~(i <= Len(rx))
    <2>1. i - Len(rx) \in DOMAIN net /\ net[i - Len(rx)] = p
      BY <1>1, <1>3, <1>5, <1>7
    <2>. QED
      BY <2>1 DEF Held, p
  <1>. QED
    BY <1>6, <1>7

\* The invariant is as strong as the property.
LEMMA InvAnswersOnce == UsbIpInv => EachUrbAnsweredOnce
  <1>. SUFFICES ASSUME UsbIpInv, NEW s \in DOMAIN urbs
                PROVE  LET answered == HowOften(s, {"submit", "again"})
                           reset == HowOften(s, {"reset"})
                           overtaken == /\ Kind(s) = "control out"
                                        /\ \E t \in DOMAIN urbs : t > s /\ Kind(t) = "control out"
                       IN /\ answered <= 1 /\ (reset > 0 => answered = 0)
                          /\ client \notin {0, urbs[s].by} /\ Kind(s) # "control out" => HowOften(s, Answers) = 0
                          /\ urbs[s].by = client =>
                               Held(s) \/ answered + reset > 0 \/ s \in dropped \/ overtaken
    BY DEF EachUrbAnsweredOnce
  <1>0. Data /\ UrbNow /\ s \in Seqs
    BY UrbNumbers DEF UsbIpInv, Data
  <1>1. /\ RepliesOK(tx, tx_off, got, client, urbs) /\ Once(Final, tx, tx_off, got)
        /\ Covered(Queue, pending, status_out, tx, tx_off, got, dropped, client, urbs)
    BY <1>0 DEF UrbNow, UrbInv, RepliesOK
  <1>. DEFINE H1 == {"submit", "again"}
              H2 == {"reset"}
              answered == HowOften(s, H1)
              reset == HowOften(s, H2)
              every == HowOften(s, Answers)
  <1>2. H1 \in SUBSET Answers /\ H2 \in SUBSET Answers /\ Answers \in SUBSET Answers
    BY DEF Answers
  <1>3. Once(H1, tx, tx_off, got)
    BY <1>1 DEF Once, Final
  <1>4. /\ answered \in Nat /\ reset \in Nat /\ every \in Nat
        /\ (answered > 0 <=> Replied(H1, tx, tx_off, got, s))
        /\ (reset > 0 <=> Replied(H2, tx, tx_off, got, s))
        /\ (every > 0 <=> Replied(Answers, tx, tx_off, got, s))
        /\ answered <= 1
    <2>. HIDE DEF H1, H2
    <2>. QED
      BY <1>0, <1>2, <1>3, HowOftenCounts
  <1>5. ~(Replied(H1, tx, tx_off, got, s) /\ Replied(H2, tx, tx_off, got, s))
    <2>. SUFFICES ASSUME Replied(H1, tx, tx_off, got, s), Replied(H2, tx, tx_off, got, s)
                  PROVE  FALSE
      OBVIOUS
    <2>1. \/ \E i \in Due(tx, tx_off) : tx[i].seqnum = s /\ tx[i].how = "reset"
          \/ got[s]["reset"] > 0
      BY DEF Replied
    <2>2. \/ \E j \in Due(tx, tx_off) : tx[j].seqnum = s /\ tx[j].how \in H1
          \/ \E h \in H1 : got[s][h] > 0
      BY DEF Replied
    <2>3. "reset" \in Final /\ H1 \subseteq Final /\ "reset" \notin H1
      BY DEF Final
    <2>4. \A h \in Final : got[s][h] > 0 => got[s][h] # 0
      <3>1. \A h \in Final : got[s][h] \in Nat
        BY <1>0 DEF Data, Got, Final, Answers
      <3>. QED
        BY <3>1
    <2>. HIDE DEF H1, H2
    <2>5. CASE \E i \in Due(tx, tx_off) : tx[i].seqnum = s /\ tx[i].how = "reset"
      BY <1>1, <2>2, <2>3, <2>4, <2>5 DEF Once
    <2>6. CASE got[s]["reset"] > 0
      BY <1>0, <1>1, <2>2, <2>3, <2>4, <2>6 DEF Once
    <2>. QED
      BY <2>1, <2>5, <2>6
  <1>6. ASSUME client \notin {0, urbs[s].by}, Kind(s) # "control out"
        PROVE  ~Replied(Answers, tx, tx_off, got, s)
    <2>1. ~Mine(s, client, urbs)
      BY <1>6 DEF Mine, Kind
    <2>2. "op" \notin Answers
      BY DEF Answers
    <2>. QED
      BY <1>0, <1>1, <1>6, <2>1, <2>2 DEF Replied, RepliesOK
  <1>7. ASSUME urbs[s].by = client
        PROVE  \/ Held(s) \/ Replied(H1, tx, tx_off, got, s) \/ Replied(H2, tx, tx_off, got, s)
               \/ s \in dropped \/ Overtaken(s, urbs)
    <2>1. Replied(Final, tx, tx_off, got, s) =>
            Replied(H1, tx, tx_off, got, s) \/ Replied(H2, tx, tx_off, got, s)
      BY DEF Replied, Final
    <2>2. InTable(pending, s) => Held(s)
      BY DEF InTable, Held
    <2>3. status_out = s => Held(s)
      BY DEF Held
    <2>4. Queued(Queue, "submit", s) => Held(s)
      BY <1>0, QueuedIsHeld
    <2>. QED
      BY <1>1, <1>7, <2>1, <2>2, <2>3, <2>4 DEF Covered
  <1>8. Overtaken(s, urbs) <=> /\ Kind(s) = "control out"
                               /\ \E t \in DOMAIN urbs : t > s /\ Kind(t) = "control out"
    BY DEF Overtaken, Kind
  <1>. HIDE DEF answered, reset, every
  <1>9. /\ answered <= 1 /\ (reset > 0 => answered = 0)
        /\ (client \notin {0, urbs[s].by} /\ Kind(s) # "control out" => every = 0)
        /\ (urbs[s].by = client => Held(s) \/ answered + reset > 0 \/ s \in dropped \/ Overtaken(s, urbs))
    <2>1. reset > 0 => answered = 0
      BY <1>4, <1>5
    <2>2. client \notin {0, urbs[s].by} /\ Kind(s) # "control out" => every = 0
      <3>. SUFFICES ASSUME client \notin {0, urbs[s].by}, Kind(s) # "control out"
                    PROVE  every = 0
        OBVIOUS
      <3>1. ~Replied(Answers, tx, tx_off, got, s)
        BY <1>6
      <3>2. every \in Nat /\ ~(every > 0)
        BY <1>4, <3>1
      <3>. QED
        BY ONLY <3>2
    <2>3. answered > 0 \/ reset > 0 => answered + reset > 0
      BY <1>4
    <2>. QED
      BY <1>4, <1>7, <2>1, <2>2, <2>3
  <1>. QED
    BY <1>8, <1>9 DEF answered, reset, every

\* And as the type invariant: no answer is counted twice.
LEMMA InvUsbIpType == UsbIpInv => UsbIpTypeOK
  <1>. SUFFICES ASSUME UsbIpInv PROVE UsbIpTypeOK
    OBVIOUS
  <1>0. Control /\ Data /\ UrbNow
    BY DEF UsbIpInv
  <1>1. Once(Final, tx, tx_off, got) /\ Once(Ending, tx, tx_off, got)
    BY <1>0 DEF UrbNow, UrbInv, RepliesOK
  <1>2. ASSUME NEW s \in Seqs, NEW h \in Answers
        PROVE  got[s][h] \in 0 .. 2
    <2>1. h \in Final \/ h \in Ending
      BY DEF Answers, Final, Ending
    <2>2. got[s][h] \in Nat
      BY <1>0 DEF Data, Got
    <2>3. got[s][h] > 0 => got[s][h] = 1
      BY <1>1, <2>1 DEF Once
    <2>. QED
      BY <2>2, <2>3
  <1>3. got \in [Seqs -> [Answers -> 0 .. 2]]
    <2>1. got \in [Seqs -> [Answers -> Nat]]
      BY <1>0 DEF Data, Got
    <2>2. ASSUME NEW s \in Seqs PROVE got[s] \in [Answers -> 0 .. 2]
      <3>1. got[s] \in [Answers -> Nat]
        BY <2>1
      <3>2. \A h \in Answers : got[s][h] \in 0 .. 2
        BY <1>2
      <3>. QED
        BY <3>1, <3>2
    <2>. QED
      BY <2>1, <2>2
  <1>. QED
    BY <1>0, <1>3 DEF Control, Data, RxTyped, Pending, Urb, UsbIpTypeOK

\* The server keeps the invariant.
LEMMA UsbIpInvariant == UsbIpSpec => []UsbIpInv
  <1>1. UsbIpInit => UsbIpInv
    BY UsbIpInvInit
  <1>2. UsbIpInv /\ [UsbIpNext]_usbipVars => UsbIpInv'
    BY UsbIpInvStep
  <1>. QED
    BY <1>1, <1>2, PTL DEF UsbIpSpec

\* For every number of URBs, connections, slots of the table and replies of room in
\* tx_buf: an URB is answered at most once and to its owner, and one without an answer is
\* held by the server or is one of the two losses the property names (usbdev.c).
THEOREM EachUrbAnsweredOnceCorrect == UsbIpSpec => []EachUrbAnsweredOnce
  BY UsbIpInvariant, InvAnswersOnce, PTL

-----------------------------------------------------------------------------
(* The GDB stub: breakpoints leave the program as it was. *)

\* A set of table indices has a first one.
LEMMA FirstExists ==
  ASSUME NEW S, S \subseteq Nat, S # {}
  PROVE  FirstOf(S) \in S
  <1>1. \E x \in S : \A y \in S : x <= y
    BY LeastMember
  <1>. QED
    BY <1>1 DEF FirstOf

Entries == {Unused} \cup {Bp(a, w) : a \in CodeAddrs, w \in Words}

\* The part of the type that the table's meaning depends on.
GdbTyped ==
  /\ flashCode \in [CodeAddrs -> Words]
  /\ breakpoints \in [Table -> Entries]
  /\ rearm \in CodeAddrs \cup {NoAddr} /\ r15 \in CodeAddrs

\* What CodeIsRestored needs to survive a removal: no second entry is left
\* behind that still holds the patch.
OneEntry == \A a \in CodeAddrs \ spoilt : \A i, j \in At(a) : i = j

GdbInv == GdbTyped /\ CodeIsRestored /\ OneEntry

\* What an entry of the breakpoint table holds.
LEMMA BpFields ==
  ASSUME NEW a, NEW w
  PROVE  Bp(a, w).valid = TRUE /\ Bp(a, w).addr = a /\ Bp(a, w).orig = w
  BY DEF Bp

\* An unused entry is not valid.
LEMMA UnusedField == Unused.valid = FALSE
  BY DEF Unused

\* The entry a new breakpoint takes is unused.
LEMMA FirstFreeEntry ==
  ASSUME Free # {}
  PROVE  FirstOf(Free) \in Table /\ ~breakpoints[FirstOf(Free)].valid
  <1>1. Free \subseteq Nat
    BY DEF Free, Table
  <1>. QED
    BY <1>1, FirstExists DEF Free

\* The entry found for an address is one for it.
LEMMA FirstAt ==
  ASSUME NEW a, At(a) # {}
  PROVE  FirstOf(At(a)) \in At(a) /\ FirstOf(At(a)) \in Table
  <1>1. At(a) \subseteq Nat
    BY DEF At, Table
  <1>. QED
    BY <1>1, FirstExists DEF At

\* Writing an instruction leaves a program.
LEMMA WriteTyped ==
  ASSUME GdbTyped, NEW pc, NEW a \in CodeAddrs, NEW w \in Words
  PROVE  gdb_write_bytes(flashCode, pc, a, w) \in [CodeAddrs -> Words]
  BY DEF GdbTyped, gdb_write_bytes

-----------------------------------------------------------------------------

\* A new entry for a is one entry more for a, and changes no other.
LEMMA InsertEntry ==
  ASSUME GdbTyped, NEW a \in CodeAddrs, NEW w \in Words, Free # {},
         breakpoints' = [breakpoints EXCEPT ![FirstOf(Free)] = Bp(a, w)]
  PROVE  /\ breakpoints' \in [Table -> Entries]
         /\ \A b \in CodeAddrs \ {a} : At(b)' = At(b)
         /\ At(a)' = At(a) \cup {FirstOf(Free)}
         /\ breakpoints'[FirstOf(Free)].orig = w
         /\ \A b \in CodeAddrs : \A i \in At(b) : breakpoints'[i] = breakpoints[i]
  <1>. DEFINE k == FirstOf(Free)
  <1>1. k \in Table /\ ~breakpoints[k].valid
    BY FirstFreeEntry
  <1>. HIDE DEF k
  <1>2. breakpoints \in [Table -> Entries] /\ Bp(a, w) \in Entries
    BY DEF GdbTyped, Entries
  <1>3. breakpoints' = [breakpoints EXCEPT ![k] = Bp(a, w)]
    BY DEF k
  <1>4. /\ breakpoints' \in [Table -> Entries] /\ breakpoints'[k] = Bp(a, w)
        /\ \A i \in Table \ {k} : breakpoints'[i] = breakpoints[i]
    BY <1>1, <1>2, <1>3
  <1>5. breakpoints'[k].valid = TRUE /\ breakpoints'[k].addr = a /\ breakpoints'[k].orig = w
    <2>1. Bp(a, w).valid = TRUE /\ Bp(a, w).addr = a /\ Bp(a, w).orig = w
      BY BpFields
    <2>. QED
      BY <1>4, <2>1, Zenon
  <1>6. \A b \in CodeAddrs : \A i \in At(b) : i \in Table \ {k}
    BY <1>1 DEF At
  <1>7. \A b \in CodeAddrs \ {a} : At(b)' = At(b)
    BY <1>1, <1>4, <1>5 DEF At
  <1>8. At(a)' = At(a) \cup {k}
    BY <1>1, <1>4, <1>5 DEF At
  <1>. QED
    BY <1>4, <1>5, <1>6, <1>7, <1>8 DEF k

\* Without the first entry for a there is one entry less for a.
LEMMA RemoveEntry ==
  ASSUME GdbTyped, NEW a \in CodeAddrs, At(a) # {},
         breakpoints' = [breakpoints EXCEPT ![FirstOf(At(a))] = Unused]
  PROVE  /\ breakpoints' \in [Table -> Entries]
         /\ \A b \in CodeAddrs \ {a} : At(b)' = At(b)
         /\ At(a)' = At(a) \ {FirstOf(At(a))}
         /\ \A i \in Table \ {FirstOf(At(a))} : breakpoints'[i] = breakpoints[i]
  <1>. DEFINE k == FirstOf(At(a))
  <1>1. k \in At(a) /\ k \in Table
    BY FirstAt
  <1>. HIDE DEF k
  <1>2. breakpoints \in [Table -> Entries] /\ Unused \in Entries
    BY DEF GdbTyped, Entries
  <1>3. breakpoints' = [breakpoints EXCEPT ![k] = Unused]
    BY DEF k
  <1>4. /\ breakpoints' \in [Table -> Entries] /\ breakpoints'[k] = Unused
        /\ \A i \in Table \ {k} : breakpoints'[i] = breakpoints[i]
    BY <1>1, <1>2, <1>3
  <1>5. ~breakpoints'[k].valid
    BY <1>4, UnusedField
  <1>6. \A b \in CodeAddrs \ {a} : k \notin At(b)
    BY <1>1 DEF At
  <1>7. \A b \in CodeAddrs \ {a} : At(b)' = At(b)
    BY <1>1, <1>4, <1>5, <1>6 DEF At
  <1>8. At(a)' = At(a) \ {k}
    BY <1>1, <1>4, <1>5 DEF At
  <1>. QED
    BY <1>4, <1>7, <1>8 DEF k

-----------------------------------------------------------------------------

\* The patch and the table entry of a breakpoint that is set.
LEMMA InstallKeepsInv ==
  ASSUME GdbInv, NEW a \in CodeAddrs, NEW pc, gdb_install_breakpoint(a, pc)
  PROVE  /\ flashCode' \in [CodeAddrs -> Words] /\ breakpoints' \in [Table -> Entries]
         /\ CodeIsRestored' /\ OneEntry'
  <1>. DEFINE w == flashCode[a]
  <1>1. w \in Words /\ "patch" \in Words
    BY DEF GdbInv, GdbTyped, Words
  <1>2. flashCode' \in [CodeAddrs -> Words]
    BY <1>1, WriteTyped DEF GdbInv, gdb_install_breakpoint
  <1>3. \A b \in CodeAddrs \ {a} : flashCode'[b] = flashCode[b]
    BY DEF GdbInv, GdbTyped, gdb_install_breakpoint, gdb_write_bytes
  <1>4. CASE Free = {}
    <2>1. breakpoints' = breakpoints /\ spoilt' = spoilt \cup {a}
      BY <1>4 DEF gdb_install_breakpoint
    <2>2. \A b : At(b)' = At(b)
      BY <2>1 DEF At
    <2>3. CodeIsRestored'
      BY <1>3, <2>1, <2>2 DEF GdbInv, CodeIsRestored
    <2>4. OneEntry'
      BY <2>1, <2>2 DEF GdbInv, OneEntry
    <2>. QED
      BY <1>2, <2>1, <2>3, <2>4 DEF GdbInv, GdbTyped
  <1>5. CASE Free # {}
    <2>. DEFINE k == FirstOf(Free)
    <2>1. breakpoints' = [breakpoints EXCEPT ![FirstOf(Free)] = Bp(a, w)]
      BY <1>5 DEF gdb_install_breakpoint
    <2>2. spoilt' = IF At(a) # {} THEN spoilt \cup {a} ELSE spoilt
      BY <1>5 DEF gdb_install_breakpoint
    <2>. HIDE DEF w
    <2>3. /\ breakpoints' \in [Table -> Entries]
          /\ \A b \in CodeAddrs \ {a} : At(b)' = At(b)
          /\ At(a)' = At(a) \cup {k}
          /\ breakpoints'[k].orig = w
          /\ \A b \in CodeAddrs : \A i \in At(b) : breakpoints'[i] = breakpoints[i]
      BY <1>1, <1>5, <2>1, InsertEntry DEF GdbInv
    <2>. HIDE DEF k
    <2>4. CASE At(a) # {}
      <3>1. spoilt' = spoilt \cup {a}
        BY <2>2, <2>4
      <3>2. CodeIsRestored'
        BY <1>3, <2>3, <3>1 DEF GdbInv, CodeIsRestored
      <3>3. OneEntry'
        BY <2>3, <3>1 DEF GdbInv, OneEntry
      <3>. QED
        BY <1>2, <2>3, <3>2, <3>3
    <2>5. CASE At(a) = {}
      <3>1. spoilt' = spoilt /\ At(a)' = {k}
        BY <2>2, <2>3, <2>5
      <3>2. a \notin spoilt => w = "program"
        BY <2>5 DEF GdbInv, CodeIsRestored, w
      <3>3. CodeIsRestored'
        BY <1>3, <2>3, <3>1, <3>2 DEF GdbInv, CodeIsRestored
      <3>4. OneEntry'
        BY <2>3, <3>1 DEF GdbInv, OneEntry
      <3>. QED
        BY <1>2, <2>3, <3>3, <3>4
    <2>. QED
      BY <2>4, <2>5
  <1>. QED
    BY <1>4, <1>5

\* The code that comes back with a breakpoint that is lifted or cleared.
LEMMA RemoveKeepsInv ==
  ASSUME GdbInv, NEW a \in CodeAddrs, NEW pc, At(a) # {}, gdb_remove_breakpoint(a, pc)
  PROVE  /\ flashCode' \in [CodeAddrs -> Words] /\ breakpoints' \in [Table -> Entries]
         /\ CodeIsRestored' /\ OneEntry'
  <1>. DEFINE k == FirstOf(At(a))
              w == breakpoints[k].orig
  <1>1. k \in At(a) /\ k \in Table
    BY FirstAt
  <1>2. /\ breakpoints' \in [Table -> Entries]
        /\ \A b \in CodeAddrs \ {a} : At(b)' = At(b)
        /\ At(a)' = At(a) \ {k}
        /\ \A i \in Table \ {k} : breakpoints'[i] = breakpoints[i]
    BY RemoveEntry DEF GdbInv, gdb_remove_breakpoint
  <1>3. flashCode' = gdb_write_bytes(flashCode, pc, a, w)
    BY DEF gdb_remove_breakpoint
  <1>. HIDE DEF k
  <1>4. w \in Words
    <2>1. breakpoints[k] \in Entries /\ breakpoints[k].valid
      BY <1>1 DEF GdbInv, GdbTyped, At
    <2>2. PICK b \in CodeAddrs, v \in Words : breakpoints[k] = Bp(b, v)
      BY <2>1, UnusedField DEF Entries
    <2>3. Bp(b, v).orig = v
      BY BpFields
    <2>. QED
      BY <2>2, <2>3, Zenon
  <1>. HIDE DEF w
  <1>5. flashCode' \in [CodeAddrs -> Words]
    BY <1>3, <1>4, WriteTyped DEF GdbInv
  <1>6. \A b \in CodeAddrs \ {a} : flashCode'[b] = flashCode[b]
    BY <1>3 DEF GdbInv, GdbTyped, gdb_write_bytes
  <1>7. CASE ~SameState(a, pc)
    <2>1. spoilt' = spoilt \cup {a}
      BY <1>7 DEF gdb_remove_breakpoint
    <2>2. \A b \in CodeAddrs \ {a} : \A i \in At(b) : i \in Table \ {k}
      BY <1>1 DEF At
    <2>3. CodeIsRestored'
      BY <1>2, <1>6, <2>1, <2>2 DEF GdbInv, CodeIsRestored
    <2>4. OneEntry'
      BY <1>2, <2>1 DEF GdbInv, OneEntry
    <2>. QED
      BY <1>2, <1>5, <2>3, <2>4
  <1>8. CASE SameState(a, pc)
    <2>1. spoilt' = spoilt /\ flashCode'[a] = w
      BY <1>3, <1>8 DEF GdbInv, GdbTyped, gdb_remove_breakpoint, gdb_write_bytes
    <2>2. \A b \in CodeAddrs \ {a} : \A i \in At(b) : i \in Table \ {k}
      BY <1>1 DEF At
    <2>3. a \notin spoilt => w = "program" /\ At(a)' = {}
      BY <1>1, <1>2 DEF GdbInv, CodeIsRestored, OneEntry, w
    <2>4. CodeIsRestored'
      BY <1>2, <1>6, <2>1, <2>2, <2>3 DEF GdbInv, CodeIsRestored
    <2>5. OneEntry'
      BY <1>2, <2>1, <2>3 DEF GdbInv, OneEntry
    <2>. QED
      BY <1>2, <1>5, <2>4, <2>5
  <1>. QED
    BY <1>7, <1>8

\* Steps that touch neither flash nor the table.
LEMMA QuietKeepsInv ==
  ASSUME GdbInv, UNCHANGED << flashCode, breakpoints, spoilt, rearm >>, r15' \in CodeAddrs
  PROVE  GdbInv'
  <1>1. \A b : At(b)' = At(b)
    BY DEF At
  <1>2. GdbTyped'
    BY DEF GdbInv, GdbTyped
  <1>3. CodeIsRestored' /\ OneEntry'
    BY <1>1 DEF GdbInv, CodeIsRestored, OneEntry
  <1>. QED
    BY <1>2, <1>3 DEF GdbInv

\* The stub starts with an empty table.
LEMMA GdbInitInv == GdbInit => GdbInv
  <1>. SUFFICES ASSUME GdbInit
                PROVE  GdbInv
    OBVIOUS
  <1>1. GdbTyped
    BY DEF GdbInit, GdbTyped, Entries, Words, CodeAddrs
  <1>2. \A a : At(a) = {}
    BY UnusedField DEF GdbInit, At
  <1>3. CodeIsRestored /\ OneEntry
    BY <1>2 DEF GdbInit, CodeIsRestored, OneEntry
  <1>. QED
    BY <1>1, <1>3 DEF GdbInv

\* Every command and every step of the target keeps the invariant.
LEMMA GdbStep == GdbInv /\ [GdbNext]_gdbVars => GdbInv'
  <1>. SUFFICES ASSUME GdbInv, [GdbNext]_gdbVars
                PROVE  GdbInv'
    OBVIOUS
  <1>t. rearm \in CodeAddrs \cup {NoAddr} /\ r15 \in CodeAddrs
    BY DEF GdbInv, GdbTyped
  <1>1. CASE Interrupt
    BY <1>1, <1>t, QuietKeepsInv DEF Interrupt
  <1>2. CASE HitBreakpoint
    BY <1>2, <1>t, QuietKeepsInv DEF HitBreakpoint
  <1>3. CASE SendInterrupt
    BY <1>3, <1>t, QuietKeepsInv DEF SendInterrupt
  <1>4. CASE mm_gdb_stub_close
    BY <1>4, <1>t, QuietKeepsInv DEF mm_gdb_stub_close
  <1>5. CASE Reconnect
    BY <1>5, <1>t, QuietKeepsInv DEF Reconnect
  <1>6. CASE UNCHANGED gdbVars
    BY <1>6, <1>t, QuietKeepsInv DEF gdbVars
  <1>7. ASSUME NEW a \in CodeAddrs, ExecuteAndContinue(a)
        PROVE  GdbInv'
    BY <1>7, QuietKeepsInv DEF ExecuteAndContinue
  <1>8. ASSUME NEW a \in CodeAddrs, ExecuteToEnd(a)
        PROVE  GdbInv'
    <2>1. r15' = a /\ mm_gdb_stub_maybe_rearm(a)
      BY <1>8 DEF ExecuteToEnd
    <2>2. CASE rearm \in {NoAddr, a}
      BY <2>1, <2>2, QuietKeepsInv DEF mm_gdb_stub_maybe_rearm
    <2>3. CASE rearm \notin {NoAddr, a}
      <3>1. rearm \in CodeAddrs /\ gdb_install_breakpoint(rearm, a)
        BY <1>t, <2>1, <2>3 DEF mm_gdb_stub_maybe_rearm
      <3>2. rearm' \in CodeAddrs \cup {NoAddr}
        BY <1>t, <2>1, <2>3 DEF mm_gdb_stub_maybe_rearm
      <3>. QED
        BY <2>1, <3>1, <3>2, InstallKeepsInv DEF GdbInv, GdbTyped
    <2>. QED
      BY <2>2, <2>3
  <1>9. ASSUME NEW a \in CodeAddrs, SetBreakpoint(a)
        PROVE  GdbInv'
    <2>1. gdb_install_breakpoint(a, r15) /\ rearm' = rearm /\ r15' = r15
      BY <1>9 DEF SetBreakpoint
    <2>. QED
      BY <1>t, <2>1, InstallKeepsInv DEF GdbInv, GdbTyped
  <1>10. ASSUME NEW a \in CodeAddrs, ClearBreakpoint(a)
         PROVE  GdbInv'
    <2>1. rearm' = rearm /\ r15' = r15
      BY <1>10 DEF ClearBreakpoint
    <2>2. CASE At(a) = {}
      BY <1>10, <1>t, <2>1, <2>2, QuietKeepsInv DEF ClearBreakpoint
    <2>3. CASE At(a) # {}
      <3>1. gdb_remove_breakpoint(a, r15)
        BY <1>10, <2>3 DEF ClearBreakpoint
      <3>. QED
        BY <1>t, <2>1, <2>3, <3>1, RemoveKeepsInv DEF GdbInv, GdbTyped
    <2>. QED
      BY <2>2, <2>3
  <1>11. ASSUME NEW a \in CodeAddrs, NEW step \in BOOLEAN, Resume(a, step)
         PROVE  GdbInv'
    <2>1. r15' = a
      BY <1>11 DEF Resume
    <2>2. CASE At(a) = {}
      BY <1>11, <2>1, <2>2, QuietKeepsInv DEF Resume, mm_gdb_stub_breakpoint_hit
    <2>3. CASE At(a) # {}
      <3>1. gdb_remove_breakpoint(a, r15) /\ rearm' = a
        BY <1>11, <2>3 DEF Resume, mm_gdb_stub_breakpoint_hit
      <3>. QED
        BY <2>1, <2>3, <3>1, RemoveKeepsInv DEF GdbInv, GdbTyped
    <2>. QED
      BY <2>2, <2>3
  <1>. QED
    BY <1>1, <1>2, <1>3, <1>4, <1>5, <1>6, <1>7, <1>8, <1>9, <1>10, <1>11
       DEF GdbNext, GdbLoop

\* Setting, lifting, rearming and clearing breakpoints, in any order and with
\* a table of any length, leaves the program's code in flash as it was,
\* outside the three cases that CodeIsRestored names.
THEOREM CodeIsRestoredCorrect == GdbSpec => []CodeIsRestored
  <1>1. GdbInv => CodeIsRestored
    BY DEF GdbInv
  <1>. QED
    BY <1>1, GdbInitInv, GdbStep, PTL DEF GdbSpec

-----------------------------------------------------------------------------

\* The rest of the type: the flags, and the sets the debugger keeps.
GdbFlags ==
  /\ running \in BOOLEAN /\ step_pending \in BOOLEAN
  /\ connected \in BOOLEAN /\ ctrlC \in BOOLEAN
  /\ want \subseteq CodeAddrs /\ spoilt \subseteq CodeAddrs

\* The flags keep their type in every step.
LEMMA GdbFlagsStep == GdbTyped /\ GdbFlags /\ [GdbNext]_gdbVars => GdbFlags'
  <1>. SUFFICES ASSUME GdbTyped, GdbFlags, [GdbNext]_gdbVars
                PROVE  GdbFlags'
    OBVIOUS
  <1>. USE DEF GdbFlags, mm_gdb_stub_notify_stop
  <1>1. CASE Interrupt \/ HitBreakpoint \/ SendInterrupt \/ mm_gdb_stub_close \/ Reconnect
             \/ UNCHANGED gdbVars
    BY <1>1 DEF Interrupt, HitBreakpoint, SendInterrupt, mm_gdb_stub_close, Reconnect, gdbVars
  <1>2. ASSUME NEW a \in CodeAddrs, ExecuteAndContinue(a)
        PROVE  GdbFlags'
    BY <1>2 DEF ExecuteAndContinue
  <1>3. ASSUME NEW a \in CodeAddrs, ExecuteToEnd(a)
        PROVE  GdbFlags'
    <2>1. spoilt' \subseteq CodeAddrs
      <3>1. rearm \in CodeAddrs \cup {NoAddr} /\ mm_gdb_stub_maybe_rearm(a)
        BY <1>3 DEF ExecuteToEnd, GdbTyped
      <3>2. spoilt' = spoilt \/ (rearm \in CodeAddrs /\ spoilt' = spoilt \cup {rearm})
        BY <3>1 DEF mm_gdb_stub_maybe_rearm, gdb_install_breakpoint
      <3>. QED
        BY <3>2
    <2>. QED
      BY <1>3, <2>1 DEF ExecuteToEnd
  <1>4. ASSUME NEW a \in CodeAddrs, SetBreakpoint(a)
        PROVE  GdbFlags'
    BY <1>4 DEF SetBreakpoint, gdb_install_breakpoint
  <1>5. ASSUME NEW a \in CodeAddrs, ClearBreakpoint(a)
        PROVE  GdbFlags'
    BY <1>5 DEF ClearBreakpoint, gdb_remove_breakpoint
  <1>6. ASSUME NEW a \in CodeAddrs, NEW step \in BOOLEAN, Resume(a, step)
        PROVE  GdbFlags'
    BY <1>6 DEF Resume, gdb_remove_breakpoint
  <1>. QED
    BY <1>1, <1>2, <1>3, <1>4, <1>5, <1>6 DEF GdbNext, GdbLoop

\* Every variable of the stub keeps its type.
LEMMA GdbTypeStep ==
  /\ GdbInit => GdbInv /\ GdbFlags
  /\ GdbInv /\ GdbFlags /\ [GdbNext]_gdbVars => (GdbInv /\ GdbFlags)'
  /\ GdbInv /\ GdbFlags => GdbTypeOK
  <1>1. GdbInit => GdbInv /\ GdbFlags
    BY GdbInitInv DEF GdbInit, GdbFlags
  <1>2. GdbInv /\ GdbFlags /\ [GdbNext]_gdbVars => (GdbInv /\ GdbFlags)'
    BY GdbStep, GdbFlagsStep DEF GdbInv
  <1>3. GdbInv /\ GdbFlags => GdbTypeOK
    BY DEF GdbInv, GdbTyped, GdbFlags, GdbTypeOK, Entries
  <1>. QED
    BY <1>1, <1>2, <1>3

\* Only these steps touch the table or the lifted breakpoint.
LEMMA ArmedUnchanged ==
  ASSUME UNCHANGED << breakpoints, rearm >>
  PROVE  \A a : Armed(a)' <=> Armed(a)
  BY DEF Armed, At

\* What a step may do to a breakpoint the debugger has set.
Kept(a) == \/ Armed(a)' \/ a \notin want'
           \/ rearm = a /\ rearm' \notin {a, NoAddr}
KeptAll == \A a \in want : Armed(a) => Kept(a)

\* A step that lifts, clears or installs keeps every other breakpoint, and
\* moves the one it is about between the table and rearm.
LEMMA KeptStep ==
  ASSUME GdbInv, [GdbNext]_gdbVars, NEW b \in want, want \subseteq CodeAddrs, Armed(b)
  PROVE  Kept(b)
  <1>t. rearm \in CodeAddrs \cup {NoAddr} /\ b \in CodeAddrs /\ GdbTyped
    BY DEF GdbInv, GdbTyped
  <1>q. ASSUME UNCHANGED << breakpoints, rearm >> PROVE Kept(b)
    BY <1>q, ArmedUnchanged DEF Kept
  <1>1. CASE Interrupt \/ HitBreakpoint \/ SendInterrupt \/ mm_gdb_stub_close \/ Reconnect
             \/ UNCHANGED gdbVars
    BY <1>1, <1>q DEF Interrupt, HitBreakpoint, SendInterrupt, mm_gdb_stub_close, Reconnect, gdbVars
  <1>2. ASSUME NEW a \in CodeAddrs, ExecuteAndContinue(a)
        PROVE  Kept(b)
    BY <1>2, <1>q DEF ExecuteAndContinue
  <1>3. ASSUME NEW a \in CodeAddrs, gdb_install_breakpoint(a, r15) \/ gdb_install_breakpoint(a, r15'),
               b # rearm \/ rearm' = rearm \/ (a = rearm /\ Free # {})
        PROVE  Kept(b)
    <2>1. CASE Free = {}
      <3>1. breakpoints' = breakpoints
        BY <1>3, <2>1 DEF gdb_install_breakpoint
      <3>2. At(b)' = At(b)
        BY <3>1 DEF At
      <3>. QED
        BY <1>3, <2>1, <3>2 DEF Kept, Armed
    <2>2. CASE Free # {}
      <3>. DEFINE w == flashCode[a]
      <3>1. breakpoints' = [breakpoints EXCEPT ![FirstOf(Free)] = Bp(a, w)] /\ w \in Words
        BY <1>3, <1>t, <2>2 DEF gdb_install_breakpoint, GdbTyped
      <3>. HIDE DEF w
      <3>2. /\ \A c \in CodeAddrs \ {a} : At(c)' = At(c)
            /\ At(a)' = At(a) \cup {FirstOf(Free)}
        BY <1>t, <2>2, <3>1, InsertEntry
      <3>. QED
        BY <1>3, <1>t, <3>2 DEF Kept, Armed
    <2>. QED
      BY <2>1, <2>2
  <1>4. ASSUME NEW a \in CodeAddrs, ExecuteToEnd(a)
        PROVE  Kept(b)
    <2>1. r15' = a /\ mm_gdb_stub_maybe_rearm(a)
      BY <1>4 DEF ExecuteToEnd
    <2>2. CASE rearm \in {NoAddr, a}
      BY <2>1, <2>2, <1>q DEF mm_gdb_stub_maybe_rearm
    <2>3. CASE rearm \notin {NoAddr, a}
      <3>1. /\ rearm \in CodeAddrs /\ gdb_install_breakpoint(rearm, r15')
            /\ rearm' = IF Free = {} THEN rearm ELSE NoAddr
        BY <1>t, <2>1, <2>3 DEF mm_gdb_stub_maybe_rearm
      <3>. QED
        BY <1>3, <3>1
    <2>. QED
      BY <2>2, <2>3
  <1>5. ASSUME NEW a \in CodeAddrs, SetBreakpoint(a)
        PROVE  Kept(b)
    BY <1>3, <1>5 DEF SetBreakpoint
  <1>6. ASSUME NEW a \in CodeAddrs, gdb_remove_breakpoint(a, r15), At(a) # {}, b # a
        PROVE  At(b)' = At(b)
    <2>1. breakpoints' = [breakpoints EXCEPT ![FirstOf(At(a))] = Unused]
      BY <1>6 DEF gdb_remove_breakpoint
    <2>. QED
      BY <1>6, <1>t, <2>1, RemoveEntry
  <1>7. ASSUME NEW a \in CodeAddrs, ClearBreakpoint(a)
        PROVE  Kept(b)
    <2>1. rearm' = rearm /\ a \notin want'
      BY <1>7 DEF ClearBreakpoint
    <2>2. CASE At(a) = {}
      BY <1>7, <1>q, <2>1, <2>2 DEF ClearBreakpoint
    <2>3. CASE At(a) # {}
      <3>1. gdb_remove_breakpoint(a, r15)
        BY <1>7, <2>3 DEF ClearBreakpoint
      <3>. QED
        BY <1>6, <2>1, <2>3, <3>1 DEF Kept, Armed
    <2>. QED
      BY <2>2, <2>3
  <1>8. ASSUME NEW a \in CodeAddrs, NEW step \in BOOLEAN, Resume(a, step)
        PROVE  Kept(b)
    <2>1. CASE At(a) = {}
      BY <1>8, <1>q, <2>1 DEF Resume, mm_gdb_stub_breakpoint_hit
    <2>2. CASE At(a) # {}
      <3>1. gdb_remove_breakpoint(a, r15) /\ rearm' = a
        BY <1>8, <2>2 DEF Resume, mm_gdb_stub_breakpoint_hit
      <3>2. b # a => At(b)' = At(b)
        BY <1>6, <2>2, <3>1
      <3>3. a # NoAddr
        BY GdbAssumption DEF CodeAddrs, NoAddr
      <3>. QED
        BY <3>1, <3>2, <3>3 DEF Kept, Armed
    <2>. QED
      BY <2>1, <2>2
  <1>. QED
    BY <1>1, <1>2, <1>4, <1>5, <1>7, <1>8 DEF GdbNext, GdbLoop

\* A breakpoint the debugger has set stays listed or due to be rearmed, unless
\* it is still lifted when the target is resumed from another breakpoint.
THEOREM BreakpointLostOnlyByOvertakingCorrect ==
  GdbSpec => BreakpointLostOnlyByOvertaking
  <1>1. GdbInit => GdbInv /\ GdbFlags
    BY GdbTypeStep
  <1>2. GdbInv /\ GdbFlags /\ [GdbNext]_gdbVars => (GdbInv /\ GdbFlags)'
    BY GdbTypeStep
  <1>3. GdbInv /\ GdbFlags /\ [GdbNext]_gdbVars => [KeptAll]_gdbVars
    <2>. SUFFICES ASSUME GdbInv, GdbFlags, [GdbNext]_gdbVars, NEW b \in want, Armed(b)
                  PROVE  Kept(b)
      BY DEF KeptAll
    <2>1. want \subseteq CodeAddrs
      BY DEF GdbFlags
    <2>. QED
      BY <2>1, KeptStep
  <1>4. GdbSpec => [][KeptAll]_gdbVars
    BY <1>1, <1>2, <1>3, PTL DEF GdbSpec
  <1>. QED
    BY <1>4, PTL DEF BreakpointLostOnlyByOvertaking, KeptAll, Kept

-----------------------------------------------------------------------------
(* The parts together *)

\* The invariants of the three parts; a step of one leaves those of the others alone.
HostInv == UsbInv /\ UsbIpInv /\ GdbInv /\ GdbFlags

\* A part that takes no step keeps its invariant.
LEMMA IdlePartKeepsInv ==
  /\ UsbInv /\ UNCHANGED usbVars => UsbInv'
  /\ UsbIpInv /\ UNCHANGED usbipVars => UsbIpInv'
  /\ GdbInv /\ GdbFlags /\ UNCHANGED gdbVars => (GdbInv /\ GdbFlags)'
  BY UsbInvStep, UsbIpInvStep, GdbTypeStep

\* Every variable of the USB device, the USB/IP server and the GDB stub keeps its type
\* in whatever they do, for every size of their tables and buffers: no answer is counted
\* twice, tx_buf is never overfilled, and the breakpoint table holds only code addresses.
THEOREM HostTypeCorrect == HostSpec => []HostTypeOK
  <1>1. HostInit => HostInv
    BY UsbInvInit, UsbIpInvInit, GdbTypeStep DEF HostInit, HostInv
  <1>2. HostInv /\ [HostNext]_hostVars => HostInv'
    <2>. SUFFICES ASSUME HostInv, [HostNext]_hostVars PROVE HostInv'
      OBVIOUS
    <2>1. CASE UsbNext /\ UNCHANGED << part, usbipVars, gdbVars >>
      BY <2>1, UsbInvStep, IdlePartKeepsInv DEF HostInv
    <2>2. CASE UsbIpNext /\ UNCHANGED << part, usbVars, gdbVars >>
      BY <2>2, UsbIpInvStep, IdlePartKeepsInv DEF HostInv
    <2>3. CASE GdbNext /\ UNCHANGED << part, usbVars, usbipVars >>
      BY <2>3, GdbTypeStep, IdlePartKeepsInv DEF HostInv
    <2>4. CASE UNCHANGED hostVars
      BY <2>4, IdlePartKeepsInv DEF HostInv, hostVars
    <2>. QED
      BY <2>1, <2>2, <2>3, <2>4 DEF HostNext
  <1>3. HostInv => HostTypeOK
    BY InvUsbIpType, GdbTypeStep DEF HostInv, UsbInv, HostTypeOK
  <1>. QED
    BY <1>1, <1>2, <1>3, PTL DEF HostSpec
=============================================================================
