------------------------------- MODULE UsbIp -------------------------------
(***************************************************************************)
(* The USB/IP server (src/m33mu/usbdev.c): one client over TCP, whose URBs *)
(* the server hands to the emulated device and answers.                    *)
(*                                                                         *)
(* mm_usbdev_poll is called by the emulation loop and is one thread with   *)
(* the device: it is cut into the steps recv, one turn of the PDU loop,    *)
(* try_status_out, one slot of complete_pending, and tx_flush, between     *)
(* which only the client may act.  The stream is a sequence of PDUs, of    *)
(* which those with a body arrive in one or two pieces.  The device        *)
(* (UsbDevice.tla) is seen as the operations in usb_ops see it: which      *)
(* endpoints are armed.  A reply is what the client can tell apart: the    *)
(* URB it answers and how.                                                 *)
(***************************************************************************)
EXTENDS Integers, Sequences, FiniteSets

CONSTANTS
  MaxSeq,      \* URBs the clients submit, in all
  MaxClients,  \* connections
  PendSlots,   \* USBIP_MAX_PENDING
  TxSlots,     \* replies USBIP_TX_BUF has room for
  RxSlots,     \* pieces USBIP_RX_BUF has room for
  NetSlots,    \* pieces on their way to the server
  Kinds        \* the transfers the clients submit

ASSUME UsbIpBounds ==
  /\ MaxSeq \in Nat /\ MaxClients \in Nat /\ PendSlots \in Nat \ {0}
  /\ TxSlots \in Nat /\ NetSlots \in Nat
  /\ RxSlots \in Nat /\ RxSlots >= 2
ASSUME KindsAssumption ==
  Kinds \subseteq {"control in", "control out", "bulk in", "bulk out"}

VARIABLES
  client,      \* client_fd: 0, or the number of the connection
  calls,       \* connections made so far
  gone,        \* the client has closed its end
  net,         \* pieces sent by the client and not yet received
  rx,          \* rx_buf, in pieces, or Underflow
  imported, wait_more,
  pending,     \* the URBs waiting for the device
  status_out,  \* the URB whose status stage is due, or 0: status_out_seqnum
               \* while status_out_host_pending (pending_status_out is then
               \* set as well, and without it has no effect)
  tx, tx_off,  \* tx_buf in replies, and how many are sent
  rxArmed,     \* endpoint 0 has STAT_RX = VALID
  txData,      \* the packet an endpoint with STAT_TX = VALID holds
  phase, slot, \* where mm_usbdev_poll is
  urbs,        \* the URBs submitted so far, as the client knows them
  got,         \* how often the client had each URB answered, and how
  dropped      \* URBs whose -EAGAIN or -ECONNRESET found no room in tx_buf

usbipVars == << client, calls, gone, net, rx, imported, wait_more, pending,
                status_out, tx, tx_off, rxArmed, txData, phase, slot, urbs,
                got, dropped >>

Seqs == 1 .. MaxSeq
Eps == {0, 1}
EndpointOf(k) == IF k \in {"control in", "control out"} THEN 0 ELSE 1

\* A pending URB; data_len and expected_len count packets of endpoint 0.
Slot == [active : BOOLEAN, seqnum : 0 .. MaxSeq, data_len : 0 .. 2]
Inactive == [active |-> FALSE, seqnum |-> 0, data_len |-> 0]
ExpectedLen == 2

Answers == {"submit", "again", "unlink", "reset"}
Replies == [seqnum : 0 .. MaxSeq, how : Answers \cup {"op"}]
Op == [seqnum |-> 0, how |-> "op"]
Pieces == [pdu : {"devlist", "import", "body", "unknown"}] \cup
          [pdu : {"submit", "unlink"}, seqnum : Seqs]
Underflow == << [pdu |-> "none"] >>     \* rx_len went below zero, which is huge

UsbIpTypeOK ==
  /\ client \in 0 .. MaxClients /\ calls \in 0 .. MaxClients
  /\ gone \in BOOLEAN /\ imported \in BOOLEAN /\ wait_more \in BOOLEAN
  /\ net \in Seq(Pieces) /\ Len(net) <= NetSlots
  /\ rx \in Seq(Pieces) \/ (client = 0 /\ rx = Underflow)
  /\ Len(rx) <= RxSlots
  /\ pending \in [1 .. PendSlots -> Slot]
  /\ status_out \in 0 .. MaxSeq
  /\ tx \in Seq(Replies) /\ Len(tx) <= TxSlots /\ tx_off \in 0 .. Len(tx)
  /\ rxArmed \in BOOLEAN /\ txData \in [Eps -> {"none", "short", "full"}]
  /\ phase \in {"idle", "loop", "status", "complete", "flush", "crash"}
  /\ slot \in 1 .. PendSlots
  /\ urbs \in Seq([kind : Kinds, by : 1 .. MaxClients])
  /\ got \in [Seqs -> [Answers -> 0 .. 2]]
  /\ dropped \subseteq Seqs

-----------------------------------------------------------------------------
(* The transmit buffer and the end of a connection.                        *)

NoStatus == 0
EmptyTable == [i \in 1 .. PendSlots |-> Inactive]

\* Closing the connection discards what is still on its way.
Socket ==
  /\ net' = IF client' = 0 THEN << >> ELSE net
  /\ gone' = (gone /\ client' # 0)

\* It sets rx_len to 0 as well.  What becomes of rx is said by its callers, because two
\* of them go on to subtract from it.
usbip_reset_client ==
  /\ client' = 0 /\ tx' = << >> /\ tx_off' = 0
  /\ imported' = FALSE /\ status_out' = NoStatus /\ pending' = EmptyTable

\* Mutant of Room: one reply too many.
Room_Mut(n) == Len(tx) + n <= TxSlots + 1

Room(n) == Len(tx) + n <= TxSlots
usbip_tx_queue(r) == tx' = Append(tx, r)

\* Queue reply r and do Then, or reset the client when there is no room.
SendOrReset(r, Then) ==
  /\ UNCHANGED dropped
  /\ \/ Room(1) /\ usbip_tx_queue(r) /\ Then /\ UNCHANGED << client, tx_off >>
     \/ ~Room(1) /\ usbip_reset_client

\* Queue reply r; that there is no room is ignored.
SendOrDrop(r) ==
  /\ tx' = IF Room(1) THEN Append(tx, r) ELSE tx
  /\ dropped' = IF r.how # "unlink" /\ ~Room(1) THEN dropped \cup {r.seqnum}
                                                ELSE dropped

NoAnswers == [s \in Seqs |-> [h \in Answers |-> 0]]

\* The client counts the answers in q.
Counted(q) ==
  [s \in Seqs |-> [h \in Answers |->
     got[s][h] + Cardinality({i \in DOMAIN q : q[i] = [seqnum |-> s, how |-> h]})]]

usbip_tx_flush ==
  /\ phase = "flush" /\ phase' = "idle"
  /\ UNCHANGED << calls, wait_more, rxArmed, txData, slot, urbs, dropped >>
  /\ \/ /\ client = 0 \/ tx_off = Len(tx)
        /\ tx' = << >> /\ tx_off' = 0
        /\ UNCHANGED << client, rx, imported, pending, status_out, got >>
     \/ /\ client # 0 /\ ~gone
        /\ \E n \in tx_off .. Len(tx) :
             /\ got' = Counted(SubSeq(tx, tx_off + 1, n))
             /\ tx' = IF n = Len(tx) THEN << >> ELSE tx
             /\ tx_off' = IF n = Len(tx) THEN 0 ELSE n
        /\ tx_off < Len(tx)
        /\ UNCHANGED << client, rx, imported, pending, status_out >>
     \/ \* send fails: the connection is closed, but status_out stays
        /\ client # 0 /\ gone /\ tx_off < Len(tx)
        /\ client' = 0 /\ imported' = FALSE /\ tx' = << >> /\ tx_off' = 0
        /\ rx' = << >> /\ pending' = EmptyTable
        /\ UNCHANGED << status_out, got >>
  /\ Socket

-----------------------------------------------------------------------------
(* The device, as the server uses it.                                      *)

ep_out_ok(armed) == armed
ep_in_ok(e) == txData[e] # "none"
Taken(e) == txData' = [txData EXCEPT ![e] = "none"]

\* The firmware arms an endpoint.
ArmRx ==
  /\ phase = "idle" /\ ~rxArmed /\ rxArmed' = TRUE
  /\ UNCHANGED << client, calls, gone, net, rx, imported, wait_more, pending,
                  status_out, tx, tx_off, txData, phase, slot, urbs, got,
                  dropped >>
ArmTx(e, d) ==
  /\ phase = "idle" /\ txData[e] = "none" /\ (d = "full" => e = 0)
  /\ txData' = [txData EXCEPT ![e] = d]
  /\ UNCHANGED << client, calls, gone, net, rx, imported, wait_more, pending,
                  status_out, tx, tx_off, rxArmed, phase, slot, urbs, got,
                  dropped >>

-----------------------------------------------------------------------------
(* PDUs.  Each handler says what becomes of rx.                            *)

Kind(s) == urbs[s].kind
Answer(s) == [seqnum |-> s, how |-> "submit"]

usbip_alloc_pending == {i \in 1 .. PendSlots : ~pending[i].active}
FirstFree == CHOOSE i \in usbip_alloc_pending :
               \A j \in usbip_alloc_pending : i <= j

\* Keep the URB, or answer -EAGAIN when the table is full.
Wait(s, n) ==
  /\ IF usbip_alloc_pending # {}
       THEN /\ pending' = [pending EXCEPT ![FirstFree] =
                             [active |-> TRUE, seqnum |-> s, data_len |-> n]]
            /\ UNCHANGED << tx, dropped >>
       ELSE SendOrDrop([seqnum |-> s, how |-> "again"]) /\ UNCHANGED pending
  /\ UNCHANGED << client, tx_off, imported, status_out >>

\* A control transfer with no data stage: the SETUP packet disarms endpoint
\* 0, so its status stage waits for the firmware.
SubmitControlOut(s) ==
  /\ Kind(s) = "control out"
  /\ rxArmed' = FALSE
  /\ \/ /\ ep_out_ok(rxArmed')
        /\ SendOrReset(Answer(s), UNCHANGED << imported, pending >>)
        /\ status_out' = NoStatus
     \/ /\ ~ep_out_ok(rxArmed')
        /\ status_out' = s
        /\ UNCHANGED << client, tx, tx_off, imported, pending, dropped >>
  /\ UNCHANGED txData

\* The data of an OUT transfer is offered once; the answer does not depend
\* on whether the device took it, which is why endpoint 1's is not kept.
SubmitBulkOut(s) ==
  /\ Kind(s) = "bulk out"
  /\ SendOrReset(Answer(s), UNCHANGED << imported, pending, status_out >>)
  /\ UNCHANGED << rxArmed, txData >>

\* An IN transfer is answered from a packet that is ready; a control
\* transfer that got a full packet waits for more.
SubmitIn(s) ==
  /\ Kind(s) \in {"control in", "bulk in"}
  /\ LET e == EndpointOf(Kind(s)) IN
     /\ rxArmed' = (rxArmed /\ e # 0)
     /\ IF ~ep_in_ok(e)
          THEN Wait(s, 0) /\ UNCHANGED txData
          ELSE /\ Taken(e)
               /\ IF e = 0 /\ txData[e] = "full"
                    THEN Wait(s, 1)
                    ELSE SendOrReset(Answer(s), UNCHANGED << imported, pending,
                                                         status_out >>)

usbip_handle_submit(s) ==
  \/ SubmitControlOut(s) \/ SubmitBulkOut(s) \/ SubmitIn(s)

\* Mutant of usbip_handle_unlink: the URB is cancelled in its answer only.
usbip_handle_unlink_Mut(s) ==
  LET found == \E i \in 1 .. PendSlots : pending[i].active /\ pending[i].seqnum = s
  IN /\ SendOrDrop([seqnum |-> s, how |-> IF found THEN "reset" ELSE "unlink"])
     /\ UNCHANGED << client, tx_off, imported, status_out, pending >>
     /\ UNCHANGED << rxArmed, txData >>

\* CMD_UNLINK (part of usbip_handle_urb): -ECONNRESET when the URB waits.
usbip_handle_unlink(s) ==
  LET found == \E i \in 1 .. PendSlots : pending[i].active /\ pending[i].seqnum = s
  IN /\ pending' = [i \in 1 .. PendSlots |->
                      IF pending[i].seqnum = s
                        THEN Inactive
                        ELSE pending[i]]
     /\ SendOrDrop([seqnum |-> s, how |-> IF found THEN "reset" ELSE "unlink"])
     /\ UNCHANGED << client, tx_off, imported, status_out >>
     /\ UNCHANGED << rxArmed, txData >>

HasBody(p) == p.pdu = "import" \/ (p.pdu = "submit" /\ Kind(p.seqnum) = "bulk out")
Partial == rx # << >> /\ HasBody(Head(rx)) /\ Len(rx) = 1
DropPdu == IF HasBody(Head(rx)) THEN Tail(Tail(rx)) ELSE Tail(rx)

\* An import whose reply finds no room has its client reset, and then its request moved
\* out of rx_buf: a memmove of nearly 2^64 bytes, which no process survives.
Overrun == ~imported /\ Head(rx).pdu = "import" /\ client' = 0

\* Does the loop go round again?  wait_more ends it; so do the lengths, which
\* in whole pieces are both: nothing is left.
After == phase' = CASE Overrun -> "crash"
                    [] client' # 0 /\ rx' # << >> /\ ~wait_more' -> "loop"
                    [] OTHER -> "status"

usbip_handle_urb ==
  /\ imported /\ UNCHANGED wait_more
  /\ \/ Partial /\ UNCHANGED << client, rx, imported, pending, status_out, tx,
                                tx_off, rxArmed, txData, dropped >>
     \/ /\ ~Partial
        /\ \/ Head(rx).pdu = "submit" /\ usbip_handle_submit(Head(rx).seqnum)
           \/ Head(rx).pdu = "unlink" /\ usbip_handle_unlink(Head(rx).seqnum)
           \/ /\ Head(rx).pdu = "unknown"
              /\ UNCHANGED << client, imported, pending, status_out, tx, tx_off,
                              rxArmed, txData, dropped >>
        /\ rx' = IF client' = 0 THEN Underflow ELSE DropPdu

usbip_handle_devlist ==
  /\ Head(rx).pdu = "devlist"
  /\ SendOrReset(Op, UNCHANGED << imported, status_out, pending >>)
  /\ rx' = IF client' = 0 THEN << >> ELSE Tail(rx)
  /\ UNCHANGED << wait_more, rxArmed, txData >>

\* Mutant of usbip_handle_import: half an import does not end the loop.
usbip_handle_import_Mut ==
  /\ Head(rx).pdu = "import"
  /\ \/ /\ Partial
        /\ UNCHANGED << client, rx, imported, pending, status_out, tx, tx_off,
                        wait_more, dropped >>
     \/ /\ ~Partial /\ wait_more' = FALSE
        /\ SendOrReset(Op, imported' = TRUE /\ UNCHANGED << status_out, pending >>)
        /\ rx' = IF client' = 0 THEN Underflow ELSE DropPdu
  /\ UNCHANGED << rxArmed, txData >>

\* The bus reset the import signals (usb_bus_reset) arms and disarms nothing.
usbip_handle_import ==
  /\ Head(rx).pdu = "import"
  /\ \/ /\ Partial /\ wait_more' = TRUE
        /\ UNCHANGED << client, rx, imported, pending, status_out, tx, tx_off,
                        dropped >>
     \/ /\ ~Partial /\ wait_more' = FALSE
        /\ SendOrReset(Op, imported' = TRUE /\ UNCHANGED << status_out, pending >>)
        /\ rx' = IF client' = 0 THEN Underflow ELSE DropPdu
  /\ UNCHANGED << rxArmed, txData >>

\* Anything but these two before the import ends the connection.
usbip_handle_mgmt ==
  /\ ~imported
  /\ \/ usbip_handle_devlist
     \/ usbip_handle_import
     \/ /\ Head(rx).pdu \notin {"devlist", "import"} /\ usbip_reset_client /\ rx' = << >>
        /\ UNCHANGED << wait_more, rxArmed, txData, dropped >>

-----------------------------------------------------------------------------
(* mm_usbdev_poll                                                          *)

Accept ==
  /\ phase = "idle" /\ client = 0 /\ calls < MaxClients
  /\ client' = calls + 1 /\ calls' = calls + 1 /\ gone' = FALSE /\ net' = << >>
  /\ rx' = << >> /\ tx' = << >> /\ tx_off' = 0 /\ imported' = FALSE
  /\ pending' = EmptyTable
  /\ got' = NoAnswers /\ dropped' = {}
  /\ UNCHANGED << wait_more, status_out, rxArmed, txData, phase, slot, urbs >>

Recv ==
  /\ phase = "idle" /\ client # 0
  /\ \/ \E n \in 0 .. Len(net) :
          /\ Len(rx) + n <= RxSlots
          /\ n = 0 => ~gone \/ net # << >> \/ Len(rx) = RxSlots
          /\ rx' = rx \o SubSeq(net, 1, n) /\ net' = SubSeq(net, n + 1, Len(net))
          /\ phase' = IF rx' = << >> THEN "status" ELSE "loop"
          /\ UNCHANGED << client, imported, pending, status_out, tx, tx_off >>
          /\ UNCHANGED gone
     \/ /\ net = << >> /\ gone /\ Len(rx) < RxSlots
        /\ usbip_reset_client /\ rx' = << >>
        /\ phase' = "status" /\ Socket
  /\ UNCHANGED << calls, wait_more, rxArmed, txData, slot, urbs, got,
                  dropped >>

HandlePdu ==
  /\ phase = "loop"
  /\ usbip_handle_mgmt \/ usbip_handle_urb
  /\ After /\ Socket
  /\ UNCHANGED << calls, slot, urbs, got >>

\* The status stage of a control transfer, once the firmware is ready for it.
usbip_try_status_out ==
  /\ phase = "status" /\ phase' = "complete" /\ UNCHANGED slot
  /\ LET due == status_out # NoStatus /\ ep_out_ok(rxArmed) IN
     /\ rxArmed' = (rxArmed /\ ~due)
     /\ IF due
          THEN /\ SendOrReset(Answer(status_out),
                              status_out' = NoStatus /\ UNCHANGED << imported, pending >>)
               /\ rx' = IF client' = 0 THEN << >> ELSE rx
          ELSE UNCHANGED << client, rx, imported, pending, status_out, tx, tx_off,
                            dropped >>
  /\ Socket
  /\ UNCHANGED << calls, wait_more, txData, urbs, got >>

\* One slot: fetch a packet, and answer when the transfer is complete.
CompleteSlot ==
  LET p == pending[slot]
      e == EndpointOf(Kind(p.seqnum))
      len == p.data_len + 1
      whole == e # 0 \/ txData[e] = "short" \/ len >= ExpectedLen
  IN IF ~p.active \/ ~ep_in_ok(e)
       THEN UNCHANGED << client, rx, imported, pending, status_out, tx, tx_off,
                         txData, dropped >>
       ELSE /\ Taken(e)
            /\ IF whole
                 THEN /\ SendOrReset(Answer(p.seqnum),
                           /\ pending' = [pending EXCEPT ![slot] = Inactive]
                           /\ UNCHANGED << imported, status_out >>)
                      /\ rx' = IF client' = 0 THEN << >> ELSE rx
                 ELSE /\ pending' = [pending EXCEPT ![slot].data_len = len]
                      /\ UNCHANGED << client, rx, imported, status_out, tx, tx_off,
                                      dropped >>

usbip_complete_pending ==
  /\ phase = "complete" /\ CompleteSlot
  /\ slot' = IF slot = PendSlots THEN 1 ELSE slot + 1
  /\ phase' = IF slot = PendSlots THEN "flush" ELSE "complete"
  /\ Socket
  /\ UNCHANGED << calls, wait_more, rxArmed, urbs, got >>

mm_usbdev_poll ==
  \/ Accept \/ Recv \/ HandlePdu \/ usbip_try_status_out
  \/ usbip_complete_pending \/ usbip_tx_flush

-----------------------------------------------------------------------------
(* The client (external).  Within a poll the server looks at the socket    *)
(* twice, in recv and in send, so that is when the client's acts show.      *)

Quiet == UNCHANGED << client, calls, rx, imported, wait_more, pending,
                      status_out, tx, tx_off, rxArmed, txData, phase, slot, got, dropped >>

\* Before the import; the client need not wait for the list of devices, but it waits
\* for the reply to an import.
ClientOp(op) ==
  /\ phase = "idle" /\ client # 0 /\ ~gone
  /\ op = "unknown" => net = << >> /\ rx = << >> /\ tx = << >>
  /\ imported => op = "unknown"
  /\ ~\E q \in {net, rx} : \E i \in DOMAIN q : q[i].pdu = "import"
  /\ Len(net) + (IF op = "import" THEN 2 ELSE 1) <= NetSlots
  /\ net' = IF op = "import" THEN net \o << [pdu |-> op], [pdu |-> "body"] >>
                             ELSE Append(net, [pdu |-> op])
  /\ Quiet /\ UNCHANGED << gone, urbs >>

Submit(k) ==
  LET s == Len(urbs) + 1 IN
  /\ phase = "idle" /\ client # 0 /\ ~gone /\ imported /\ s <= MaxSeq
  /\ ~\E i \in DOMAIN tx : tx[i] = Op
  /\ Len(net) + (IF k = "bulk out" THEN 2 ELSE 1) <= NetSlots
  /\ urbs' = Append(urbs, [kind |-> k, by |-> client])
  /\ net' = IF k = "bulk out"
              THEN net \o << [pdu |-> "submit", seqnum |-> s], [pdu |-> "body"] >>
              ELSE Append(net, [pdu |-> "submit", seqnum |-> s])
  /\ Quiet /\ UNCHANGED gone

Unlink(s) ==
  /\ phase = "idle" /\ client # 0 /\ ~gone /\ Len(net) < NetSlots
  /\ urbs[s].by = client /\ \A h \in Answers : got[s][h] = 0
  /\ ~\E i \in DOMAIN net : net[i] = [pdu |-> "unlink", seqnum |-> s]
  /\ ~\E i \in DOMAIN rx : rx[i] = [pdu |-> "unlink", seqnum |-> s]
  /\ ~\E i \in DOMAIN tx : tx[i].seqnum = s /\ tx[i].how \in {"reset", "unlink"}
  /\ net' = Append(net, [pdu |-> "unlink", seqnum |-> s])
  /\ Quiet /\ UNCHANGED << gone, urbs >>

Leave ==
  /\ phase \in {"idle", "flush"} /\ client # 0 /\ ~gone /\ gone' = TRUE
  /\ Quiet /\ UNCHANGED << net, urbs >>

UsbIpInit ==
  /\ client = 0 /\ calls = 0 /\ gone = FALSE /\ net = << >> /\ rx = << >>
  /\ imported = FALSE /\ wait_more = FALSE /\ pending = EmptyTable
  /\ status_out = NoStatus /\ tx = << >> /\ tx_off = 0
  /\ rxArmed = FALSE /\ txData = [e \in Eps |-> "none"]
  /\ phase = "idle" /\ slot = 1 /\ urbs = << >>
  /\ got = NoAnswers /\ dropped = {}

UsbIpNext ==
  \/ mm_usbdev_poll
  \/ \E op \in {"devlist", "import", "unknown"} : ClientOp(op)
  \/ \E k \in Kinds : Submit(k)
  \/ \E s \in DOMAIN urbs : Unlink(s)
  \/ Leave
  \/ ArmRx
  \/ \E e \in Eps, d \in {"short", "full"} : ArmTx(e, d)

UsbIpSpec == UsbIpInit /\ [][UsbIpNext]_usbipVars /\ WF_usbipVars(mm_usbdev_poll)

-----------------------------------------------------------------------------

\* Answers of a kind in H to URB s, received or still queued.
HowOften(s, H) ==
  Cardinality({i \in tx_off + 1 .. Len(tx) : tx[i].seqnum = s /\ tx[i].how \in H})
    + (IF \E h \in H : got[s][h] > 0
         THEN Cardinality({h \in H : got[s][h] > 0})
                + (IF \E h \in H : got[s][h] > 1 THEN 1 ELSE 0)
         ELSE 0)

Held(s) == \/ \E i \in 1 .. PendSlots : pending[i].active /\ pending[i].seqnum = s
           \/ status_out = s
           \/ \E q \in {net, rx} : \E i \in DOMAIN q :
                q[i] = [pdu |-> "submit", seqnum |-> s]

\* Each URB is answered once, and to the client that sent it, whatever packets,
\* unlinks and connections come in between (usbdev.c).
\* At most once: no second answer, and none beside the -ECONNRESET of an unlink.
\* To its owner: a connection gets no answer to another one's URB, except for the
\* status stage of a control transfer: a failed send closes the connection and
\* forgets to drop it, and the next client gets the answer.
\* At least once: an URB of the present client without an answer is on its way, or
\* kept by the server, except for a control transfer whose status stage was pending
\* when another one came (there is one place for it), and for a transfer refused or
\* unlinked when tx_buf was full.
EachUrbAnsweredOnce ==
  \A s \in DOMAIN urbs :
    LET answered == HowOften(s, {"submit", "again"})
        reset == HowOften(s, {"reset"})
        overtaken == /\ Kind(s) = "control out"
                     /\ \E t \in DOMAIN urbs : t > s /\ Kind(t) = "control out"
    IN /\ answered <= 1 /\ (reset > 0 => answered = 0)
       /\ client \notin {0, urbs[s].by} /\ Kind(s) # "control out" => HowOften(s, Answers) = 0
       /\ urbs[s].by = client =>
            Held(s) \/ answered + reset > 0 \/ s \in dropped \/ overtaken

\* Two ways the poll is known to never return, both by a client that did nothing
\* wrong.  The data of an OUT transfer comes in a later segment than its header: the loop
\* over the buffer then neither consumes it nor receives more.  And Overrun.
Spins == imported /\ Partial
Crashed == phase = "crash"

\* mm_usbdev_poll returns to the emulation loop, unless it spins or crashes in one of
\* these two ways: no other request, cut into whatever segments, and no reply that finds
\* tx_buf full keeps the loop going.
PollReturns == (phase # "idle") ~> (phase = "idle" \/ Spins \/ Crashed)
=============================================================================
