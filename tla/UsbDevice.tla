----------------------------- MODULE UsbDevice -----------------------------
(***************************************************************************)
(* The USB device controller of the STM32H563 (stm32h563_usb.c): endpoint  *)
(* registers with toggle bits, written by the firmware, and the three      *)
(* operations the USB/IP server calls on them (usb_ops).                   *)
(*                                                                         *)
(* A status field is a number below 4, as in the register; packets are     *)
(* not modelled, only whether an endpoint takes or gives one.              *)
(***************************************************************************)
EXTENDS Integers

CONSTANT Endpoints
ASSUME EndpointsAssumption == 0 \in Endpoints /\ Endpoints \subseteq 0 .. 7

VARIABLES
  ep,       \* g_usb.ep: the CHEPnR registers, by field
  istr,     \* USB_ISTR: transfer done and bus reset (which endpoint and
            \* direction were last is left out: no code reads them)
  ctrm,     \* USB_CNTR.CTRM: transfers raise the interrupt
  ef,       \* USB_DADDR.EF: the function is enabled
  usbIrq    \* the interrupt is pending in the NVIC

usbVars == << ep, istr, ctrm, ef, usbIrq >>

DISABLED == 0
NAK == 2
VALID == 3
Stats == 0 .. 3

EpRegister == [ctr_rx : BOOLEAN, stat_rx : Stats,
               ctr_tx : BOOLEAN, stat_tx : Stats]

UsbTypeOK ==
  /\ ep \in [Endpoints -> EpRegister]
  /\ istr \in [ctr : BOOLEAN, reset : BOOLEAN]
  /\ ctrm \in BOOLEAN /\ ef \in BOOLEAN /\ usbIrq \in BOOLEAN

\* The exclusive or of two 2-bit fields, as the toggle bits apply it.
Toggle(a, b) ==
  2 * (IF a \div 2 = b \div 2 THEN 0 ELSE 1) + (IF a % 2 = b % 2 THEN 0 ELSE 1)

usb_raise_irq == usbIrq' = (usbIrq \/ ctrm)

usb_set_istr ==
  /\ istr' = [istr EXCEPT !.ctr = TRUE]
  /\ usb_raise_irq

-----------------------------------------------------------------------------
(* What the server asks of the device.                                     *)

\* A packet from the host is taken when the endpoint is armed; a SETUP packet
\* to endpoint 0 always is.
usb_ep_out(e, setup) ==
  /\ ef /\ (ep[e].stat_rx = VALID \/ (setup /\ e = 0))
  /\ ep' = [ep EXCEPT ![e].ctr_rx = TRUE, ![e].stat_rx = NAK]
  /\ usb_set_istr
  /\ UNCHANGED << ctrm, ef >>

\* The host fetches the packet the firmware armed.
usb_ep_in(e) ==
  /\ ef /\ ep[e].stat_tx = VALID
  /\ ep' = [ep EXCEPT ![e].ctr_tx = TRUE, ![e].stat_tx = NAK]
  /\ usb_set_istr
  /\ UNCHANGED << ctrm, ef >>

usb_bus_reset ==
  /\ istr' = [istr EXCEPT !.reset = TRUE]
  /\ usb_raise_irq
  /\ UNCHANGED << ep, ctrm, ef >>

-----------------------------------------------------------------------------
(* Register writes of the firmware.                                        *)

Done(r) == r.ctr_rx \/ r.ctr_tx

\* Mutant of usb_ep_write: the transfer flag survives the last endpoint's.
usb_ep_write_Mut(e, keep, tog) ==
  /\ ep' = [ep EXCEPT
       ![e].ctr_rx = @ /\ keep.rx, ![e].ctr_tx = @ /\ keep.tx,
       ![e].stat_rx = Toggle(@, tog.rx), ![e].stat_tx = Toggle(@, tog.tx)]
  /\ UNCHANGED << istr, ctrm, ef, usbIrq >>

\* Writing 0 clears a CTR bit, writing 1 toggles a
\* STAT bit; ISTR.CTR goes when no endpoint has a CTR bit left.
usb_ep_write(e, keep, tog) ==
  /\ ep' = [ep EXCEPT
       ![e].ctr_rx = @ /\ keep.rx, ![e].ctr_tx = @ /\ keep.tx,
       ![e].stat_rx = Toggle(@, tog.rx), ![e].stat_tx = Toggle(@, tog.tx)]
  /\ istr' = [istr EXCEPT !.ctr = @ /\ \E f \in Endpoints : Done(ep'[f])]
  /\ UNCHANGED << ctrm, ef, usbIrq >>

\* ISTR is cleared by writing 0; the other registers take the value.
WriteIstr(keep) ==
  /\ istr' = [istr EXCEPT !.ctr = @ /\ keep, !.reset = @ /\ keep]
  /\ UNCHANGED << ep, ctrm, ef, usbIrq >>
WriteCntr(v) == ctrm' = v /\ UNCHANGED << ep, istr, ef, usbIrq >>
WriteDaddr(v) == ef' = v /\ UNCHANGED << ep, istr, ctrm, usbIrq >>

\* The firmware's handler is entered: the NVIC's pending bit is consumed.
UsbInterruptTaken ==
  /\ usbIrq /\ usbIrq' = FALSE
  /\ UNCHANGED << ep, istr, ctrm, ef >>

-----------------------------------------------------------------------------

\* g_usb is zeroed when the target's peripherals are registered and at reset.
UsbZero ==
  [ep |-> [e \in Endpoints |-> [ctr_rx |-> FALSE,
             stat_rx |-> DISABLED, ctr_tx |-> FALSE, stat_tx |-> DISABLED]],
   istr |-> [ctr |-> FALSE, reset |-> FALSE]]

UsbInit ==
  /\ ep = UsbZero.ep /\ istr = UsbZero.istr
  /\ ctrm = FALSE /\ ef = FALSE /\ usbIrq = FALSE

\* A target reset rebuilds the NVIC as well.
mm_stm32h563_usb_reset ==
  /\ ep' = UsbZero.ep /\ istr' = UsbZero.istr
  /\ ctrm' = FALSE /\ ef' = FALSE /\ usbIrq' = FALSE

Pair(S) == [rx : S, tx : S]

\* The toggle bits that leave a status alone or make it VALID: what drivers
\* write to arm an endpoint.
Arming(e, arm) ==
  [rx |-> IF arm.rx THEN Toggle(ep[e].stat_rx, VALID) ELSE 0,
   tx |-> IF arm.tx THEN Toggle(ep[e].stat_tx, VALID) ELSE 0]

UsbNext ==
  \/ \E e \in Endpoints :
       \/ \E setup \in BOOLEAN : usb_ep_out(e, setup)
       \/ usb_ep_in(e)
       \/ \E keep \in Pair(BOOLEAN), arm \in Pair(BOOLEAN) :
            usb_ep_write(e, keep, Arming(e, arm))
  \/ usb_bus_reset
  \/ \E keep \in BOOLEAN : WriteIstr(keep)
  \/ \E v \in BOOLEAN : WriteCntr(v) \/ WriteDaddr(v)
  \/ UsbInterruptTaken
  \/ mm_stm32h563_usb_reset

UsbSpec == UsbInit /\ [][UsbNext]_usbVars

\* A transfer flag the firmware can see in ISTR belongs to an endpoint whose register
\* says so: no transfer interrupt is left without a cause, whatever order transfers,
\* endpoint writes, bus resets and resets come in (usb_set_istr, usb_ep_write).
TransferFlagHasCause == istr.ctr => \E e \in Endpoints : Done(ep[e])
=============================================================================
