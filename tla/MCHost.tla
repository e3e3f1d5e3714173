------------------------------- MODULE MCHost -------------------------------
(* What the emulator's host-side clients do to it: the USB device and its    *)
(* USB/IP server, and the GDB stub.  The parts share no state, so each       *)
(* behaviour follows one of them and leaves the others as they were built.   *)
EXTENDS UsbDevice, UsbIp, GdbStub

VARIABLE part
hostVars == <<part, usbVars, usbipVars, gdbVars>>

HostInit ==
    /\ part \in {"usb", "usbip", "gdb"}
    /\ UsbInit /\ UsbIpInit /\ GdbInit
    /\ part # "gdb" => r15 = CHOOSE a \in SecureAddrs : TRUE

HostNext ==
    \/ part = "usb" /\ UsbNext /\ UNCHANGED <<part, usbipVars, gdbVars>>
    \/ part = "usbip" /\ UsbIpNext /\ UNCHANGED <<part, usbVars, gdbVars>>
    \/ part = "gdb" /\ GdbNext /\ UNCHANGED <<part, usbVars, usbipVars>>

HostSpec ==
    /\ HostInit /\ [][HostNext]_hostVars
    /\ WF_usbipVars(part = "usbip" /\ mm_usbdev_poll /\ UNCHANGED <<part, usbVars, gdbVars>>)

\* Every variable of the three parts has its type; a piece of a USB/IP stream, a
\* pending URB and a breakpoint are among those the tables can hold.
HostTypeOK == UsbTypeOK /\ UsbIpTypeOK /\ GdbTypeOK
=============================================================================
