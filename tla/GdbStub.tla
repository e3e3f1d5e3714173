------------------------------ MODULE GdbStub ------------------------------
(***************************************************************************)
(* The GDB remote server (gdbstub.c) and the part of the main loop that    *)
(* obeys it: breakpoints that are patched into flash and listed in a       *)
(* table, the breakpoint that is lifted to step over it (rearm), continue, *)
(* step and interrupt.                                                     *)
(*                                                                         *)
(* An instruction address holds the program's code or the BKPT patch.  The *)
(* core is in the security state of the address it executes.  gdb patches  *)
(* flash of that state directly; a patch of the other state's flash goes   *)
(* to the flash controller, which is locked and drops it without an error. *)
(* Packets are whole: one with a bad checksum is refused and sent again,   *)
(* and one that is cut short blocks the emulator until the rest arrives.   *)
(***************************************************************************)
EXTENDS Integers, FiniteSets

CONSTANTS
  SecureAddrs, NonSecureAddrs,  \* instructions of the program
  BpSlots                       \* entries of stub->breakpoints (16)

ASSUME GdbAssumption ==
  /\ SecureAddrs \cap NonSecureAddrs = {} /\ SecureAddrs # {}
  /\ "none" \notin SecureAddrs \cup NonSecureAddrs
  /\ BpSlots \in Nat \ {0}

VARIABLES
  flashCode,    \* what each address holds: the program or the patch
  breakpoints,  \* the table: slot -> address and saved code, or Unused
  rearm,        \* rearm_addr while rearm_valid, else NoAddr
  running, step_pending,
  r15,          \* cpu.r[15], between two instructions
  connected,
  ctrlC,        \* the interrupt character is waiting in the socket
  want,         \* the breakpoints the debugger believes it has set
  spoilt        \* addresses met by one of the three cases the comment of
                \* CodeIsRestored lists

gdbVars == << flashCode, breakpoints, rearm, running, step_pending, r15,
              connected, ctrlC, want, spoilt >>

CodeAddrs == SecureAddrs \cup NonSecureAddrs
NoAddr == "none"
Words == {"program", "patch"}
Unused == [valid |-> FALSE]
Bp(a, orig) == [valid |-> TRUE, addr |-> a, orig |-> orig]
Table == 1 .. BpSlots

GdbTypeOK ==
  /\ flashCode \in [CodeAddrs -> Words]
  /\ breakpoints \in [Table -> {Unused} \cup {Bp(a, w) : a \in CodeAddrs, w \in Words}]
  /\ rearm \in CodeAddrs \cup {NoAddr} /\ r15 \in CodeAddrs
  /\ running \in BOOLEAN /\ step_pending \in BOOLEAN
  /\ connected \in BOOLEAN /\ ctrlC \in BOOLEAN
  /\ want \subseteq CodeAddrs /\ spoilt \subseteq CodeAddrs

SameState(a, pc) == (a \in SecureAddrs) <=> (pc \in SecureAddrs)

\* gdb_write_bytes, with the core at pc.
gdb_write_bytes(mem, pc, a, w) ==
  IF SameState(a, pc) THEN [mem EXCEPT ![a] = w] ELSE mem

At(a) == {i \in Table : breakpoints[i].valid /\ breakpoints[i].addr = a}
Free == {i \in Table : ~breakpoints[i].valid}
FirstOf(S) == CHOOSE i \in S : \A j \in S : i <= j

mm_gdb_stub_breakpoint_hit(a) == At(a) # {}

\* The patch is written before a free slot is looked for; the test for a
\* breakpoint that is already there compares with the wrong form of the
\* address (bit 0 is set in the table) and never succeeds.
gdb_install_breakpoint(a, pc) ==
  /\ flashCode' = gdb_write_bytes(flashCode, pc, a, "patch")
  /\ breakpoints' = IF Free = {} THEN breakpoints
                    ELSE [breakpoints EXCEPT ![FirstOf(Free)] = Bp(a, flashCode[a])]
  /\ spoilt' = IF Free = {} \/ At(a) # {} THEN spoilt \cup {a} ELSE spoilt

\* Mutant of gdb_remove_breakpoint: the entry goes, the patch stays.
gdb_remove_breakpoint_Mut(a, pc) ==
  /\ breakpoints' = [breakpoints EXCEPT ![FirstOf(At(a))] = Unused]
  /\ spoilt' = IF SameState(a, pc) THEN spoilt ELSE spoilt \cup {a}
  /\ UNCHANGED flashCode

\* The first entry for the address; there must be one.
gdb_remove_breakpoint(a, pc) ==
  /\ flashCode' = gdb_write_bytes(flashCode, pc, a,
                                  breakpoints[FirstOf(At(a))].orig)
  /\ breakpoints' = [breakpoints EXCEPT ![FirstOf(At(a))] = Unused]
  /\ spoilt' = IF SameState(a, pc) THEN spoilt ELSE spoilt \cup {a}

mm_gdb_stub_notify_stop == running' = FALSE /\ step_pending' = FALSE

\* Mutant of mm_gdb_stub_maybe_rearm: the lifted breakpoint is forgotten as
\* soon as the core has moved on.
mm_gdb_stub_maybe_rearm_Mut(pc) ==
  /\ rearm' = IF rearm = pc THEN rearm ELSE NoAddr
  /\ UNCHANGED << flashCode, breakpoints, spoilt >>

\* Once the core has left the address of the lifted breakpoint, install it
\* again; when that fails, try after the next instruction.
mm_gdb_stub_maybe_rearm(pc) ==
  IF rearm \in {NoAddr, pc}
    THEN UNCHANGED << flashCode, breakpoints, rearm, spoilt >>
    ELSE /\ gdb_install_breakpoint(rearm, pc)
         /\ rearm' = IF Free = {} THEN rearm ELSE NoAddr

-----------------------------------------------------------------------------
(* Packets.  The debugger (external) asks for what it does not have, and   *)
(* resumes only a stopped target.                                          *)

Stopped == connected /\ ~running /\ ~ctrlC

\* Z0 and Z1: E01 when the table is full.
SetBreakpoint(a) ==
  /\ Stopped /\ a \notin want
  /\ gdb_install_breakpoint(a, r15)
  /\ want' = IF Free = {} THEN want ELSE want \cup {a}
  /\ UNCHANGED << rearm, running, step_pending, r15, connected, ctrlC >>

\* z0 and z1: E01 when it is not in the table, lifted ones included.
ClearBreakpoint(a) ==
  /\ Stopped /\ a \in want /\ want' = want \ {a}
  /\ IF At(a) # {} THEN gdb_remove_breakpoint(a, r15)
                   ELSE UNCHANGED << flashCode, breakpoints, spoilt >>
  /\ UNCHANGED << rearm, running, step_pending, r15, connected, ctrlC >>

\* c and s, from the present address or from a given one of the same state
\* (they do not change the state): a breakpoint there
\* is lifted.
Resume(a, step) ==
  /\ Stopped /\ SameState(a, r15) /\ r15' = a
  /\ IF mm_gdb_stub_breakpoint_hit(a)
       THEN gdb_remove_breakpoint(a, r15) /\ rearm' = a
       ELSE UNCHANGED << flashCode, breakpoints, spoilt, rearm >>
  /\ running' = TRUE /\ step_pending' = step
  /\ UNCHANGED << connected, ctrlC, want >>

SendInterrupt ==
  /\ connected /\ running /\ ~ctrlC /\ ctrlC' = TRUE
  /\ UNCHANGED << flashCode, breakpoints, rearm, running, step_pending, r15,
                  connected, want, spoilt >>

\* gdb_recv_packet reads it, the main loop acts on to_interrupt.
Interrupt ==
  /\ connected /\ ctrlC /\ ctrlC' = FALSE
  /\ mm_gdb_stub_notify_stop
  /\ UNCHANGED << flashCode, breakpoints, rearm, r15, connected, want, spoilt >>

\* D, k, or the end of the connection.  The table and the patches stay, the
\* listening socket is closed as well, and the target stays stopped until
\* the TUI starts the server again (Reconnect).
mm_gdb_stub_close ==
  /\ connected /\ connected' = FALSE /\ running' = FALSE /\ ctrlC' = FALSE
  /\ want' = {}
  /\ UNCHANGED << flashCode, breakpoints, rearm, step_pending, r15, spoilt >>

Reconnect ==
  /\ ~connected /\ connected' = TRUE /\ running' = FALSE /\ step_pending' = FALSE
  /\ UNCHANGED << flashCode, breakpoints, rearm, r15, ctrlC, want, spoilt >>

-----------------------------------------------------------------------------
(* One turn of the main loop with the target running.                      *)

HitBreakpoint ==
  /\ running /\ ~ctrlC /\ mm_gdb_stub_breakpoint_hit(r15)
  /\ mm_gdb_stub_notify_stop
  /\ UNCHANGED << flashCode, breakpoints, rearm, r15, connected, ctrlC, want,
                  spoilt >>

\* An instruction to the end of the turn; a BKPT stops the target, whoever
\* put it there.
ExecuteToEnd(a) ==
  /\ running /\ ~ctrlC /\ ~mm_gdb_stub_breakpoint_hit(r15)
  /\ r15' = a
  /\ IF flashCode[r15] = "patch" \/ step_pending
       THEN mm_gdb_stub_notify_stop ELSE UNCHANGED << running, step_pending >>
  /\ mm_gdb_stub_maybe_rearm(a)
  /\ UNCHANGED << connected, ctrlC, want >>

\* An exception entry or return, a fault or a branch that continues with the
\* next turn: neither the rearming nor the end of a step is reached.
ExecuteAndContinue(a) ==
  /\ running /\ ~ctrlC /\ ~mm_gdb_stub_breakpoint_hit(r15)
  /\ r15' = a
  /\ UNCHANGED << flashCode, breakpoints, rearm, running, step_pending,
                  connected, ctrlC, want, spoilt >>

GdbInit ==
  /\ flashCode = [a \in CodeAddrs |-> "program"]
  /\ breakpoints = [i \in Table |-> Unused] /\ rearm = NoAddr
  /\ running = FALSE /\ step_pending = FALSE /\ r15 \in SecureAddrs
  /\ connected = TRUE /\ ctrlC = FALSE /\ want = {} /\ spoilt = {}

GdbLoop == Interrupt \/ HitBreakpoint
           \/ \E a \in CodeAddrs : ExecuteToEnd(a) \/ ExecuteAndContinue(a)

GdbNext ==
  \/ GdbLoop
  \/ \E a \in CodeAddrs :
       \/ SetBreakpoint(a) \/ ClearBreakpoint(a)
       \/ \E step \in BOOLEAN : Resume(a, step)
  \/ SendInterrupt \/ mm_gdb_stub_close \/ Reconnect

GdbSpec == GdbInit /\ [][GdbNext]_gdbVars

-----------------------------------------------------------------------------

\* Where no breakpoint is listed the program's own code is in flash, and the
\* table holds the program's own code for those that are: setting, lifting,
\* rearming and clearing breakpoints in any order leaves the program as it
\* was.  Three cases are known to spoil an address: a breakpoint that no slot
\* was free for, one that was set while it was listed already, and one that
\* was cleared while the core was in the other security state.
CodeIsRestored ==
  \A a \in CodeAddrs \ spoilt :
    /\ At(a) = {} => flashCode[a] = "program"
    /\ \A i \in At(a) : breakpoints[i].orig = "program"

Armed(a) == At(a) # {} \/ rearm = a

\* A breakpoint the debugger has set stays listed, or lifted and due to be
\* rearmed.  It is lost in one case: it is still lifted (the core left its
\* address by an exception) when the target is resumed from another one,
\* which takes its place.
BreakpointLostOnlyByOvertaking ==
  [][\A a \in want : Armed(a) => \/ Armed(a)' \/ a \notin want'
                                 \/ rearm = a /\ rearm' \notin {a, NoAddr}]_gdbVars

=============================================================================
