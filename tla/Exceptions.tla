---------------------------- MODULE Exceptions ----------------------------
(***************************************************************************)
(* Exception entry and return, and Secure to Non-secure calls, as src/main.c, *)
(* src/exc_return.c, src/m33mu/cpu.c and src/m33mu/tz.c perform them.      *)
(*                                                                         *)
(* A stack pointer is [area, n]: a stack region of RAM and the number of   *)
(* 32-byte slots in use there.  A slot holds an exception frame or data    *)
(* that the firmware pushed.  A write past the end of a region is a failed *)
(* mm_memmap_write.                                                        *)
(*                                                                         *)
(* The firmware is the environment.  What it must respect for an exception *)
(* to be transparent is written as the guards marked (F): it leaves the    *)
(* stack of every activation it preempted as it found it, except for the   *)
(* EXC_RETURN value that a POP loads into PC (see ReturnByPop).            *)
(***************************************************************************)
EXTENDS Integers, Sequences

CONSTANTS
    Pc,             \* program points of the firmware
    ResetPc,        \* where the reset vector points
    VectorPc,       \* where the other vectors point
    Cap,            \* slots of a stack region
    ExcStackMax,    \* MM_EXC_STACK_MAX: 64
    TzStackMax,     \* MM_TZ_STACK_MAX: 32
    MaxNest,        \* bound on the number of nested exceptions
    MaxCalls,       \* bound on the number of outstanding Non-secure calls
    MaxPush,        \* bound on the slots in use by PUSH
    Taken,          \* the exceptions that occur
    QuitOnFaults    \* the --quit-on-faults option

ASSUME PcAssumption == ResetPc \in Pc /\ VectorPc \in Pc /\ Pc \subseteq Nat
ASSUME LimitsAssumption ==
    /\ Cap \in Nat /\ Cap > 0 /\ ExcStackMax \in Nat /\ TzStackMax \in Nat
    /\ MaxNest \in Nat /\ MaxCalls \in Nat
ASSUME OptionsAssumption == QuitOnFaults \in BOOLEAN

VARIABLES
    mode, sec, ipsr, pc, lr,    \* cpu->mode, sec_state, xpsr.IPSR, r[15], r[14]
    spsel,                      \* CONTROL.SPSEL of each security state
    sp,                         \* msp_s, msp_ns, psp_s, psp_ns
    mem,                        \* the stack regions
    exc,                        \* exc_sp[], exc_sec[] up to exc_depth
    tz,                         \* tz_ret_*[] up to tz_depth
    done,                       \* the run loop has ended
    ctx,                        \* history: the suspended activations
    calls                       \* history: the outstanding Non-secure calls

regs  == <<mode, sec, ipsr, pc, lr, spsel, sp>>
vars  == <<mode, sec, ipsr, pc, lr, spsel, sp, mem, exc, tz, done, ctx, calls>>

-----------------------------------------------------------------------------
(* Data.                                                                   *)

Sec  == {"S", "NS"}
Mode == {"Thread", "Handler"}

\* The stack pointer registers; each names the region it is used with, too.
StackReg == {"msp_s", "msp_ns", "psp_s", "psp_ns"}
Unset    == "unset"         \* a stack pointer of 0, as reset leaves it

Addr == [area : StackReg \cup {Unset}, n : 0 .. Cap]
Null == [area |-> Unset, n |-> 0]
Level == [area : StackReg \cup {Unset}, n : Nat]      \* in the history ctx

Fault == {"HardFault", "MemManage", "UsageFault", "SecureFault"}
Async == {"PendSV", "SysTick", "Irq"}
Exc   == Fault \cup Async \cup {"SVCall"}
ASSUME TakenAssumption == Taken \subseteq Exc /\ MaxPush \in Nat
IPSR  == Exc \cup {"None"}

\* 0xFFFFFFxx read as a signed number, the sentinel of tz.c, and the pc that
\* slots and branches which are not code addresses stand for.
ExcReturn == -256 .. -1
Sentinel  == -1000
Wild      == -2000
InitialLr == -1             \* cpu.r[14] = 0xFFFFFFFF at reset

CodeAddr == Pc \cup {Wild}
Lr       == Pc \cup ExcReturn \cup {Sentinel, Wild}

Slot == [pc : CodeAddr, lr : Lr, ipsr : IPSR]
Data == [pc |-> Wild, lr |-> Wild, ipsr |-> "None"]   \* pushed by the firmware

Context == [pc : CodeAddr, lr : Lr, ipsr : IPSR, mode : Mode, sec : Sec,
            spsel : [Sec -> BOOLEAN], sp : [StackReg -> Level]]

ExcRecord == [sp : Addr, sec : Sec]
TzRecord  == [pc : CodeAddr, sec : Sec, mode : Mode]
CallRecord == [pc : CodeAddr, sec : Sec, mode : Mode, nest : Nat]

Last(s)  == s[Len(s)]
Front(s) == SubSeq(s, 1, Len(s) - 1)

Reg(s, stack) == IF stack = "PSP" THEN (IF s = "NS" THEN "psp_ns" ELSE "psp_s")
                                  ELSE (IF s = "NS" THEN "msp_ns" ELSE "msp_s")

\* Mutant of Encode: the 0xFFFFFF prefix is missing.
Encode_NoPrefix(s, stack, m) ==
    LET base == IF m = "Thread" THEN (IF s = "NS" THEN 185 ELSE 249)
                                ELSE (IF s = "NS" THEN 177 ELSE 241)
    IN  base + (IF m = "Thread" /\ stack = "PSP" THEN 4 ELSE 0)

\* exc_return_encode
Encode(s, stack, m) ==
    LET base == IF m = "Thread" THEN (IF s = "NS" THEN 185 ELSE 249)
                                ELSE (IF s = "NS" THEN 177 ELSE 241)
    IN  base + (IF m = "Thread" /\ stack = "PSP" THEN 4 ELSE 0) - 256

Bit(v, b) == (v \div b) % 2

\* Mutant of Decode: the Thread bit is read from the PSP bit's place.
Decode_ThreadFromPspBit(v) ==
    [stack |-> IF Bit(v + 256, 4) = 1 THEN "PSP" ELSE "MSP",
     mode  |-> IF Bit(v + 256, 4) = 1 THEN "Thread" ELSE "Handler",
     sec   |-> IF Bit(v + 256, 64) = 1 THEN "S" ELSE "NS"]

\* mm_exc_return_decode: bit 2 selects PSP, bit 3 Thread, bit 6 Secure.
Decode(v) ==
    [stack |-> IF Bit(v + 256, 4) = 1 THEN "PSP" ELSE "MSP",
     mode  |-> IF Bit(v + 256, 8) = 1 THEN "Thread" ELSE "Handler",
     sec   |-> IF Bit(v + 256, 64) = 1 THEN "S" ELSE "NS"]

\* The context that an exception taken now would suspend, to resume at p.
Suspend(p) == [pc |-> p, lr |-> lr, ipsr |-> ipsr, mode |-> mode, sec |-> sec,
               spsel |-> spsel, sp |-> sp]

\* use_psp_entry, the register stacked on, the EXC_RETURN value, the frame and
\* the stack pointers after stacking, of a context that gets suspended.
StackOf(m, s, spsels) == IF m = "Thread" /\ spsels[s] THEN "PSP" ELSE "MSP"
EntryStack(c)  == StackOf(c.mode, c.sec, c.spsel)
EntryReg(c)    == Reg(c.sec, EntryStack(c))
ExcReturnOf(c) == Encode(c.sec, EntryStack(c), c.mode)
FrameOf(c)     == [pc |-> c.pc, lr |-> c.lr, ipsr |-> c.ipsr]
Stacked(c)     == [c.sp EXCEPT ![EntryReg(c)].n = @ + 1]

\* History: the suspended contexts s once a return has left a slot in use on the
\* stack of r.  Those that have no frame below it find the slot there when they
\* run again; the return through a frame takes away all that is above it.
WithLeft(s, r) ==
    [i \in 1 .. Len(s) |->
        IF \E j \in i .. Len(s) : EntryReg(s[j]) = r THEN s[i]
        ELSE [s[i] EXCEPT !.sp[r].n = @ + 1]]

\* mm_cpu_get_active_sp
ActiveReg == Reg(sec, StackOf(mode, sec, spsel))

CanWrite(a) == a.area \in StackReg /\ a.n < Cap
CanRead(a)  == a.area \in StackReg /\ a.n > 0

-----------------------------------------------------------------------------
(* Exception entry and return.                                             *)

Halt == done' = TRUE /\ UNCHANGED <<regs, mem, exc, tz, ctx, calls>>

\* Mutant of EnterException: the decremented stack pointer is recorded but not
\* written back to the register.
EnterException_KeepsSp(e, hs, ret, quit) ==
    LET c == Suspend(ret)
        r == EntryReg(c)
    IN  /\ ~done /\ Len(ctx) < MaxNest /\ e \in Taken
        /\ \/ ~CanWrite(sp[r]) /\ Halt
           \/ /\ CanWrite(sp[r])
              /\ mem' = [mem EXCEPT ![sp[r].area][sp[r].n + 1] = FrameOf(c)]
              /\ exc' = IF Len(exc) < ExcStackMax
                        THEN Append(exc, [sp |-> Stacked(c)[r], sec |-> sec])
                        ELSE exc
              /\ lr' = ExcReturnOf(c)
              /\ mode' = "Handler" /\ sec' = hs /\ ipsr' = e /\ pc' = VectorPc
              /\ ctx' = Append(ctx, c)
              /\ done' = quit
              /\ UNCHANGED <<spsel, sp, tz, calls>>

\* The common part of enter_exception_ex, raise_hard_fault and
\* raise_usage_fault: stack the frame with the interrupted activation's stack
\* pointer, record where it is, and start the handler in state hs.  The run
\* loop ends when stacking fails, or behind the entry when quit is set.
EnterException(e, hs, ret, quit) ==
    LET c == Suspend(ret)
        r == EntryReg(c)
    IN  /\ ~done /\ Len(ctx) < MaxNest /\ e \in Taken
        /\ \/ ~CanWrite(sp[r]) /\ Halt
           \/ /\ CanWrite(sp[r])
              /\ mem' = [mem EXCEPT ![sp[r].area][sp[r].n + 1] = FrameOf(c)]
              /\ sp' = Stacked(c)
              /\ exc' = IF Len(exc) < ExcStackMax
                        THEN Append(exc, [sp |-> sp'[r], sec |-> sec])
                        ELSE exc
              /\ lr' = ExcReturnOf(c)
              /\ mode' = "Handler" /\ sec' = hs /\ ipsr' = e /\ pc' = VectorPc
              /\ ctx' = Append(ctx, c)
              /\ done' = quit
              /\ UNCHANGED <<spsel, tz, calls>>

\* Mutant of Unstack: the popped stack pointer always goes to MSP.
Unstack_ToMsp(value, rest) ==
    LET info == Decode(value)
        from == IF exc # << >> THEN Last(exc).sp ELSE sp[Reg(info.sec, "MSP")]
        slot == mem[from.area][from.n]
    IN  /\ exc' = IF exc # << >> THEN Front(exc) ELSE exc
        /\ \/ ~CanRead(from) /\ done' = TRUE /\ UNCHANGED <<regs, ctx>>
           \/ /\ CanRead(from)
              /\ pc' = slot.pc /\ lr' = slot.lr
              /\ ipsr' = IF info.mode = "Thread" THEN "None" ELSE slot.ipsr
              /\ sp' = [sp EXCEPT ![Reg(info.sec, "MSP")] = [from EXCEPT !.n = @ - 1]]
              /\ sec' = info.sec
              /\ mode' = info.mode
              /\ ctx' = rest
              /\ UNCHANGED <<spsel, done>>
        /\ UNCHANGED <<mem, tz, calls>>

\* exc_return_unstack; rest is the history of the contexts still suspended.
Unstack(value, rest) ==
    LET info == Decode(value)
        r    == Reg(info.sec, info.stack)
        from == IF exc # << >> /\ Last(exc).sec = info.sec THEN Last(exc).sp ELSE sp[r]
        slot == mem[from.area][from.n]
    IN  /\ exc' = IF exc # << >> THEN Front(exc) ELSE exc
        /\ \/ ~CanRead(from) /\ done' = TRUE /\ UNCHANGED <<regs, ctx>>
           \/ /\ CanRead(from)
              /\ pc' = slot.pc /\ lr' = slot.lr
              /\ ipsr' = IF info.mode = "Thread" THEN "None" ELSE slot.ipsr
              /\ sp' = [sp EXCEPT ![r] = [from EXCEPT !.n = @ - 1]]
              /\ sec' = info.sec
              /\ mode' = info.mode
              /\ ctx' = rest
              /\ UNCHANGED <<spsel, done>>
        /\ UNCHANGED <<mem, tz, calls>>

\* handle_pending: SysTick and PendSV run in the current security state, an
\* interrupt in the state its ITNS bit selects.
TakeSystemException == \E e \in {"SysTick", "PendSV"} : EnterException(e, sec, pc, FALSE)
TakeInterrupt(hs) == EnterException("Irq", hs, pc, FALSE)

\* MM_OP_SVC resumes behind the instruction.
SupervisorCall(next) == EnterException("SVCall", sec, next, FALSE)

\* raise_usage_fault; with --quit-on-faults it fails before it stacks anything.
UsageFault ==
    \/ ~QuitOnFaults /\ EnterException("UsageFault", sec, pc, FALSE)
    \/ QuitOnFaults /\ ~done /\ Halt

\* raise_hard_fault.  With --quit-on-faults g_fault_pending ends the loop behind
\* the entry.
RaiseHardFault == EnterException("HardFault", sec, pc, QuitOnFaults)

\* raise_mem_fault: SecureFault when the attribution unit reported one in
\* Secure state, MemManage when SHCSR enables it, HardFault otherwise.
MemFault(e) ==
    \/ e = "HardFault" /\ RaiseHardFault
    \/ /\ e = "MemManage" \/ (e = "SecureFault" /\ sec = "S")
       /\ EnterException(e, sec, pc, QuitOnFaults)

\* (F) A handler returns when the calls it made have returned.
CanReturn == ~done /\ ctx # << >> /\ (calls # << >> => Last(calls).nest < Len(ctx))

\* MM_OP_BX with an EXC_RETURN value in LR.
\* (F) The handler has popped what it pushed, on every stack.
ReturnByBx ==
    /\ CanReturn
    /\ sp = Stacked(Last(ctx))
    /\ lr \in ExcReturn
    /\ Unstack(lr, Front(ctx))

\* MM_OP_POP and MM_OP_LDM of a pushed EXC_RETURN value into PC.  The stack
\* pointer of the POP itself is not written back: what it popped is gone if the
\* frame is on the same stack, and stays in use on the handler's stack if the
\* preempted activation was stacked on another one (a thread on PSP, or the
\* other security state).
\* (F) Only that value is left.
ReturnByPop ==
    LET c == Last(ctx)
    IN  /\ CanReturn
        /\ sp[ActiveReg].n > 0
        /\ [sp EXCEPT ![ActiveReg].n = @ - 1] = Stacked(c)
        /\ Unstack(ExcReturnOf(c), IF ActiveReg = EntryReg(c) THEN Front(ctx)
                                   ELSE WithLeft(Front(ctx), ActiveReg))

-----------------------------------------------------------------------------
(* Other instructions of the firmware.                                     *)

Execute(p) ==
    /\ ~done
    /\ pc' = p
    /\ UNCHANGED <<mode, sec, ipsr, lr, spsel, sp, mem, exc, tz, done, ctx, calls>>

BranchLink(p) ==
    /\ ~done
    /\ pc' = p /\ lr' = p
    /\ UNCHANGED <<mode, sec, ipsr, spsel, sp, mem, exc, tz, done, ctx, calls>>

\* A handler reloads the EXC_RETURN value that it saved on entry.
ReloadLr ==
    /\ ~done /\ ctx # << >>
    /\ lr' = ExcReturnOf(Last(ctx))
    /\ UNCHANGED <<mode, sec, ipsr, pc, spsel, sp, mem, exc, tz, done, ctx, calls>>

SlotsInUse == sp["msp_s"].n + sp["msp_ns"].n + sp["psp_s"].n + sp["psp_ns"].n

\* MM_OP_PUSH on the active stack.  A PUSH that faults at the end of the stack
\* cannot stack the fault's frame either: the run ends.
Push ==
    LET a == sp[ActiveReg]
    IN  /\ ~done /\ SlotsInUse < Len(ctx) + MaxPush
        /\ \/ ~CanWrite(a) /\ Halt
           \/ /\ CanWrite(a)
              /\ mem' = [mem EXCEPT ![a.area][a.n + 1] = Data]
              /\ sp' = [sp EXCEPT ![ActiveReg].n = @ + 1]
              /\ UNCHANGED <<mode, sec, ipsr, pc, lr, spsel, exc, tz, done, ctx, calls>>

\* MM_OP_POP.  (F) Not below what the activation found.
Pop ==
    /\ ~done
    /\ sp[ActiveReg].n > (IF ctx = << >> THEN 0 ELSE Stacked(Last(ctx))[ActiveReg].n)
    /\ sp' = [sp EXCEPT ![ActiveReg].n = @ - 1]
    /\ UNCHANGED <<mode, sec, ipsr, pc, lr, spsel, mem, exc, tz, done, ctx, calls>>

\* MSR MSP, PSP, MSP_NS, PSP_NS.  (F) In Thread mode, to the empty stack.
WriteStackPointer(r) ==
    /\ ~done /\ ctx = << >>
    /\ sec = "NS" => r \in {"msp_ns", "psp_ns"}
    /\ sp' = [sp EXCEPT ![r] = [area |-> r, n |-> 0]]
    /\ UNCHANGED <<mode, sec, ipsr, pc, lr, spsel, mem, exc, tz, done, ctx, calls>>

\* MSR CONTROL writes the Secure bank from either state, MSR CONTROL_NS the
\* other one.  (F) In Thread mode.
WriteControl(s, v) ==
    /\ ~done /\ ctx = << >>
    /\ spsel' = [spsel EXCEPT ![s] = v]
    /\ UNCHANGED <<mode, sec, ipsr, pc, lr, sp, mem, exc, tz, done, ctx, calls>>

\* mm_tz_exec_sg and mm_tz_exec_bxns.
SecureGateway ==
    /\ ~done /\ sec = "NS"
    /\ sec' = "S"
    /\ UNCHANGED <<mode, ipsr, pc, lr, spsel, sp, mem, exc, tz, done, ctx, calls>>

BranchNonSecure(p) ==
    /\ ~done
    /\ sec' = "NS" /\ pc' = p
    /\ UNCHANGED <<mode, ipsr, lr, spsel, sp, mem, exc, tz, done, ctx, calls>>

\* Mutant of CallNonSecure: the saved return address is the callee's.
CallNonSecure_SavesTarget(p, ret) ==
    /\ ~done /\ Len(calls) < MaxCalls
    /\ tz' = IF Len(tz) < TzStackMax
             THEN Append(tz, [pc |-> p, sec |-> sec, mode |-> mode])
             ELSE tz
    /\ lr' = Sentinel /\ sec' = "NS" /\ pc' = p
    /\ calls' = Append(calls, [pc |-> ret, sec |-> sec, mode |-> mode, nest |-> Len(ctx)])
    /\ UNCHANGED <<mode, ipsr, spsel, sp, mem, exc, done, ctx>>

\* mm_tz_exec_blxns: the caller resumes at ret.
CallNonSecure(p, ret) ==
    /\ ~done /\ Len(calls) < MaxCalls
    /\ tz' = IF Len(tz) < TzStackMax
             THEN Append(tz, [pc |-> ret, sec |-> sec, mode |-> mode])
             ELSE tz
    /\ lr' = Sentinel /\ sec' = "NS" /\ pc' = p
    /\ calls' = Append(calls, [pc |-> ret, sec |-> sec, mode |-> mode, nest |-> Len(ctx)])
    /\ UNCHANGED <<mode, ipsr, spsel, sp, mem, exc, done, ctx>>

\* MM_OP_BX of the sentinel in Non-secure state.  (F) In the activation that
\* made the call.
ReturnFromNonSecure ==
    /\ ~done /\ sec = "NS" /\ lr = Sentinel
    /\ calls # << >> /\ Last(calls).nest = Len(ctx)
    /\ \/ /\ tz # << >>
          /\ tz' = Front(tz)
          /\ sec' = Last(tz).sec /\ mode' = Last(tz).mode
          /\ pc' = Last(tz).pc /\ lr' = Last(tz).pc
       \/ tz = << >> /\ pc' = Wild /\ UNCHANGED <<sec, mode, lr, tz>>
    /\ calls' = Front(calls)
    /\ UNCHANGED <<ipsr, spsel, sp, mem, exc, done, ctx>>

-----------------------------------------------------------------------------
\* The reset block of main(): RAM keeps its contents.
ResetState ==
    [pc |-> ResetPc, lr |-> InitialLr, ipsr |-> "None", mode |-> "Thread", sec |-> "S",
     spsel |-> [s \in Sec |-> FALSE],
     sp |-> [r \in StackReg |-> IF r = "msp_s" THEN [area |-> r, n |-> 0] ELSE Null]]

ResetTarget ==
    /\ ~done
    /\ LET c == ResetState
       IN  /\ mode' = c.mode /\ sec' = c.sec /\ ipsr' = c.ipsr
           /\ pc' = c.pc /\ lr' = c.lr /\ spsel' = c.spsel /\ sp' = c.sp
    /\ exc' = << >> /\ tz' = << >> /\ ctx' = << >> /\ calls' = << >>
    /\ UNCHANGED <<mem, done>>

Init ==
    /\ mode = "Thread" /\ sec = "S" /\ ipsr = "None"
    /\ pc = ResetPc /\ lr = InitialLr
    /\ spsel = [s \in Sec |-> FALSE]
    /\ sp = [r \in StackReg |-> IF r = "msp_s" THEN [area |-> r, n |-> 0] ELSE Null]
    /\ mem = [a \in StackReg |-> [i \in 1 .. Cap |-> Data]]
    /\ exc = << >> /\ tz = << >> /\ ctx = << >> /\ calls = << >>
    /\ done = FALSE

Next ==
    \/ TakeSystemException
    \/ \E hs \in Sec : TakeInterrupt(hs)
    \/ \E p \in Pc : SupervisorCall(p)
    \/ UsageFault
    \/ \E e \in Fault \ {"UsageFault"} : MemFault(e)
    \/ ReturnByBx
    \/ ReturnByPop
    \/ \E p \in Pc : Execute(p) \/ BranchLink(p) \/ BranchNonSecure(p)
    \/ ReloadLr
    \/ Push
    \/ Pop
    \/ \E r \in StackReg : WriteStackPointer(r)
    \/ \E s \in Sec, v \in BOOLEAN : WriteControl(s, v)
    \/ SecureGateway
    \/ \E p, ret \in Pc : CallNonSecure(p, ret)
    \/ ReturnFromNonSecure
    \/ ResetTarget

Spec == Init /\ [][Next]_vars

-----------------------------------------------------------------------------
(* Properties.                                                             *)

TypeOK ==
    /\ mode \in Mode /\ sec \in Sec /\ ipsr \in IPSR
    /\ pc \in CodeAddr /\ lr \in Lr
    /\ spsel \in [Sec -> BOOLEAN] /\ sp \in [StackReg -> Addr]
    /\ mem \in [StackReg -> [1 .. Cap -> Slot]]
    /\ exc \in Seq(ExcRecord) /\ tz \in Seq(TzRecord)
    /\ done \in BOOLEAN
    /\ ctx \in Seq(Context) /\ calls \in Seq(CallRecord)

(***************************************************************************)
(* exc_sp[] and exc_sec[] describe the suspended activations: the record   *)
(* of each one points at a frame in RAM that still holds its return        *)
(* address, LR and IPSR, whatever the handlers above it pushed, and in     *)
(* whichever security state they ran.                                      *)
(***************************************************************************)
FramesIntact ==
    ~done =>
        /\ Len(exc) = Len(ctx)
        /\ \A i \in 1 .. Len(ctx) :
              LET top == Stacked(ctx[i])[EntryReg(ctx[i])]
              IN  /\ exc[i] = [sp |-> top, sec |-> ctx[i].sec]
                  /\ top.area \in StackReg /\ top.n \in 1 .. Cap
                  /\ mem[top.area][top.n] = FrameOf(ctx[i])

(***************************************************************************)
(* The processor is in Handler mode, and IPSR names an exception, exactly  *)
(* while some activation is suspended: entry, both kinds of return, the    *)
(* mode that a Non-secure call saves and reset agree about it.             *)
(***************************************************************************)
HandlerIffNested ==
    ~done => /\ mode = "Handler" <=> ctx # << >>
             /\ ipsr = "None" <=> ctx = << >>

(***************************************************************************)
(* A BX LR that ends a Non-secure call resumes behind the BLXNS of the     *)
(* innermost call, in its security state and mode, however exceptions      *)
(* (whose handlers make calls of their own) and secure gateways interleave.*)
(* This is the comment on the call stack in include/m33mu/cpu.h.           *)
(***************************************************************************)
NsCallReturns ==
    [][Len(calls') < Len(calls) /\ ~ResetTarget =>
          /\ calls' = Front(calls)
          /\ pc' = Last(calls).pc /\ sec' = Last(calls).sec
          /\ mode' = Last(calls).mode]_vars

(***************************************************************************)
(* Exceptions are transparent, but for one thing: with every activation    *)
(* seen as its whole context, each step of the emulator is work of the     *)
(* running activation, a preemption, the exact resumption of the one       *)
(* preempted last, or a reset; or it is a resumption that is exact but for *)
(* one slot which the handler leaves behind on a stack other than the one  *)
(* that the resumed activation runs on, where everybody finds it until a   *)
(* frame below it is unstacked.  Only a handler that ends in POP {pc} or   *)
(* LDM leaves one (ReturnByPop).                                           *)
(***************************************************************************)
Abs == INSTANCE Preemption WITH
         Context <- Context, Pc <- CodeAddr, running <- Suspend(pc), suspended <- ctx,
         Stack <- [c \in Context |-> EntryReg(c)], ResetContext <- {ResetState}

TransparentPreemption == Abs!AbsSpec
=============================================================================
