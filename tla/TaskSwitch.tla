----------------------------- MODULE TaskSwitch -----------------------------
(***************************************************************************)
(* The exception mechanism of Exceptions.tla under the firmware of         *)
(* tests/firmware/test-rtos-exceptions: Thread mode builds the first frame *)
(* of a task on the task's stack, and a handler (SVC #0 or PendSV) switches *)
(* to it by writing PSP and returning with EXC_RETURN_THREAD_PSP.  This    *)
(* handler does not leave the stacks as it found them: that is its purpose.*)
(***************************************************************************)
EXTENDS Exceptions

ThreadPsp == -3     \* EXC_RETURN_THREAD_PSP, 0xFFFFFFFD

TaskFrame == [pc |-> ResetPc, lr |-> ResetPc, ipsr |-> "None"]

\* The task's initial frame, on a stack that no register points to yet.
PrepareTask ==
    /\ ~done /\ ctx = << >> /\ sp["psp_s"] = Null
    /\ mem' = [mem EXCEPT !["psp_s"][1] = TaskFrame]
    /\ UNCHANGED <<regs, exc, tz, done, ctx, calls>>

\* SVC_Handler_C: set_PSP, set_CONTROL and the EXC_RETURN value to return with.
SwitchTask ==
    /\ ~done /\ Len(ctx) = 1 /\ mem["psp_s"][1] = TaskFrame
    /\ sp' = [sp EXCEPT !["psp_s"] = [area |-> "psp_s", n |-> 1]]
    /\ spsel' = [spsel EXCEPT !["S"] = TRUE]
    /\ lr' = ThreadPsp
    /\ UNCHANGED <<mode, sec, ipsr, pc, mem, exc, tz, done, ctx, calls>>

\* bx lr of the handler, with or without a switch.
ReturnToTask ==
    /\ CanReturn /\ lr \in ExcReturn
    /\ Unstack(lr, Front(ctx))

TaskNext ==
    \/ PrepareTask
    \/ SwitchTask
    \/ ReturnToTask
    \/ TakeSystemException
    \/ \E p \in Pc : SupervisorCall(p)
    \/ UsageFault
    \/ \E e \in Fault \ {"UsageFault"} : MemFault(e)
    \/ \E p \in Pc : Execute(p) \/ BranchLink(p)
    \/ ReloadLr
    \/ Push
    \/ Pop
    \/ ResetTarget

TaskSpec == Init /\ [][TaskNext]_vars

(***************************************************************************)
(* EXC_RETURN_THREAD_PSP starts the thread whose frame PSP points to:      *)
(* exc_return_unstack resumes at the address stacked there.                *)
(***************************************************************************)
ThreadPspReturns ==
    [][ReturnToTask /\ lr = ThreadPsp /\ CanRead(sp["psp_s"]) =>
          pc' = mem[sp["psp_s"].area][sp["psp_s"].n].pc]_vars
=============================================================================
