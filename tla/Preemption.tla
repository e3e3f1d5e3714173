---------------------------- MODULE Preemption ----------------------------
(***************************************************************************)
(* What exception entry and return promise the firmware: whatever runs is  *)
(* one activation, an exception suspends it, and the matching return       *)
(* resumes it with exactly the registers, stack pointers, mode and         *)
(* security state that it had, but for a slot that a handler may leave on  *)
(* a stack which the resumed activation does not run on.  Nothing here     *)
(* says where the suspended state is kept: Exceptions.tla shows how        *)
(* src/main.c does it.                                                     *)
(***************************************************************************)
EXTENDS Sequences, Naturals

CONSTANTS
    Context,        \* the processor states an activation can see, records
                    \* with at least a field pc and the stack pointers sp
    Pc,             \* program counter values
    Stack,          \* the stack pointer that a context runs on, by context
    ResetContext    \* the contexts that a reset starts

VARIABLES
    running,        \* the context of the activation that runs
    suspended       \* the contexts of the preempted activations, oldest first

absvars == <<running, suspended>>

\* An activation works: it changes its own context only.
Work ==
    /\ running' \in Context
    /\ UNCHANGED suspended

\* An exception preempts the running activation, which will continue at p:
\* the next instruction after SVC, the interrupted or faulting one otherwise.
Preempt ==
    /\ \E p \in Pc : suspended' = Append(suspended, [running EXCEPT !.pc = p])
    /\ running' \in Context

Preempted == suspended[Len(suspended)]
Others    == SubSeq(suspended, 1, Len(suspended) - 1)

\* The exception returns.
Resume ==
    /\ suspended # << >>
    /\ running' = Preempted
    /\ suspended' = Others

\* One more slot stays in use on the stack of r, for all of s that will run
\* before a frame on that stack is returned through.
Leaving(s, r) ==
    [i \in 1 .. Len(s) |->
        IF \E j \in i .. Len(s) : Stack[s[j]] = r THEN s[i]
        ELSE [s[i] EXCEPT !.sp[r].n = @ + 1]]

\* The exception returns and leaves in use the slot that the handler had on the
\* stack of r, which is not the one that the resumed activation runs on.
ResumeLeaving(r) ==
    /\ suspended # << >>
    /\ r # Stack[Preempted]
    /\ running.sp[r] = [Preempted.sp[r] EXCEPT !.n = @ + 1]
    /\ running' = [Preempted EXCEPT !.sp[r] = running.sp[r]]
    /\ suspended' = Leaving(Others, r)

\* A target reset abandons every activation.
Restart ==
    /\ suspended' = << >>
    /\ running' \in ResetContext

AbsInit == running \in ResetContext /\ suspended = << >>

AbsNext ==
    \/ Work
    \/ Preempt
    \/ Resume
    \/ \E r \in DOMAIN running.sp : ResumeLeaving(r)
    \/ Restart

AbsSpec == AbsInit /\ [][AbsNext]_absvars
=============================================================================
