------------------------------ MODULE RunLoop ------------------------------
(***************************************************************************)
(* The main loop of src/main.c with the TUI attached and no GDB client:    *)
(* run control, the sleep of WFI and WFE, the order in which pending       *)
(* exceptions are taken, target resets and image reloads.                  *)
(*                                                                         *)
(* An iteration is cut where handle_tui is called, so that a key can       *)
(* arrive at each of these places; `at' says where the loop is.  What an   *)
(* exception entry does to the registers is in Exceptions.tla; here it     *)
(* takes the pending bit.  Instructions are reduced to what they do to     *)
(* this state.                                                             *)
(***************************************************************************)
EXTENDS Integers, FiniteSets

CONSTANTS
    Words, WordBits, Prio,                  \* see Nvic.tla
    RegMod, MaxDelta, MaxWraps,             \* see SysTick.tla
    Action,                                 \* the TUI actions that the user asks for
    MaxKeys,                                \* bound on the keys between two handle_tui
    Firmware                                \* the kinds of instruction the firmware has

VARIABLES
    nvic, primask,          \* see Nvic.tla
    tick,                   \* the SysTick counter, see SysTick.tla
    pend_sv,                \* scs.pend_sv
    sleeping, event_reg,    \* cpu.sleeping, cpu.event_reg
    tui_paused, tui_step,   \* run control
    target_running,         \* what the TUI was last told of it
    reload_pending,
    reset_pending,          \* g_system_reset_pending
    at,                     \* where the loop is: "top", "dispatch", "idle",
                            \* "asleep", "pending" or "end"
    done

vars == <<nvic, primask, tick, pend_sv, sleeping, event_reg, tui_paused, tui_step,
          target_running, reload_pending, reset_pending, at, done>>

core    == <<nvic, primask, tick, pend_sv, sleeping, event_reg>>
control == <<tui_paused, tui_step, target_running, reload_pending>>

\* The diagnostic wrap counter and COUNTFLAG play no part here.
noWraps == 0
N == INSTANCE Nvic
T == INSTANCE SysTick WITH st <- tick, wrapsSeen <- noWraps

ASSUME ActionAssumption == Action \subseteq {"QUIT", "RESET", "RELOAD", "PAUSE", "CONTINUE", "STEP"}
ASSUME FirmwareAssumption ==
    Firmware \subseteq {"ordinary", "branch", "fault", "svc", "wfi", "wfe", "sev", "cps",
                        "systick", "icsr", "nvic", "aircr", "bkpt"}

InitialTick == [enable |-> FALSE, tickint |-> FALSE, load |-> 0, val |-> 0,
                countflag |-> FALSE, wraps |-> 0, pend_st |-> FALSE]

Uncounted(s) == [s EXCEPT !.wraps = 0, !.countflag = FALSE]

-----------------------------------------------------------------------------
\* target_should_run
ShouldRun == ~tui_paused \/ tui_step

\* Devices pend interrupts: timers when virtual time passes (mm_timer_tick),
\* the others when they are polled.
Devices(n) == {[n EXCEPT !.pending = @ \cup d] : d \in SUBSET N!Irq}

\* tui_handle_key accepts RELOAD, STEP and RESET of a stopped target only, and
\* F2 means PAUSE of a running one, CONTINUE of a stopped one: as the TUI was
\* last told.  Actions add up until handle_tui takes them.
Offered == IF target_running THEN Action \cap {"PAUSE", "QUIT"} ELSE Action \ {"PAUSE"}
Keys    == {a \in SUBSET Offered : Cardinality(a) <= MaxKeys}

\* What handle_tui makes of the actions it took, but for QUIT: CONTINUE and STEP
\* are looked at after PAUSE.
HandleTui(a) ==
    [paused |-> (tui_paused \/ "PAUSE" \in a) /\ a \cap {"CONTINUE", "STEP"} = {},
     step   |-> tui_step \/ "STEP" \in a,
     reload |-> reload_pending \/ "RELOAD" \in a,
     reset  |-> reset_pending \/ "RESET" \in a]

SetControl(c) ==
    /\ tui_paused' = c.paused /\ tui_step' = c.step /\ reload_pending' = c.reload
    /\ target_running' = ShouldRun

Quit ==
    /\ done' = TRUE /\ at' = "top" /\ target_running' = ShouldRun
    /\ UNCHANGED <<core, tui_paused, tui_step, reload_pending, reset_pending>>

\* The reset block at the head of the outer loop.  Run control is kept, and
\* what ended the inner loop is forgotten.
Reinitialise ==
    /\ nvic' = N!InitialNvic /\ primask' = [s \in N!World |-> FALSE]
    /\ tick' = InitialTick /\ pend_sv' = FALSE
    /\ sleeping' = FALSE /\ event_reg' = FALSE
    /\ reset_pending' = FALSE /\ at' = "top" /\ done' = FALSE

\* handle_tui followed by the check for a reset, as in the idle and the sleep
\* paths: the loop goes on at next unless a reset is due.
TuiAndReset(a, next) ==
    /\ ~done
    /\ \/ "QUIT" \in a /\ Quit
       \/ LET c == HandleTui(a)
          IN  /\ "QUIT" \notin a
              /\ SetControl(c)
              /\ \/ c.reset /\ Reinitialise
                 \/ ~c.reset /\ reset_pending' = FALSE /\ at' = next /\ UNCHANGED <<core, done>>

\* The handle_tui at the head of an iteration.
Top(a) ==
    /\ at = "top" /\ ~done
    /\ \/ "QUIT" \in a /\ Quit
       \/ /\ "QUIT" \notin a
          /\ SetControl(HandleTui(a)) /\ reset_pending' = HandleTui(a).reset
          /\ at' = "dispatch"
          /\ UNCHANGED <<core, done>>

-----------------------------------------------------------------------------
(* A stopped target.                                                       *)

Idle ==
    /\ at = "dispatch" /\ ~done /\ ~ShouldRun
    /\ nvic' \in Devices(nvic)
    /\ at' = "idle"
    /\ UNCHANGED <<primask, tick, pend_sv, sleeping, event_reg, control, reset_pending, done>>

IdleTui(a) == at = "idle" /\ TuiAndReset(a, "top")

\* reload_images, which may fail, asks for a reset.
ReloadDue == reload_pending /\ tui_paused

Reload ==
    /\ at = "dispatch" /\ ~done /\ ShouldRun /\ ReloadDue
    /\ reset_pending' \in {TRUE, reset_pending}
    /\ reload_pending' = FALSE
    /\ at' = "top"
    /\ UNCHANGED <<core, tui_paused, tui_step, target_running, done>>

-----------------------------------------------------------------------------
(* A sleeping core.                                                        *)

Asleep == at = "dispatch" /\ ~done /\ ShouldRun /\ ~ReloadDue /\ sleeping

\* Mutant of Wakes: an interrupt does not wake the core.
Wakes_NotIrq == event_reg \/ tick.pend_st \/ pend_sv

\* "Wake on event register or any pending enabled exception."
Wakes == event_reg \/ tick.pend_st \/ pend_sv \/ N!Select(nvic, primask) # N!NoIrq

WakeUp ==
    /\ Asleep /\ Wakes
    /\ sleeping' = FALSE /\ event_reg' = FALSE /\ at' = "pending"
    /\ UNCHANGED <<nvic, primask, tick, pend_sv, control, reset_pending, done>>

\* Mutant of SleepCycles: the skip ends one cycle before the counter wraps.
SleepCycles_OneShort == IF T!CyclesUntilFire(tick) = T!Never THEN T!Never ELSE T!CyclesUntilFire(tick) - 1

SleepCycles == T!CyclesUntilFire(tick)

\* SysTick will not fire: wait for the devices, in host time only.
SleepOnHost ==
    /\ Asleep /\ ~Wakes /\ SleepCycles = T!Never
    /\ nvic' \in Devices(nvic)
    /\ at' = "asleep"
    /\ UNCHANGED <<primask, tick, pend_sv, sleeping, event_reg, control, reset_pending, done>>

\* Virtual time skips to the next wrap of SysTick.
SleepToTick ==
    /\ Asleep /\ ~Wakes /\ SleepCycles # T!Never
    /\ tick' = Uncounted(T!SysTickAdvance(tick, SleepCycles))
    /\ nvic' \in Devices(nvic)
    /\ LET wake == tick'.pend_st \/ pend_sv
       IN  sleeping' = ~wake /\ event_reg' = (event_reg /\ ~wake)
    /\ at' = "asleep"
    /\ UNCHANGED <<primask, pend_sv, control, reset_pending, done>>

SleepTui(a) == at = "asleep" /\ TuiAndReset(a, IF sleeping THEN "top" ELSE "pending")

-----------------------------------------------------------------------------
(* Pending exceptions, in the order of handle_pending.                     *)

Awake ==
    /\ ~done
    /\ at = "pending" \/ (at = "dispatch" /\ ShouldRun /\ ~ReloadDue /\ ~sleeping)

\* enter_exception_ex ends a sleep and clears the event register; an entry that
\* cannot stack its frame ends the run.
Enters ==
    /\ at' = "top"
    /\ \/ sleeping' = FALSE /\ event_reg' = FALSE /\ UNCHANGED done
       \/ done' = TRUE /\ UNCHANGED <<sleeping, event_reg>>
    /\ UNCHANGED <<primask, control, reset_pending>>

TakeSysTick ==
    /\ Awake /\ tick.pend_st
    /\ tick' = [tick EXCEPT !.pend_st = FALSE]
    /\ Enters /\ UNCHANGED <<nvic, pend_sv>>

TakePendSv ==
    /\ Awake /\ ~tick.pend_st /\ pend_sv
    /\ pend_sv' = FALSE
    /\ Enters /\ UNCHANGED <<nvic, tick>>

TakeIrq ==
    LET irq == N!Select(nvic, primask)
    IN  /\ Awake /\ ~tick.pend_st /\ ~pend_sv /\ irq # N!NoIrq
        /\ nvic' = [nvic EXCEPT !.pending = @ \ {irq}]
        /\ Enters /\ UNCHANGED <<tick, pend_sv>>

-----------------------------------------------------------------------------
(* An instruction.                                                         *)

NoneToTake == ~tick.pend_st /\ ~pend_sv /\ N!Select(nvic, primask) = N!NoIrq

\* The cycle that every instruction takes, before it executes.
TickOne  == Uncounted(T!SysTickAdvance(tick, 1))
ICSR     == [st : {tick.pend_st, TRUE, FALSE}, sv : {pend_sv, TRUE, FALSE}]
SysTickWrites(s) ==
    {[s EXCEPT !.enable = e, !.tickint = t] : e, t \in BOOLEAN}
      \cup {[s EXCEPT !.load = l] : l \in T!RegVal} \cup {[s EXCEPT !.val = 0]}
NvicWrites(n) ==
    {[n EXCEPT !.enable = e] : e \in SUBSET N!Irq}
      \cup {[n EXCEPT !.pending = p] : p \in SUBSET N!Irq}
      \cup {[n EXCEPT !.itns = i] : i \in SUBSET N!Irq}

\* kind "branch" stands for what makes the loop `continue': a load of PC, an
\* exception return through it, an instruction that an IT block skips.  A "fault"
\* does so too, and enters its handler; an "svc" goes on to the end of the
\* iteration.  Either ends the run if its frame cannot be stacked.  Entries clear
\* the event register, but for HardFault and UsageFault.
Execute(kind) ==
    /\ Awake /\ NoneToTake /\ kind \in Firmware
    /\ \E n \in Devices(nvic) :
          nvic' \in IF kind = "nvic" THEN NvicWrites(n) ELSE {n}
    /\ primask' \in IF kind = "cps" THEN {[primask EXCEPT ![s] = v] : s \in N!World, v \in BOOLEAN}
                    ELSE {primask}
    /\ \/ /\ kind = "icsr"
          /\ \E w \in ICSR : tick' = [TickOne EXCEPT !.pend_st = w.st] /\ pend_sv' = w.sv
       \/ /\ kind # "icsr" /\ pend_sv' = pend_sv
          /\ tick' \in IF kind = "systick" THEN SysTickWrites(TickOne) ELSE {TickOne}
    /\ sleeping' = (kind = "wfi" \/ (kind = "wfe" /\ ~event_reg))
    /\ event_reg' \in IF kind = "fault" THEN {event_reg, FALSE}
                      ELSE {kind = "sev" \/ (kind \notin {"wfe", "svc"} /\ event_reg)}
    /\ reset_pending' = (reset_pending \/ kind = "aircr")
    /\ tui_paused' = (tui_paused \/ kind = "bkpt")
    /\ tui_step' = (tui_step /\ kind # "bkpt")
    /\ at' = IF kind \in {"branch", "fault"} THEN "top" ELSE "end"
    /\ done' \in IF kind \in {"fault", "svc"} THEN BOOLEAN ELSE {FALSE}
    /\ UNCHANGED <<target_running, reload_pending>>

\* Mutant of EndOfStep: the single step is not taken back.
EndOfStep_KeepsStepping(c) == [c EXCEPT !.paused = c.step \/ c.paused]

\* A step that completed stops the target again.
EndOfStep(c) == [c EXCEPT !.paused = c.step \/ c.paused, !.step = FALSE]

\* Mutant of EndOfIteration: the check for a reset is missing.
EndOfIteration_NoReset(a) ==
    /\ at = "end"
    /\ \/ "QUIT" \in a /\ Quit
       \/ LET c == HandleTui(a)
          IN  /\ "QUIT" \notin a
              /\ nvic' \in Devices(nvic) /\ SetControl(EndOfStep(c))
              /\ reset_pending' = c.reset /\ at' = "top"
              /\ UNCHANGED <<primask, tick, pend_sv, sleeping, event_reg>>
              /\ UNCHANGED done

\* The rest of the iteration, with the poll of devices and TUI that happens
\* every DEFAULT_BATCH_CYCLES; a = {} without devices is an iteration without.
EndOfIteration(a) ==
    /\ at = "end"
    /\ \/ "QUIT" \in a /\ Quit
       \/ LET c == HandleTui(a)
          IN  /\ "QUIT" \notin a
              /\ \/ c.reset /\ Reinitialise /\ SetControl(c)
                 \/ /\ ~c.reset
                    /\ nvic' \in Devices(nvic) /\ SetControl(EndOfStep(c))
                    /\ reset_pending' = FALSE /\ at' = "top"
                    /\ UNCHANGED <<primask, tick, pend_sv, sleeping, event_reg, done>>

-----------------------------------------------------------------------------
Init ==
    /\ nvic = N!InitialNvic /\ primask = [s \in N!World |-> FALSE]
    /\ tick = InitialTick /\ pend_sv = FALSE
    /\ sleeping = FALSE /\ event_reg = FALSE
    /\ tui_paused = FALSE /\ tui_step = FALSE /\ target_running = TRUE
    /\ reload_pending = FALSE
    /\ reset_pending = FALSE /\ at = "top" /\ done = FALSE

Next ==
    \/ \E a \in Keys : Top(a) \/ IdleTui(a) \/ SleepTui(a) \/ EndOfIteration(a)
    \/ Idle
    \/ Reload
    \/ WakeUp
    \/ SleepOnHost
    \/ SleepToTick
    \/ TakeSysTick
    \/ TakePendSv
    \/ TakeIrq
    \/ \E kind \in Firmware : Execute(kind)

\* The loop never blocks for ever (every nanosleep and poll ends), and the
\* firmware is not made of branches and faults alone.
CompleteInstruction == \E kind \in Firmware \ {"branch", "fault"} : Execute(kind)
Fairness == WF_vars(Next) /\ SF_vars(CompleteInstruction)

Spec == Init /\ [][Next]_vars /\ Fairness

-----------------------------------------------------------------------------
(* Properties.                                                             *)

Stopped == ~ShouldRun \/ done

(***************************************************************************)
(* "Pended interrupt waking WFI" (README.md): a core that sleeps while an  *)
(* event, SysTick, PendSV or an interrupt that it can take is pending wakes *)
(* up, unless the target gets stopped, whatever order the event, the WFI   *)
(* and the keys come in.                                                   *)
(***************************************************************************)
SleeperWakes ==
    sleeping /\ (event_reg \/ tick.pend_st \/ pend_sv \/ N!Select(nvic, primask) # N!NoIrq)
        ~> ~sleeping \/ Stopped

(***************************************************************************)
(* A running SysTick with TICKINT ends a WFI: the loop's jumps in virtual  *)
(* time reach the wrap.                                                    *)
(***************************************************************************)
TickEndsSleep ==
    sleeping /\ tick.enable /\ tick.load # 0 /\ tick.tickint ~> ~sleeping \/ Stopped

(***************************************************************************)
(* A target reset that was asked for (AIRCR, the RESET key, a reload)      *)
(* happens, whether the target runs, sleeps or is stopped.                 *)
(***************************************************************************)
ResetHappens == reset_pending ~> ~reset_pending \/ done

(***************************************************************************)
(* A single step ends, if the core does not sleep and no reset is due in it. *)
(***************************************************************************)
StepEnds == tui_step ~> ~tui_step \/ sleeping \/ reset_pending \/ done

(***************************************************************************)
(* The wake condition as the comment in the sleep path has it: any pending *)
(* enabled exception wakes the core (PRIMASK holds back its handler only). *)
(***************************************************************************)
PendingEnabledWakes ==
    sleeping /\ nvic.pending \cap nvic.enable # {}
        ~> ~sleeping \/ nvic.pending \cap nvic.enable = {} \/ Stopped

(***************************************************************************)
(* "Reload images (F5)", offered when the target is stopped, reloads them. *)
(***************************************************************************)
ReloadHappens == reload_pending ~> ~reload_pending \/ done
=============================================================================
