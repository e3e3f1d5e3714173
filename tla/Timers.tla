------------------------------- MODULE Timers -------------------------------
(***************************************************************************)
(* The device timers: TIM2..TIM5 of the STM32 targets (one copy of the     *)
(* driver per target), TIMER0..2 of the nRF5340 and a channel of the       *)
(* mcxw71c's LPIT.  The run loop does not tick them cycle by cycle: it     *)
(* collects cycles and passes a batch to mm_timer_tick, so each driver     *)
(* computes in closed form what the hardware does step by step.            *)
(*                                                                         *)
(* A timer is a record; the tick functions are functions on records.       *)
(***************************************************************************)
EXTENDS Target, Integers, FiniteSets

CONSTANTS
    CounterMax,     \* largest counter value of a target's timer (0xFFFF or 0xFFFFFFFF)
    MaxPsc,         \* largest prescaler setting
    TimerBatch      \* most cycles passed in one call

ASSUME TimerBounds ==
    /\ CounterMax \in [Targets -> Nat \ {0}]
    /\ MaxPsc \in Nat /\ TimerBatch \in Nat \ {0}

VARIABLES
    tmr,        \* the timer
    tclk,       \* its clock is on (and, on the mcxw71c, its reset released)
    tsec,       \* TZSC gives it to the Secure state
    tnvic       \* its interrupt is pending
timerVars == <<cpu, tmr, tclk, tsec, tnvic>>

Mask == CounterMax[cpu]

-----------------------------------------------------------------------------
(* STM32 general-purpose timer *)

TimAtReset == [cen |-> FALSE, down |-> FALSE, opm |-> FALSE, udis |-> FALSE,
               uie |-> FALSE, uif |-> FALSE, cnt |-> 0, arr |-> Mask, psc |-> 0, accum |-> 0]

\* tim_raise_update: the flag, and the end of a one-pulse run
RaiseUpdate(t) == IF t.udis THEN t ELSE [t EXCEPT !.uif = TRUE, !.cen = @ /\ ~t.opm]

Clamped(t) == IF t.cnt > t.arr THEN t.arr ELSE t.cnt

\* Mutant of tim_apply_tick_up: the overflow takes arr counts instead of arr + 1.
tim_apply_tick_up_Mut(t, ticks) ==
    LET over == t.arr - Clamped(t) + 1
    IN  IF ticks = 0 THEN t
        ELSE IF ticks < over THEN [t EXCEPT !.cnt = Clamped(t) + ticks]
        ELSE RaiseUpdate([t EXCEPT !.cnt = IF t.arr = 0 THEN 0 ELSE (ticks - over) % t.arr])

tim_apply_tick_up(t, ticks) ==
    LET over == t.arr - Clamped(t) + 1
    IN  IF ticks = 0 THEN t
        ELSE IF ticks < over THEN [t EXCEPT !.cnt = Clamped(t) + ticks]
        ELSE RaiseUpdate([t EXCEPT !.cnt = (ticks - over) % (t.arr + 1)])

tim_apply_tick_down(t, ticks) ==
    LET under == Clamped(t) + 1
    IN  IF ticks = 0 THEN t
        ELSE IF ticks < under THEN [t EXCEPT !.cnt = Clamped(t) - ticks]
        ELSE RaiseUpdate([t EXCEPT !.cnt = t.arr - ((ticks - under) % (t.arr + 1))])

\* tim_tick, for a timer whose clock is on
tim_tick(t, cycles) ==
    LET total == t.accum + cycles
        counted == [t EXCEPT !.accum = total % (t.psc + 1)]
        ticks == total \div (t.psc + 1)
    IN  IF ~t.cen THEN t
        ELSE IF t.down THEN tim_apply_tick_down(counted, ticks)
        ELSE tim_apply_tick_up(counted, ticks)

\* The interrupt is raised with the flag, by an update while UIE is set.  An
\* update that finds the flag already set raises it again.
Updates(t, n) == ~t.udis /\ tim_tick([t EXCEPT !.uif = FALSE], n).uif

timers_tick(n) ==
    /\ tclk
    /\ tmr' = tim_tick(tmr, n)
    /\ tnvic' = (tnvic \/ (tmr.uie /\ Updates(tmr, n)))
    /\ UNCHANGED <<cpu, tclk, tsec>>

\* tim_access_allowed: a Non-secure access to a Secure timer is ignored
tim_write(sec) ==
    /\ ~(tsec /\ sec = NonSecure)
    /\ \/ \E en, d, o, u \in BOOLEAN :                                       \* CR1
             tmr' = [tmr EXCEPT !.cen = en, !.down = d, !.opm = o, !.udis = u] /\ UNCHANGED tnvic
       \/ tmr' = [tmr EXCEPT !.uie = ~@] /\ UNCHANGED tnvic                  \* DIER
       \/ tmr' = [tmr EXCEPT !.uif = FALSE] /\ UNCHANGED tnvic               \* SR: zeros clear
       \/ /\ tmr' = RaiseUpdate([tmr EXCEPT !.cnt = 0, !.accum = 0])         \* EGR.UG
          /\ tnvic' = (tnvic \/ (tmr.uie /\ ~tmr.udis))
       \/ \E v \in 0 .. Mask : tmr' = [tmr EXCEPT !.cnt = v] /\ UNCHANGED tnvic
       \/ \E v \in 0 .. Mask : tmr' = [tmr EXCEPT !.arr = v] /\ UNCHANGED tnvic
       \/ \E v \in 0 .. MaxPsc : tmr' = [tmr EXCEPT !.psc = v] /\ UNCHANGED tnvic
    /\ UNCHANGED <<cpu, tclk, tsec>>

stm32l552_timers_tick(n) == cpu = "stm32l552" /\ timers_tick(n)
stm32h563_timers_tick(n) == cpu = "stm32h563" /\ timers_tick(n)
stm32u585_timers_tick(n) == cpu = "stm32u585" /\ timers_tick(n)
stm32l552_tim_write(sec) == cpu = "stm32l552" /\ tim_write(sec)
stm32h563_tim_write(sec) == cpu = "stm32h563" /\ tim_write(sec)
stm32u585_tim_write(sec) == cpu = "stm32u585" /\ tim_write(sec)

-----------------------------------------------------------------------------
(* nRF5340 TIMER with one compare channel *)

NrfAtReset == [running |-> FALSE, counter |-> 0, cc |-> 0, event |-> FALSE,
               inten |-> FALSE, psc |-> 0, accum |-> 0]

\* The channel's compare value lies after `old' and not after `now', going
\* round through zero when the counter has wrapped
Passed(cc, old, now) ==
    IF old <= now THEN cc > old /\ cc <= now ELSE cc > old \/ cc <= now

Pow2(p) == IF p = 0 THEN 1 ELSE 2

nrf_tick(t, cycles) ==
    LET total == t.accum + cycles
        ticks == total \div Pow2(t.psc)
        now == (t.counter + ticks) % (Mask + 1)
    IN  IF ~t.running THEN t
        ELSE [t EXCEPT !.accum = total % Pow2(t.psc), !.counter = now,
                       !.event = @ \/ (ticks > 0 /\ Passed(t.cc, t.counter, now))]

nrf5340_timers_tick(n) ==
    /\ cpu = "nrf5340" /\ tclk
    /\ tmr' = nrf_tick(tmr, n)
    /\ tnvic' = (tnvic \/ (tmr.inten /\ nrf_tick([tmr EXCEPT !.event = FALSE], n).event))
    /\ UNCHANGED <<cpu, tclk, tsec>>

nrf5340_timer_write ==
    /\ cpu = "nrf5340"
    /\ \/ \E run \in BOOLEAN : tmr' = [tmr EXCEPT !.running = run]   \* TASKS_START, STOP, SHUTDOWN
       \/ tmr' = [tmr EXCEPT !.counter = 0]                          \* TASKS_CLEAR
       \/ tmr' = [tmr EXCEPT !.counter = (@ + 1) % (Mask + 1)]       \* TASKS_COUNT
       \/ \E e \in BOOLEAN : tmr' = [tmr EXCEPT !.event = e]         \* EVENTS_COMPARE
       \/ tmr' = [tmr EXCEPT !.inten = ~@]                           \* INTENSET, INTENCLR
       \/ \E v \in 0 .. Mask : tmr' = [tmr EXCEPT !.cc = v]
       \/ \E v \in 0 .. 1 : tmr' = [tmr EXCEPT !.psc = v]
    /\ UNCHANGED <<cpu, tclk, tsec, tnvic>>

-----------------------------------------------------------------------------
(* A channel of the mcxw71c's LPIT *)

LpitAtReset == [mcen |-> FALSE, ten |-> FALSE, chain |-> FALSE, tie |-> FALSE,
                tval |-> 0, cval |-> 0, tif |-> FALSE]

\* A batch that reaches zero reloads and drops the cycles left over
lpit_tick(t, cycles) ==
    IF ~(t.mcen /\ t.ten) \/ t.chain THEN t
    ELSE IF t.cval > cycles THEN [t EXCEPT !.cval = @ - cycles]
    ELSE [t EXCEPT !.cval = t.tval, !.tif = TRUE]

mcxw71c_timers_tick(n) ==
    /\ cpu = "mcxw71c" /\ tclk
    /\ tmr' = lpit_tick(tmr, n)
    /\ tnvic' = (tnvic \/ (tmr.mcen /\ tmr'.tif /\ tmr.tie))
    /\ UNCHANGED <<cpu, tclk, tsec>>

\* Enabling a channel that stands at zero loads it
Enabled(t) == [t EXCEPT !.ten = TRUE, !.cval = IF @ = 0 THEN t.tval ELSE @]

mcxw71c_lpit_write ==
    /\ cpu = "mcxw71c" /\ tclk
    /\ \/ \E v \in 0 .. Mask :                                       \* TVAL
             tmr' = [tmr EXCEPT !.tval = v, !.cval = IF tmr.ten THEN @ ELSE v]
       \/ \E ch \in BOOLEAN :                                        \* TCTRL, SETTEN, CLRTEN
             tmr' \in {[Enabled(tmr) EXCEPT !.chain = ch], [tmr EXCEPT !.ten = FALSE, !.chain = ch]}
       \/ tmr' = [tmr EXCEPT !.tif = FALSE]                          \* MSR: ones clear
       \/ tmr' = [tmr EXCEPT !.tie = ~@]                             \* MIER
       \/ tmr' = [tmr EXCEPT !.mcen = ~@]                            \* MCR
    /\ UNCHANGED <<cpu, tclk, tsec, tnvic>>

-----------------------------------------------------------------------------

TimerAtReset == CASE cpu \in Stm32 -> TimAtReset
                  [] cpu = "nrf5340" -> NrfAtReset
                  [] OTHER -> LpitAtReset

TimersInit ==
    /\ TargetInit
    /\ tmr = TimerAtReset
    /\ tclk = (cpu = "nrf5340") /\ tsec = FALSE /\ tnvic = FALSE

\* The clock controller or the security controller is written
TimerGate ==
    /\ \/ tclk' = ~tclk /\ UNCHANGED tsec
       \/ cpu \in Stm32 /\ tsec' = ~tsec /\ UNCHANGED tclk
    /\ UNCHANGED <<cpu, tmr, tnvic>>

TimerIrqTaken ==
    /\ tnvic /\ tnvic' = FALSE
    /\ UNCHANGED <<cpu, tmr, tclk, tsec>>

\* timers_reset and timers_init of the boot sequence
timers_init ==
    /\ tmr' = TimerAtReset
    /\ tclk' = (cpu = "nrf5340") /\ tsec' = FALSE /\ tnvic' = FALSE
    /\ UNCHANGED cpu
stm32l552_timers_init == cpu = "stm32l552" /\ timers_init
stm32h563_timers_init == cpu = "stm32h563" /\ timers_init
stm32u585_timers_init == cpu = "stm32u585" /\ timers_init
nrf5340_timers_init == cpu = "nrf5340" /\ timers_init
mcxw71c_timers_init == cpu = "mcxw71c" /\ timers_init

TimersNext ==
    \/ \E n \in 1 .. TimerBatch : stm32l552_timers_tick(n)
    \/ \E n \in 1 .. TimerBatch : stm32h563_timers_tick(n)
    \/ \E n \in 1 .. TimerBatch : stm32u585_timers_tick(n)
    \/ \E n \in 1 .. TimerBatch : nrf5340_timers_tick(n)
    \/ \E n \in 1 .. TimerBatch : mcxw71c_timers_tick(n)
    \/ \E sec \in SecStates : stm32l552_tim_write(sec)
    \/ \E sec \in SecStates : stm32h563_tim_write(sec)
    \/ \E sec \in SecStates : stm32u585_tim_write(sec)
    \/ nrf5340_timer_write \/ mcxw71c_lpit_write
    \/ TimerGate \/ TimerIrqTaken
    \/ stm32l552_timers_init \/ stm32h563_timers_init \/ stm32u585_timers_init
    \/ nrf5340_timers_init \/ mcxw71c_timers_init

TimersSpec == TimersInit /\ [][TimersNext]_timerVars

-----------------------------------------------------------------------------
(* Properties *)

Batches == {p \in (1 .. TimerBatch) \X (1 .. TimerBatch) : p[1] + p[2] <= TimerBatch}

\* How the run loop cuts time into batches does not show in a timer: two calls of
\* the tick function leave it as one call with the sum.  An STM32 timer must not be
\* in one-pulse mode; the nRF5340's batches must be shorter than one round of the
\* counter, as a longer one can miss the compare event; the mcxw71c's channel loses
\* the cycles after a reload, so only its flag is claimed (tim_tick,
\* mm_nrf5340_timers_tick, mm_mcxw71c_timers_tick).
BatchesAdd ==
    \A p \in Batches :
        LET a == p[1]
            b == p[2]
        IN  CASE cpu \in Stm32 -> tmr.opm \/ tim_tick(tim_tick(tmr, a), b) = tim_tick(tmr, a + b)
              [] cpu = "nrf5340" -> a + b >= Mask \/ nrf_tick(nrf_tick(tmr, a), b) = nrf_tick(tmr, a + b)
              [] OTHER -> lpit_tick(lpit_tick(tmr, a), b).tif = lpit_tick(tmr, a + b).tif
=============================================================================
