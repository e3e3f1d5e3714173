------------------------------ MODULE Watchdog ------------------------------
(***************************************************************************)
(* The independent and the window watchdog of the STM32 targets (one copy  *)
(* per target) and the WDT of the nRF5340.  The run loop calls             *)
(* watchdog_tick with the cycles of a batch; a watchdog that runs out asks *)
(* for a system reset.                                                     *)
(*                                                                         *)
(* The window watchdog's seven-bit counter is scaled down: WTop stands for *)
(* 0x7F, Warn for 0x40 and Warn - 1, where the reset happens, for 0x3F.    *)
(***************************************************************************)
EXTENDS Target, Integers

CONSTANTS
    TickCycles,     \* cycles of one count, for each prescaler setting
    MaxReload,      \* largest reload value
    WTop, Warn,     \* top of the window counter and its warning value
    WdgBatch        \* most cycles of one call of the tick function

Prescalers == DOMAIN TickCycles

ASSUME WatchdogBounds ==
    /\ \A p \in Prescalers : TickCycles[p] \in Nat \ {0}
    /\ \E p \in Prescalers : \A q \in Prescalers : TickCycles[q] <= TickCycles[p]
    /\ MaxReload \in Nat /\ WdgBatch \in Nat \ {0}
    /\ Warn \in Nat \ {0} /\ WTop \in Nat /\ Warn < WTop

VARIABLES
    used,       \* the watchdog that the software of this behaviour uses
    wdt,        \* IWDG or nRF WDT: running, access, counter, reload, pr, accum
    wwdg,       \* window watchdog: clk, wdga, counter, tb, ewi, sr, accum
    wnvic,      \* the watchdog's interrupt is pending
    resetReq,   \* mm_system_request_reset was called
    loaded,     \* history: the value last loaded into the counter in use
    elapsed     \* history: cycles ticked since then while the watchdog runs
wdgVars == <<cpu, used, wdt, wwdg, wnvic, resetReq, loaded, elapsed>>

Smaller(a, b) == IF a < b THEN a ELSE b
Slowest == CHOOSE c \in {TickCycles[p] : p \in Prescalers} :
              \A p \in Prescalers : TickCycles[p] <= c
Fastest == CHOOSE c \in {TickCycles[p] : p \in Prescalers} :
              \A p \in Prescalers : c <= TickCycles[p]

\* History of a load of value v
LoadCounter(v) == loaded' = v /\ elapsed' = 0

-----------------------------------------------------------------------------
(* Independent watchdog *)

\* Mutant of iwdg_apply_key: starting the watchdog does not load the counter.
iwdg_apply_key_Mut(key) ==
    \/ key = "access" /\ wdt' = [wdt EXCEPT !.access = TRUE] /\ UNCHANGED <<loaded, elapsed>>
    \/ key = "refresh" /\ wdt' = [wdt EXCEPT !.counter = wdt.reload] /\ LoadCounter(wdt.reload)
    \/ key = "start" /\ wdt' = [wdt EXCEPT !.running = TRUE, !.access = FALSE]
                     /\ LoadCounter(wdt.reload)

\* KR: 0x5555, 0xAAAA and 0xCCCC; any other key is ignored
iwdg_apply_key(key) ==
    \/ key = "access" /\ wdt' = [wdt EXCEPT !.access = TRUE] /\ UNCHANGED <<loaded, elapsed>>
    \/ key = "refresh" /\ wdt' = [wdt EXCEPT !.counter = wdt.reload] /\ LoadCounter(wdt.reload)
    \/ key = "start" /\ wdt' = [wdt EXCEPT !.running = TRUE, !.access = FALSE,
                                           !.counter = wdt.reload]
                     /\ LoadCounter(wdt.reload)

\* PR and RLR need write access; RLR counts from the next refresh
iwdg_write ==
    /\ used = "wdt" /\ ~resetReq
    /\ \/ \E key \in {"access", "refresh", "start"} : iwdg_apply_key(key)
       \/ /\ wdt.access
          /\ \/ \E p \in Prescalers : wdt' = [wdt EXCEPT !.pr = p]
             \/ \E r \in 0 .. MaxReload : wdt' = [wdt EXCEPT !.reload = r]
          /\ UNCHANGED <<loaded, elapsed>>
    /\ UNCHANGED <<cpu, used, wwdg, wnvic, resetReq>>

\* The loop of watchdog_tick in closed form: whole ticks in accum + n, and
\* the count at which the loop asks for the reset and stops
IwdgTicks(n) == (wdt.accum + n) \div TickCycles[wdt.pr]
IwdgLast == IF wdt.counter = 0 THEN 1 ELSE wdt.counter

IwdgFires(n) == wdt.running /\ IwdgTicks(n) >= IwdgLast

IwdgTicked(n) ==
    LET k == IF IwdgFires(n) THEN IwdgLast ELSE IwdgTicks(n)
    IN  [wdt EXCEPT !.counter = IF @ > k THEN @ - k ELSE 0,
                    !.accum = @ + n - k * TickCycles[wdt.pr]]

-----------------------------------------------------------------------------
(* Window watchdog *)

wwdg_write ==
    /\ used = "wwdg" /\ wwdg.clk /\ ~resetReq
    /\ \/ \E on \in BOOLEAN, c \in 0 .. WTop :
             /\ wwdg' = [wwdg EXCEPT !.wdga = on, !.counter = c]
             /\ LoadCounter(c)
       \/ \E tb \in Prescalers, e \in BOOLEAN :
             /\ wwdg' = [wwdg EXCEPT !.tb = tb, !.ewi = e]
             /\ UNCHANGED <<loaded, elapsed>>
       \/ wwdg' = [wwdg EXCEPT !.sr = FALSE] /\ UNCHANGED <<loaded, elapsed>>
    /\ UNCHANGED <<cpu, used, wdt, wnvic, resetReq>>

WwdgClock ==
    /\ used = "wwdg" /\ ~resetReq
    /\ wwdg' = [wwdg EXCEPT !.clk = ~@]
    /\ UNCHANGED <<cpu, used, wdt, wnvic, resetReq, loaded, elapsed>>

WwdgCounts == wwdg.clk /\ wwdg.counter # 0 /\ wwdg.wdga
WwdgTicks(n) == (wwdg.accum + n) \div TickCycles[wwdg.tb]

\* The counter passes Warn, or reaches the value below it and stops the loop.
\* A counter that starts below Warn only runs down to zero.
WwdgWarns(n) ==
    WwdgCounts /\ wwdg.counter > Warn /\ WwdgTicks(n) >= wwdg.counter - Warn /\ wwdg.ewi
WwdgFires(n) ==
    WwdgCounts /\ wwdg.counter >= Warn /\ WwdgTicks(n) >= wwdg.counter - Warn + 1

WwdgTicked(n) ==
    LET k == IF WwdgFires(n) THEN wwdg.counter - Warn + 1 ELSE WwdgTicks(n)
    IN  IF WwdgCounts
          THEN [wwdg EXCEPT !.counter = IF @ > k THEN @ - k ELSE 0,
                            !.sr = @ \/ WwdgWarns(n),
                            !.accum = @ + n - k * TickCycles[wwdg.tb]]
          ELSE wwdg

-----------------------------------------------------------------------------

\* One call of the tick function with n cycles, both watchdogs in turn
watchdog_tick(n) ==
    /\ ~resetReq
    /\ wwdg' = WwdgTicked(n)
    /\ wdt' = IF wdt.running THEN IwdgTicked(n) ELSE wdt
    /\ wnvic' = (wnvic \/ WwdgWarns(n))
    /\ resetReq' = (WwdgFires(n) \/ IwdgFires(n))
    /\ elapsed' = IF (used = "wdt" /\ wdt.running) \/ (used = "wwdg" /\ WwdgCounts)
                    THEN elapsed + n ELSE elapsed
    /\ UNCHANGED <<cpu, used, loaded>>

stm32l552_watchdog_tick(n) == cpu = "stm32l552" /\ watchdog_tick(n)
stm32h563_watchdog_tick(n) == cpu = "stm32h563" /\ watchdog_tick(n)
stm32u585_watchdog_tick(n) == cpu = "stm32u585" /\ watchdog_tick(n)
stm32l552_iwdg_write == cpu = "stm32l552" /\ iwdg_write
stm32h563_iwdg_write == cpu = "stm32h563" /\ iwdg_write
stm32u585_iwdg_write == cpu = "stm32u585" /\ iwdg_write
stm32l552_wwdg_write == cpu = "stm32l552" /\ wwdg_write
stm32h563_wwdg_write == cpu = "stm32h563" /\ wwdg_write
stm32u585_wwdg_write == cpu = "stm32u585" /\ wwdg_write

-----------------------------------------------------------------------------
(* The nRF5340's WDT: `access' is INTENSET, `reload' is CRV *)

nrf5340_wdt_write ==
    /\ cpu = "nrf5340" /\ ~resetReq
    /\ \/ /\ wdt' = [wdt EXCEPT !.running = TRUE, !.counter = wdt.reload]   \* TASKS_START
          /\ LoadCounter(wdt.reload)
       \/ wdt' = [wdt EXCEPT !.running = FALSE] /\ UNCHANGED <<loaded, elapsed>>
       \/ wdt' = [wdt EXCEPT !.counter = wdt.reload] /\ LoadCounter(wdt.reload)    \* RR0
       \/ \E r \in 0 .. MaxReload : wdt' = [wdt EXCEPT !.reload = r]        \* CRV
                                    /\ UNCHANGED <<loaded, elapsed>>
       \/ \E e \in BOOLEAN : wdt' = [wdt EXCEPT !.access = e] /\ UNCHANGED <<loaded, elapsed>>
    /\ UNCHANGED <<cpu, used, wwdg, wnvic, resetReq>>

nrf5340_wdt_tick(n) ==
    LET ticks == (wdt.accum + n) \div TickCycles[wdt.pr]
        fires == ticks > 0 /\ wdt.counter <= ticks
    IN  /\ cpu = "nrf5340" /\ wdt.running /\ ~resetReq
        /\ wdt' = [wdt EXCEPT !.accum = (@ + n) % TickCycles[wdt.pr],
                              !.counter = IF fires THEN 0 ELSE @ - ticks]
        /\ resetReq' = fires
        /\ wnvic' = (wnvic \/ (fires /\ wdt.access))
        /\ elapsed' = elapsed + n
        /\ UNCHANGED <<cpu, used, wwdg, loaded>>

-----------------------------------------------------------------------------

WdtAtReset == [running |-> FALSE, access |-> FALSE, counter |-> 0, reload |-> MaxReload,
               pr |-> CHOOSE p \in Prescalers : TickCycles[p] = Fastest, accum |-> 0]
WwdgAtReset == [clk |-> FALSE, wdga |-> FALSE, counter |-> WTop,
                tb |-> CHOOSE p \in Prescalers : TickCycles[p] = Fastest,
                ewi |-> FALSE, sr |-> FALSE, accum |-> 0]

WdgInit ==
    /\ TargetInit
    /\ used \in IF cpu \in Stm32 THEN {"wdt", "wwdg"} ELSE {"wdt"}
    /\ wdt = WdtAtReset /\ wwdg = WwdgAtReset
    /\ wnvic = FALSE /\ resetReq = FALSE /\ loaded = 0 /\ elapsed = 0

WdgIrqTaken ==
    /\ wnvic /\ ~resetReq
    /\ wnvic' = FALSE
    /\ UNCHANGED <<cpu, used, wdt, wwdg, resetReq, loaded, elapsed>>

\* The run loop sees the request, leaves the loop and boots again
WdgReset ==
    /\ resetReq
    /\ wdt' = WdtAtReset /\ wwdg' = WwdgAtReset
    /\ wnvic' = FALSE /\ resetReq' = FALSE /\ loaded' = 0 /\ elapsed' = 0
    /\ UNCHANGED <<cpu, used>>

WdgNext ==
    \/ \E n \in 1 .. WdgBatch : stm32l552_watchdog_tick(n)
    \/ \E n \in 1 .. WdgBatch : stm32h563_watchdog_tick(n)
    \/ \E n \in 1 .. WdgBatch : stm32u585_watchdog_tick(n)
    \/ \E n \in 1 .. WdgBatch : nrf5340_wdt_tick(n)
    \/ stm32l552_iwdg_write \/ stm32h563_iwdg_write \/ stm32u585_iwdg_write
    \/ stm32l552_wwdg_write \/ stm32h563_wwdg_write \/ stm32u585_wwdg_write
    \/ WwdgClock
    \/ nrf5340_wdt_write
    \/ WdgIrqTaken
    \/ WdgReset

WdgSpec == WdgInit /\ [][WdgNext]_wdgVars

-----------------------------------------------------------------------------
(* Properties *)

\* Counters stay within their registers and a fraction of a tick is less than a tick.
WdgTypeOK ==
    /\ wdt.counter \in 0 .. MaxReload /\ wdt.reload \in 0 .. MaxReload
    /\ wdt.accum \in 0 .. Slowest + WdgBatch
    /\ wwdg.counter \in 0 .. WTop /\ wwdg.accum \in 0 .. Slowest + WdgBatch
    /\ loaded \in 0 .. (IF MaxReload > WTop THEN MaxReload ELSE WTop)

\* The reset comes on time, whatever the batches, refreshes and prescaler changes.
\* Never early: when it is asked for, the loaded number of counts at the fastest
\* prescaler has passed since the load, less the one count that the fraction kept
\* across a refresh may shorten.  Never late: without a refresh it has been asked
\* for once that number of counts at the slowest prescaler has passed; the window
\* watchdog must have been loaded above its reset value (watchdog_tick,
\* iwdg_apply_key, mm_nrf5340_wdt_tick).
WatchdogOnTime ==
    LET counts == IF used = "wdt" THEN loaded ELSE loaded - Warn + 1
        least == IF counts = 0 THEN 1 ELSE counts
        counting == IF used = "wdt" THEN wdt.running ELSE loaded >= Warn
    IN  IF resetReq THEN elapsed + Slowest - 1 >= counts * Fastest
                    ELSE counting => elapsed < least * Slowest
=============================================================================
