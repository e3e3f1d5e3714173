----------------------------- MODULE ClockTree ------------------------------
(***************************************************************************)
(* Clock and power control of the STM32 targets (one copy per target, with *)
(* its own clock sources) and the nRF5340's CLOCK.                         *)
(*                                                                         *)
(* The reset and clock controller keeps cpu_hz next to the registers it is *)
(* computed from.  It copies a store of any size at any offset into them,  *)
(* and recomputes cpu_hz for the stores that begin at one of a few         *)
(* registers; the run loop, SysTick and the watchdogs use the stored       *)
(* value.  Frequencies are in units of 100 kHz.                            *)
(***************************************************************************)
EXTENDS Target, Integers

\* FieldValues[c] gives, for each field of the registers of target c, the values
\* that software stores in it
CONSTANT FieldValues

VARIABLES
    rcc,        \* on, ready: the PLL's, HFCLK's on the nRF5340; the other fields below
    cpuHz,      \* rcc_state.cpu_hz
    partial,    \* history: a store that begins at none of the registers that
                \* recompute cpuHz changed one of them after the last that does
    vos,        \* PWR: VOSCR.VOS, and ACTVOS of VOSSR
    actvos
rccVars == <<rcc, cpuHz, partial>>
pwrVars == <<vos, actvos>>
clockVars == <<cpu, rccVars, pwrVars>>

\* Each register that rcc_write recomputes for, as the fields in each of its four bytes
L552Registers ==
    [CR      |-> <<{"msi"}, {}, {}, {"on", "ready"}>>,
     CFGR    |-> <<{"sw", "sws", "hpre"}, {}, {}, {}>>,
     PLLCFGR |-> <<{"pllSrc", "divm"}, {"n"}, {}, {"pllOut", "p"}>>]
H563Registers ==
    [CR       |-> <<{}, {}, {}, {"on", "ready"}>>,
     CFGR1    |-> <<{"sw", "sws"}, {}, {}, {}>>,
     CFGR2    |-> <<{"hpre"}, {}, {}, {}>>,
     PLL1CFGR |-> <<{"pllSrc"}, {"divm"}, {}, {}>>,
     PLL1DIVR |-> <<{"n"}, {"p"}, {}, {}>>]
U585Registers == H563Registers

RccFields == {"on", "ready", "msi", "sw", "sws", "hpre", "pllSrc", "divm", "n", "p", "pllOut"}

-----------------------------------------------------------------------------
(* The clock frequencies, as functions of the registers *)

\* rcc_msi_hz: settings above 11 read as range 6
MsiHz(r) ==
    LET ranges == <<1, 2, 4, 8, 10, 20, 40, 80, 160, 240, 320, 480>>
    IN  ranges[IF r.msi >= 12 THEN 7 ELSE r.msi + 1]

\* rcc_pll_p_clk and rcc_pll1_p_clk: zero when the input or a divider is
\* missing.  Only the l552 tests PLLREN, here `pllOut'.
PllIn(c, r) ==
    CASE r.pllSrc = 1 -> IF c = "stm32l552" THEN MsiHz(r) ELSE 640
      [] r.pllSrc = 2 -> IF c = "stm32l552" THEN 160 ELSE 40
      [] r.pllSrc = 3 -> 80
      [] OTHER -> 0

PllHz(c, r) ==
    IF r.divm = 0 \/ (c = "stm32l552" /\ r.pllOut = 0) THEN 0
    ELSE IF c = "stm32l552" THEN ((PllIn(c, r) \div r.divm) * r.n) \div (2 * (r.p + 1))
    ELSE ((PllIn(c, r) \div r.divm) * (r.n + 1)) \div (r.p + 1)

\* The clock that SW selects, without the bus prescaler: the l552's SW has two
\* bits, the others' three, and nothing for the upper four values
SysHz(c, r) ==
    CASE r.sw = 0 -> IF c = "stm32l552" THEN MsiHz(r) ELSE 640
      [] r.sw = 1 -> IF c = "stm32l552" THEN 160 ELSE 40
      [] r.sw = 2 -> 80
      [] r.sw = 3 -> PllHz(c, r)
      [] OTHER -> 0

\* HPRE values from 8 divide by 2, 4, 8, 16, 64, 128, 256 and 512
HpreDiv(hpre) ==
    IF hpre < 8 THEN 1 ELSE <<2, 4, 8, 16, 64, 128, 256, 512>>[hpre - 7]

\* The last step of rcc_update_sysclk: a clock that is there is never zero
BusHz(sys, hpre) ==
    IF sys = 0 THEN 0
    ELSE IF sys \div HpreDiv(hpre) = 0 THEN 1 ELSE sys \div HpreDiv(hpre)

\* rcc_update_ready: the ready bits follow the enable bits at once
rcc_update_ready(r) == [r EXCEPT !.ready = r.on]

\* rcc_update_sysclk of each target; SWS follows SW
stm32l552_rcc_update_sysclk(r) == /\ cpuHz' = BusHz(SysHz("stm32l552", r), r.hpre)
                                  /\ rcc' = [r EXCEPT !.sws = r.sw]
stm32h563_rcc_update_sysclk(r) == /\ cpuHz' = BusHz(SysHz("stm32h563", r), r.hpre)
                                  /\ rcc' = [r EXCEPT !.sws = r.sw]
stm32u585_rcc_update_sysclk(r) == /\ cpuHz' = BusHz(SysHz("stm32u585", r), r.hpre)
                                  /\ rcc' = [r EXCEPT !.sws = r.sw]

-----------------------------------------------------------------------------
(* Stores to the registers *)

\* What a store can put in some of the fields
Values(c, fields) == {v \in [fields -> UNION {FieldValues[c][x] : x \in fields}] :
                        \A x \in fields : v[x] \in FieldValues[c][x]}

\* The stores to registers regs of target c: `at' says that the store begins at the register.  One
\* that begins earlier reaches the first bytes too, one that begins inside does not.
\* A store that spans two registers counts as one to each.
Stores(c, regs) ==
    UNION {[reg : {x}, at : {first = 1, FALSE},
            v : Values(c, UNION {regs[x][k] : k \in first .. last})] :
             x \in DOMAIN regs, first \in 1 .. 4, last \in 1 .. 4}

L552Stores == Stores("stm32l552", L552Registers)
H563Stores == Stores("stm32h563", H563Registers)
U585Stores == Stores("stm32u585", U585Registers)

\* memcpy into the registers, and the ready bits after a store to CR
Copied(w) == [x \in DOMAIN rcc |-> IF x \in DOMAIN w.v THEN w.v[x] ELSE rcc[x]]
Updated(w) == IF w.reg = "CR" THEN rcc_update_ready(Copied(w)) ELSE Copied(w)

\* A store that begins at none of the registers stops at the memcpy
CopyOnly(w) == ~w.at /\ rcc' = Copied(w) /\ partial' = TRUE /\ UNCHANGED cpuHz
Recomputing(w) == w.at /\ partial' = FALSE

stm32l552_rcc_write ==
    /\ cpu = "stm32l552"
    /\ \E w \in L552Stores :
          \/ CopyOnly(w)
          \/ Recomputing(w) /\ stm32l552_rcc_update_sysclk(Updated(w))
    /\ UNCHANGED <<cpu, pwrVars>>

\* Mutant of stm32h563_rcc_write: the divider register is missing from the list.
stm32h563_rcc_write_Mut ==
    /\ cpu = "stm32h563"
    /\ \E w \in H563Stores :
          \/ CopyOnly(w)
          \/ Recomputing(w) /\ IF w.reg = "PLL1DIVR" THEN rcc' = Copied(w) /\ UNCHANGED cpuHz
                               ELSE stm32h563_rcc_update_sysclk(Updated(w))
    /\ UNCHANGED <<cpu, pwrVars>>

stm32h563_rcc_write ==
    /\ cpu = "stm32h563"
    /\ \E w \in H563Stores :
          \/ CopyOnly(w)
          \/ Recomputing(w) /\ stm32h563_rcc_update_sysclk(Updated(w))
    /\ UNCHANGED <<cpu, pwrVars>>

stm32u585_rcc_write ==
    /\ cpu = "stm32u585"
    /\ \E w \in U585Stores :
          \/ CopyOnly(w)
          \/ Recomputing(w) /\ stm32u585_rcc_update_sysclk(Updated(w))
    /\ UNCHANGED <<cpu, pwrVars>>

\* pwr_update_vos clears bits 13 and 14 of VOSSR and ORs the two-bit VOS in at
\* bit 14: bit 15, the upper bit of ACTVOS, is never cleared
BitOr(a, b) == IF a \div 2 = 1 \/ b \div 2 = 1 THEN 2 + (IF a % 2 = 1 \/ b % 2 = 1 THEN 1 ELSE 0)
               ELSE IF a % 2 = 1 \/ b % 2 = 1 THEN 1 ELSE 0
pwr_update_vos(v) ==
    /\ vos' = v
    /\ actvos' = BitOr(2 * (actvos \div 2), v)


\* A store to VOSCR, or to VOSSR, which keeps what is stored until the next one
pwr_write(v) == /\ pwr_update_vos(v) \/ (actvos' = v /\ UNCHANGED vos)
                /\ UNCHANGED <<cpu, rccVars>>

stm32l552_pwr_write(v) == cpu = "stm32l552" /\ pwr_write(v)
stm32h563_pwr_write(v) == cpu = "stm32h563" /\ pwr_write(v)
stm32u585_pwr_write(v) == cpu = "stm32u585" /\ pwr_write(v)

-----------------------------------------------------------------------------
(* The nRF5340's CLOCK: HFCLK on and its started event *)

nrf5340_clock_write ==
    /\ cpu = "nrf5340"
    /\ \/ rcc' = [rcc EXCEPT !.on = 1, !.ready = 1]     \* TASKS_HFCLKSTART
       \/ rcc' = [rcc EXCEPT !.on = 0]                  \* TASKS_HFCLKSTOP
       \/ rcc' = [rcc EXCEPT !.ready = 0]               \* EVENTS_HFCLKSTARTED
    /\ UNCHANGED <<cpu, cpuHz, partial, pwrVars>>

-----------------------------------------------------------------------------
(* Reset: the targets start on their first oscillator *)

RccAtReset == [x \in RccFields |-> 0]
HzAtReset == CASE cpu \in Stm32 -> SysHz(cpu, RccAtReset)
               [] cpu = "nrf5340" -> 1280
               [] OTHER -> 480

ClockInit ==
    /\ TargetInit
    /\ rcc = RccAtReset /\ cpuHz = HzAtReset /\ partial = FALSE
    /\ vos = 0 /\ actvos = 0

stm32_mmio_reset ==
    /\ cpu \in Stm32
    /\ rcc' = RccAtReset /\ cpuHz' = HzAtReset /\ partial' = FALSE
    /\ vos' = 0 /\ actvos' = 0
    /\ UNCHANGED cpu

RccNext ==
    \/ stm32l552_rcc_write \/ stm32h563_rcc_write \/ stm32u585_rcc_write
    \/ nrf5340_clock_write

PwrNext ==
    \/ \E v \in 0 .. 3 : stm32l552_pwr_write(v)
    \/ \E v \in 0 .. 3 : stm32h563_pwr_write(v)
    \/ \E v \in 0 .. 3 : stm32u585_pwr_write(v)

ClockNext == RccNext \/ PwrNext \/ stm32_mmio_reset

ClockSpec == ClockInit /\ [][ClockNext]_clockVars

-----------------------------------------------------------------------------
(* Properties *)

\* After a store that begins at one of the registers in rcc_write's list, and
\* until one that changes them from elsewhere, the stored frequency is the one
\* the registers give now and SWS reads back SW, whatever was stored before and
\* in whatever sizes and order.
CpuHzIsCurrent ==
    cpu \in Stm32 /\ ~partial =>
        cpuHz = BusHz(SysHz(cpu, rcc), rcc.hpre) /\ rcc.sws = rcc.sw

=============================================================================
