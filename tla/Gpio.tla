-------------------------------- MODULE Gpio --------------------------------
(***************************************************************************)
(* One GPIO bank and the edge detector behind it: bank and EXTI of the     *)
(* STM32 targets, the nRF5340's P0/P1, GPIO and PORT of the mcxw71c.       *)
(* There are no external pins: the input register follows the output       *)
(* register, and edges are made by software.                               *)
(*                                                                         *)
(* A register is the set of the pins whose bit is one (MODER: of the pins  *)
(* whose two-bit field is not zero).  Accesses are word accesses, but for  *)
(* the shorter stores to the mcxw71c's flags.                              *)
(***************************************************************************)
EXTENDS Target, Integers, FiniteSets

CONSTANTS
    Pins,           \* pin numbers of the bank
    ExtiConfigs     \* configurations that software writes to a target's edge detector

ASSUME PinNumbers == Pins \subseteq 0 .. 15

EdgeConfig == [imr : SUBSET Pins, rtsr : SUBSET Pins, ftsr : SUBSET Pins, here : SUBSET Pins]
ASSUME ExtiConfigsAreEdgeConfigs == \A c \in Targets : ExtiConfigs[c] \subseteq EdgeConfig

VARIABLES
    gclk,       \* the bank's clock is on (mcxw71c: and its reset is released)
    odr, idr,   \* output and input data (OUT/IN, PDOR/PDIR)
    moder,      \* pins with a mode (DIR, PDDR)
    seccfgr,    \* pins that belong to the Secure state
    edges,      \* IMR, RTSR, FTSR and the lines EXTICR maps to this bank;
                \* EDIER of the mcxw71c is its `rtsr', and `here' is empty for
                \* its bank D, which has no PORT
    rpr, fpr,   \* EXTI rising and falling pending (ISFR and EDFR of the mcxw71c)
    gnvic,      \* this device's lines pending in the NVIC
    unraised    \* history: ISFR was stored to by a short store, which gpio_write only
                \* copies, after the last gpio_raise_irq of the bank
gpioVars == <<cpu, gclk, odr, idr, moder, seccfgr, edges, rpr, fpr, gnvic, unraised>>

NoEdges == [imr |-> {}, rtsr |-> {}, ftsr |-> {}, here |-> Pins]

-----------------------------------------------------------------------------
(* EXTI *)

\* exti_raise_irq, or gpio_raise_irq with both halves of the bank
ExtiLine(p) == 11 + p
McxLine(p) == IF p < 16 THEN 59 ELSE 60

\* exti_gpio_update: the lines on which a change of the outputs is an edge
Rising(old, new) == (new \ old) \cap edges.here \cap edges.rtsr
Falling(old, new) == (old \ new) \cap edges.here \cap edges.ftsr

Raise(lines) == gnvic' = gnvic \cup {ExtiLine(p) : p \in lines \cap edges.imr}

\* gpio_sync_odr with exti_gpio_update: the input and the edge detector follow
\* a change of the outputs
SyncOdr(new) ==
    /\ odr' = new
    /\ idr' = IF new = odr THEN idr ELSE new
    /\ rpr' = rpr \cup Rising(odr, new)
    /\ fpr' = fpr \cup Falling(odr, new)
    /\ Raise(Rising(odr, new) \cup Falling(odr, new))

exti_write ==
    /\ \/ \E lines \in SUBSET Pins :          \* SWIER1
            rpr' = rpr \cup lines /\ Raise(lines) /\ UNCHANGED <<edges, fpr>>
       \/ \E lines \in SUBSET Pins :          \* RPR1, FPR1: write one to clear
            \/ rpr' = rpr \ lines /\ UNCHANGED <<edges, fpr, gnvic>>
            \/ fpr' = fpr \ lines /\ UNCHANGED <<edges, rpr, gnvic>>
       \/ edges' \in ExtiConfigs[cpu] /\ UNCHANGED <<rpr, fpr, gnvic>>
    /\ UNCHANGED <<cpu, gclk, odr, idr, moder, seccfgr, unraised>>

-----------------------------------------------------------------------------
(* The STM32 bank.  alias is the one the access came through. *)

\* Pins the alias may touch
Allowed(alias) == IF alias = Secure THEN Pins ELSE Pins \ seccfgr

\* Pins whose MODER field survives the mask m2 | (m2 << 16) of gpio_write
ModerMask(alias) ==
    IF alias = Secure THEN Pins
    ELSE {p \in Pins : p \in Allowed(alias) \/ p - 8 \in Allowed(alias)}

\* Mutant of gpio_bsrr: the edge detector is not told.
gpio_bsrr_Mut(alias, set, reset) ==
    /\ odr' = (odr \cup (set \cap Allowed(alias))) \ (reset \cap Allowed(alias))
    /\ idr' = odr'
    /\ UNCHANGED <<moder, seccfgr, rpr, fpr, gnvic>>

\* BSRR and BRR: the Non-secure alias changes its own pins only
gpio_bsrr(alias, set, reset) ==
    /\ SyncOdr((odr \cup (set \cap Allowed(alias))) \ (reset \cap Allowed(alias)))
    /\ UNCHANGED <<moder, seccfgr>>

\* The other registers: the value is masked and the whole register replaced
gpio_reg(alias, reg, v) ==
    \/ reg = "ODR" /\ SyncOdr(v \cap Allowed(alias)) /\ UNCHANGED <<moder, seccfgr>>
    \/ reg = "IDR" /\ idr' = v \cap Allowed(alias)
                   /\ UNCHANGED <<odr, moder, seccfgr, rpr, fpr, gnvic>>
    \/ reg = "MODER" /\ moder' = v \cap ModerMask(alias)
                     /\ UNCHANGED <<odr, idr, seccfgr, rpr, fpr, gnvic>>
    \/ reg = "SECCFGR" /\ seccfgr' = (IF alias = Secure THEN v ELSE seccfgr)
                       /\ UNCHANGED <<odr, idr, moder, rpr, fpr, gnvic>>

\* Without its clock the bank ignores writes
gpio_write(alias) ==
    /\ gclk
    /\ \/ \E set, reset \in SUBSET Pins : gpio_bsrr(alias, set, reset)
       \/ \E reg \in {"ODR", "IDR", "MODER", "SECCFGR"}, v \in SUBSET Pins : gpio_reg(alias, reg, v)
    /\ UNCHANGED <<cpu, gclk, edges, unraised>>

stm32l552_gpio_write(alias) == cpu = "stm32l552" /\ gpio_write(alias)
stm32h563_gpio_write(alias) == cpu = "stm32h563" /\ gpio_write(alias)
stm32u585_gpio_write(alias) == cpu = "stm32u585" /\ gpio_write(alias)
stm32l552_exti_write == cpu = "stm32l552" /\ exti_write
stm32h563_exti_write == cpu = "stm32h563" /\ exti_write
stm32u585_exti_write == cpu = "stm32u585" /\ exti_write

\* A register of the clock controller switches the bank's clock
gpio_clock_enabled ==
    /\ gclk' = ~gclk
    /\ UNCHANGED <<cpu, odr, idr, moder, seccfgr, edges, rpr, fpr, gnvic, unraised>>

-----------------------------------------------------------------------------
(* The nRF5340: OUT, OUTSET, OUTCLR and DIR; no clock, no edges *)

nrf5340_gpio_write ==
    /\ cpu = "nrf5340"
    /\ \/ \E v \in SUBSET Pins : /\ odr' \in {v, odr \cup v, odr \ v}
                                 /\ idr' = odr'
                                 /\ UNCHANGED moder
       \/ moder' \in SUBSET Pins /\ UNCHANGED <<odr, idr>>
    /\ UNCHANGED <<cpu, gclk, seccfgr, edges, rpr, fpr, gnvic, unraised>>

-----------------------------------------------------------------------------
(* The mcxw71c *)

\* gpio_raise_irq: the interrupt lines follow the flags, both ways
McxIrq(flags) == {McxLine(p) : p \in flags}

\* Banks A to C have a PORT with EDIER and EDFR; bank D has none, nor a clock gate
HasPort == edges.here # {}

\* gpio_sync_pdir and gpio_update_edges
McxDrive(new) ==
    LET changed == (new \ idr) \cup (idr \ new)
        fired == IF HasPort THEN changed \cap edges.rtsr ELSE changed
    IN  /\ odr' = new
        /\ idr' = new
        /\ rpr' = rpr \cup fired
        /\ fpr' = IF HasPort THEN fpr \cup fired ELSE fpr
        /\ gnvic' = IF fired = {} THEN gnvic ELSE McxIrq(rpr')
        /\ unraised' = (unraised /\ fired = {})

\* Mutant of McxClear: clearing flags leaves the interrupt as it is.
McxClear_Mut(v) ==
    /\ rpr' = rpr \ v
    /\ unraised' = FALSE
    /\ UNCHANGED gnvic

\* ISFR: flags are cleared by writing ones
McxClear(v) ==
    /\ rpr' = rpr \ v
    /\ gnvic' = McxIrq(rpr')
    /\ unraised' = FALSE

\* PDOR, PSOR, PCOR, PTOR; ISFR; PDDR and PDIR, and ISFR by a short store, are
\* stored as written
mcxw71c_gpio_write ==
    /\ cpu = "mcxw71c" /\ gclk
    /\ \E v \in SUBSET Pins :
         \/ \E new \in {v, odr \cup v, odr \ v, (odr \ v) \cup (v \ odr)} :
               McxDrive(new) /\ UNCHANGED moder
         \/ McxClear(v) /\ UNCHANGED <<odr, idr, fpr, moder>>
         \/ moder' = v /\ UNCHANGED <<odr, idr, rpr, fpr, gnvic, unraised>>
         \/ idr' = v /\ UNCHANGED <<odr, moder, rpr, fpr, gnvic, unraised>>
         \/ rpr' = v /\ unraised' = TRUE /\ UNCHANGED <<odr, idr, moder, fpr, gnvic>>
    /\ UNCHANGED <<cpu, gclk, seccfgr, edges>>

\* PORT: EDFR is cleared by writing ones, EDIER is plain
mcxw71c_port_write ==
    /\ cpu = "mcxw71c" /\ gclk /\ HasPort
    /\ \/ \E v \in SUBSET Pins : fpr' = fpr \ v /\ UNCHANGED edges
       \/ \E v \in SUBSET Pins : edges' = [edges EXCEPT !.rtsr = v] /\ UNCHANGED fpr
    /\ UNCHANGED <<cpu, gclk, odr, idr, moder, seccfgr, rpr, gnvic, unraised>>

\* mrcc_write, with the clock and reset-release bits of GPIO and PORT together
mcxw71c_mrcc_write ==
    /\ cpu = "mcxw71c" /\ HasPort
    /\ gpio_clock_enabled

stm32_rcc_gpio_enable ==
    /\ cpu \in Stm32
    /\ gpio_clock_enabled

-----------------------------------------------------------------------------

\* The core takes one of the pending interrupts
GpioIrqTaken ==
    /\ \E irq \in gnvic : gnvic' = gnvic \ {irq}
    /\ UNCHANGED <<cpu, gclk, odr, idr, moder, seccfgr, edges, rpr, fpr, unraised>>

GpioAtReset ==
    /\ edges = NoEdges \/ (cpu = "mcxw71c" /\ edges = [NoEdges EXCEPT !.here = {}])
    /\ gclk = (edges.here = {})
    /\ odr = {} /\ idr = {} /\ moder = {} /\ seccfgr = {}
    /\ rpr = {} /\ fpr = {} /\ gnvic = {} /\ unraised = FALSE

GpioInit == TargetInit /\ GpioAtReset

\* mmio_reset clears the devices and mm_nvic_init the pending lines
GpioReset ==
    /\ edges' = [NoEdges EXCEPT !.here = IF cpu = "mcxw71c" THEN edges.here ELSE Pins]
    /\ gclk' = (edges'.here = {})
    /\ odr' = {} /\ idr' = {} /\ moder' = {} /\ seccfgr' = {}
    /\ rpr' = {} /\ fpr' = {} /\ gnvic' = {} /\ unraised' = FALSE
    /\ UNCHANGED cpu

GpioNext ==
    \/ \E alias \in SecStates : stm32l552_gpio_write(alias)
    \/ \E alias \in SecStates : stm32h563_gpio_write(alias)
    \/ \E alias \in SecStates : stm32u585_gpio_write(alias)
    \/ stm32l552_exti_write \/ stm32h563_exti_write \/ stm32u585_exti_write
    \/ stm32_rcc_gpio_enable
    \/ nrf5340_gpio_write
    \/ mcxw71c_gpio_write \/ mcxw71c_port_write \/ mcxw71c_mrcc_write
    \/ GpioIrqTaken
    \/ GpioReset

GpioSpec == GpioInit /\ [][GpioNext]_gpioVars

-----------------------------------------------------------------------------
(* Properties *)

\* Every register of the bank holds pins of the bank.
GpioTypeOK ==
    /\ cpu \in Targets /\ gclk \in BOOLEAN
    /\ \A reg \in {odr, idr, moder, seccfgr, rpr, fpr} : reg \subseteq Pins
    /\ edges \in EdgeConfig /\ unraised \in BOOLEAN
    /\ gnvic \subseteq 11 .. 66

\* Whichever register, alias and security setting changed an output, a line that
\* the edge detector watches records the edge, and an unmasked one reaches the
\* NVIC (gpio_write, gpio_sync_odr, exti_gpio_update).  A store to the upper bytes
\* of ODR, which gpio_write copies without a look at the edges, is left out.
EdgesAreSeen ==
    [][(cpu \in Stm32 /\ edges' = edges) =>
         \A p \in edges.here :
            /\ p \in (odr' \ odr) \cap edges.rtsr => p \in rpr'
            /\ p \in (odr \ odr') \cap edges.ftsr => p \in fpr'
            /\ p \in edges.imr /\ (p \in (odr' \ odr) \cap edges.rtsr \/ p \in (odr \ odr') \cap edges.ftsr)
                 => ExtiLine(p) \in gnvic']_gpioVars

\* The mcxw71c's GPIO interrupt is pending only while a flag explains it, however
\* flags, levels, detectors and clocks were changed since (gpio_raise_irq is
\* called for a new edge and for a cleared flag, not when a detector changes).
\* Not claimed while flags are stored that no gpio_raise_irq has seen.
McxIrqHasCause == cpu = "mcxw71c" /\ ~unraised => gnvic \subseteq McxIrq(rpr)
=============================================================================
