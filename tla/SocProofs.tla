----------------------------- MODULE SocProofs ------------------------------
(***************************************************************************)
(* Theorems about the peripherals inside the targets and about the memory  *)
(* they are reached through.  The parts share nothing but the selected     *)
(* target, so each has an inductive invariant of its own, and each theorem *)
(* is about that part's specification.                                     *)
(***************************************************************************)
EXTENDS Rng, Gpio, ClockTree, Memory, Timers, Watchdog, Induction

-----------------------------------------------------------------------------
(* The random number generator: no number is delivered twice, however many are drawn. *)

\* Only the numbers matter, and which target reads them.
RngInv ==
    /\ draws \in Nat /\ dr \in 0 .. draws /\ taken \in 0 .. draws
    /\ HeldDrawIsUnused

USE DEF Stm32, RngInv, HeldDrawIsUnused

\* The generator starts with no number held.
LEMMA RngInvInit == RngInit => RngInv
  BY DEF RngInit, RngAtReset

\* Drawing: rng_fill gives a number newer than any that was read.
LEMMA FillIsNew ==
  ASSUME RngInv, Fill
  PROVE  draws' \in Nat /\ draws < draws' /\ dr' = draws'
  BY DEF Fill

\* Reading the status may draw a number, which is held.
LEMMA ReadSrStep ==
  ASSUME RngInv, NEW alias, rng_read_sr(alias)
  PROVE  RngInv'
  <1>1. CASE drValid
    BY <1>1 DEF rng_read_sr, Keep
  <1>2. CASE ~drValid
    <2>1. Fill
      BY <1>2 DEF rng_read_sr
    <2>. QED
      BY <2>1, FillIsNew DEF rng_read_sr
  <1>. QED
    BY <1>1, <1>2

\* Reading the data takes the number held.
LEMMA ReadDrStep ==
  ASSUME RngInv, NEW alias, rng_read_dr(alias)
  PROVE  RngInv'
  <1>1. CASE drValid
    BY <1>1 DEF rng_read_dr, Keep
  <1>2. CASE ~drValid
    <2>1. Fill
      BY <1>2 DEF rng_read_dr
    <2>. QED
      BY <2>1, FillIsNew DEF rng_read_dr
  <1>. QED
    BY <1>1, <1>2

\* Writing the control register takes no number.
LEMMA WriteCrStep ==
  ASSUME RngInv, NEW alias, NEW en, NEW irq, rng_write_cr(alias, en, irq)
  PROVE  RngInv'
  BY DEF rng_write_cr

\* Every step keeps the invariant.
LEMMA RngInvStep == RngInv /\ [RngNext]_rngVars => RngInv'
  <1>. SUFFICES ASSUME RngInv, [RngNext]_rngVars
                PROVE  RngInv'
    OBVIOUS
  <1>1. ASSUME NEW alias \in SecStates,
               stm32l552_rng_read(alias) \/ stm32h563_rng_read(alias)
                 \/ stm32u585_rng_read(alias)
        PROVE  RngInv'
    <2>1. rng_read_sr(alias) \/ rng_read_dr(alias)
      BY <1>1 DEF stm32l552_rng_read, stm32h563_rng_read, stm32u585_rng_read
    <2>. QED
      BY <2>1, ReadSrStep, ReadDrStep
  <1>2. ASSUME NEW alias \in SecStates, NEW en \in BOOLEAN, NEW irq \in BOOLEAN,
               \/ stm32l552_rng_write(alias, en, irq)
               \/ stm32h563_rng_write(alias, en, irq)
               \/ stm32u585_rng_write(alias, en, irq)
        PROVE  RngInv'
    <2>1. rng_write_cr(alias, en, irq)
      BY <1>2 DEF stm32l552_rng_write, stm32h563_rng_write, stm32u585_rng_write
    <2>. QED
      BY <2>1, WriteCrStep
  <1>3. CASE RngGate
    BY <1>3 DEF RngGate
  <1>4. CASE nrf5340_rng_read
    BY <1>4 DEF nrf5340_rng_read
  <1>5. CASE nrf5340_rng_write
    BY <1>5 DEF nrf5340_rng_write
  <1>6. CASE RngIrqTaken
    BY <1>6 DEF RngIrqTaken
  <1>7. CASE RngReset
    BY <1>7 DEF RngReset
  <1>8. CASE UNCHANGED rngVars
    BY <1>8 DEF rngVars
  <1>. QED
    BY <1>1, <1>2, <1>3, <1>4, <1>5, <1>6, <1>7, <1>8 DEF RngNext

(***************************************************************************)
(* A number that the generator holds ready has not been returned by any    *)
(* read of DR, and is newer than every one that was (rng_read, rng_fill,   *)
(* rng_write).                                                             *)
(***************************************************************************)
THEOREM HeldDrawIsUnusedCorrect == RngSpec => []HeldDrawIsUnused
  <1>1. RngInv => HeldDrawIsUnused
    OBVIOUS
  <1>. QED
    BY RngInvInit, RngInvStep, <1>1, PTL DEF RngSpec

HIDE DEF Stm32, RngInv, HeldDrawIsUnused

-----------------------------------------------------------------------------
(* The edge detectors, for banks of any set of pins. *)

\* A write of one of the STM32 banks reaches the detector through gpio_sync_odr,
\* or leaves the outputs alone.
LEMMA WriteSyncs ==
  ASSUME NEW alias, gpio_write(alias)
  PROVE  (\E new : SyncOdr(new)) \/ odr' = odr
  <1>1. ASSUME NEW set, NEW reset, gpio_bsrr(alias, set, reset)
        PROVE  \E new : SyncOdr(new)
    BY <1>1 DEF gpio_bsrr
  <1>2. ASSUME NEW reg, NEW v, gpio_reg(alias, reg, v)
        PROVE  (\E new : SyncOdr(new)) \/ odr' = odr
    BY <1>2 DEF gpio_reg
  <1>. QED
    BY <1>1, <1>2 DEF gpio_write

\* One step of EdgesAreSeen.
Seen ==
    (cpu \in Stm32 /\ edges' = edges) =>
       \A p \in edges.here :
          /\ p \in (odr' \ odr) \cap edges.rtsr => p \in rpr'
          /\ p \in (odr \ odr') \cap edges.ftsr => p \in fpr'
          /\ p \in edges.imr /\ (p \in (odr' \ odr) \cap edges.rtsr \/ p \in (odr \ odr') \cap edges.ftsr)
               => ExtiLine(p) \in gnvic'

\* A change of the output register is shown to the edge detectors.
LEMMA SyncIsSeen ==
  ASSUME NEW new, SyncOdr(new)
  PROVE  Seen
  <1>1. odr' = new
    BY DEF SyncOdr
  <1>2. ASSUME NEW p \in edges.here
        PROVE  /\ p \in (odr' \ odr) \cap edges.rtsr => p \in Rising(odr, new)
               /\ p \in (odr \ odr') \cap edges.ftsr => p \in Falling(odr, new)
    BY <1>1, <1>2 DEF Rising, Falling
  <1>3. Rising(odr, new) \subseteq rpr' /\ Falling(odr, new) \subseteq fpr'
    BY DEF SyncOdr
  <1>4. ASSUME NEW p \in edges.imr, p \in Rising(odr, new) \cup Falling(odr, new)
        PROVE  ExtiLine(p) \in gnvic'
    BY <1>4 DEF SyncOdr, Raise
  <1>. QED
    BY <1>2, <1>3, <1>4 DEF Seen

\* Outputs that do not change make no edge.
LEMMA NoChangeIsSeen ==
  ASSUME odr' = odr
  PROVE  Seen
  BY DEF Seen

\* Every step that changes a pin shows it to the edge detectors.
LEMMA StepIsSeen ==
  ASSUME [GpioNext]_gpioVars
  PROVE  Seen
  <1>1. ASSUME NEW alias, gpio_write(alias)
        PROVE  Seen
    BY <1>1, WriteSyncs, SyncIsSeen, NoChangeIsSeen
  <1>2. ASSUME NEW alias \in SecStates,
               stm32l552_gpio_write(alias) \/ stm32h563_gpio_write(alias)
                 \/ stm32u585_gpio_write(alias)
        PROVE  Seen
    BY <1>1, <1>2 DEF stm32l552_gpio_write, stm32h563_gpio_write, stm32u585_gpio_write
  <1>3. CASE stm32l552_exti_write \/ stm32h563_exti_write \/ stm32u585_exti_write
    <2>1. odr' = odr
      BY <1>3 DEF stm32l552_exti_write, stm32h563_exti_write, stm32u585_exti_write, exti_write
    <2>. QED
      BY <2>1, NoChangeIsSeen
  <1>4. CASE stm32_rcc_gpio_enable
    BY <1>4, NoChangeIsSeen DEF stm32_rcc_gpio_enable, gpio_clock_enabled
  <1>5. CASE nrf5340_gpio_write \/ mcxw71c_gpio_write \/ mcxw71c_port_write \/ mcxw71c_mrcc_write
    BY <1>5 DEF nrf5340_gpio_write, mcxw71c_gpio_write, mcxw71c_port_write,
                mcxw71c_mrcc_write, Seen, Stm32
  <1>6. CASE GpioIrqTaken
    BY <1>6, NoChangeIsSeen DEF GpioIrqTaken
  <1>7. CASE UNCHANGED gpioVars
    BY <1>7, NoChangeIsSeen DEF gpioVars
  <1>8. CASE GpioReset
    BY <1>8 DEF GpioReset, NoEdges, Seen
  <1>. QED
    BY <1>2, <1>3, <1>4, <1>5, <1>6, <1>7, <1>8 DEF GpioNext

(***************************************************************************)
(* No edge that software makes on an output is lost, whichever register,   *)
(* alias and security setting made it (gpio_write, gpio_sync_odr,          *)
(* exti_gpio_update).                                                      *)
(***************************************************************************)
THEOREM EdgesAreSeenCorrect == GpioSpec => EdgesAreSeen
  <1>1. [GpioNext]_gpioVars => [Seen]_gpioVars
    BY StepIsSeen
  <1>. QED
    BY <1>1, PTL DEF GpioSpec, EdgesAreSeen, Seen

-----------------------------------------------------------------------------
(* The mcxw71c's interrupt.                                                *)

\* The ports start with no flag and no interrupt.
LEMMA McxInit == GpioInit => McxIrqHasCause
  BY DEF GpioInit, GpioAtReset, McxIrqHasCause

\* More flags raise more interrupt lines.
LEMMA MoreFlagsMoreLines ==
  ASSUME NEW S, NEW T, S \subseteq T
  PROVE  McxIrq(S) \subseteq McxIrq(T)
  BY DEF McxIrq

\* Every step keeps the cause of the interrupt.
LEMMA McxStep == McxIrqHasCause /\ [GpioNext]_gpioVars => McxIrqHasCause'
  <1>. SUFFICES ASSUME McxIrqHasCause, [GpioNext]_gpioVars
                PROVE  McxIrqHasCause'
    OBVIOUS
  <1>1. CASE cpu # "mcxw71c"
    <2>1. cpu' = cpu
      BY DEF GpioNext, gpioVars, stm32l552_gpio_write, stm32h563_gpio_write,
             stm32u585_gpio_write, gpio_write, stm32l552_exti_write, stm32h563_exti_write,
             stm32u585_exti_write, exti_write, stm32_rcc_gpio_enable, gpio_clock_enabled,
             nrf5340_gpio_write, mcxw71c_gpio_write, mcxw71c_port_write,
             mcxw71c_mrcc_write, GpioIrqTaken, GpioReset
    <2>. QED
      BY <1>1, <2>1 DEF McxIrqHasCause
  <1>2. CASE cpu = "mcxw71c"
    <2>1. ~unraised => gnvic \subseteq McxIrq(rpr)
      BY <1>2 DEF McxIrqHasCause
    <2>2. ASSUME NEW new, McxDrive(new), ~unraised'
          PROVE  gnvic' \subseteq McxIrq(rpr')
      <3>1. rpr \subseteq rpr' /\ ((gnvic' = gnvic /\ ~unraised) \/ gnvic' = McxIrq(rpr'))
        BY <2>2 DEF McxDrive
      <3>. QED
        BY <2>1, <3>1, MoreFlagsMoreLines
    <2>3. CASE mcxw71c_gpio_write
      <3>1. \/ \E new : McxDrive(new)
            \/ gnvic' = McxIrq(rpr')
            \/ unraised' = TRUE
            \/ UNCHANGED <<rpr, gnvic, unraised>>
        BY <2>3 DEF mcxw71c_gpio_write, McxClear
      <3>2. ~unraised' => gnvic' \subseteq McxIrq(rpr')
        BY <2>1, <2>2, <3>1
      <3>. QED
        BY <3>2 DEF McxIrqHasCause
    <2>4. CASE mcxw71c_port_write \/ mcxw71c_mrcc_write
      BY <2>1, <2>4 DEF mcxw71c_port_write, mcxw71c_mrcc_write, gpio_clock_enabled, McxIrqHasCause
    <2>5. CASE GpioIrqTaken
      BY <2>1, <2>5 DEF GpioIrqTaken, McxIrqHasCause
    <2>6. CASE GpioReset
      BY <2>6 DEF GpioReset, McxIrqHasCause
    <2>7. CASE UNCHANGED gpioVars
      BY <2>1, <2>7 DEF gpioVars, McxIrqHasCause
    <2>. QED
      BY <1>2, <2>3, <2>4, <2>5, <2>6, <2>7
      DEF GpioNext, stm32l552_gpio_write, stm32h563_gpio_write, stm32u585_gpio_write,
          stm32l552_exti_write, stm32h563_exti_write, stm32u585_exti_write,
          stm32_rcc_gpio_enable, nrf5340_gpio_write, Stm32
  <1>. QED
    BY <1>1, <1>2

(***************************************************************************)
(* A GPIO interrupt of the mcxw71c is pending only while one of its flags  *)
(* is set, in the banks with a PORT and in the one without, unless flags   *)
(* were stored that no gpio_raise_irq has seen (gpio_raise_irq,            *)
(* gpio_write).                                                            *)
(***************************************************************************)
THEOREM McxIrqHasCauseCorrect == GpioSpec => []McxIrqHasCause
  BY McxInit, McxStep, PTL DEF GpioSpec

-----------------------------------------------------------------------------
(* The clock tree: the stored frequency is the one the registers select. *)

\* The registers are a function of the fields; the values do not matter to the proof.
IsRcc(r) == r = [x \in RccFields |-> r[x]]

ClockInv == cpu \in Targets /\ IsRcc(rcc) /\ CpuHzIsCurrent

\* The frequency does not depend on SWS, which then reads back SW.
LEMMA HzIgnoresStatus ==
    ASSUME NEW r, IsRcc(r), NEW c, NEW t, t = [r EXCEPT !.sws = r.sw]
    PROVE  /\ IsRcc(t) /\ t.sws = t.sw
           /\ BusHz(SysHz(c, t), t.hpre) = BusHz(SysHz(c, r), r.hpre)
  <1>1. /\ IsRcc(t) /\ t.hpre = r.hpre /\ t.sw = r.sw /\ t.msi = r.msi /\ t.divm = r.divm
        /\ t.n = r.n /\ t.p = r.p /\ t.pllOut = r.pllOut /\ t.pllSrc = r.pllSrc /\ t.sws = r.sw
    BY DEF IsRcc, RccFields
  <1>2. MsiHz(t) = MsiHz(r)
    BY <1>1 DEF MsiHz
  <1>3. PllIn(c, t) = PllIn(c, r)
    BY <1>1, <1>2 DEF PllIn
  <1>4. PllHz(c, t) = PllHz(c, r)
    BY <1>1, <1>3 DEF PllHz
  <1>5. SysHz(c, t) = SysHz(c, r)
    BY <1>1, <1>2, <1>4 DEF SysHz
  <1>. QED
    BY <1>1, <1>5

\* A store leaves registers, whatever it covers.
LEMMA StoreType ==
    ASSUME IsRcc(rcc), NEW w
    PROVE  IsRcc(Copied(w)) /\ IsRcc(Updated(w))
  <1>1. DOMAIN rcc = RccFields
    BY DEF IsRcc
  <1>2. IsRcc(Copied(w))
    BY <1>1 DEF IsRcc, Copied
  <1>3. ASSUME NEW r, IsRcc(r)
        PROVE  IsRcc(rcc_update_ready(r))
    BY <1>3 DEF IsRcc, rcc_update_ready
  <1>. QED
    BY <1>2, <1>3 DEF Updated

\* The target's own copy of rcc_write recomputes the frequency, or only copies.
LEMMA RccWriteStep ==
    ASSUME ClockInv, stm32l552_rcc_write \/ stm32h563_rcc_write \/ stm32u585_rcc_write
    PROVE  ClockInv'
  <1>1. PICK w : /\ UNCHANGED cpu
                 /\ \/ CopyOnly(w)
                    \/ /\ Recomputing(w)
                       /\ cpuHz' = BusHz(SysHz(cpu, Updated(w)), Updated(w).hpre)
                       /\ rcc' = [Updated(w) EXCEPT !.sws = Updated(w).sw]
    BY DEF stm32l552_rcc_write, stm32h563_rcc_write, stm32u585_rcc_write,
           stm32l552_rcc_update_sysclk, stm32h563_rcc_update_sysclk, stm32u585_rcc_update_sysclk
  <1>2. CASE CopyOnly(w)
    <2>1. rcc' = Copied(w) /\ partial' = TRUE
      BY <1>2 DEF CopyOnly
    <2>2. IsRcc(rcc')
      BY <2>1, StoreType DEF ClockInv
    <2>. QED
      BY <1>1, <2>1, <2>2 DEF ClockInv, CpuHzIsCurrent
  <1>3. CASE ~CopyOnly(w)
    <2>. DEFINE r == Updated(w)
    <2>1. IsRcc(r)
      BY StoreType DEF ClockInv
    <2>2. rcc' = [r EXCEPT !.sws = r.sw] /\ cpuHz' = BusHz(SysHz(cpu, r), r.hpre)
      BY <1>1, <1>3
    <2>. HIDE DEF r
    <2>3. /\ IsRcc(rcc') /\ rcc'.sws = rcc'.sw
          /\ BusHz(SysHz(cpu, rcc'), rcc'.hpre) = BusHz(SysHz(cpu, r), r.hpre)
      BY <2>1, <2>2, HzIgnoresStatus
    <2>4. cpuHz' = BusHz(SysHz(cpu', rcc'), rcc'.hpre)
      BY <1>1, <2>2, <2>3
    <2>. QED
      BY <1>1, <2>3, <2>4 DEF ClockInv, CpuHzIsCurrent
  <1>. QED
    BY <1>2, <1>3

\* At reset the stored frequency is that of the first oscillator.
LEMMA HzAtResetIsCurrent ==
    ASSUME cpu \in Stm32
    PROVE  /\ HzAtReset = BusHz(SysHz(cpu, RccAtReset), RccAtReset.hpre)
           /\ RccAtReset.sws = RccAtReset.sw
  <1>1. HzAtReset = SysHz(cpu, RccAtReset)
    BY DEF HzAtReset, Stm32
  <1>2. SysHz(cpu, RccAtReset) \in {1, 640} /\ RccAtReset.hpre = 0
    <2>1. RccAtReset.sw = 0 /\ RccAtReset.msi = 0 /\ RccAtReset.hpre = 0
      BY DEF RccAtReset, RccFields
    <2>2. MsiHz(RccAtReset) = 1
      BY <2>1 DEF MsiHz
    <2>. QED
      BY <2>1, <2>2 DEF SysHz
  <1>3. HpreDiv(0) = 1 /\ 1 \div 1 = 1 /\ 640 \div 1 = 640
    BY DEF HpreDiv
  <1>4. RccAtReset.sws = RccAtReset.sw
    BY DEF RccAtReset, RccFields
  <1>. QED
    BY <1>1, <1>2, <1>3, <1>4 DEF BusHz

(***************************************************************************)
(* The stored cpu_hz is the one the registers give, for every set of       *)
(* values stored in them, every order and every size of stores, from each  *)
(* store that begins at one of the registers in the list of the target's   *)
(* rcc_write until the next that changes one from elsewhere.               *)
(***************************************************************************)
THEOREM CpuHzCorrect == ClockSpec => []CpuHzIsCurrent
  <1>1. ClockInit => ClockInv
    <2>. SUFFICES ASSUME ClockInit PROVE ClockInv
      OBVIOUS
    <2>1. cpu \in Targets /\ rcc = RccAtReset /\ cpuHz = HzAtReset
      BY DEF ClockInit, TargetInit
    <2>2. IsRcc(RccAtReset)
      BY DEF IsRcc, RccAtReset
    <2>. QED
      BY <2>1, <2>2, HzAtResetIsCurrent DEF ClockInv, CpuHzIsCurrent
  <1>2. ClockInv /\ [ClockNext]_clockVars => ClockInv'
    <2>. SUFFICES ASSUME ClockInv, [ClockNext]_clockVars PROVE ClockInv'
      OBVIOUS
    <2>1. ASSUME UNCHANGED <<cpu, rcc, cpuHz, partial>> PROVE ClockInv'
      BY <2>1 DEF ClockInv, CpuHzIsCurrent
    <2>2. CASE PwrNext
      BY <2>1, <2>2 DEF PwrNext, stm32l552_pwr_write, stm32h563_pwr_write, stm32u585_pwr_write,
                        pwr_write, rccVars
    <2>3. CASE nrf5340_clock_write
      <3>1. cpu' = "nrf5340" /\ cpu' \notin Stm32 /\ cpu' \in Targets
        BY <2>3 DEF nrf5340_clock_write, Stm32, Targets
      <3>2. \E on, ready : rcc' = [rcc EXCEPT !.on = on, !.ready = ready]
        <4>1. CASE rcc' = [rcc EXCEPT !.on = 1, !.ready = 1]
          BY <4>1
        <4>2. CASE rcc' = [rcc EXCEPT !.on = 0]
          <5>1. rcc' = [rcc EXCEPT !.on = 0, !.ready = rcc.ready]
            BY <4>2 DEF ClockInv, IsRcc, RccFields
          <5>. QED
            BY <5>1
        <4>3. CASE rcc' = [rcc EXCEPT !.ready = 0]
          <5>1. rcc' = [rcc EXCEPT !.on = rcc.on, !.ready = 0]
            BY <4>3 DEF ClockInv, IsRcc, RccFields
          <5>. QED
            BY <5>1
        <4>. QED
          BY <2>3, <4>1, <4>2, <4>3 DEF nrf5340_clock_write
      <3>3. IsRcc(rcc')
        BY <3>2 DEF ClockInv, IsRcc
      <3>. QED
        BY <3>1, <3>3 DEF ClockInv, CpuHzIsCurrent
    <2>4. CASE stm32_mmio_reset
      <3>1. cpu' = cpu /\ cpu \in Stm32 /\ rcc' = RccAtReset /\ cpuHz' = HzAtReset
        BY <2>4 DEF stm32_mmio_reset
      <3>2. IsRcc(RccAtReset)
        BY DEF IsRcc, RccAtReset
      <3>. QED
        BY <3>1, <3>2, HzAtResetIsCurrent DEF ClockInv, CpuHzIsCurrent
    <2>5. CASE UNCHANGED clockVars
      BY <2>1, <2>5 DEF clockVars, rccVars
    <2>. QED
      BY <2>2, <2>3, <2>4, <2>5, RccWriteStep DEF ClockNext, RccNext
  <1>3. ClockInv => CpuHzIsCurrent
    BY DEF ClockInv
  <1>. QED
    BY <1>1, <1>2, <1>3, PTL DEF ClockSpec

-----------------------------------------------------------------------------
(* Memory protection: Non-secure software reaches only what it was given. *)

SauState(c) == [enable : BOOLEAN, allns : BOOLEAN, rnr : 1 .. SauRegions[c],
                region : [1 .. SauRegions[c] -> SauRegion]]

\* The SAU opens address a, with Non-secure callable counting or not.
Covers(u, i, a) == u.region[i].en /\ a \in u.region[i].base .. u.region[i].limit
Rules(u, i, a) == Covers(u, i, a) /\ \A j \in DOMAIN u.region : j > i => ~Covers(u, j, a)
Opens(u, a, nsc) ==
    /\ u.enable
    /\ \/ u.allns /\ \A i \in DOMAIN u.region : ~Covers(u, i, a)
       \/ \E i \in DOMAIN u.region : Rules(u, i, a) /\ (nsc \/ ~u.region[i].nsc)

\* What Secure software has let go since the reset includes what the registers
\* open now, RAM excepted that Non-secure software opened through registers given
\* to it.
GivenCovers ==
    /\ "page" \in LetGo(sau, mpcbb) => "page" \in given
    /\ "ram" \in LetGo(sau, mpcbb) => given # {}

MemInv == MemTypeOK /\ GivenCovers

\* LetGo, one granule at a time.
LEMMA LetGoMembers ==
    ASSUME NEW u, NEW b
    PROVE  /\ "fetch" \in LetGo(u, b) <=> Opens(u, FlashNs, TRUE) \/ Opens(u, FlashS, TRUE)
           /\ "data" \in LetGo(u, b) <=> Opens(u, FlashNs, FALSE) \/ Opens(u, FlashS, FALSE)
           /\ "page" \in LetGo(u, b) <=> Opens(u, PageNs, FALSE) \/ Opens(u, PageS, FALSE)
           /\ "ram" \in LetGo(u, b) <=>
                 IF cpu \in WithRamRegions THEN b.sec = b.inv
                                  ELSE Opens(u, RamNs, TRUE) \/ Opens(u, RamS, TRUE)
  <1>. DEFINE O(a, nsc) == Opens(u, a, nsc)
  <1>1. LetGo(u, b) = {g \in {"fetch", "data", "ram", "page"} :
           CASE g = "fetch" -> O(FlashNs, TRUE) \/ O(FlashS, TRUE)
             [] g = "data" -> O(FlashNs, FALSE) \/ O(FlashS, FALSE)
             [] g = "page" -> O(PageNs, FALSE) \/ O(PageS, FALSE)
             [] OTHER -> IF cpu \in WithRamRegions THEN b.sec = b.inv
                                          ELSE O(RamNs, TRUE) \/ O(RamS, TRUE)}
    BY Zenon DEF LetGo, Opens, Rules, Covers
  <1>. HIDE DEF O
  <1>2. /\ "fetch" \in LetGo(u, b) <=> O(FlashNs, TRUE) \/ O(FlashS, TRUE)
        /\ "data" \in LetGo(u, b) <=> O(FlashNs, FALSE) \/ O(FlashS, FALSE)
        /\ "page" \in LetGo(u, b) <=> O(PageNs, FALSE) \/ O(PageS, FALSE)
        /\ "ram" \in LetGo(u, b) <=> IF cpu \in WithRamRegions THEN b.sec = b.inv
                                     ELSE O(RamNs, TRUE) \/ O(RamS, TRUE)
    BY <1>1
  <1>. QED
    BY <1>2 DEF O

\* The search of mm_sau_attr_for_addr finds the region that rules.
LEMMA SauAttribution ==
    ASSUME NEW u \in SauState(cpu), cpu \in Targets, NEW a \in MemAddrs
    PROVE  /\ mm_sau_attr_for_addr(u, a) \in {"Secure", "NonSecure", "NSC"}
           /\ mm_sau_attr_for_addr(u, a) = "NonSecure" => Opens(u, a, FALSE)
           /\ mm_sau_attr_for_addr(u, a) # "Secure" => Opens(u, a, TRUE)
  <1>. DEFINE hits == {i \in DOMAIN u.region : sau_region_matches(u.region[i], a)}
              best == CHOOSE i \in hits : \A j \in hits : j <= i
              attr == mm_sau_attr_for_addr(u, a)
  <1>1. SauRegions[cpu] \in 1 .. 8 /\ DOMAIN u.region = 1 .. SauRegions[cpu]
    BY MemoryBounds DEF SauState
  <1>2. \A i \in DOMAIN u.region : sau_region_matches(u.region[i], a) <=> Covers(u, i, a)
    <2>. SUFFICES ASSUME NEW i \in DOMAIN u.region
                  PROVE  sau_region_matches(u.region[i], a) <=> Covers(u, i, a)
      OBVIOUS
    <2>1. u.region[i].base \in Int /\ u.region[i].limit \in Int /\ a \in Int
      BY <1>1 DEF SauState, SauRegion, MemAddrs
    <2>. QED
      BY <2>1 DEF sau_region_matches, Covers
  <1>3. attr = IF ~u.enable THEN "Secure"
               ELSE IF hits # {} THEN IF u.region[best].nsc THEN "NSC" ELSE "NonSecure"
               ELSE IF u.allns THEN "NonSecure" ELSE "Secure"
    BY DEF mm_sau_attr_for_addr
  <1>4. CASE ~u.enable
    <2>1. attr = "Secure"
      BY <1>3, <1>4
    <2>. QED
      BY <2>1
  <1>5. CASE u.enable /\ hits # {}
    <2>1. hits \subseteq 0 .. 8
      BY <1>1
    <2>2. \E i \in hits : \A j \in hits : j <= i
      <3>. HIDE DEF hits
      <3>. QED
        BY <1>5, <2>1, GreatestMember
    <2>3. best \in hits /\ \A j \in hits : j <= best
      <3>. HIDE DEF hits
      <3>. QED
        BY <2>2
    <2>4. best \in DOMAIN u.region /\ Rules(u, best, a)
      <3>1. best \in DOMAIN u.region /\ Covers(u, best, a)
        <4>. HIDE DEF best
        <4>. QED
          BY <1>2, <2>3
      <3>2. ASSUME NEW j \in DOMAIN u.region, j > best
            PROVE  ~Covers(u, j, a)
        <4>1. j \in hits => j <= best
          BY <2>3
        <4>2. j \in Int /\ best \in Int
          <5>. HIDE DEF best
          <5>. QED
            BY <1>1, <3>1
        <4>3. ~(j \in hits)
          <5>. HIDE DEF best, hits
          <5>. QED
            BY <3>2, <4>1, <4>2
        <4>. QED
          BY <1>2, <4>3
      <3>. QED
        BY <3>1, <3>2 DEF Rules
    <2>5. attr = IF u.region[best].nsc THEN "NSC" ELSE "NonSecure"
      <3>. HIDE DEF hits, best, attr
      <3>. QED
        BY <1>3, <1>5
    <2>. HIDE DEF best, attr, hits
    <2>. QED
      BY <1>5, <2>4, <2>5 DEF Opens, attr
  <1>6. CASE u.enable /\ hits = {}
    <2>1. attr = IF u.allns THEN "NonSecure" ELSE "Secure"
      <3>. HIDE DEF hits, best, attr
      <3>. QED
        BY <1>3, <1>6
    <2>2. \A i \in DOMAIN u.region : ~Covers(u, i, a)
      BY <1>2, <1>6
    <2>. HIDE DEF attr
    <2>. QED
      BY <1>6, <2>1, <2>2 DEF Opens, attr
  <1>. QED
    BY <1>4, <1>5, <1>6

\* What mm_prot_interceptor lets a Non-secure access through to is open.
LEMMA InterceptorOpens ==
    ASSUME MemTypeOK, NEW type \in AccessTypes, NEW a \in MemAddrs,
           mm_prot_interceptor(NonSecure, type, a)
    PROVE  /\ cpu \in WithRamRegions /\ a \in {RamNs, RamS} => mpcbb.sec = mpcbb.inv
           /\ ~(cpu \in WithRamRegions /\ a \in {RamNs, RamS}) => Opens(sau, a, TRUE)
           /\ ~(cpu \in WithRamRegions /\ a \in {RamNs, RamS}) /\ type # "exec" => Opens(sau, a, FALSE)
  <1>1. ~Violates(NonSecure, type, a)
    BY DEF mm_prot_interceptor
  <1>2. Attribution(a) # "Secure" /\ (type # "exec" => Attribution(a) # "NSC")
    BY <1>1 DEF Violates
  <1>3. CASE cpu \in WithRamRegions /\ a \in {RamNs, RamS}
    <2>1. ~mpcbb_block_secure
      BY <1>2, <1>3 DEF Attribution
    <2>. QED
      BY <1>3, <2>1 DEF mpcbb_block_secure
  <1>4. CASE ~(cpu \in WithRamRegions /\ a \in {RamNs, RamS})
    <2>1. Attribution(a) = mm_sau_attr_for_addr(sau, a)
      BY <1>4 DEF Attribution
    <2>2. sau \in SauState(cpu) /\ cpu \in Targets
      BY DEF MemTypeOK, SauState
    <2>. QED
      BY <1>2, <1>4, <2>1, <2>2, SauAttribution
  <1>. QED
    BY <1>3, <1>4

\* A Non-secure access reaches a cell only through an open address of that cell.
LEMMA ReachIsOpen ==
    ASSUME MemTypeOK, NEW a \in MemAddrs
    PROVE  /\ mm_memmap_read(NonSecure, a) = "flash" \/ mm_memmap_write(NonSecure, a) = "flash"
                 => "data" \in LetGo(sau, mpcbb)
           /\ mm_memmap_fetch_read16(NonSecure, a) = "flash" => "fetch" \in LetGo(sau, mpcbb)
           /\ mm_memmap_read(NonSecure, a) = "page" \/ mm_memmap_write(NonSecure, a) = "page"
                 => "page" \in LetGo(sau, mpcbb)
           /\ "ram" \in {mm_memmap_read(NonSecure, a), mm_memmap_write(NonSecure, a),
                          mm_memmap_fetch_read16(NonSecure, a)} => "ram" \in LetGo(sau, mpcbb)
           /\ mm_memmap_fetch_read16(NonSecure, a) # "page"
  <1>0. /\ FlashNs = 1 /\ FlashS = 2 /\ RamNs = 3 /\ RamS = 4 /\ PageNs = 5 /\ PageS = 6
        /\ "read" \in AccessTypes /\ "write" \in AccessTypes /\ "exec" \in AccessTypes
    BY DEF FlashNs, FlashS, RamNs, RamS, PageNs, PageS, AccessTypes
  <1>. DEFINE Flash == a \in {FlashNs, FlashS}
              Ram == a \in {RamNs, RamS}
              Page == a \in {PageNs, PageS}
              R == mm_prot_interceptor(NonSecure, "read", a)
              W == mm_prot_interceptor(NonSecure, "write", a)
              X == mm_prot_interceptor(NonSecure, "exec", a)
  <1>1. ~(Flash /\ Ram) /\ ~(Flash /\ Page) /\ ~(Ram /\ Page)
    BY <1>0
  <1>2. /\ mm_memmap_read(NonSecure, a) = IF ~R THEN "none" ELSE IF Flash THEN "flash"
                                          ELSE IF Page THEN "page" ELSE IF Ram THEN "ram" ELSE "none"
        /\ mm_memmap_write(NonSecure, a) = IF ~W THEN "none" ELSE IF Flash THEN "flash"
                                           ELSE IF Page THEN "page" ELSE IF Ram THEN "ram" ELSE "none"
        /\ mm_memmap_fetch_read16(NonSecure, a) = IF ~X THEN "none" ELSE IF Flash THEN "flash"
                                                  ELSE IF Ram THEN "ram" ELSE "none"
    BY <1>1 DEF mm_memmap_read, mm_memmap_write, mm_memmap_fetch_read16, ram_offset_for_addr
  <1>3. R \/ W => /\ cpu \in WithRamRegions /\ Ram => mpcbb.sec = mpcbb.inv
                  /\ ~(cpu \in WithRamRegions /\ Ram) => Opens(sau, a, TRUE) /\ Opens(sau, a, FALSE)
    BY <1>0, InterceptorOpens
  <1>4. X => /\ cpu \in WithRamRegions /\ Ram => mpcbb.sec = mpcbb.inv
             /\ ~(cpu \in WithRamRegions /\ Ram) => Opens(sau, a, TRUE)
    BY <1>0, InterceptorOpens
  <1>. HIDE DEF R, W, X
  <1>5. /\ Flash /\ (R \/ W) => "data" \in LetGo(sau, mpcbb)
        /\ Flash /\ X => "fetch" \in LetGo(sau, mpcbb)
        /\ Page /\ (R \/ W) => "page" \in LetGo(sau, mpcbb)
        /\ Ram /\ (R \/ W \/ X) => "ram" \in LetGo(sau, mpcbb)
    BY <1>1, <1>3, <1>4, LetGoMembers
  <1>. HIDE DEF Flash, Ram, Page
  <1>. QED
    BY <1>2, <1>5

\* A write of a SAU register by Secure software.
LEMMA SetSauStep ==
    ASSUME MemInv, NEW u \in SauState(cpu), SetSau(u)
    PROVE  MemInv'
  <1>1. /\ sau' = u /\ given' = given \cup (LetGo(u, mpcbb) \cap {"ram", "page"})
        /\ cpu' = cpu /\ mpu' = mpu /\ mpcbb' = mpcbb /\ sfPending' = sfPending
    BY DEF SetSau
  <1>2. MemTypeOK'
    BY <1>1 DEF MemInv, MemTypeOK, SauState
  <1>3. LetGo(sau, mpcbb)' = LetGo(u, mpcbb)
    BY <1>1 DEF LetGo
  <1>4. GivenCovers'
    BY <1>1, <1>3 DEF GivenCovers
  <1>. QED
    BY <1>2, <1>4 DEF MemInv

\* A store to the MPCBB's registers: by Non-secure software only if they were given.
LEMMA MpcbbStep ==
    ASSUME MemInv, NEW s \in SecStates, NEW a \in {PageNs, PageS}, mpcbb_write(s, a)
    PROVE  MemInv'
  <1>1. /\ mm_memmap_write(s, a) = "page" /\ UNCHANGED <<cpu, sau, mpu, sfPending>>
        /\ given' = IF s = Secure THEN given \cup (LetGo(sau, mpcbb') \cap {"ram", "page"}) ELSE given
    BY DEF mpcbb_write
  <1>2. mpcbb' \in [sec : BOOLEAN, inv : BOOLEAN]
    BY DEF mpcbb_write, MemInv, MemTypeOK
  <1>3. MemTypeOK'
    BY <1>1, <1>2 DEF MemInv, MemTypeOK
  <1>4. LetGo(sau, mpcbb)' = LetGo(sau, mpcbb')
    BY <1>1 DEF LetGo
  <1>5. "page" \in LetGo(sau, mpcbb') <=> "page" \in LetGo(sau, mpcbb)
    BY LetGoMembers
  <1>6. CASE s = Secure
    BY <1>1, <1>4, <1>6, <1>3 DEF GivenCovers, MemInv
  <1>7. CASE s = NonSecure
    <2>1. a \in MemAddrs /\ s # Secure
      BY <1>7 DEF PageNs, PageS, MemAddrs, Secure, NonSecure
    <2>2. "page" \in LetGo(sau, mpcbb)
      BY <1>1, <1>7, <2>1, ReachIsOpen DEF MemInv
    <2>3. "page" \in given /\ given' = given
      BY <1>1, <2>1, <2>2 DEF MemInv, GivenCovers
    <2>. QED
      BY <1>3, <2>3 DEF GivenCovers, MemInv
  <1>. QED
    BY <1>6, <1>7 DEF SecStates

\* The SAU's reset value opens nothing.
LEMMA ResetOpensNothing ==
    ASSUME cpu \in Targets
    PROVE  /\ SauAtReset \in SauState(cpu)
           /\ \A b : b = [sec |-> TRUE, inv |-> FALSE] =>
                        "page" \notin LetGo(SauAtReset, b) /\ "ram" \notin LetGo(SauAtReset, b)
  <1>1. SauRegions[cpu] \in 1 .. 8
    BY MemoryBounds
  <1>2. SauAtReset \in SauState(cpu)
    BY <1>1 DEF SauAtReset, SauState, SauRegion, MemAddrs
  <1>3. SauAtReset.enable = FALSE
    BY DEF SauAtReset
  <1>4. \A x, nsc : ~Opens(SauAtReset, x, nsc)
    BY <1>3 DEF Opens
  <1>5. ASSUME NEW b, b = [sec |-> TRUE, inv |-> FALSE]
        PROVE  "page" \notin LetGo(SauAtReset, b) /\ "ram" \notin LetGo(SauAtReset, b)
    <2>1. b.sec = TRUE /\ b.inv = FALSE
      BY <1>5
    <2>2. ~(b.sec = b.inv)
      BY <2>1
    <2>. QED
      BY <1>4, <2>2, LetGoMembers
  <1>. QED
    BY <1>2, <1>5

\* The invariant holds.
LEMMA MemInvariant == MemSpec => []MemInv
  <1>1. MemInit => MemInv
    <2>. SUFFICES ASSUME MemInit PROVE MemInv
      OBVIOUS
    <2>1. /\ cpu \in Targets /\ sau = SauAtReset /\ mpu = [s \in SecStates |-> 0]
          /\ mpcbb = [sec |-> TRUE, inv |-> FALSE] /\ sfPending = FALSE /\ given = {}
      BY DEF MemInit, MemAtReset, TargetInit
    <2>2. sau \in SauState(cpu)
      BY <2>1, ResetOpensNothing
    <2>3. MemTypeOK
      BY <2>1, <2>2 DEF MemTypeOK, SauState
    <2>4. GivenCovers
      BY <2>1, ResetOpensNothing DEF GivenCovers
    <2>. QED
      BY <2>3, <2>4 DEF MemInv
  <1>2. MemInv /\ [MemNext]_memVars => MemInv'
    <2>. SUFFICES ASSUME MemInv, [MemNext]_memVars PROVE MemInv'
      OBVIOUS
    <2>0. sau \in SauState(cpu) /\ cpu \in Targets /\ SauRegions[cpu] \in 1 .. 8
      BY MemoryBounds DEF MemInv, MemTypeOK, SauState
    <2>1. ASSUME UNCHANGED <<cpu, sau, mpcbb, given>>,
                 mpu' \in [SecStates -> MpuLimits \cup {0}], sfPending' \in BOOLEAN
          PROVE  MemInv'
      <3>1. MemTypeOK'
        BY <2>1 DEF MemInv, MemTypeOK
      <3>2. LetGo(sau, mpcbb)' = LetGo(sau, mpcbb)
        BY <2>1 DEF LetGo
      <3>. QED
        BY <2>1, <3>1, <3>2 DEF MemInv, GivenCovers
    <2>2. ASSUME NEW s \in SecStates, NEW type \in AccessTypes, NEW a \in MemAddrs,
                 record_securefault(s, type, a)
          PROVE  MemInv'
      BY <2>1, <2>2 DEF record_securefault, MemInv, MemTypeOK
    <2>3. ASSUME NEW s \in SecStates, NEW a \in {PageNs, PageS},
                 \/ stm32l552_mpcbb_write(s, a) \/ stm32h563_mpcbb_write(s, a)
                 \/ stm32u585_mpcbb_write(s, a)
          PROVE  MemInv'
      BY <2>3, MpcbbStep DEF stm32l552_mpcbb_write, stm32h563_mpcbb_write, stm32u585_mpcbb_write
    <2>4. CASE WriteSauCtrl
      <3>1. PICK e \in BOOLEAN, n \in BOOLEAN : SetSau([sau EXCEPT !.enable = e, !.allns = n])
        BY <2>4 DEF WriteSauCtrl
      <3>2. [sau EXCEPT !.enable = e, !.allns = n] \in SauState(cpu)
        BY <2>0 DEF SauState
      <3>. QED
        BY <3>1, <3>2, SetSauStep
    <2>5. ASSUME NEW i \in 1 .. SauRegions[cpu], SetSau([sau EXCEPT !.rnr = i])
          PROVE  MemInv'
      <3>1. [sau EXCEPT !.rnr = i] \in SauState(cpu)
        BY <2>0 DEF SauState
      <3>. QED
        BY <2>5, <3>1, SetSauStep
    <2>6. ASSUME NEW r \in SauRegion, SetSau([sau EXCEPT !.region[sau.rnr] = r])
          PROVE  MemInv'
      <3>1. [sau EXCEPT !.region[sau.rnr] = r] \in SauState(cpu)
        BY <2>0 DEF SauState
      <3>. QED
        BY <2>6, <3>1, SetSauStep
    <2>7. sau.region[sau.rnr] \in SauRegion
      BY <2>0 DEF SauState
    <2>8. ASSUME NEW b \in Bounds, SetSau([sau EXCEPT !.region[sau.rnr].base = b])
          PROVE  MemInv'
      <3>1. [sau.region[sau.rnr] EXCEPT !.base = b] \in SauRegion
        BY <2>7, MemoryBounds DEF SauRegion
      <3>2. [sau EXCEPT !.region[sau.rnr].base = b] =
               [sau EXCEPT !.region[sau.rnr] = [sau.region[sau.rnr] EXCEPT !.base = b]]
        OBVIOUS
      <3>. QED
        BY <2>6, <2>8, <3>1, <3>2
    <2>9. CASE WriteSauRnr
      BY <2>5, <2>9 DEF WriteSauRnr
    <2>10. CASE WriteSauRbar
      <3>1. 1 \in 1 .. SauRegions[cpu]
        BY <2>0
      <3>. QED
        BY <2>5, <2>8, <2>10, <3>1 DEF WriteSauRbar
    <2>11. CASE WriteSauRlar
      <3>1. PICK b \in Bounds, en \in BOOLEAN, nsc \in BOOLEAN :
               IF en \/ nsc
               THEN SetSau([sau EXCEPT !.region[sau.rnr] =
                              [@ EXCEPT !.limit = b, !.en = en, !.nsc = nsc]])
               ELSE SetSau([sau EXCEPT !.region[sau.rnr].base = b])
        BY <2>11 DEF WriteSauRlar
      <3>2. CASE en \/ nsc
        <4>. DEFINE r == [sau.region[sau.rnr] EXCEPT !.limit = b, !.en = en, !.nsc = nsc]
        <4>1. r \in SauRegion
          BY <2>7, MemoryBounds DEF SauRegion
        <4>2. SetSau([sau EXCEPT !.region[sau.rnr] = r])
          BY <3>1, <3>2
        <4>. HIDE DEF r
        <4>. QED
          BY <2>6, <4>1, <4>2
      <3>3. CASE ~(en \/ nsc)
        BY <2>8, <3>1, <3>3
      <3>. QED
        BY <3>2, <3>3
    <2>12. CASE WriteMpu
      BY <2>1, <2>12 DEF WriteMpu, MemInv, MemTypeOK
    <2>13. CASE TakeSecureFault
      BY <2>1, <2>13 DEF TakeSecureFault, MemInv, MemTypeOK
    <2>14. CASE MemReset
      <3>1. /\ sau' = SauAtReset /\ mpu' = [s \in SecStates |-> 0] /\ cpu' = cpu
            /\ mpcbb' = [sec |-> TRUE, inv |-> FALSE] /\ sfPending' = FALSE /\ given' = {}
        BY <2>14 DEF MemReset
      <3>2. sau' \in SauState(cpu)
        BY <2>0, <3>1, ResetOpensNothing
      <3>3. MemTypeOK'
        BY <2>0, <3>1, <3>2 DEF MemTypeOK, SauState
      <3>4. LetGo(sau, mpcbb)' = LetGo(SauAtReset, mpcbb')
        BY <3>1 DEF LetGo
      <3>5. GivenCovers'
        BY <2>0, <3>1, <3>4, ResetOpensNothing DEF GivenCovers
      <3>. QED
        BY <3>3, <3>5 DEF MemInv
    <2>15. CASE UNCHANGED memVars
      BY <2>1, <2>15 DEF memVars, MemInv, MemTypeOK
    <2>. QED
      BY <2>2, <2>3, <2>4, <2>9, <2>10, <2>11, <2>12, <2>13, <2>14, <2>15 DEF MemNext
  <1>. QED
    BY <1>1, <1>2, PTL DEF MemSpec

(***************************************************************************)
(* Non-secure software reaches only what was let go, for any number of SAU *)
(* regions, any bounds and any sequence of register writes.  The invariant *)
(* adds that whatever the registers open was let go at some time, which a  *)
(* Non-secure store to the MPCBB cannot break: it needs the MPCBB's own    *)
(* page open first.                                                        *)
(***************************************************************************)
THEOREM NsReachCorrect == MemSpec => []NsReachesOnlyWhatWasGiven
  <1>1. MemInv => NsReachesOnlyWhatWasGiven
    <2>. SUFFICES ASSUME MemInv PROVE NsReachesOnlyWhatWasGiven
      OBVIOUS
    <2>. DEFINE data == {mm_memmap_read(NonSecure, a) : a \in MemAddrs}
                          \cup {mm_memmap_write(NonSecure, a) : a \in MemAddrs}
                code == {mm_memmap_fetch_read16(NonSecure, a) : a \in MemAddrs}
    <2>1. MemTypeOK
      BY DEF MemInv
    <2>2. "flash" \in data => "data" \in LetGo(sau, mpcbb)
      BY <2>1, ReachIsOpen
    <2>3. "flash" \in code => "fetch" \in LetGo(sau, mpcbb)
      BY <2>1, ReachIsOpen
    <2>4. "page" \in data => "page" \in LetGo(sau, mpcbb)
      BY <2>1, ReachIsOpen
    <2>5. "ram" \in data \cup code => "ram" \in LetGo(sau, mpcbb)
      BY <2>1, ReachIsOpen
    <2>6. "ram" \in LetGo(sau, mpcbb) => given # {}
      BY DEF MemInv, GivenCovers
    <2>7. "ram" \in data \cup code => "ram" \in LetGo(sau, mpcbb) /\ given # {}
      BY <2>5, <2>6, Zenon
    <2>8. /\ "flash" \in data => "data" \in LetGo(sau, mpcbb)
          /\ "flash" \in code => "fetch" \in LetGo(sau, mpcbb)
          /\ "page" \in data => "page" \in LetGo(sau, mpcbb)
          /\ "ram" \in data \cup code => "ram" \in LetGo(sau, mpcbb) /\ given # {}
      BY <2>2, <2>3, <2>4, <2>7, Zenon
    <2>. QED
      BY <2>8 DEF NsReachesOnlyWhatWasGiven
  <1>. QED
    BY <1>1, MemInvariant, PTL

-----------------------------------------------------------------------------
(* The timers: the closed forms of the tick functions add up. *)

TimState == [cen : BOOLEAN, down : BOOLEAN, opm : BOOLEAN, udis : BOOLEAN, uie : BOOLEAN,
             uif : BOOLEAN, cnt : Nat, arr : Nat, psc : Nat, accum : Nat]
NrfState == [running : BOOLEAN, counter : 0 .. Mask, cc : 0 .. Mask, event : BOOLEAN,
             inten : BOOLEAN, psc : 0 .. 1, accum : 0 .. 1]
LpitState == [mcen : BOOLEAN, ten : BOOLEAN, chain : BOOLEAN, tie : BOOLEAN,
              tval : Nat, cval : Nat, tif : BOOLEAN]

TimerTypeOK ==
  /\ cpu \in Targets
  /\ cpu \in Stm32 => tmr \in TimState
  /\ cpu = "nrf5340" => tmr \in NrfState
  /\ cpu = "mcxw71c" => tmr \in LpitState

\* How far an STM32 timer is into its round, whichever way it counts, and the
\* counter value that belongs to a distance.
Phase(t) == IF t.down THEN t.arr - Clamped(t) ELSE Clamped(t)
CntAt(t, z) == IF t.down THEN t.arr - z ELSE z

\* The counts of one call: tim_apply_tick_down or tim_apply_tick_up.
Counted(t, k) == IF t.down THEN tim_apply_tick_down(t, k) ELSE tim_apply_tick_up(t, k)

\* Two timers that agree on every field are the same.
LEMMA SameTim ==
    ASSUME NEW r \in TimState, NEW s \in TimState,
           r.cen = s.cen, r.down = s.down, r.opm = s.opm, r.udis = s.udis, r.uie = s.uie,
           r.uif = s.uif, r.cnt = s.cnt, r.arr = s.arr, r.psc = s.psc, r.accum = s.accum
    PROVE  r = s
  BY DEF TimState

\* The phase lies within a round, and the counter value of a phase gives it back.
LEMMA PhaseRange ==
    ASSUME NEW t \in TimState
    PROVE  Phase(t) \in 0 .. t.arr
  BY DEF TimState, Phase, Clamped

\* An update event leaves the counter, the settings and, outside one-pulse mode,
\* the enable bit alone, and sets the flag unless updates are disabled.
LEMMA RaiseUpdateIs ==
    ASSUME NEW t \in TimState
    PROVE  LET r == RaiseUpdate(t)
           IN  /\ r \in TimState
               /\ r.down = t.down /\ r.opm = t.opm /\ r.udis = t.udis /\ r.uie = t.uie
               /\ r.cnt = t.cnt /\ r.arr = t.arr /\ r.psc = t.psc /\ r.accum = t.accum
               /\ ~t.opm => r.cen = t.cen
               /\ r.uif = (t.uif \/ ~t.udis)
  <1>1. CASE t.udis
    BY <1>1 DEF RaiseUpdate, TimState
  <1>2. CASE ~t.udis
    <2>1. RaiseUpdate(t) = [t EXCEPT !.uif = TRUE, !.cen = t.cen /\ ~t.opm]
      BY <1>2 DEF RaiseUpdate
    <2>2. (t.cen /\ ~t.opm) \in BOOLEAN
      OBVIOUS
    <2>3. ~t.opm => (t.cen /\ ~t.opm) = t.cen
      BY DEF TimState
    <2>. DEFINE c == t.cen /\ ~t.opm
    <2>. HIDE DEF c
    <2>4. RaiseUpdate(t) = [t EXCEPT !.uif = TRUE, !.cen = c]
      BY <2>1 DEF c
    <2>5. c \in BOOLEAN /\ (~t.opm => c = t.cen)
      BY <2>2, <2>3 DEF c
    <2>. QED
      BY <1>2, <2>4, <2>5 DEF TimState
  <1>. QED
    BY <1>1, <1>2

\* What k > 0 counts do: the phase advances round the period, and the flag is set
\* when it comes round.
LEMMA CountedIs ==
    ASSUME NEW t \in TimState, NEW k \in Nat, k > 0
    PROVE  LET r == Counted(t, k)
           IN  /\ r \in TimState
               /\ r.down = t.down /\ r.opm = t.opm /\ r.udis = t.udis /\ r.uie = t.uie
               /\ r.arr = t.arr /\ r.psc = t.psc /\ r.accum = t.accum
               /\ ~t.opm => r.cen = t.cen
               /\ r.cnt = CntAt(t, (Phase(t) + k) % (t.arr + 1))
               /\ r.uif = (t.uif \/ (~t.udis /\ Phase(t) + k > t.arr))
  <1>. DEFINE M == t.arr + 1
              z == Phase(t)
              y == (z + k) % M
              u == [t EXCEPT !.cnt = CntAt(t, y)]
  <1>0. /\ M \in Nat /\ M > 0 /\ t.arr \in Nat /\ t.down \in BOOLEAN /\ t.uif \in BOOLEAN
        /\ t.udis \in BOOLEAN
    BY DEF TimState
  <1>1. z \in 0 .. t.arr
    BY PhaseRange
  <1>2. y \in 0 .. t.arr
    <2>1. z + k \in Nat
      BY <1>1
    <2>. QED
      BY <1>0, <2>1, DivMod
  <1>3. CntAt(t, y) \in 0 .. t.arr
    BY <1>0, <1>2 DEF CntAt
  <1>4. u \in TimState
    <2>. HIDE DEF y
    <2>. QED
      BY <1>3 DEF TimState
  <1>5. /\ u.down = t.down /\ u.opm = t.opm /\ u.udis = t.udis /\ u.uie = t.uie
        /\ u.arr = t.arr /\ u.psc = t.psc /\ u.accum = t.accum /\ u.cen = t.cen
        /\ u.uif = t.uif /\ u.cnt = CntAt(t, y)
    <2>. HIDE DEF y
    <2>. QED
      BY DEF TimState
  <1>6. CASE z + k <= t.arr
    <2>1. y = z + k
      <3>1. z + k \in Nat /\ z + k < M
        BY <1>0, <1>1, <1>6
      <3>. QED
        BY <1>0, <3>1, SmallMod
    <2>2. Counted(t, k) = u
      <3>1. CASE t.down
        <4>1. z = t.arr - Clamped(t) /\ Clamped(t) \in 0 .. t.arr
          BY <3>1 DEF Phase, Clamped, TimState
        <4>2. k < Clamped(t) + 1 /\ k # 0
          BY <1>0, <1>6, <4>1
        <4>3. Counted(t, k) = [t EXCEPT !.cnt = Clamped(t) - k]
          BY <3>1, <4>2 DEF Counted, tim_apply_tick_down
        <4>4. CntAt(t, y) = Clamped(t) - k
          <5>. HIDE DEF y, z
          <5>. QED
            BY <1>0, <2>1, <3>1, <4>1 DEF CntAt
        <4>. QED
          BY <4>3, <4>4
      <3>2. CASE ~t.down
        <4>1. z = Clamped(t) /\ Clamped(t) \in 0 .. t.arr
          BY <3>2 DEF Phase, Clamped, TimState
        <4>2. k < t.arr - Clamped(t) + 1 /\ k # 0
          BY <1>0, <1>6, <4>1
        <4>3. Counted(t, k) = [t EXCEPT !.cnt = Clamped(t) + k]
          BY <3>2, <4>2 DEF Counted, tim_apply_tick_up
        <4>4. CntAt(t, y) = Clamped(t) + k
          <5>. HIDE DEF y, z
          <5>. QED
            BY <1>0, <2>1, <3>2, <4>1 DEF CntAt
        <4>. QED
          BY <4>3, <4>4
      <3>. QED
        BY <3>1, <3>2
    <2>3. ~(z + k > t.arr)
      BY <1>0, <1>1, <1>6
    <2>. HIDE DEF u, z, y
    <2>4. u.uif = (t.uif \/ (~t.udis /\ z + k > t.arr))
      BY <1>0, <1>5, <2>3
    <2>. QED
      BY <1>4, <1>5, <2>2, <2>4 DEF z, y
  <1>7. CASE z + k > t.arr
    <2>1. Counted(t, k) = RaiseUpdate(u)
      <3>1. CASE t.down
        <4>1. z = t.arr - Clamped(t) /\ Clamped(t) \in 0 .. t.arr
          BY <3>1 DEF Phase, Clamped, TimState
        <4>2. ~(k < Clamped(t) + 1) /\ k # 0 /\ k - (Clamped(t) + 1) = (z + k) - M
          BY <1>0, <1>7, <4>1
        <4>3. Counted(t, k) = RaiseUpdate([t EXCEPT !.cnt = t.arr - ((k - (Clamped(t) + 1)) % M)])
          BY <3>1, <4>2 DEF Counted, tim_apply_tick_down
        <4>4. (k - (Clamped(t) + 1)) % M = y
          <5>1. z + k \in Nat /\ M <= z + k
            BY <1>0, <1>1, <1>7
          <5>. HIDE DEF z, M
          <5>2. ((z + k) - M) % M = (z + k) % M
            BY <1>0, <5>1, SmallMod
          <5>. QED
            BY <4>2, <5>2
        <4>. QED
          BY <3>1, <4>3, <4>4 DEF CntAt
      <3>2. CASE ~t.down
        <4>1. z = Clamped(t) /\ Clamped(t) \in 0 .. t.arr
          BY <3>2 DEF Phase, Clamped, TimState
        <4>2. ~(k < t.arr - Clamped(t) + 1) /\ k # 0 /\ k - (t.arr - Clamped(t) + 1) = (z + k) - M
          BY <1>0, <1>7, <4>1
        <4>3. Counted(t, k) = RaiseUpdate([t EXCEPT !.cnt = (k - (t.arr - Clamped(t) + 1)) % M])
          BY <3>2, <4>2 DEF Counted, tim_apply_tick_up
        <4>4. (k - (t.arr - Clamped(t) + 1)) % M = y
          <5>1. z + k \in Nat /\ M <= z + k
            BY <1>0, <1>1, <1>7
          <5>. HIDE DEF z, M
          <5>2. ((z + k) - M) % M = (z + k) % M
            BY <1>0, <5>1, SmallMod
          <5>. QED
            BY <4>2, <5>2
        <4>. QED
          BY <3>2, <4>3, <4>4 DEF CntAt
      <3>. QED
        BY <3>1, <3>2
    <2>. HIDE DEF u, z, y
    <2>2. (u.uif \/ ~u.udis) = (t.uif \/ (~t.udis /\ z + k > t.arr))
      BY <1>0, <1>5, <1>7
    <2>. QED
      BY <1>4, <1>5, <2>1, <2>2, RaiseUpdateIs DEF z, y
  <1>. QED
    BY <1>0, <1>1, <1>6, <1>7

\* One call of the tick function on a running timer; it keeps running unless it is
\* in one-pulse mode.
LEMMA TimTickIs ==
    ASSUME NEW t \in TimState, t.cen, NEW n \in Nat
    PROVE  LET r == tim_tick(t, n)
               k == (t.accum + n) \div (t.psc + 1)
           IN  /\ r \in TimState /\ k \in Nat
               /\ r.down = t.down /\ r.opm = t.opm /\ r.udis = t.udis /\ r.uie = t.uie
               /\ r.arr = t.arr /\ r.psc = t.psc /\ (~t.opm => r.cen = t.cen)
               /\ r.accum = (t.accum + n) % (t.psc + 1)
               /\ r.cnt = IF k = 0 THEN t.cnt ELSE CntAt(t, (Phase(t) + k) % (t.arr + 1))
               /\ r.uif = (t.uif \/ (~t.udis /\ Phase(t) + k > t.arr))
  <1>. DEFINE k == (t.accum + n) \div (t.psc + 1)
              m == (t.accum + n) % (t.psc + 1)
              u == [t EXCEPT !.accum = m]
  <1>0. /\ t.psc + 1 \in Nat /\ t.psc + 1 > 0 /\ t.accum + n \in Nat /\ t.arr \in Nat
        /\ t.uif \in BOOLEAN /\ t.udis \in BOOLEAN
    BY DEF TimState
  <1>1. k \in Nat /\ m \in Nat
    BY <1>0, DivMod
  <1>2. tim_tick(t, n) = Counted(u, k)
    <2>1. u.down = t.down
      BY DEF TimState
    <2>. QED
      BY <2>1 DEF tim_tick, Counted
  <1>. HIDE DEF k, m
  <1>3. /\ u \in TimState /\ u.accum = m
        /\ u.down = t.down /\ u.opm = t.opm /\ u.udis = t.udis /\ u.uie = t.uie
        /\ u.arr = t.arr /\ u.psc = t.psc /\ u.cen = t.cen /\ u.uif = t.uif /\ u.cnt = t.cnt
    BY <1>1 DEF TimState
  <1>. HIDE DEF u
  <1>4. Phase(u) = Phase(t) /\ \A z : CntAt(u, z) = CntAt(t, z)
    BY <1>3 DEF Phase, Clamped, CntAt
  <1>5. CASE k = 0
    <2>1. Counted(u, k) = u
      BY <1>5 DEF Counted, tim_apply_tick_up, tim_apply_tick_down
    <2>2. ~(Phase(t) + k > t.arr)
      BY <1>0, <1>5, PhaseRange
    <2>3. t.uif = (t.uif \/ (~t.udis /\ Phase(t) + k > t.arr))
      BY <1>0, <2>2
    <2>. QED
      BY <1>1, <1>2, <1>3, <1>5, <2>1, <2>3 DEF k, m
  <1>6. CASE k # 0
    <2>1. k > 0
      BY <1>1, <1>6
    <2>. DEFINE r == Counted(u, k)
    <2>2. /\ r \in TimState
          /\ r.down = u.down /\ r.opm = u.opm /\ r.udis = u.udis /\ r.uie = u.uie
          /\ r.arr = u.arr /\ r.psc = u.psc /\ r.accum = u.accum
          /\ ~u.opm => r.cen = u.cen
          /\ r.cnt = CntAt(u, (Phase(u) + k) % (u.arr + 1))
          /\ r.uif = (u.uif \/ (~u.udis /\ Phase(u) + k > u.arr))
      BY <1>1, <1>3, <2>1, CountedIs
    <2>. HIDE DEF r
    <2>3. /\ r.down = t.down /\ r.opm = t.opm /\ r.udis = t.udis /\ r.uie = t.uie
          /\ r.arr = t.arr /\ r.psc = t.psc /\ (~t.opm => r.cen = t.cen) /\ r.accum = m
          /\ r.cnt = CntAt(t, (Phase(t) + k) % (t.arr + 1))
      BY <1>3, <1>4, <2>2
    <2>4. r.uif = (t.uif \/ (~t.udis /\ Phase(t) + k > t.arr))
      BY <1>3, <1>4, <2>2
    <2>5. tim_tick(t, n) = r
      BY <1>2 DEF r
    <2>. QED
      BY <1>1, <1>6, <2>2, <2>3, <2>4, <2>5 DEF k, m
  <1>. QED
    BY <1>5, <1>6

\* Two calls leave an STM32 timer as one call with the sum.
LEMMA TimAdds ==
    ASSUME NEW t \in TimState, ~t.opm, NEW a \in Nat, NEW b \in Nat
    PROVE  tim_tick(tim_tick(t, a), b) = tim_tick(t, a + b)
  <1>1. CASE ~t.cen
    BY <1>1 DEF tim_tick
  <1>2. CASE t.cen
    <2>. DEFINE r == tim_tick(t, a)
                s == tim_tick(r, b)
                w == tim_tick(t, a + b)
                P == t.psc + 1
                M == t.arr + 1
                z == Phase(t)
                i == (t.accum + a) \div P
                j == (r.accum + b) \div P
                k == (t.accum + (a + b)) \div P
                y == (z + i) % M
    <2>0. /\ P \in Nat /\ P > 0 /\ M \in Nat /\ M > 0 /\ t.accum \in Nat /\ t.arr \in Nat /\ t.cnt \in Nat
          /\ z \in 0 .. t.arr /\ t.down \in BOOLEAN /\ t.uif \in BOOLEAN /\ t.udis \in BOOLEAN
      BY PhaseRange DEF TimState
    <2>. HIDE DEF P, M, z, r, s, w
    <2>1. /\ r \in TimState /\ i \in Nat
          /\ r.down = t.down /\ r.opm = t.opm /\ r.udis = t.udis /\ r.uie = t.uie
          /\ r.arr = t.arr /\ r.psc = t.psc /\ r.cen = t.cen
          /\ r.accum = (t.accum + a) % P
          /\ r.cnt = IF i = 0 THEN t.cnt ELSE CntAt(t, y)
          /\ r.uif = (t.uif \/ (~t.udis /\ z + i > t.arr))
      BY <1>2, TimTickIs DEF r, P, M, z
    <2>2. /\ s \in TimState /\ j \in Nat
          /\ s.down = r.down /\ s.opm = r.opm /\ s.udis = r.udis /\ s.uie = r.uie
          /\ s.arr = r.arr /\ s.psc = r.psc /\ s.cen = r.cen
          /\ s.accum = (r.accum + b) % P
          /\ s.cnt = IF j = 0 THEN r.cnt ELSE CntAt(r, (Phase(r) + j) % M)
          /\ s.uif = (r.uif \/ (~r.udis /\ Phase(r) + j > r.arr))
      <3>1. r.cen /\ ~r.opm /\ r.psc + 1 = P /\ r.arr + 1 = M
        BY <1>2, <2>1 DEF P, M
      <3>. QED
        BY <2>1, <3>1, TimTickIs DEF s
    <2>3. /\ w \in TimState /\ k \in Nat
          /\ w.down = t.down /\ w.opm = t.opm /\ w.udis = t.udis /\ w.uie = t.uie
          /\ w.arr = t.arr /\ w.psc = t.psc /\ w.cen = t.cen
          /\ w.accum = (t.accum + (a + b)) % P
          /\ w.cnt = IF k = 0 THEN t.cnt ELSE CntAt(t, (z + k) % M)
          /\ w.uif = (t.uif \/ (~t.udis /\ z + k > t.arr))
      <3>1. a + b \in Nat
        OBVIOUS
      <3>. QED
        BY <1>2, <3>1, TimTickIs DEF w, P, M, z
    <2>4. k = i + j /\ s.accum = w.accum
      <3>1. t.accum + a \in Nat /\ t.accum + (a + b) = (t.accum + a) + b
        BY <2>0
      <3>2. /\ ((t.accum + a) + b) \div P = (t.accum + a) \div P + (((t.accum + a) % P) + b) \div P
            /\ ((t.accum + a) + b) % P = (((t.accum + a) % P) + b) % P
        BY <2>0, <3>1, DivModAdd
      <3>. QED
        BY <2>1, <2>2, <2>3, <3>1, <3>2
    <2>5. y \in 0 .. t.arr /\ (z + i <= t.arr => y = z + i)
      <3>1. z + i \in Nat
        BY <2>0, <2>1
      <3>2. z + i <= t.arr => z + i < M
        BY <2>0, <3>1 DEF M
      <3>3. y \in 0 .. M - 1
        BY <2>0, <3>1, DivMod
      <3>4. z + i < M => y = z + i
        BY <2>0, <3>1, SmallMod
      <3>. HIDE DEF i, y
      <3>5. M - 1 = t.arr
        BY <2>0 DEF M
      <3>. QED
        BY <3>2, <3>3, <3>4, <3>5
    <2>6. Phase(r) = y
      <3>1. CASE i = 0
        <4>1. Phase(r) = z
          BY <2>1, <3>1 DEF Phase, Clamped, z
        <4>2. y = z
          BY <2>0, <2>5, <3>1
        <4>. QED
          BY <4>1, <4>2
      <3>2. CASE i # 0
        <4>. HIDE DEF i, y
        <4>1. r.cnt = CntAt(t, y)
          BY <2>1, <3>2
        <4>2. CntAt(t, y) \in 0 .. t.arr
          BY <2>0, <2>5 DEF CntAt
        <4>3. Clamped(r) = r.cnt
          BY <2>0, <2>1, <4>1, <4>2 DEF Clamped
        <4>. QED
          BY <2>0, <2>1, <2>5, <4>1, <4>3 DEF Phase, CntAt
      <3>. QED
        BY <3>1, <3>2
    <2>7. (y + j) % M = (z + k) % M
      <3>1. z + i \in Nat /\ z + k = (z + i) + j
        <4>. HIDE DEF i, j, k
        <4>. QED
          BY <2>0, <2>1, <2>2, <2>4
      <3>2. ((z + i) + j) % M = (((z + i) % M) + j) % M
        BY <2>0, <2>2, <3>1, DivModAdd
      <3>. QED
        BY <3>1, <3>2
    <2>. HIDE DEF i, j, k
    <2>8. s.cnt = w.cnt
      <3>0. \A x : CntAt(r, x) = CntAt(t, x)
        BY <2>1 DEF CntAt
      <3>. HIDE DEF y
      <3>1. CASE j = 0
        <4>1. k = i /\ s.cnt = r.cnt
          BY <2>1, <2>2, <2>4, <3>1
        <4>. QED
          BY <2>1, <2>3, <4>1 DEF y
      <3>2. CASE j # 0
        <4>1. k # 0
          BY <2>1, <2>2, <2>4, <3>2
        <4>2. s.cnt = CntAt(t, (y + j) % M)
          BY <2>2, <2>6, <3>0, <3>2
        <4>. QED
          BY <2>3, <2>7, <4>1, <4>2
      <3>. QED
        BY <3>1, <3>2
    <2>9. s.uif = w.uif
      <3>. HIDE DEF y
      <3>1. (z + k > t.arr) <=> (z + i > t.arr \/ y + j > t.arr)
        BY <2>0, <2>1, <2>2, <2>4, <2>5
      <3>. DEFINE A == z + k > t.arr
                  B == z + i > t.arr
                  C == y + j > t.arr
      <3>2. s.uif = ((t.uif \/ (~t.udis /\ B)) \/ (~t.udis /\ C))
        BY <2>1, <2>2, <2>6
      <3>3. w.uif = (t.uif \/ (~t.udis /\ A))
        BY <2>3
      <3>4. A <=> (B \/ C)
        BY <3>1
      <3>. HIDE DEF A, B, C
      <3>. QED
        BY <3>2, <3>3, <3>4
    <2>10. s = w
      BY <2>1, <2>2, <2>3, <2>4, <2>8, <2>9, SameTim
    <2>. QED
      BY <2>10 DEF s, r, w
  <1>. QED
    BY <1>1, <1>2 DEF TimState

\* Two nRF timers that agree on every field are the same.
LEMMA SameNrf ==
    ASSUME NEW r \in NrfState, NEW s \in NrfState,
           r.running = s.running, r.counter = s.counter, r.cc = s.cc, r.event = s.event,
           r.inten = s.inten, r.psc = s.psc, r.accum = s.accum
    PROVE  r = s
  BY DEF NrfState

\* One call of the tick function on a running nRF timer.
LEMMA NrfTickIs ==
    ASSUME Mask \in Nat, NEW t \in NrfState, t.running, NEW n \in Nat
    PROVE  LET r == nrf_tick(t, n)
               P == Pow2(t.psc)
               k == (t.accum + n) \div P
           IN  /\ r \in NrfState /\ P \in 1 .. 2 /\ k \in Nat /\ k <= t.accum + n
               /\ r.running = t.running /\ r.cc = t.cc /\ r.inten = t.inten /\ r.psc = t.psc
               /\ r.accum = (t.accum + n) % P
               /\ r.counter = (t.counter + k) % (Mask + 1)
               /\ r.event = (t.event \/ (k > 0 /\ Passed(t.cc, t.counter, r.counter)))
  <1>. DEFINE P == Pow2(t.psc)
              k == (t.accum + n) \div P
              m == (t.accum + n) % P
              c == (t.counter + k) % (Mask + 1)
              e == t.event \/ (k > 0 /\ Passed(t.cc, t.counter, c))
  <1>1. P \in 1 .. 2 /\ t.accum + n \in Nat /\ t.counter \in Nat
    BY DEF Pow2, NrfState
  <1>. HIDE DEF P
  <1>2. k \in Nat /\ m \in 0 .. P - 1 /\ t.accum + n = P * k + m
    BY <1>1, DivMod
  <1>3. nrf_tick(t, n) = [t EXCEPT !.accum = m, !.counter = c, !.event = e]
    BY DEF nrf_tick, P
  <1>. HIDE DEF k, m
  <1>4. k <= t.accum + n
    BY <1>1, <1>2
  <1>5. c \in 0 .. Mask
    <2>1. t.counter + k \in Nat /\ Mask + 1 \in Nat /\ Mask + 1 > 0
      BY <1>1, <1>2
    <2>2. c \in 0 .. (Mask + 1) - 1
      BY <2>1, DivMod
    <2>. QED
      BY <2>2
  <1>6. e \in BOOLEAN
    BY DEF NrfState
  <1>7. m \in 0 .. 1
    BY <1>1, <1>2
  <1>. DEFINE r == [t EXCEPT !.accum = m, !.counter = c, !.event = e]
  <1>8. r.event = e /\ r.counter = c /\ r.accum = m
    <2>. HIDE DEF c, e
    <2>. QED
      BY DEF NrfState
  <1>9. /\ r \in NrfState
        /\ r.running = t.running /\ r.cc = t.cc /\ r.inten = t.inten /\ r.psc = t.psc
    <2>. HIDE DEF c, e
    <2>. QED
      BY <1>5, <1>6, <1>7 DEF NrfState
  <1>. HIDE DEF r, c
  <1>10. r.event = (t.event \/ (k > 0 /\ Passed(t.cc, t.counter, r.counter)))
    BY <1>8
  <1>11. nrf_tick(t, n) = r
    BY <1>3 DEF r, c
  <1>. QED
    BY <1>1, <1>2, <1>4, <1>8, <1>9, <1>10, <1>11 DEF P, k, m, c

\* Two calls that are together shorter than a round of the counter leave an nRF timer as
\* one call with the sum: the compare value is passed in one part exactly if it is
\* passed in the whole.
LEMMA NrfAdds ==
    ASSUME Mask \in Nat, NEW t \in NrfState, NEW a \in Nat, NEW b \in Nat, a + b < Mask
    PROVE  nrf_tick(nrf_tick(t, a), b) = nrf_tick(t, a + b)
  <1>1. CASE ~t.running
    BY <1>1 DEF nrf_tick
  <1>2. CASE t.running
    <2>. DEFINE r == nrf_tick(t, a)
                s == nrf_tick(r, b)
                w == nrf_tick(t, a + b)
                P == Pow2(t.psc)
                N == Mask + 1
                i == (t.accum + a) \div P
                j == (r.accum + b) \div P
                k == (t.accum + (a + b)) \div P
    <2>0. t.accum \in 0 .. 1 /\ t.counter \in 0 .. Mask /\ t.cc \in 0 .. Mask /\ t.event \in BOOLEAN
      BY DEF NrfState
    <2>. HIDE DEF P, r, s, w
    <2>1. /\ r \in NrfState /\ P \in 1 .. 2 /\ i \in Nat
          /\ r.running = t.running /\ r.cc = t.cc /\ r.inten = t.inten /\ r.psc = t.psc
          /\ r.accum = (t.accum + a) % P
          /\ r.counter = (t.counter + i) % N
          /\ r.event = (t.event \/ (i > 0 /\ Passed(t.cc, t.counter, r.counter)))
      BY <1>2, NrfTickIs DEF r, P
    <2>2. /\ s \in NrfState /\ j \in Nat
          /\ s.running = r.running /\ s.cc = r.cc /\ s.inten = r.inten /\ s.psc = r.psc
          /\ s.accum = (r.accum + b) % P
          /\ s.counter = (r.counter + j) % N
          /\ s.event = (r.event \/ (j > 0 /\ Passed(r.cc, r.counter, s.counter)))
      <3>1. r.running /\ Pow2(r.psc) = P
        BY <1>2, <2>1 DEF P
      <3>. DEFINE Q == Pow2(r.psc)
                  q == (r.accum + b) \div Q
      <3>2. /\ s \in NrfState /\ q \in Nat
            /\ s.running = r.running /\ s.cc = r.cc /\ s.inten = r.inten /\ s.psc = r.psc
            /\ s.accum = (r.accum + b) % Q
            /\ s.counter = (r.counter + q) % N
            /\ s.event = (r.event \/ (q > 0 /\ Passed(r.cc, r.counter, s.counter)))
        <4>1. r \in NrfState
          BY <2>1
        <4>. QED
          BY <3>1, <4>1, NrfTickIs DEF s
      <3>3. Q = P /\ q = j
        BY <3>1
      <3>. HIDE DEF Q, q, j
      <3>. QED
        BY <3>2, <3>3
    <2>3. /\ w \in NrfState /\ k \in Nat /\ k <= t.accum + (a + b)
          /\ w.running = t.running /\ w.cc = t.cc /\ w.inten = t.inten /\ w.psc = t.psc
          /\ w.accum = (t.accum + (a + b)) % P
          /\ w.counter = (t.counter + k) % N
          /\ w.event = (t.event \/ (k > 0 /\ Passed(t.cc, t.counter, w.counter)))
      <3>1. a + b \in Nat
        OBVIOUS
      <3>. QED
        BY <1>2, <3>1, NrfTickIs DEF w, P
    <2>4. k = i + j /\ s.accum = w.accum
      <3>1. t.accum + a \in Nat /\ t.accum + (a + b) = (t.accum + a) + b /\ P \in Nat /\ P > 0
        <4>. HIDE DEF i, j, k
        <4>. QED
          BY <2>0, <2>1
      <3>2. /\ ((t.accum + a) + b) \div P = (t.accum + a) \div P + (((t.accum + a) % P) + b) \div P
            /\ ((t.accum + a) + b) % P = (((t.accum + a) % P) + b) % P
        BY <3>1, DivModAdd
      <3>. QED
        BY <2>1, <2>2, <2>3, <3>1, <3>2
    <2>. HIDE DEF i, j, k
    <2>5. s.counter = w.counter
      <3>1. t.counter + i \in Nat /\ t.counter + k = (t.counter + i) + j /\ N \in Nat /\ N > 0
        BY <2>0, <2>1, <2>2, <2>4
      <3>2. ((t.counter + i) + j) % N = (((t.counter + i) % N) + j) % N
        BY <2>2, <3>1, DivModAdd
      <3>. QED
        BY <2>1, <2>2, <2>3, <3>1, <3>2
    <2>6. k <= Mask
      BY <2>0, <2>3
    <2>7. /\ t.counter + i < N => r.counter = t.counter + i
          /\ N <= t.counter + i => r.counter = t.counter + i - N
          /\ t.counter + k < N => w.counter = t.counter + k
          /\ N <= t.counter + k => w.counter = t.counter + k - N
      <3>1. /\ t.counter + i \in Nat /\ t.counter + k \in Nat /\ N \in Nat /\ N > 0
            /\ t.counter + i < N + N /\ t.counter + k < N + N
        BY <2>0, <2>1, <2>2, <2>4, <2>6
      <3>. HIDE DEF N
      <3>2. /\ t.counter + i < N => r.counter = t.counter + i
            /\ N <= t.counter + i => r.counter = t.counter + i - N
        <4>. DEFINE x == t.counter + i
        <4>1. r.counter = x % N /\ x \in Nat /\ x < N + N
          BY <2>1, <3>1
        <4>. HIDE DEF x
        <4>2. x < N => x % N = x
          BY <3>1, <4>1, SmallMod
        <4>3. N <= x => x % N = x - N
          BY <3>1, <4>1, SmallMod
        <4>4. (x < N => r.counter = x) /\ (N <= x => r.counter = x - N)
          BY <4>1, <4>2, <4>3
        <4>. QED
          BY <2>0, <2>1, <2>2, <2>4, <3>1, <4>4 DEF x
      <3>3. /\ t.counter + k < N => w.counter = t.counter + k
            /\ N <= t.counter + k => w.counter = t.counter + k - N
        <4>. DEFINE x == t.counter + k
        <4>1. w.counter = x % N /\ x \in Nat /\ x < N + N
          BY <2>3, <3>1
        <4>. HIDE DEF x
        <4>2. x < N => x % N = x
          BY <3>1, <4>1, SmallMod
        <4>3. N <= x => x % N = x - N
          BY <3>1, <4>1, SmallMod
        <4>4. (x < N => w.counter = x) /\ (N <= x => w.counter = x - N)
          BY <4>1, <4>2, <4>3
        <4>. QED
          BY <2>0, <2>1, <2>2, <2>4, <3>1, <4>4 DEF x
      <3>. QED
        BY <3>2, <3>3
    <2>. DEFINE A == i > 0 /\ Passed(t.cc, t.counter, r.counter)
                B == j > 0 /\ Passed(t.cc, r.counter, w.counter)
                C == k > 0 /\ Passed(t.cc, t.counter, w.counter)
    <2>8. C <=> (A \/ B)
      <3>1. r.counter \in 0 .. Mask /\ w.counter \in 0 .. Mask
        BY <2>1, <2>3 DEF NrfState
      <3>2. i \in Nat /\ j \in Nat /\ k = i + j /\ k <= Mask
        BY <2>1, <2>2, <2>4, <2>6
      <3>. DEFINE m == Mask
                  cc == t.cc
                  c == t.counter
                  x == r.counter
                  y == w.counter
      <3>3. /\ m \in Nat /\ cc \in 0 .. m /\ c \in 0 .. m /\ x \in 0 .. m /\ y \in 0 .. m
            /\ i \in Nat /\ j \in Nat /\ k \in Nat /\ k = i + j /\ k <= m
            /\ c + i < m + 1 => x = c + i
            /\ m + 1 <= c + i => x = c + i - (m + 1)
            /\ c + k < m + 1 => y = c + k
            /\ m + 1 <= c + k => y = c + k - (m + 1)
        BY <2>0, <2>3, <2>7, <3>1, <3>2
      <3>. HIDE DEF m, cc, c, x, y
      <3>4. (k > 0 /\ Passed(cc, c, y)) <=>
             ((i > 0 /\ Passed(cc, c, x)) \/ (j > 0 /\ Passed(cc, x, y)))
        <4>1. CASE i = 0
          BY <3>3, <4>1 DEF Passed
        <4>2. CASE j = 0
          BY <3>3, <4>2 DEF Passed
        <4>3. CASE i > 0 /\ j > 0
          <5>1. CASE c + k < m + 1
            BY <3>3, <4>3, <5>1 DEF Passed
          <5>2. CASE m + 1 <= c + k /\ c + i < m + 1
            BY <3>3, <4>3, <5>2 DEF Passed
          <5>3. CASE m + 1 <= c + i
            BY <3>3, <4>3, <5>3 DEF Passed
          <5>. QED
            BY <3>3, <5>1, <5>2, <5>3
        <4>. QED
          BY <3>3, <4>1, <4>2, <4>3
      <3>. QED
        BY <3>4 DEF cc, c, x, y
    <2>9. s.event = w.event
      <3>1. s.event = ((t.event \/ A) \/ B)
        BY <2>1, <2>2, <2>5
      <3>2. w.event = (t.event \/ C)
        BY <2>3
      <3>. HIDE DEF A, B, C
      <3>. QED
        BY <2>8, <3>1, <3>2
    <2>10. s = w
      BY <2>1, <2>2, <2>3, <2>4, <2>5, <2>9, SameNrf
    <2>. QED
      BY <2>10 DEF s, r, w
  <1>. QED
    BY <1>1, <1>2 DEF NrfState

\* A channel of the LPIT stays one.
LEMMA LpitTickType ==
    ASSUME NEW t \in LpitState, NEW n \in Nat
    PROVE  lpit_tick(t, n) \in LpitState
  <1>1. [t EXCEPT !.cval = t.tval, !.tif = TRUE] \in LpitState
    BY DEF LpitState
  <1>2. t.cval > n => [t EXCEPT !.cval = t.cval - n] \in LpitState
    <2>1. t.cval > n => t.cval - n \in Nat
      BY DEF LpitState
    <2>. QED
      BY <2>1 DEF LpitState
  <1>. QED
    BY <1>1, <1>2 DEF lpit_tick

\* Two calls set the flag of an LPIT channel exactly if one call with the sum does.
LEMMA LpitAdds ==
    ASSUME NEW t \in LpitState, NEW a \in Nat, NEW b \in Nat
    PROVE  lpit_tick(lpit_tick(t, a), b).tif = lpit_tick(t, a + b).tif
  <1>1. CASE ~(t.mcen /\ t.ten) \/ t.chain
    <2>1. \A n : lpit_tick(t, n) = t
      BY <1>1 DEF lpit_tick
    <2>. QED
      BY <2>1
  <1>2. CASE ~(~(t.mcen /\ t.ten) \/ t.chain) /\ t.cval > a
    <2>. DEFINE r == [t EXCEPT !.cval = t.cval - a]
    <2>1. lpit_tick(t, a) = r
      BY <1>2 DEF lpit_tick
    <2>2. /\ r.cval = t.cval - a /\ r.tval = t.tval /\ r.tif = t.tif
          /\ ~(~(r.mcen /\ r.ten) \/ r.chain) /\ r \in LpitState
      BY <1>2 DEF LpitState
    <2>. HIDE DEF r
    <2>3. (r.cval > b) <=> (t.cval > a + b)
      BY <2>2 DEF LpitState
    <2>4. lpit_tick(r, b).tif = IF r.cval > b THEN r.tif ELSE TRUE
      BY <2>2 DEF lpit_tick, LpitState
    <2>5. lpit_tick(t, a + b).tif = IF t.cval > a + b THEN t.tif ELSE TRUE
      BY <1>2 DEF lpit_tick, LpitState
    <2>. QED
      BY <2>1, <2>2, <2>3, <2>4, <2>5
  <1>3. CASE ~(~(t.mcen /\ t.ten) \/ t.chain) /\ ~(t.cval > a)
    <2>1. lpit_tick(t, a).tif = TRUE /\ lpit_tick(t, a) \in LpitState
      BY <1>3, LpitTickType DEF lpit_tick, LpitState
    <2>2. \A r \in LpitState : r.tif = TRUE => lpit_tick(r, b).tif = TRUE
      BY DEF lpit_tick, LpitState
    <2>3. ~(t.cval > a + b)
      BY <1>3 DEF LpitState
    <2>4. lpit_tick(t, a + b).tif = TRUE
      BY <1>3, <2>3 DEF lpit_tick, LpitState
    <2>. QED
      BY <2>1, <2>2, <2>4
  <1>. QED
    BY <1>1, <1>2, <1>3

\* The target's tick function keeps the record of its timer, also in one-pulse mode.
LEMMA TimTickType ==
    ASSUME NEW t \in TimState, NEW n \in Nat
    PROVE  tim_tick(t, n) \in TimState
  <1>1. CASE t.cen
    BY <1>1, TimTickIs
  <1>2. CASE ~t.cen
    BY <1>2 DEF tim_tick
  <1>. QED
    BY <1>1, <1>2 DEF TimState

\* A tick leaves the counter within its width.
LEMMA NrfTickType ==
    ASSUME Mask \in Nat, NEW t \in NrfState, NEW n \in Nat
    PROVE  nrf_tick(t, n) \in NrfState
  <1>1. CASE t.running
    BY <1>1, NrfTickIs
  <1>2. CASE ~t.running
    BY <1>2 DEF nrf_tick
  <1>. QED
    BY <1>1, <1>2 DEF NrfState

\* A register write or an update event keeps the record of an STM32 timer.
LEMMA TimWriteType ==
    ASSUME tmr \in TimState, NEW sec, tim_write(sec)
    PROVE  tmr' \in TimState /\ cpu' = cpu
  <1>1. ASSUME NEW en \in BOOLEAN, NEW d \in BOOLEAN, NEW o \in BOOLEAN, NEW u \in BOOLEAN
        PROVE  [tmr EXCEPT !.cen = en, !.down = d, !.opm = o, !.udis = u] \in TimState
    BY DEF TimState
  <1>2. /\ [tmr EXCEPT !.uie = ~tmr.uie] \in TimState
        /\ [tmr EXCEPT !.uif = FALSE] \in TimState
        /\ [tmr EXCEPT !.cnt = 0, !.accum = 0] \in TimState
    BY DEF TimState
  <1>3. ASSUME NEW v \in Nat
        PROVE  /\ [tmr EXCEPT !.cnt = v] \in TimState
               /\ [tmr EXCEPT !.arr = v] \in TimState
               /\ [tmr EXCEPT !.psc = v] \in TimState
    BY DEF TimState
  <1>4. RaiseUpdate([tmr EXCEPT !.cnt = 0, !.accum = 0]) \in TimState
    BY <1>2, RaiseUpdateIs
  <1>5. \A v : (v \in 0 .. Mask \/ v \in 0 .. MaxPsc) => v \in Nat
    OBVIOUS
  <1>. QED
    BY <1>1, <1>2, <1>3, <1>4, <1>5 DEF tim_write

\* A register write leaves the LPIT a state of its own.
LEMMA LpitWriteType ==
    ASSUME tmr \in LpitState, mcxw71c_lpit_write
    PROVE  tmr' \in LpitState /\ cpu' = cpu
  <1>1. ASSUME NEW v \in 0 .. Mask
        PROVE  [tmr EXCEPT !.tval = v, !.cval = IF tmr.ten THEN tmr.cval ELSE v] \in LpitState
    <2>. DEFINE c == IF tmr.ten THEN tmr.cval ELSE v
    <2>1. c \in Nat /\ v \in Nat
      BY DEF LpitState
    <2>. HIDE DEF c
    <2>2. [tmr EXCEPT !.tval = v, !.cval = c] \in LpitState
      BY <2>1 DEF LpitState
    <2>. QED
      BY <2>2 DEF c
  <1>2. ASSUME NEW ch \in BOOLEAN
        PROVE  /\ [Enabled(tmr) EXCEPT !.chain = ch] \in LpitState
               /\ [tmr EXCEPT !.ten = FALSE, !.chain = ch] \in LpitState
    BY DEF LpitState, Enabled
  <1>3. /\ [tmr EXCEPT !.tif = FALSE] \in LpitState
        /\ [tmr EXCEPT !.tie = ~tmr.tie] \in LpitState
        /\ [tmr EXCEPT !.mcen = ~tmr.mcen] \in LpitState
    BY DEF LpitState
  <1>. QED
    BY <1>1, <1>2, <1>3 DEF mcxw71c_lpit_write

\* A register write leaves the nRF timer a state of its own.
LEMMA NrfWriteType ==
    ASSUME Mask \in Nat, tmr \in NrfState, nrf5340_timer_write
    PROVE  tmr' \in NrfState /\ cpu' = cpu
  <1>1. ASSUME NEW b \in BOOLEAN
        PROVE  /\ [tmr EXCEPT !.running = b] \in NrfState
               /\ [tmr EXCEPT !.event = b] \in NrfState
               /\ [tmr EXCEPT !.inten = b] \in NrfState
    BY DEF NrfState
  <1>2. ASSUME NEW v \in 0 .. Mask
        PROVE  [tmr EXCEPT !.counter = v] \in NrfState /\ [tmr EXCEPT !.cc = v] \in NrfState
    BY DEF NrfState
  <1>3. ASSUME NEW v \in 0 .. 1
        PROVE  [tmr EXCEPT !.psc = v] \in NrfState
    BY DEF NrfState
  <1>4. (tmr.counter + 1) % (Mask + 1) \in 0 .. Mask
    <2>1. tmr.counter + 1 \in Nat /\ Mask + 1 \in Nat /\ Mask + 1 > 0
      BY DEF NrfState
    <2>2. (tmr.counter + 1) % (Mask + 1) \in 0 .. (Mask + 1) - 1
      BY <2>1, DivMod
    <2>. QED
      BY <2>2
  <1>5. (~tmr.inten) \in BOOLEAN /\ 0 \in 0 .. Mask
    OBVIOUS
  <1>. QED
    BY <1>1, <1>2, <1>3, <1>4, <1>5 DEF nrf5340_timer_write

\* The counter of the selected target has a width.
LEMMA MaskIsNat ==
    ASSUME cpu \in Targets
    PROVE  Mask \in Nat
  BY TimerBounds DEF Mask

\* A reset leaves the timer a state of its own.
LEMMA TimerAtResetType ==
    ASSUME cpu \in Targets, tmr' = TimerAtReset, cpu' = cpu
    PROVE  TimerTypeOK'
  <1>1. Mask \in Nat
    BY MaskIsNat
  <1>2. cpu \in Stm32 => TimerAtReset \in TimState
    BY <1>1 DEF TimerAtReset, TimAtReset, TimState, Stm32
  <1>3. cpu = "nrf5340" => TimerAtReset \in NrfState
    BY <1>1 DEF TimerAtReset, NrfAtReset, NrfState, Stm32
  <1>4. cpu = "mcxw71c" => TimerAtReset \in LpitState
    BY DEF TimerAtReset, LpitAtReset, LpitState, Stm32
  <1>5. NrfState' = NrfState
    BY DEF NrfState, Mask
  <1>. QED
    BY <1>2, <1>3, <1>4, <1>5 DEF TimerTypeOK

\* Every call of a driver leaves the selected target's timer in its state.
THEOREM TimerTypeCorrect == TimersSpec => []TimerTypeOK
  <1>1. TimersInit => TimerTypeOK
    <2>. SUFFICES ASSUME TimersInit PROVE TimerTypeOK
      OBVIOUS
    <2>0. cpu \in Targets /\ tmr = TimerAtReset
      BY DEF TimersInit, TargetInit
    <2>1. Mask \in Nat
      BY <2>0, MaskIsNat
    <2>2. cpu \in Stm32 => tmr \in TimState
      BY <2>0, <2>1 DEF TimerAtReset, TimAtReset, TimState, Stm32
    <2>3. cpu = "nrf5340" => tmr \in NrfState
      BY <2>0, <2>1 DEF TimerAtReset, NrfAtReset, NrfState, Stm32
    <2>4. cpu = "mcxw71c" => tmr \in LpitState
      BY <2>0 DEF TimerAtReset, LpitAtReset, LpitState, Stm32
    <2>. QED
      BY <2>0, <2>2, <2>3, <2>4 DEF TimerTypeOK
  <1>2. TimerTypeOK /\ [TimersNext]_timerVars => TimerTypeOK'
    <2>. SUFFICES ASSUME TimerTypeOK, [TimersNext]_timerVars PROVE TimerTypeOK'
      OBVIOUS
    <2>0. Mask \in Nat /\ cpu \in Targets
      BY MaskIsNat DEF TimerTypeOK
    <2>1. ASSUME cpu' = cpu, tmr' = tmr PROVE TimerTypeOK'
      BY <2>1 DEF TimerTypeOK, NrfState, Mask
    <2>2. ASSUME cpu' = cpu, cpu \in Stm32, tmr' \in TimState PROVE TimerTypeOK'
      BY <2>0, <2>2 DEF TimerTypeOK, Stm32
    <2>3. ASSUME cpu' = cpu, cpu = "nrf5340", tmr' \in NrfState PROVE TimerTypeOK'
      BY <2>0, <2>3 DEF TimerTypeOK, Stm32, NrfState, Mask
    <2>4. ASSUME cpu' = cpu, cpu = "mcxw71c", tmr' \in LpitState PROVE TimerTypeOK'
      BY <2>0, <2>4 DEF TimerTypeOK, Stm32
    <2>5. ASSUME NEW n \in 1 .. TimerBatch, timers_tick(n), cpu \in Stm32 PROVE TimerTypeOK'
      <3>1. n \in Nat /\ tmr \in TimState /\ tmr' = tim_tick(tmr, n) /\ cpu' = cpu
        BY <2>5 DEF timers_tick, TimerTypeOK
      <3>. QED
        BY <2>2, <2>5, <3>1, TimTickType
    <2>6. ASSUME NEW n \in 1 .. TimerBatch, nrf5340_timers_tick(n) PROVE TimerTypeOK'
      <3>1. /\ n \in Nat /\ cpu = "nrf5340" /\ tmr \in NrfState
            /\ tmr' = nrf_tick(tmr, n) /\ cpu' = cpu
        BY <2>6 DEF nrf5340_timers_tick, TimerTypeOK
      <3>. QED
        BY <2>0, <2>3, <3>1, NrfTickType
    <2>7. ASSUME NEW n \in 1 .. TimerBatch, mcxw71c_timers_tick(n) PROVE TimerTypeOK'
      <3>1. /\ n \in Nat /\ cpu = "mcxw71c" /\ tmr \in LpitState
            /\ tmr' = lpit_tick(tmr, n) /\ cpu' = cpu
        BY <2>7 DEF mcxw71c_timers_tick, TimerTypeOK
      <3>. QED
        BY <2>4, <3>1, LpitTickType
    <2>8. ASSUME NEW sec, tim_write(sec), cpu \in Stm32 PROVE TimerTypeOK'
      BY <2>2, <2>8, TimWriteType DEF TimerTypeOK
    <2>9. CASE nrf5340_timer_write
      BY <2>0, <2>3, <2>9, NrfWriteType DEF TimerTypeOK, nrf5340_timer_write
    <2>10. CASE mcxw71c_lpit_write
      BY <2>4, <2>10, LpitWriteType DEF TimerTypeOK, mcxw71c_lpit_write
    <2>11. CASE TimerGate \/ TimerIrqTaken \/ UNCHANGED timerVars
      BY <2>1, <2>11 DEF TimerGate, TimerIrqTaken, timerVars
    <2>12. CASE timers_init
      BY <2>0, <2>12, TimerAtResetType DEF timers_init
    <2>. QED
      BY <2>5, <2>6, <2>7, <2>8, <2>9, <2>10, <2>11, <2>12
      DEF TimersNext, stm32l552_timers_tick, stm32h563_timers_tick, stm32u585_timers_tick,
          stm32l552_tim_write, stm32h563_tim_write, stm32u585_tim_write, stm32l552_timers_init,
          stm32h563_timers_init, stm32u585_timers_init, nrf5340_timers_init, mcxw71c_timers_init,
          Stm32
  <1>. QED
    BY <1>1, <1>2, PTL DEF TimersSpec

\* How time is cut into batches does not show in a timer of any target, whatever
\* its counter width, prescaler and batch length.
THEOREM BatchesAddCorrect == TimersSpec => []BatchesAdd
  <1>1. TimerTypeOK => BatchesAdd
    <2>. SUFFICES ASSUME TimerTypeOK, NEW p \in Batches
                  PROVE  LET a == p[1]
                             b == p[2]
                         IN  CASE cpu \in Stm32 -> tmr.opm \/ tim_tick(tim_tick(tmr, a), b) = tim_tick(tmr, a + b)
                               [] cpu = "nrf5340" -> a + b >= Mask \/ nrf_tick(nrf_tick(tmr, a), b) = nrf_tick(tmr, a + b)
                               [] OTHER -> lpit_tick(lpit_tick(tmr, a), b).tif = lpit_tick(tmr, a + b).tif
      BY DEF BatchesAdd
    <2>1. p[1] \in Nat /\ p[2] \in Nat /\ p[1] + p[2] \in Nat
      BY DEF Batches
    <2>2. Mask \in Nat /\ cpu \in Targets
      BY MaskIsNat DEF TimerTypeOK
    <2>3. CASE cpu \in Stm32
      <3>1. cpu # "nrf5340"
        BY <2>3 DEF Stm32
      <3>2. tmr.opm \/ tim_tick(tim_tick(tmr, p[1]), p[2]) = tim_tick(tmr, p[1] + p[2])
        BY <2>1, <2>3, TimAdds DEF TimerTypeOK
      <3>. QED
        BY <2>3, <3>1, <3>2
    <2>4. CASE cpu = "nrf5340"
      <3>1. p[1] + p[2] >= Mask \/ p[1] + p[2] < Mask
        BY <2>1, <2>2
      <3>2. cpu \notin Stm32
        BY <2>4 DEF Stm32
      <3>. QED
        BY <2>1, <2>2, <2>4, <3>1, <3>2, NrfAdds DEF TimerTypeOK
    <2>5. CASE cpu = "mcxw71c"
      <3>1. cpu \notin Stm32 /\ cpu # "nrf5340"
        BY <2>5 DEF Stm32
      <3>. QED
        BY <2>1, <2>5, <3>1, LpitAdds DEF TimerTypeOK
    <2>. QED
      BY <2>2, <2>3, <2>4, <2>5 DEF Targets
  <1>. QED
    BY <1>1, TimerTypeCorrect, PTL

-----------------------------------------------------------------------------
(* The watchdogs: the reset comes neither early nor late. *)

WdtState == [running : BOOLEAN, access : BOOLEAN, counter : Nat, reload : Nat,
             pr : Prescalers, accum : Nat]
WwdgState == [clk : BOOLEAN, wdga : BOOLEAN, counter : Nat, tb : Prescalers, ewi : BOOLEAN,
              sr : BOOLEAN, accum : Nat]

\* After a load of L the counter stands at c with the fraction acc: the L - c counts took
\* between Fastest and Slowest cycles each, and the fraction at the load was less than a
\* count of the slowest prescaler.
Within(L, c, acc, e) ==
  /\ c <= L /\ acc < Slowest
  /\ (L - c) * Fastest + acc <= e + Slowest - 1
  /\ e <= (L - c) * Slowest + acc

\* The counts from a load to the reset.
Counts == IF used = "wdt" THEN loaded ELSE loaded - Warn + 1

WdgShape ==
  /\ cpu \in Targets /\ used \in {"wdt", "wwdg"}
  /\ wdt \in WdtState /\ wwdg \in WwdgState /\ loaded \in Nat /\ elapsed \in Nat
  /\ resetReq \in BOOLEAN
  /\ used = "wdt" => ~wwdg.clk
  /\ used = "wwdg" => ~wdt.running /\ cpu \in Stm32

\* The independent watchdog, and the nRF5340's.
WdtTimed ==
  used = "wdt" =>
    /\ Within(loaded, wdt.counter, wdt.accum, elapsed)
    /\ wdt.counter = 0 => loaded = 0

\* The window watchdog: until the first load, and after a load that switches it off, no
\* cycles are counted.
WwdgTimed ==
  used = "wwdg" =>
    /\ wwdg.accum < Slowest
    /\ ~wwdg.wdga => elapsed = 0
    /\ wwdg.wdga => wwdg.counter <= loaded
    /\ wwdg.wdga /\ loaded >= Warn =>
         wwdg.counter >= Warn /\ Within(loaded, wwdg.counter, wwdg.accum, elapsed)

WdgInv ==
  /\ WdgShape
  /\ resetReq => elapsed + Slowest - 1 >= Counts * Fastest
  /\ ~resetReq => WdtTimed /\ WwdgTimed

\* There is a slowest and a fastest prescaler, and every one lies between them.
LEMMA PrescalerRange ==
  /\ Slowest \in Nat \ {0} /\ Fastest \in Nat \ {0}
  /\ \A p \in Prescalers : TickCycles[p] \in Nat \ {0} /\ Fastest <= TickCycles[p] /\ TickCycles[p] <= Slowest
  /\ \E p \in Prescalers : TickCycles[p] = Fastest
  <1>. DEFINE C == {TickCycles[p] : p \in Prescalers}
  <1>1. C \subseteq Nat \ {0}
    BY WatchdogBounds
  <1>2. PICK s \in Prescalers : \A q \in Prescalers : TickCycles[q] <= TickCycles[s]
    BY WatchdogBounds
  <1>3. \E c \in C : \A p \in Prescalers : TickCycles[p] <= c
    BY <1>2
  <1>4. Slowest \in C /\ \A p \in Prescalers : TickCycles[p] <= Slowest
    BY <1>3 DEF Slowest
  <1>5. \E c \in C : \A p \in Prescalers : c <= TickCycles[p]
    <2>1. C \subseteq Nat /\ C # {}
      BY <1>1, <1>2
    <2>2. PICK c \in C : \A d \in C : c <= d
      <3>. HIDE DEF C
      <3>. QED
        BY <2>1, LeastMember
    <2>. QED
      BY <2>2
  <1>6. Fastest \in C /\ \A p \in Prescalers : Fastest <= TickCycles[p]
    BY <1>5 DEF Fastest
  <1>. QED
    BY <1>1, <1>4, <1>6

\* k more counts of T cycles each, n cycles later, leaving the fraction d.
LEMMA WithinStep ==
  ASSUME NEW L \in Nat, NEW c \in Nat, NEW acc \in Nat, NEW e \in Nat, NEW n \in Nat, NEW k \in Nat,
         NEW p \in Prescalers, Within(L, c, acc, e), k <= c,
         NEW d \in Nat, d = acc + n - k * TickCycles[p]
  PROVE  /\ (L - (c - k)) * Fastest + d <= (e + n) + Slowest - 1
         /\ e + n <= (L - (c - k)) * Slowest + d
  <1>. DEFINE T == TickCycles[p]
              F == Fastest
              S == Slowest
              x == L - c
  <1>1. T \in Nat /\ F \in Nat /\ S \in Nat /\ F <= T /\ T <= S
    BY PrescalerRange
  <1>2. x \in Nat
    BY DEF Within
  <1>3. x * F + acc <= e + S - 1 /\ e <= x * S + acc
    BY DEF Within
  <1>4. L - (c - k) = x + k
    OBVIOUS
  <1>. HIDE DEF T, F, S, x
  <1>5. F * k <= T * k /\ T * k <= S * k
    BY <1>1, TimesMonotone
  <1>6. /\ (x + k) * F = x * F + F * k /\ (x + k) * S = x * S + S * k
        /\ k * T = T * k
    BY <1>1, <1>2
  <1>7. d = acc + n - k * T
    BY DEF T
  <1>8. x * F \in Nat /\ F * k \in Nat /\ T * k \in Nat /\ S * k \in Nat /\ x * S \in Nat
    BY <1>1, <1>2
  <1>9. (x + k) * F + d <= (e + n) + S - 1 /\ e + n <= (x + k) * S + d
    <2>. DEFINE xF == x * F
                xS == x * S
                Fk == F * k
                Tk == T * k
                Sk == S * k
    <2>1. /\ xF \in Nat /\ Fk \in Nat /\ Tk \in Nat /\ Sk \in Nat /\ xS \in Nat
          /\ Fk <= Tk /\ Tk <= Sk /\ d = acc + n - Tk
          /\ xF + acc <= e + S - 1 /\ e <= xS + acc
      BY <1>3, <1>5, <1>6, <1>7, <1>8
    <2>2. (x + k) * F = xF + Fk /\ (x + k) * S = xS + Sk
      BY <1>6
    <2>. HIDE DEF xF, xS, Fk, Tk, Sk
    <2>3. (xF + Fk) + d <= (e + n) + S - 1 /\ e + n <= (xS + Sk) + d
      BY <1>1, <2>1
    <2>. QED
      BY <2>2, <2>3
  <1>. QED
    BY <1>4, <1>9 DEF F, S

\* The whole counts in a batch, and what is left of it.
LEMMA BatchCounts ==
  ASSUME NEW acc \in Nat, NEW n \in Nat, NEW p \in Prescalers
  PROVE  LET q == (acc + n) \div TickCycles[p]
         IN  /\ q \in Nat
             /\ acc + n - q * TickCycles[p] \in Nat
             /\ acc + n - q * TickCycles[p] < Slowest
             /\ (acc + n) % TickCycles[p] = acc + n - q * TickCycles[p]
             /\ \A k \in Nat : k <= q => acc + n - k * TickCycles[p] \in Nat
  <1>. DEFINE T == TickCycles[p]
              q == (acc + n) \div T
              r == (acc + n) % T
  <1>1. T \in Nat /\ T > 0 /\ T <= Slowest /\ Slowest \in Nat /\ acc + n \in Nat
    BY PrescalerRange
  <1>. HIDE DEF T
  <1>2. q \in Nat /\ r \in 0 .. T - 1 /\ acc + n = T * q + r
    BY <1>1, DivMod
  <1>. HIDE DEF q, r
  <1>3. q * T = T * q /\ q * T \in Nat
    BY <1>1, <1>2
  <1>4. acc + n - q * T = r
    BY <1>2, <1>3
  <1>5. ASSUME NEW k \in Nat, k <= q
        PROVE  acc + n - k * T \in Nat
    <2>1. k * T <= q * T /\ k * T \in Nat
      BY <1>1, <1>2, <1>5, TimesMonotone
    <2>. QED
      BY <1>1, <1>2, <1>3, <2>1
  <1>. QED
    BY <1>1, <1>2, <1>4, <1>5 DEF T, q, r

\* The independent watchdog's part of a tick.
LEMMA IwdgTickTimed ==
  ASSUME WdgShape, wdt.running, used = "wdt", WdtTimed, NEW n \in Nat
  PROVE  /\ IwdgTicked(n) \in WdtState /\ IwdgTicked(n).running
         /\ IwdgFires(n) \in BOOLEAN
         /\ IwdgFires(n) => (elapsed + n) + Slowest - 1 >= loaded * Fastest
         /\ ~IwdgFires(n) =>
               /\ Within(loaded, IwdgTicked(n).counter, IwdgTicked(n).accum, elapsed + n)
               /\ IwdgTicked(n).counter = 0 => loaded = 0
  <1>. DEFINE c == wdt.counter
              acc == wdt.accum
              p == wdt.pr
              q == IwdgTicks(n)
              k == IF IwdgFires(n) THEN IwdgLast ELSE q
              d == acc + n - k * TickCycles[p]
              z == IF c > k THEN c - k ELSE 0
  <1>1. c \in Nat /\ acc \in Nat /\ p \in Prescalers /\ loaded \in Nat /\ elapsed \in Nat
    BY DEF WdgShape, WdtState
  <1>2. Within(loaded, c, acc, elapsed) /\ (c = 0 => loaded = 0)
    BY DEF WdtTimed
  <1>3. /\ q \in Nat /\ acc + n - q * TickCycles[p] \in Nat /\ acc + n - q * TickCycles[p] < Slowest
        /\ \A j \in Nat : j <= q => acc + n - j * TickCycles[p] \in Nat
    BY <1>1, BatchCounts DEF IwdgTicks
  <1>4. IwdgFires(n) <=> q >= IwdgLast
    BY DEF IwdgFires
  <1>5. IwdgLast \in Nat /\ IwdgLast = IF c = 0 THEN 1 ELSE c
    BY <1>1 DEF IwdgLast
  <1>6. IwdgTicked(n) = [wdt EXCEPT !.counter = z, !.accum = d]
    BY DEF IwdgTicked
  <1>. HIDE DEF q, c, acc, p
  <1>7. k \in Nat /\ k <= q /\ d \in Nat
    BY <1>1, <1>3, <1>4, <1>5
  <1>8. z \in Nat
    BY <1>1, <1>7
  <1>. HIDE DEF z, d, k
  <1>9. IwdgTicked(n) \in WdtState /\ IwdgTicked(n).running /\ IwdgTicked(n).counter = z /\ IwdgTicked(n).accum = d
    BY <1>6, <1>7, <1>8 DEF WdgShape, WdtState
  <1>10. ASSUME IwdgFires(n)
         PROVE  (elapsed + n) + Slowest - 1 >= loaded * Fastest
    <2>1. k = IF c = 0 THEN 1 ELSE c
      BY <1>5, <1>10 DEF k
    <2>2. CASE c = 0
      <3>1. loaded * Fastest = 0
        BY <1>2, <2>2, PrescalerRange
      <3>. QED
        BY <1>1, <3>1, PrescalerRange
    <2>3. CASE c # 0
      <3>1. k = c /\ k <= c
        BY <1>1, <2>1, <2>3
      <3>2. (loaded - (c - k)) * Fastest + d <= (elapsed + n) + Slowest - 1
        BY <1>1, <1>2, <1>7, <3>1, WithinStep DEF d
      <3>3. loaded - (c - k) = loaded
        BY <1>1, <3>1
      <3>4. loaded * Fastest \in Nat
        BY <1>1, PrescalerRange
      <3>. QED
        BY <1>1, <1>7, <3>2, <3>3, <3>4, PrescalerRange
    <2>. QED
      BY <2>2, <2>3
  <1>11. ASSUME ~IwdgFires(n)
         PROVE  Within(loaded, z, d, elapsed + n) /\ (z = 0 => loaded = 0)
    <2>1. k = q /\ q < IwdgLast
      BY <1>3, <1>4, <1>5, <1>11 DEF k
    <2>2. k <= c /\ z = c - k /\ (z = 0 => c = 0)
      BY <1>1, <1>3, <1>5, <2>1 DEF z
    <2>3. /\ (loaded - (c - k)) * Fastest + d <= (elapsed + n) + Slowest - 1
          /\ elapsed + n <= (loaded - (c - k)) * Slowest + d
      BY <1>1, <1>2, <1>7, <2>2, WithinStep DEF d
    <2>4. d < Slowest
      BY <1>3, <2>1 DEF d
    <2>5. z <= loaded
      BY <1>1, <1>2, <1>7, <2>2 DEF Within
    <2>. QED
      BY <1>2, <2>2, <2>3, <2>4, <2>5 DEF Within
  <1>12. IwdgFires(n) \in BOOLEAN
    BY DEF IwdgFires
  <1>. QED
    BY <1>9, <1>10, <1>11, <1>12

\* The nRF5340's tick.
LEMMA NrfTickTimed ==
  ASSUME WdgShape, used = "wdt", WdtTimed, NEW n \in Nat, nrf5340_wdt_tick(n)
  PROVE  /\ wdt' \in WdtState /\ resetReq' \in BOOLEAN
         /\ resetReq' => (elapsed + n) + Slowest - 1 >= loaded * Fastest
         /\ ~resetReq' =>
               /\ Within(loaded, wdt'.counter, wdt'.accum, elapsed + n)
               /\ wdt'.counter = 0 => loaded = 0
  <1>. DEFINE c == wdt.counter
              acc == wdt.accum
              p == wdt.pr
              q == (acc + n) \div TickCycles[p]
              d == (acc + n) % TickCycles[p]
              z == IF resetReq' THEN 0 ELSE c - q
  <1>1. c \in Nat /\ acc \in Nat /\ p \in Prescalers /\ loaded \in Nat /\ elapsed \in Nat
    BY DEF WdgShape, WdtState
  <1>2. Within(loaded, c, acc, elapsed) /\ (c = 0 => loaded = 0)
    BY DEF WdtTimed
  <1>3. /\ q \in Nat /\ acc + n - q * TickCycles[p] \in Nat /\ acc + n - q * TickCycles[p] < Slowest
        /\ d = acc + n - q * TickCycles[p]
        /\ \A j \in Nat : j <= q => acc + n - j * TickCycles[p] \in Nat
    BY <1>1, BatchCounts
  <1>4. resetReq' = (q > 0 /\ c <= q)
    BY DEF nrf5340_wdt_tick
  <1>5. wdt' = [wdt EXCEPT !.counter = z, !.accum = d]
    BY <1>4 DEF nrf5340_wdt_tick
  <1>. HIDE DEF q, c, acc, p, d
  <1>6. resetReq' \in BOOLEAN /\ (resetReq' <=> q > 0 /\ c <= q)
    BY <1>4
  <1>7. z \in Nat
    <2>1. CASE resetReq'
      BY <2>1
    <2>2. CASE ~resetReq'
      <3>1. ~(q > 0 /\ c <= q)
        BY <1>6, <2>2
      <3>2. c - q \in Nat
        BY <1>1, <1>3, <3>1
      <3>. QED
        BY <2>2, <3>2
    <2>. QED
      BY <2>1, <2>2
  <1>. HIDE DEF z
  <1>8. wdt' \in WdtState /\ wdt'.counter = z /\ wdt'.accum = d
    <2>1. d \in Nat
      BY <1>3
    <2>. QED
      BY <1>5, <1>7, <2>1 DEF WdgShape, WdtState
  <1>9. ASSUME resetReq'
        PROVE  (elapsed + n) + Slowest - 1 >= loaded * Fastest
    <2>. DEFINE g == acc + n - c * TickCycles[p]
    <2>1. c <= q
      BY <1>4, <1>9
    <2>2. g \in Nat
      BY <1>1, <1>3, <2>1
    <2>3. (loaded - (c - c)) * Fastest + g <= (elapsed + n) + Slowest - 1
      <3>1. c <= c /\ g = acc + n - c * TickCycles[p]
        BY <1>1
      <3>. HIDE DEF g
      <3>. QED
        BY <1>1, <1>2, <2>2, <3>1, WithinStep
    <2>4. loaded - (c - c) = loaded
      BY <1>1
    <2>5. loaded * Fastest \in Nat
      BY <1>1, PrescalerRange
    <2>. HIDE DEF g
    <2>. QED
      BY <1>1, <2>2, <2>3, <2>4, <2>5, PrescalerRange
  <1>10. ASSUME ~resetReq'
         PROVE  Within(loaded, z, d, elapsed + n) /\ (z = 0 => loaded = 0)
    <2>0. ~(q > 0 /\ c <= q) /\ z = c - q
      BY <1>6, <1>10 DEF z
    <2>1. q <= c /\ z = c - q /\ (z = 0 => c = 0)
      BY <1>1, <1>3, <2>0
    <2>2. /\ (loaded - (c - q)) * Fastest + d <= (elapsed + n) + Slowest - 1
          /\ elapsed + n <= (loaded - (c - q)) * Slowest + d
      BY <1>1, <1>2, <1>3, <2>1, WithinStep
    <2>3. z <= loaded
      BY <1>1, <1>2, <1>3, <2>1 DEF Within
    <2>. QED
      BY <1>2, <1>3, <2>1, <2>2, <2>3 DEF Within
  <1>. QED
    BY <1>6, <1>8, <1>9, <1>10

\* The window watchdog's part of a tick.
LEMMA WwdgTickTimed ==
  ASSUME WdgShape, WwdgCounts, used = "wwdg", WwdgTimed, NEW n \in Nat
  PROVE  LET w == WwdgTicked(n)
         IN  /\ w \in WwdgState /\ w.wdga /\ w.clk = wwdg.clk
             /\ WwdgFires(n) \in BOOLEAN
             /\ WwdgFires(n) => (elapsed + n) + Slowest - 1 >= (loaded - Warn + 1) * Fastest
             /\ ~WwdgFires(n) =>
                   /\ w.accum < Slowest
                   /\ w.counter <= loaded
                   /\ loaded >= Warn => w.counter >= Warn /\ Within(loaded, w.counter, w.accum, elapsed + n)
  <1>. DEFINE c == wwdg.counter
              acc == wwdg.accum
              p == wwdg.tb
              q == WwdgTicks(n)
              k == IF WwdgFires(n) THEN c - Warn + 1 ELSE q
              d == acc + n - k * TickCycles[p]
              z == IF c > k THEN c - k ELSE 0
              s == wwdg.sr \/ WwdgWarns(n)
  <1>1. /\ c \in Nat /\ acc \in Nat /\ p \in Prescalers /\ loaded \in Nat /\ elapsed \in Nat
        /\ Warn \in Nat /\ Warn > 0
    BY WatchdogBounds DEF WdgShape, WwdgState
  <1>2. /\ acc < Slowest /\ c <= loaded
        /\ loaded >= Warn => c >= Warn /\ Within(loaded, c, acc, elapsed)
    BY DEF WwdgTimed, WwdgCounts
  <1>3. /\ q \in Nat /\ acc + n - q * TickCycles[p] \in Nat /\ acc + n - q * TickCycles[p] < Slowest
        /\ \A j \in Nat : j <= q => acc + n - j * TickCycles[p] \in Nat
    BY <1>1, BatchCounts DEF WwdgTicks
  <1>4. WwdgFires(n) <=> (c >= Warn /\ q >= c - Warn + 1)
    BY DEF WwdgFires
  <1>5. s \in BOOLEAN /\ WwdgFires(n) \in BOOLEAN
    BY DEF WwdgFires, WdgShape, WwdgState
  <1>6. WwdgTicked(n) = [wwdg EXCEPT !.counter = z, !.sr = s, !.accum = d]
    BY DEF WwdgTicked
  <1>. HIDE DEF q, c, acc, p, s
  <1>7. k \in Nat /\ k <= q /\ d \in Nat
    BY <1>1, <1>3, <1>4
  <1>8. z \in Nat
    BY <1>1, <1>7
  <1>. HIDE DEF z, d, k
  <1>9. /\ WwdgTicked(n) \in WwdgState /\ WwdgTicked(n).wdga /\ WwdgTicked(n).clk = wwdg.clk
        /\ WwdgTicked(n).counter = z /\ WwdgTicked(n).accum = d
    BY <1>5, <1>6, <1>7, <1>8 DEF WdgShape, WwdgState, WwdgCounts
  <1>10. ASSUME WwdgFires(n)
         PROVE  (elapsed + n) + Slowest - 1 >= (loaded - Warn + 1) * Fastest
    <2>1. k = c - Warn + 1 /\ c >= Warn /\ k <= c
      BY <1>1, <1>4, <1>10 DEF k
    <2>2. loaded >= Warn
      BY <1>1, <1>2, <2>1
    <2>3. (loaded - (c - k)) * Fastest + d <= (elapsed + n) + Slowest - 1
      BY <1>1, <1>2, <1>7, <2>1, <2>2, WithinStep DEF d
    <2>4. loaded - (c - k) = loaded - Warn + 1 /\ loaded - Warn + 1 \in Nat
      BY <1>1, <2>1, <2>2
    <2>5. (loaded - Warn + 1) * Fastest \in Nat
      BY <2>4, PrescalerRange
    <2>. QED
      BY <1>1, <1>7, <2>3, <2>4, <2>5, PrescalerRange
  <1>11. ASSUME ~WwdgFires(n)
         PROVE  /\ d < Slowest /\ z <= loaded
                /\ loaded >= Warn => z >= Warn /\ Within(loaded, z, d, elapsed + n)
    <2>1. k = q /\ d < Slowest
      BY <1>3, <1>11 DEF k, d
    <2>2. z <= loaded
      BY <1>1, <1>2, <1>7 DEF z
    <2>3. ASSUME loaded >= Warn
          PROVE  z >= Warn /\ Within(loaded, z, d, elapsed + n)
      <3>1. q < c - Warn + 1 /\ c >= Warn
        BY <1>1, <1>2, <1>3, <1>4, <1>11, <2>3
      <3>2. k <= c /\ z = c - k /\ z >= Warn
        BY <1>1, <1>3, <2>1, <3>1 DEF z
      <3>3. /\ (loaded - (c - k)) * Fastest + d <= (elapsed + n) + Slowest - 1
            /\ elapsed + n <= (loaded - (c - k)) * Slowest + d
        BY <1>1, <1>2, <1>7, <2>3, <3>2, WithinStep DEF d
      <3>. QED
        BY <2>1, <2>2, <3>2, <3>3 DEF Within
    <2>. QED
      BY <2>1, <2>2, <2>3
  <1>. QED
    BY <1>5, <1>9, <1>10, <1>11

\* A load starts the measure anew.
LEMMA WithinAtLoad ==
  ASSUME NEW L \in Nat, NEW acc \in Nat, acc < Slowest
  PROVE  Within(L, L, acc, 0)
  <1>1. (L - L) * Fastest = 0 /\ (L - L) * Slowest = 0
    BY PrescalerRange
  <1>. QED
    BY <1>1, PrescalerRange DEF Within

\* The bounds of the measure are those of the property.
LEMMA TimedIsOnTime ==
  ASSUME WdgInv
  PROVE  WatchdogOnTime
  <1>. DEFINE least == IF Counts = 0 THEN 1 ELSE Counts
  <1>1. /\ loaded \in Nat /\ elapsed \in Nat /\ Slowest \in Nat /\ Slowest > 0 /\ Warn \in Nat
        /\ resetReq \in BOOLEAN /\ used \in {"wdt", "wwdg"}
    BY PrescalerRange, WatchdogBounds DEF WdgInv, WdgShape
  <1>2. CASE resetReq
    BY <1>2 DEF WdgInv, WatchdogOnTime, Counts
  <1>3. CASE ~resetReq /\ used = "wdt"
    <2>. DEFINE c == wdt.counter
                acc == wdt.accum
    <2>1. c \in Nat /\ acc \in Nat /\ Within(loaded, c, acc, elapsed) /\ (c = 0 => loaded = 0)
      BY <1>3 DEF WdgInv, WdgShape, WdtState, WdtTimed
    <2>. HIDE DEF c, acc
    <2>2. elapsed < (IF loaded = 0 THEN 1 ELSE loaded) * Slowest
      <3>1. CASE c = 0
        <4>1. loaded = 0 /\ (loaded - c) * Slowest = 0 /\ 1 * Slowest = Slowest
          BY <1>1, <2>1, <3>1
        <4>. QED
          BY <1>1, <2>1, <4>1 DEF Within
      <3>2. CASE c > 0
        <4>1. loaded # 0 /\ loaded - c <= loaded - 1 /\ loaded - c \in Int /\ loaded - 1 \in Int
          BY <1>1, <2>1, <3>2 DEF Within
        <4>2. (loaded - c) * Slowest <= (loaded - 1) * Slowest
          BY <1>1, <4>1, TimesMonotone
        <4>3. (loaded - 1) * Slowest = loaded * Slowest - Slowest /\ loaded * Slowest \in Nat
          BY <1>1
        <4>4. (loaded - c) * Slowest \in Int
          BY <1>1, <2>1
        <4>. QED
          BY <1>1, <2>1, <4>1, <4>2, <4>3, <4>4 DEF Within
      <3>. QED
        BY <2>1, <3>1, <3>2
    <2>. QED
      BY <1>3, <2>2 DEF WatchdogOnTime
  <1>4. CASE ~resetReq /\ used = "wwdg"
    <2>1. ASSUME loaded >= Warn
          PROVE  elapsed < (IF loaded - Warn + 1 = 0 THEN 1 ELSE loaded - Warn + 1) * Slowest
      <3>. DEFINE m == loaded - Warn + 1
                  c == wwdg.counter
                  acc == wwdg.accum
      <3>1. m \in Nat /\ m > 0 /\ m - 1 = loaded - Warn
        BY <1>1, <2>1
      <3>2. elapsed < m * Slowest
        <4>1. CASE ~wwdg.wdga
          <5>1. elapsed = 0
            BY <1>4, <4>1 DEF WdgInv, WwdgTimed
          <5>2. 1 * Slowest <= m * Slowest
            <6>. HIDE DEF m
            <6>. QED
              BY <1>1, <3>1, TimesMonotone
          <5>. HIDE DEF m
          <5>3. m * Slowest \in Nat
            BY <1>1, <3>1
          <5>. QED
            BY <1>1, <5>1, <5>2, <5>3
        <4>2. CASE wwdg.wdga
          <5>1. c \in Nat /\ acc \in Nat /\ c >= Warn /\ Within(loaded, c, acc, elapsed)
            BY <1>4, <2>1, <4>2 DEF WdgInv, WdgShape, WwdgState, WwdgTimed
          <5>. HIDE DEF c, acc, m
          <5>2. loaded - c <= m - 1 /\ loaded - c \in Int /\ m - 1 \in Int
            BY <1>1, <3>1, <5>1
          <5>3. (loaded - c) * Slowest <= (m - 1) * Slowest
            BY <1>1, <5>2, TimesMonotone
          <5>4. (m - 1) * Slowest = m * Slowest - Slowest /\ m * Slowest \in Nat
            BY <1>1, <3>1
          <5>5. (loaded - c) * Slowest \in Int
            BY <1>1, <5>1
          <5>. QED
            BY <1>1, <5>1, <5>3, <5>4, <5>5 DEF Within
        <4>. QED
          BY <4>1, <4>2
      <3>. QED
        BY <3>1, <3>2
    <2>. QED
      BY <1>4, <2>1 DEF WatchdogOnTime
  <1>. QED
    BY <1>1, <1>2, <1>3, <1>4

\* The registers after reset.
LEMMA WdgAtReset ==
  /\ WdtAtReset \in WdtState /\ ~WdtAtReset.running /\ WdtAtReset.counter = 0 /\ WdtAtReset.accum = 0
  /\ WwdgAtReset \in WwdgState /\ ~WwdgAtReset.clk /\ ~WwdgAtReset.wdga /\ WwdgAtReset.accum = 0
  <1>. DEFINE f == CHOOSE p \in Prescalers : TickCycles[p] = Fastest
  <1>1. f \in Prescalers
    BY PrescalerRange
  <1>2. MaxReload \in Nat /\ WTop \in Nat
    BY WatchdogBounds
  <1>. HIDE DEF f
  <1>3. /\ WdtAtReset = [running |-> FALSE, access |-> FALSE, counter |-> 0, reload |-> MaxReload,
                         pr |-> f, accum |-> 0]
        /\ WwdgAtReset = [clk |-> FALSE, wdga |-> FALSE, counter |-> WTop, tb |-> f,
                          ewi |-> FALSE, sr |-> FALSE, accum |-> 0]
    BY DEF f, WdtAtReset, WwdgAtReset
  <1>. QED
    BY <1>1, <1>2, <1>3 DEF WdtState, WwdgState

\* A state with the registers of reset and no cycles elapsed.
LEMMA WdgInvAtReset ==
  ASSUME cpu \in Targets, used \in {"wdt", "wwdg"}, used = "wwdg" => cpu \in Stm32,
         wdt = WdtAtReset, wwdg = WwdgAtReset, resetReq = FALSE, loaded = 0, elapsed = 0
  PROVE  WdgInv
  <1>1. WdgShape
    BY WdgAtReset DEF WdgShape
  <1>2. Within(0, 0, 0, 0)
    BY WithinAtLoad, PrescalerRange
  <1>3. WdtTimed
    BY <1>2, WdgAtReset DEF WdtTimed
  <1>4. WwdgTimed
    BY WdgAtReset, PrescalerRange DEF WwdgTimed
  <1>. QED
    BY <1>1, <1>3, <1>4 DEF WdgInv

\* A load of the independent watchdog, whatever else the write changes.
LEMMA WdtLoad ==
  ASSUME WdgInv, ~resetReq, used = "wdt", UNCHANGED <<cpu, used, wwdg, resetReq>>,
         wdt' \in WdtState, wdt'.accum = wdt.accum, wdt'.counter = wdt.reload, LoadCounter(wdt.reload)
  PROVE  WdgInv'
  <1>1. wdt.reload \in Nat /\ wdt.accum \in Nat /\ wdt.accum < Slowest
    BY DEF WdgInv, WdgShape, WdtState, WdtTimed, Within
  <1>2. Within(wdt.reload, wdt.reload, wdt.accum, 0)
    BY <1>1, WithinAtLoad
  <1>3. loaded' = wdt.reload /\ elapsed' = 0
    BY DEF LoadCounter
  <1>4. WdgShape'
    BY <1>1, <1>3 DEF WdgInv, WdgShape
  <1>5. WdtTimed'
    BY <1>2, <1>3 DEF WdtTimed, Within
  <1>6. WwdgTimed'
    BY DEF WwdgTimed
  <1>. QED
    BY <1>4, <1>5, <1>6 DEF WdgInv

\* A write that leaves the counter, the fraction and the histories alone.
LEMMA WdtKeeps ==
  ASSUME WdgInv, ~resetReq, used = "wdt", UNCHANGED <<cpu, used, wwdg, resetReq, loaded, elapsed>>,
         wdt' \in WdtState, wdt'.accum = wdt.accum, wdt'.counter = wdt.counter
  PROVE  WdgInv'
  <1>1. WdgShape'
    BY DEF WdgInv, WdgShape
  <1>2. WdtTimed'
    BY DEF WdgInv, WdtTimed, Within
  <1>3. WwdgTimed'
    BY DEF WwdgTimed
  <1>. QED
    BY <1>1, <1>2, <1>3 DEF WdgInv

\* A write to the IWDG starts, reloads or rescales the count.
LEMMA IwdgWriteKeeps ==
  ASSUME WdgInv, iwdg_write
  PROVE  WdgInv'
  <1>1. used = "wdt" /\ ~resetReq /\ UNCHANGED <<cpu, used, wwdg, resetReq>> /\ wdt \in WdtState
    BY DEF iwdg_write, WdgInv, WdgShape
  <1>2. ASSUME UNCHANGED <<loaded, elapsed>>,
               \/ wdt' = [wdt EXCEPT !.access = TRUE]
               \/ \E p \in Prescalers : wdt' = [wdt EXCEPT !.pr = p]
               \/ \E r \in 0 .. MaxReload : wdt' = [wdt EXCEPT !.reload = r]
        PROVE  WdgInv'
    <2>. DEFINE Keeps(w) == w \in WdtState /\ w.accum = wdt.accum /\ w.counter = wdt.counter
    <2>1. Keeps([wdt EXCEPT !.access = TRUE])
      BY <1>1 DEF WdtState
    <2>2. ASSUME NEW p \in Prescalers PROVE Keeps([wdt EXCEPT !.pr = p])
      BY <1>1 DEF WdtState
    <2>3. ASSUME NEW r \in 0 .. MaxReload PROVE Keeps([wdt EXCEPT !.reload = r])
      <3>1. r \in Nat
        OBVIOUS
      <3>. QED
        BY <1>1, <3>1 DEF WdtState
    <2>4. Keeps(wdt')
      <3>. HIDE DEF Keeps
      <3>. QED
        BY <1>2, <2>1, <2>2, <2>3
    <2>5. wdt' \in WdtState /\ wdt'.accum = wdt.accum /\ wdt'.counter = wdt.counter
      BY <2>4
    <2>. QED
      BY <1>1, <1>2, <2>5, WdtKeeps
  <1>3. ASSUME LoadCounter(wdt.reload),
               \/ wdt' = [wdt EXCEPT !.counter = wdt.reload]
               \/ wdt' = [wdt EXCEPT !.running = TRUE, !.access = FALSE, !.counter = wdt.reload]
        PROVE  WdgInv'
    <2>1. wdt' \in WdtState /\ wdt'.accum = wdt.accum /\ wdt'.counter = wdt.reload
      BY <1>1, <1>3 DEF WdtState
    <2>. QED
      BY <1>1, <1>3, <2>1, WdtLoad
  <1>. QED
    BY <1>2, <1>3 DEF iwdg_write, iwdg_apply_key

\* A write to the nRF watchdog starts or reloads the count.
LEMMA NrfWdtWriteKeeps ==
  ASSUME WdgInv, nrf5340_wdt_write
  PROVE  WdgInv'
  <1>1. used = "wdt" /\ ~resetReq /\ UNCHANGED <<cpu, used, wwdg, resetReq>> /\ wdt \in WdtState
    BY DEF nrf5340_wdt_write, WdgInv, WdgShape, Stm32
  <1>2. ASSUME UNCHANGED <<loaded, elapsed>>,
               \/ wdt' = [wdt EXCEPT !.running = FALSE]
               \/ \E e \in BOOLEAN : wdt' = [wdt EXCEPT !.access = e]
               \/ \E r \in 0 .. MaxReload : wdt' = [wdt EXCEPT !.reload = r]
        PROVE  WdgInv'
    <2>. DEFINE Keeps(w) == w \in WdtState /\ w.accum = wdt.accum /\ w.counter = wdt.counter
    <2>1. Keeps([wdt EXCEPT !.running = FALSE])
      BY <1>1 DEF WdtState
    <2>2. ASSUME NEW e \in BOOLEAN PROVE Keeps([wdt EXCEPT !.access = e])
      BY <1>1 DEF WdtState
    <2>3. ASSUME NEW r \in 0 .. MaxReload PROVE Keeps([wdt EXCEPT !.reload = r])
      <3>1. r \in Nat
        OBVIOUS
      <3>. QED
        BY <1>1, <3>1 DEF WdtState
    <2>4. Keeps(wdt')
      <3>. HIDE DEF Keeps
      <3>. QED
        BY <1>2, <2>1, <2>2, <2>3
    <2>5. wdt' \in WdtState /\ wdt'.accum = wdt.accum /\ wdt'.counter = wdt.counter
      BY <2>4
    <2>. QED
      BY <1>1, <1>2, <2>5, WdtKeeps
  <1>3. ASSUME LoadCounter(wdt.reload),
               \/ wdt' = [wdt EXCEPT !.counter = wdt.reload]
               \/ wdt' = [wdt EXCEPT !.running = TRUE, !.counter = wdt.reload]
        PROVE  WdgInv'
    <2>1. wdt' \in WdtState /\ wdt'.accum = wdt.accum /\ wdt'.counter = wdt.reload
      BY <1>1, <1>3 DEF WdtState
    <2>. QED
      BY <1>1, <1>3, <2>1, WdtLoad
  <1>. QED
    BY <1>2, <1>3 DEF nrf5340_wdt_write

\* A write to the WWDG loads the count, or leaves it.
LEMMA WwdgWriteKeeps ==
  ASSUME WdgInv, wwdg_write, cpu \in Stm32
  PROVE  WdgInv'
  <1>1. /\ used = "wwdg" /\ ~resetReq /\ UNCHANGED <<cpu, used, wdt, resetReq>> /\ wwdg \in WwdgState
        /\ WdgShape /\ WwdgTimed
    BY DEF wwdg_write, WdgInv, WdgShape
  <1>2. WdtTimed'
    BY <1>1 DEF WdtTimed
  <1>3. ASSUME NEW on \in BOOLEAN, NEW c \in 0 .. WTop,
               wwdg' = [wwdg EXCEPT !.wdga = on, !.counter = c], LoadCounter(c)
        PROVE  WdgInv'
    <2>1. /\ wwdg' \in WwdgState /\ wwdg'.wdga = on /\ wwdg'.counter = c /\ wwdg'.accum = wwdg.accum
          /\ c \in Nat /\ loaded' = c /\ elapsed' = 0 /\ wwdg.accum \in Nat /\ wwdg.accum < Slowest
      <3>1. c \in Nat
        OBVIOUS
      <3>2. wwdg' \in WwdgState /\ wwdg'.wdga = on /\ wwdg'.counter = c /\ wwdg'.accum = wwdg.accum
        BY <1>1, <1>3, <3>1 DEF WwdgState
      <3>3. loaded' = c /\ elapsed' = 0
        BY <1>3 DEF LoadCounter
      <3>4. wwdg.accum \in Nat /\ wwdg.accum < Slowest
        BY <1>1 DEF WwdgState, WwdgTimed
      <3>. QED
        BY <3>1, <3>2, <3>3, <3>4
    <2>2. Within(c, c, wwdg.accum, 0)
      BY <2>1, WithinAtLoad
    <2>3. WdgShape'
      BY <1>1, <2>1 DEF WdgShape
    <2>4. WwdgTimed'
      BY <1>1, <2>1, <2>2 DEF WwdgTimed, Within
    <2>. QED
      BY <1>1, <1>2, <2>3, <2>4 DEF WdgInv
  <1>4. ASSUME UNCHANGED <<loaded, elapsed>>,
               \/ \E tb \in Prescalers, e \in BOOLEAN : wwdg' = [wwdg EXCEPT !.tb = tb, !.ewi = e]
               \/ wwdg' = [wwdg EXCEPT !.sr = FALSE]
        PROVE  WdgInv'
    <2>1. /\ wwdg' \in WwdgState /\ wwdg'.wdga = wwdg.wdga /\ wwdg'.counter = wwdg.counter
          /\ wwdg'.accum = wwdg.accum
      BY <1>1, <1>4 DEF WwdgState
    <2>2. WdgShape'
      BY <1>1, <1>4, <2>1 DEF WdgShape
    <2>3. WwdgTimed'
      BY <1>1, <1>4, <2>1 DEF WwdgTimed, Within
    <2>. QED
      BY <1>1, <1>2, <2>2, <2>3 DEF WdgInv
  <1>. QED
    BY <1>3, <1>4 DEF wwdg_write

\* A tick counts down by the time that has passed, and resets at the end.
LEMMA WatchdogTickKeeps ==
  ASSUME WdgInv, NEW n \in Nat, watchdog_tick(n)
  PROVE  WdgInv'
  <1>1. /\ WdgShape /\ ~resetReq /\ WdtTimed /\ WwdgTimed /\ UNCHANGED <<cpu, used, loaded>>
        /\ loaded \in Nat /\ elapsed \in Nat
    BY DEF WdgInv, WdgShape, watchdog_tick
  <1>2. CASE used = "wdt"
    <2>1. ~WwdgCounts /\ ~WwdgFires(n) /\ wwdg' = wwdg
      BY <1>1, <1>2 DEF WdgShape, WwdgCounts, WwdgFires, watchdog_tick, WwdgTicked
    <2>2. WwdgTimed'
      BY <1>1, <1>2 DEF WwdgTimed
    <2>3. CASE ~wdt.running
      <3>1. wdt' = wdt /\ elapsed' = elapsed /\ resetReq' = FALSE
        BY <1>2, <2>1, <2>3 DEF watchdog_tick, IwdgFires
      <3>2. WdgShape' /\ WdtTimed'
        BY <1>1, <2>1, <3>1 DEF WdgShape, WdtTimed, Within
      <3>. QED
        BY <2>2, <3>1, <3>2 DEF WdgInv
    <2>4. CASE wdt.running
      <3>1. wdt' = IwdgTicked(n) /\ elapsed' = elapsed + n /\ resetReq' = IwdgFires(n)
        <4>1. IwdgFires(n) \in BOOLEAN
          BY DEF IwdgFires
        <4>. QED
          BY <1>2, <2>1, <2>4, <4>1 DEF watchdog_tick
      <3>2. /\ wdt' \in WdtState /\ resetReq' \in BOOLEAN
            /\ resetReq' => (elapsed + n) + Slowest - 1 >= loaded * Fastest
            /\ ~resetReq' => /\ Within(loaded, wdt'.counter, wdt'.accum, elapsed + n)
                             /\ wdt'.counter = 0 => loaded = 0
        BY <1>1, <1>2, <2>4, <3>1, IwdgTickTimed
      <3>3. WdgShape'
        BY <1>1, <1>2, <2>1, <3>1, <3>2 DEF WdgShape
      <3>4. ~resetReq' => WdtTimed'
        BY <1>1, <3>1, <3>2 DEF WdtTimed, Within
      <3>5. resetReq' => elapsed' + Slowest - 1 >= Counts' * Fastest
        BY <1>1, <1>2, <3>1, <3>2 DEF Counts
      <3>. QED
        BY <2>2, <3>3, <3>4, <3>5 DEF WdgInv
    <2>. QED
      BY <2>3, <2>4
  <1>3. CASE used = "wwdg"
    <2>1. ~wdt.running /\ ~IwdgFires(n) /\ wdt' = wdt
      BY <1>1, <1>3 DEF WdgShape, IwdgFires, watchdog_tick
    <2>2. WdtTimed'
      BY <1>1, <1>3 DEF WdtTimed
    <2>3. CASE ~WwdgCounts
      <3>1. wwdg' = wwdg /\ elapsed' = elapsed /\ resetReq' = FALSE
        BY <1>3, <2>1, <2>3 DEF watchdog_tick, WwdgFires, WwdgTicked
      <3>2. WdgShape' /\ WwdgTimed'
        BY <1>1, <2>1, <3>1 DEF WdgShape, WwdgTimed, Within
      <3>. QED
        BY <2>2, <3>1, <3>2 DEF WdgInv
    <2>4. CASE WwdgCounts
      <3>1. wwdg' = WwdgTicked(n) /\ elapsed' = elapsed + n /\ resetReq' = WwdgFires(n)
        <4>1. WwdgFires(n) \in BOOLEAN
          BY DEF WwdgFires
        <4>. QED
          BY <1>3, <2>1, <2>4, <4>1 DEF watchdog_tick
      <3>2. /\ wwdg' \in WwdgState /\ wwdg'.wdga /\ resetReq' \in BOOLEAN
            /\ resetReq' => (elapsed + n) + Slowest - 1 >= (loaded - Warn + 1) * Fastest
            /\ ~resetReq' => /\ wwdg'.accum < Slowest /\ wwdg'.counter <= loaded
                             /\ loaded >= Warn => /\ wwdg'.counter >= Warn
                                                  /\ Within(loaded, wwdg'.counter, wwdg'.accum, elapsed + n)
        BY <1>1, <1>3, <2>4, <3>1, WwdgTickTimed
      <3>3. WdgShape'
        BY <1>1, <1>3, <2>1, <3>1, <3>2 DEF WdgShape
      <3>4. ~resetReq' => WwdgTimed'
        BY <1>1, <3>1, <3>2 DEF WwdgTimed, Within
      <3>5. resetReq' => elapsed' + Slowest - 1 >= Counts' * Fastest
        BY <1>1, <1>3, <3>1, <3>2 DEF Counts
      <3>. QED
        BY <2>2, <3>3, <3>4, <3>5 DEF WdgInv
    <2>. QED
      BY <2>3, <2>4
  <1>. QED
    BY <1>1, <1>2, <1>3 DEF WdgShape

\* A tick of the nRF watchdog counts likewise.
LEMMA NrfWdtTickKeeps ==
  ASSUME WdgInv, NEW n \in Nat, nrf5340_wdt_tick(n)
  PROVE  WdgInv'
  <1>1. /\ WdgShape /\ ~resetReq /\ WdtTimed /\ UNCHANGED <<cpu, used, wwdg, loaded>>
        /\ loaded \in Nat /\ elapsed \in Nat /\ used = "wdt" /\ elapsed' = elapsed + n
    BY DEF WdgInv, WdgShape, nrf5340_wdt_tick, Stm32
  <1>2. /\ wdt' \in WdtState /\ resetReq' \in BOOLEAN
        /\ resetReq' => (elapsed + n) + Slowest - 1 >= loaded * Fastest
        /\ ~resetReq' => /\ Within(loaded, wdt'.counter, wdt'.accum, elapsed + n)
                         /\ wdt'.counter = 0 => loaded = 0
    BY <1>1, NrfTickTimed
  <1>3. WdgShape'
    BY <1>1, <1>2 DEF WdgShape
  <1>4. ~resetReq' => WdtTimed' /\ WwdgTimed'
    BY <1>1, <1>2 DEF WdtTimed, WwdgTimed, Within
  <1>5. resetReq' => elapsed' + Slowest - 1 >= Counts' * Fastest
    BY <1>1, <1>2 DEF Counts
  <1>. QED
    BY <1>3, <1>4, <1>5 DEF WdgInv

\* The reset of the watchdog in use comes on time, never early and never late, for every
\* set of prescalers, reload value and batch length.
THEOREM WatchdogCorrect == WdgSpec => []WatchdogOnTime
  <1>1. WdgInit => WdgInv
    BY WdgInvAtReset DEF WdgInit, TargetInit
  <1>2. WdgInv /\ [WdgNext]_wdgVars => WdgInv'
    <2>. SUFFICES ASSUME WdgInv, [WdgNext]_wdgVars PROVE WdgInv'
      OBVIOUS
    <2>1. ASSUME NEW n \in 1 .. WdgBatch, watchdog_tick(n) PROVE WdgInv'
      <3>1. n \in Nat
        OBVIOUS
      <3>. QED
        BY <2>1, <3>1, WatchdogTickKeeps
    <2>2. ASSUME NEW n \in 1 .. WdgBatch, nrf5340_wdt_tick(n) PROVE WdgInv'
      <3>1. n \in Nat
        OBVIOUS
      <3>. QED
        BY <2>2, <3>1, NrfWdtTickKeeps
    <2>3. CASE iwdg_write
      BY <2>3, IwdgWriteKeeps
    <2>4. CASE wwdg_write /\ cpu \in Stm32
      BY <2>4, WwdgWriteKeeps
    <2>5. CASE WwdgClock
      <3>1. /\ used = "wwdg" /\ ~resetReq /\ UNCHANGED <<cpu, used, wdt, resetReq, loaded, elapsed>>
            /\ wwdg' = [wwdg EXCEPT !.clk = ~wwdg.clk] /\ WdgShape /\ WwdgTimed /\ wwdg \in WwdgState
        BY <2>5 DEF WwdgClock, WdgInv, WdgShape
      <3>2. /\ wwdg' \in WwdgState /\ wwdg'.wdga = wwdg.wdga /\ wwdg'.counter = wwdg.counter
            /\ wwdg'.accum = wwdg.accum
        BY <3>1 DEF WwdgState
      <3>3. WdgShape' /\ WdtTimed'
        BY <3>1, <3>2 DEF WdgShape, WdtTimed
      <3>4. WwdgTimed'
        BY <3>1, <3>2 DEF WwdgTimed, Within
      <3>. QED
        BY <3>1, <3>3, <3>4 DEF WdgInv
    <2>6. CASE nrf5340_wdt_write
      BY <2>6, NrfWdtWriteKeeps
    <2>7. CASE WdgIrqTaken \/ UNCHANGED wdgVars
      <3>1. UNCHANGED <<cpu, used, wdt, wwdg, resetReq, loaded, elapsed>>
        BY <2>7 DEF WdgIrqTaken, wdgVars
      <3>2. WdgShape' /\ (~resetReq => WdtTimed' /\ WwdgTimed') /\ Counts' = Counts
        BY <3>1 DEF WdgInv, WdgShape, WdtTimed, WwdgTimed, Within, Counts
      <3>. QED
        BY <3>1, <3>2 DEF WdgInv
    <2>8. CASE WdgReset
      <3>1. /\ (cpu \in Targets)' /\ (used \in {"wdt", "wwdg"})' /\ (used = "wwdg" => cpu \in Stm32)'
            /\ wdt' = WdtAtReset /\ wwdg' = WwdgAtReset /\ resetReq' = FALSE /\ loaded' = 0 /\ elapsed' = 0
        BY <2>8 DEF WdgReset, WdgInv, WdgShape
      <3>2. WdgShape'
        BY <3>1, WdgAtReset DEF WdgShape
      <3>3. Within(0, 0, 0, 0)
        BY WithinAtLoad, PrescalerRange
      <3>4. WdtTimed' /\ WwdgTimed'
        BY <3>1, <3>3, WdgAtReset, PrescalerRange DEF WdtTimed, WwdgTimed, Within
      <3>. QED
        BY <3>1, <3>2, <3>4 DEF WdgInv
    <2>. QED
      BY <2>1, <2>2, <2>3, <2>4, <2>5, <2>6, <2>7, <2>8
      DEF WdgNext, stm32l552_watchdog_tick, stm32h563_watchdog_tick, stm32u585_watchdog_tick,
          stm32l552_iwdg_write, stm32h563_iwdg_write, stm32u585_iwdg_write, stm32l552_wwdg_write,
          stm32h563_wwdg_write, stm32u585_wwdg_write, Stm32
  <1>3. WdgInv => WatchdogOnTime
    BY TimedIsOnTime
  <1>. QED
    BY <1>1, <1>2, <1>3, PTL DEF WdgSpec
=============================================================================
