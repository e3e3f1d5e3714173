-------------------------------- MODULE Nvic --------------------------------
(***************************************************************************)
(* The interrupt controller of src/nvic.c and its registers in src/scs.c.  *)
(* Register words are sets of interrupt numbers: a set bit is a member.    *)
(***************************************************************************)
EXTENDS Integers, FiniteSets

CONSTANTS
    Words,          \* (MM_MAX_IRQ + 31) / 32: 4
    WordBits,       \* interrupts of a register word: 32
    Prio            \* the priorities in use, of 0 .. 255

ASSUME WordsAssumption == Words \in Nat /\ WordBits \in Nat
ASSUME PrioAssumption == Prio \subseteq 0 .. 255

VARIABLES
    nvic,       \* struct mm_nvic: a member of NvicState
    primask     \* cpu.primask_s, cpu.primask_ns

nvicvars == <<nvic, primask>>

World == {"S", "NS"}
Irq   == 0 .. Words * WordBits - 1
NoIrq == -1

\* active_mask is cleared at reset and never set.
NvicState == [enable : SUBSET Irq, pending : SUBSET Irq, itns : SUBSET Irq,
              priority : [Irq -> Nat]]

BitsOf(w) == w * WordBits .. (w + 1) * WordBits - 1

-----------------------------------------------------------------------------
(* Selection.                                                              *)

\* mm_nvic_irq_target_sec
TargetSec(n, i) == IF i \in n.itns THEN "NS" ELSE "S"

\* The tests in the loop of mm_nvic_select_routed, primask_blocks_target
\* included: the PRIMASK that counts is the one of the interrupt's target.
CanTake(n, mask, i) == i \in n.enable /\ i \in n.pending /\ ~mask[TargetSec(n, i)]

\* Mutant of Select: the first interrupt must beat the initial best_prio.
Select_PriorityFfIsIdle(n, mask) ==
    LET best[k \in 0 .. Words * WordBits] ==
            IF k = 0 THEN [irq |-> NoIrq, prio |-> 255]
            ELSE LET b == best[k - 1]
                 IN  IF CanTake(n, mask, k - 1) /\ n.priority[k - 1] < b.prio
                     THEN [irq |-> k - 1, prio |-> n.priority[k - 1]]
                     ELSE b
    IN  best[Words * WordBits].irq

\* mm_nvic_select_routed: best_irq and best_prio after the first k interrupts.
Select(n, mask) ==
    LET best[k \in 0 .. Words * WordBits] ==
            IF k = 0 THEN [irq |-> NoIrq, prio |-> 255]
            ELSE LET b == best[k - 1]
                 IN  IF /\ CanTake(n, mask, k - 1)
                        /\ b.irq = NoIrq \/ n.priority[k - 1] < b.prio
                     THEN [irq |-> k - 1, prio |-> n.priority[k - 1]]
                     ELSE b
    IN  best[Words * WordBits].irq

-----------------------------------------------------------------------------
(* Registers.                                                              *)

\* mm_nvic_init
InitialNvic == [enable |-> {}, pending |-> {}, itns |-> {}, priority |-> [i \in Irq |-> 255]]

\* The bits of a written word that count: a Non-secure write is masked by ITNS.
Owned(s, v) == IF s = "NS" THEN v \cap nvic.itns ELSE v

WriteISER(s, v) == nvic' = [nvic EXCEPT !.enable = @ \cup Owned(s, v)] /\ UNCHANGED primask
WriteICER(s, v) == nvic' = [nvic EXCEPT !.enable = @ \ Owned(s, v)] /\ UNCHANGED primask

\* Mutant of WriteISPR: a Non-secure write is not masked.
WriteISPR_Unmasked(s, v) == nvic' = [nvic EXCEPT !.pending = @ \cup v] /\ UNCHANGED primask

WriteISPR(s, v) == nvic' = [nvic EXCEPT !.pending = @ \cup Owned(s, v)] /\ UNCHANGED primask
WriteICPR(s, v) == nvic' = [nvic EXCEPT !.pending = @ \ Owned(s, v)] /\ UNCHANGED primask

\* ITNS is written whole, and only by Secure code.
WriteITNS(s, w, v) ==
    /\ nvic' = IF s = "S" THEN [nvic EXCEPT !.itns = (@ \ BitsOf(w)) \cup v] ELSE nvic
    /\ UNCHANGED primask

\* IPR: a byte, or the bytes of an aligned word; no ITNS mask.
WriteIPR(is, p) ==
    /\ nvic' = [nvic EXCEPT !.priority =
                   [i \in Irq |-> IF i \in is THEN p[i] ELSE nvic.priority[i]]]
    /\ UNCHANGED primask

-----------------------------------------------------------------------------
(* Actions.                                                                *)

NvicInit == nvic = InitialNvic /\ primask = [s \in World |-> FALSE]

\* mm_nvic_set_pending by a device.
DevicePends(i) == nvic' = [nvic EXCEPT !.pending = @ \cup {i}] /\ UNCHANGED primask

\* CPSIE and CPSID.
WritePrimask(s, v) == primask' = [primask EXCEPT ![s] = v] /\ UNCHANGED nvic

\* The run loop accepts an interrupt: "Clear pending when accepted".
AcceptInterrupt(i) ==
    /\ i = Select(nvic, primask) /\ i # NoIrq
    /\ nvic' = [nvic EXCEPT !.pending = @ \ {i}]
    /\ UNCHANGED primask

\* The masked registers, written from either state.
NonSecureWrite ==
    \E w \in 0 .. Words - 1 : \E v \in SUBSET BitsOf(w) :
        WriteISER("NS", v) \/ WriteICER("NS", v) \/ WriteISPR("NS", v) \/ WriteICPR("NS", v)
          \/ WriteITNS("NS", w, v)

SecureWrite ==
    \E w \in 0 .. Words - 1 : \E v \in SUBSET BitsOf(w) :
        WriteISER("S", v) \/ WriteICER("S", v) \/ WriteISPR("S", v) \/ WriteICPR("S", v)
          \/ WriteITNS("S", w, v)

NvicNext ==
    \/ NonSecureWrite
    \/ SecureWrite
    \/ \E i \in Irq, q \in Prio : WriteIPR({i}, [j \in {i} |-> q])
    \/ \E g \in 0 .. (Words * WordBits) \div 4 :
          LET is == {i \in Irq : i \div 4 = g} IN \E p \in [is -> Prio] : WriteIPR(is, p)
    \/ \E i \in Irq : DevicePends(i)
    \/ \E s \in World, v \in BOOLEAN : WritePrimask(s, v)
    \/ \E i \in Irq : AcceptInterrupt(i)

NvicSpec == NvicInit /\ [][NvicNext]_nvicvars

-----------------------------------------------------------------------------
(* Properties.                                                             *)

(***************************************************************************)
(* mm_nvic_select_routed returns the pending, enabled interrupt that the   *)
(* PRIMASK of its own target state does not hold back and that has the     *)
(* lowest priority value, the lowest number among equals, and -1 exactly   *)
(* when there is none: priority 0xff, the reset value, is a priority too.  *)
(***************************************************************************)
SelectsHighestPriority ==
    LET takeable == {i \in nvic.enable \cap nvic.pending :
                        IF i \in nvic.itns THEN ~primask["NS"] ELSE ~primask["S"]}
        i == Select(nvic, primask)
    IN  IF takeable = {} THEN i = NoIrq
        ELSE /\ i \in takeable
             /\ \A j \in takeable \ {i} :
                   \/ nvic.priority[i] < nvic.priority[j]
                   \/ nvic.priority[i] = nvic.priority[j] /\ i < j

(***************************************************************************)
(* Whatever the Non-secure side writes to ISER, ICER, ISPR, ICPR and ITNS, *)
(* the interrupt that is selected among those that target the Secure state *)
(* does not change.  (IPR is not among them: scs_write masks no priority.) *)
(***************************************************************************)
SecureSelectionIsOwn ==
    [][LET secure(n) == [n EXCEPT !.pending = @ \ n.itns]
       IN  NonSecureWrite => Select(secure(nvic'), primask) = Select(secure(nvic), primask)]_nvicvars
=============================================================================
