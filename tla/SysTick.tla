------------------------------ MODULE SysTick ------------------------------
(***************************************************************************)
(* The SysTick down-counter of src/scs.c: its registers, the register      *)
(* accesses of the firmware, and mm_scs_systick_advance, which moves the   *)
(* counter by any number of virtual cycles at once: by one for an executed *)
(* instruction, by mm_scs_systick_cycles_until_fire while the core sleeps. *)
(*                                                                         *)
(* The state of the counter is one record, so that the pure functions of   *)
(* the code (advance, until-fire) are pure functions of that record here.  *)
(***************************************************************************)
EXTENDS Integers

CONSTANTS
    RegMod,     \* one more than the largest value of the 24-bit LOAD and VAL
    MaxDelta,   \* bound on the cycles of one advance
    MaxWraps    \* bound on the 64-bit diagnostic counter systick_wraps

ASSUME RegModAssumption == RegMod \in Nat /\ RegMod > 1
ASSUME BoundsAssumption == MaxDelta \in Nat /\ MaxWraps \in Nat

VARIABLES
    st,         \* the counter: a member of SysTickState
    wrapsSeen   \* history: the value of wraps when COUNTFLAG was last cleared

vars == <<st, wrapsSeen>>

RegVal == 0 .. RegMod - 1

SysTickState ==
    [enable : BOOLEAN, tickint : BOOLEAN,       \* systick_ctrl bits 0 and 1
     load : RegVal, val : RegVal,
     countflag : BOOLEAN,
     wraps : Nat,
     pend_st : BOOLEAN]

-----------------------------------------------------------------------------
(* The pure part.                                                          *)

\* The count that the next cycle decrements: a zero VAL reloads first.
CurrentCount(s) == IF s.val = 0 THEN s.load ELSE s.val

Counting(s) == s.enable /\ s.load # 0

\* Number of wraps and the final count when a running counter moves by n cycles.
WrapsIn(s, n) ==
    LET cur == CurrentCount(s)
    IN  IF n < cur THEN 0 ELSE 1 + (n - cur) \div s.load

\* Mutant of CountAfter: no reload when the skip ends exactly on a wrap.
CountAfter_StopsAtZero(s, n) ==
    LET cur == CurrentCount(s)
    IN  IF n < cur THEN cur - n ELSE (s.load - ((n - cur) % s.load)) % s.load

CountAfter(s, n) ==
    LET cur == CurrentCount(s)
        rem == (n - cur) % s.load
    IN  IF n < cur THEN cur - n
        ELSE IF rem = 0 THEN s.load ELSE s.load - rem

\* Mutant of SysTickAdvance: a tick is pended only by a skip that wraps once.
SysTickAdvance_OneWrapPends(s, n) ==
    IF n = 0 \/ ~Counting(s)
    THEN s
    ELSE LET w == WrapsIn(s, n)
         IN  [s EXCEPT !.val       = CountAfter(s, n),
                       !.wraps     = @ + w,
                       !.countflag = @ \/ w > 0,
                       !.pend_st   = @ \/ (w = 1 /\ s.tickint)]

\* mm_scs_systick_advance: what n cycles make of the counter.
SysTickAdvance(s, n) ==
    IF n = 0 \/ ~Counting(s)
    THEN s
    ELSE LET w == WrapsIn(s, n)
         IN  [s EXCEPT !.val       = CountAfter(s, n),
                       !.wraps     = @ + w,
                       !.countflag = @ \/ w > 0,
                       !.pend_st   = @ \/ (w > 0 /\ s.tickint)]

\* The (mm_u64)-1 that mm_scs_systick_cycles_until_fire returns for a counter
\* that never fires.
Never == -1

\* Mutant of CyclesUntilFire: the distance is computed from LOAD.
CyclesUntilFire_FromLoad(s) == IF Counting(s) THEN s.load ELSE Never

\* mm_scs_systick_cycles_until_fire
CyclesUntilFire(s) == IF Counting(s) THEN CurrentCount(s) ELSE Never

-----------------------------------------------------------------------------
(* The operations.                                                         *)

Init ==
    /\ st = [enable |-> FALSE, tickint |-> FALSE, load |-> 0, val |-> 0,
             countflag |-> FALSE, wraps |-> 0, pend_st |-> FALSE]
    /\ wrapsSeen = 0

\* Virtual time passes.
Advance(n) ==
    /\ SysTickAdvance(st, n).wraps <= MaxWraps
    /\ st' = SysTickAdvance(st, n)
    /\ UNCHANGED wrapsSeen

\* The firmware writes SYST_CSR; only the low bits are kept.
WriteCtrl(enable, tickint) ==
    /\ st' = [st EXCEPT !.enable = enable, !.tickint = tickint]
    /\ UNCHANGED wrapsSeen

\* Reading SYST_CSR returns COUNTFLAG and clears it.
ReadCtrl ==
    /\ st' = [st EXCEPT !.countflag = FALSE]
    /\ wrapsSeen' = st.wraps

\* SYST_RVR: a new reload value leaves the running count alone.
WriteLoad(v) ==
    /\ st' = [st EXCEPT !.load = v % RegMod]
    /\ UNCHANGED wrapsSeen

\* Mutant of WriteVal: COUNTFLAG survives the write.
WriteVal_KeepsFlag ==
    /\ st' = [st EXCEPT !.val = 0]
    /\ wrapsSeen' = st.wraps

\* SYST_CVR: a write of any value clears the count and COUNTFLAG.
WriteVal ==
    /\ st' = [st EXCEPT !.val = 0, !.countflag = FALSE]
    /\ wrapsSeen' = st.wraps

\* ICSR.PENDSTSET and ICSR.PENDSTCLR: when both are written the clear is last.
WriteIcsr(set, clear) ==
    /\ set \/ clear
    /\ st' = [st EXCEPT !.pend_st = (@ \/ set) /\ ~clear]
    /\ UNCHANGED wrapsSeen

\* enter_exception_ex for SysTick takes the pending bit.
TakeException ==
    /\ st.pend_st
    /\ st' = [st EXCEPT !.pend_st = FALSE]
    /\ UNCHANGED wrapsSeen

\* mm_scs_init, run at every target reset.
Reset ==
    /\ st' = [enable |-> FALSE, tickint |-> FALSE, load |-> 0, val |-> 0,
              countflag |-> FALSE, wraps |-> 0, pend_st |-> FALSE]
    /\ wrapsSeen' = 0

Next ==
    \/ \E n \in 1 .. MaxDelta : Advance(n)
    \/ \E e, t \in BOOLEAN : WriteCtrl(e, t)
    \/ ReadCtrl
    \/ \E v \in 0 .. RegMod : WriteLoad(v)
    \/ WriteVal
    \/ \E s, c \in BOOLEAN : WriteIcsr(s, c)
    \/ TakeException
    \/ Reset

Spec == Init /\ [][Next]_vars

-----------------------------------------------------------------------------
(* Properties.                                                             *)

TypeOK == st \in SysTickState /\ wrapsSeen \in Nat

(***************************************************************************)
(* The reference: a counter that moves by one cycle at a time.             *)
(***************************************************************************)
OneCycle(s) ==
    LET reloaded == [s EXCEPT !.val = IF @ = 0 THEN s.load ELSE @]
    IN  IF ~Counting(s) THEN s
        ELSE IF reloaded.val > 1 THEN [reloaded EXCEPT !.val = @ - 1]
        ELSE [s EXCEPT !.val = s.load, !.wraps = @ + 1, !.countflag = TRUE,
                       !.pend_st = @ \/ s.tickint]

Cycles(s, n) ==
    LET after[k \in 0 .. n] == IF k = 0 THEN s ELSE OneCycle(after[k - 1])
    IN  after[n]

(***************************************************************************)
(* Skipping n cycles while the core sleeps (mm_scs_systick_advance with a  *)
(* large delta) gives the counter, the wrap count, COUNTFLAG and the       *)
(* pending bit that n instruction-sized steps would have given, whatever   *)
(* LOAD and VAL the firmware left behind (LOAD below VAL included).        *)
(***************************************************************************)
FastForwardIsStepping ==
    \A n \in 0 .. MaxDelta : SysTickAdvance(st, n) = Cycles(st, n)

(***************************************************************************)
(* mm_scs_systick_cycles_until_fire is exact: advancing by its result wraps *)
(* once, and by any less not at all, so the sleep loop never sleeps through *)
(* a SysTick interrupt nor wakes before it.  It answers Never only for a   *)
(* counter that no number of cycles makes wrap.                            *)
(***************************************************************************)
UntilFireIsExact ==
    LET d == CyclesUntilFire(st)
    IN  IF d = Never
        THEN \A n \in 0 .. MaxDelta : Cycles(st, n) = st
        ELSE /\ d > 0
             /\ Cycles(st, d).wraps = st.wraps + 1
             /\ Cycles(st, d - 1).wraps = st.wraps

(***************************************************************************)
(* COUNTFLAG tells a poller of SYST_CSR exactly whether the counter        *)
(* wrapped since the flag was last cleared by a read of SYST_CSR or a      *)
(* write of SYST_CVR, across any mix of single steps, skips, reloads and   *)
(* disabled periods.                                                       *)
(***************************************************************************)
CountFlagMeansWrapped == st.countflag <=> st.wraps > wrapsSeen

(***************************************************************************)
(* A wrap with TICKINT set is never lost: the step that wraps leaves       *)
(* SysTick pending, and only exception entry, PENDSTCLR or a reset takes   *)
(* the pending bit away.                                                   *)
(***************************************************************************)
TickIsPended ==
    [][/\ (st'.wraps > st.wraps /\ st.tickint) => st'.pend_st
       /\ (st'.wraps > st.wraps /\ ~st.tickint) => st'.pend_st = st.pend_st
       /\ (st.pend_st /\ ~st'.pend_st) =>
             TakeException \/ Reset \/ (\E s \in BOOLEAN : WriteIcsr(s, TRUE))]_vars
=============================================================================
