--------------------------- MODULE SysTickProofs ---------------------------
(***************************************************************************)
(* What mm_scs_systick_advance and mm_scs_systick_cycles_until_fire do for *)
(* every register width, proved.                                           *)
(***************************************************************************)
EXTENDS SysTick, Induction

(* A counter is determined by its fields.                                   *)
LEMMA SameFields ==
    ASSUME NEW s \in SysTickState, NEW t \in SysTickState,
           s.val = t.val, s.wraps = t.wraps, s.countflag = t.countflag,
           s.pend_st = t.pend_st, s.enable = t.enable, s.tickint = t.tickint,
           s.load = t.load
    PROVE  s = t
  BY DEF SysTickState

(* A counter that runs has a current count between 1 and the register's     *)
(* maximum: what CurrentCount makes of a zero VAL is never zero.            *)
LEMMA CurrentCountType ==
    ASSUME NEW s \in SysTickState, Counting(s)
    PROVE  /\ CurrentCount(s) \in 1 .. RegMod - 1
           /\ s.load \in 1 .. RegMod - 1
  BY RegModAssumption DEF SysTickState, RegVal, Counting, CurrentCount

(* What advancing a running counter by a positive number of cycles gives.   *)
LEMMA AdvanceFields ==
    ASSUME NEW s \in SysTickState, Counting(s), NEW n \in Nat \ {0}
    PROVE  /\ WrapsIn(s, n) \in Nat
           /\ CountAfter(s, n) \in 1 .. RegMod - 1
           /\ SysTickAdvance(s, n) =
                 [s EXCEPT !.val = CountAfter(s, n),
                           !.wraps = s.wraps + WrapsIn(s, n),
                           !.countflag = s.countflag \/ WrapsIn(s, n) > 0,
                           !.pend_st = s.pend_st \/ (WrapsIn(s, n) > 0 /\ s.tickint)]
  <1> DEFINE cur == CurrentCount(s)
  <1>1. cur \in 1 .. RegMod - 1 /\ s.load \in 1 .. RegMod - 1
    BY CurrentCountType
  <1>2. CASE n < cur
    BY <1>1, <1>2, RegModAssumption DEF WrapsIn, CountAfter, SysTickAdvance
  <1>3. CASE ~(n < cur)
    <2>1. n - cur \in Nat
      BY <1>1, <1>3, RegModAssumption
    <2>2. (n - cur) \div s.load \in Nat /\ (n - cur) % s.load \in 0 .. s.load - 1
      BY <2>1, <1>1, RegModAssumption, DivMod
    <2> QED
      BY <1>1, <1>3, <2>2, RegModAssumption DEF WrapsIn, CountAfter, SysTickAdvance
  <1> QED
    BY <1>2, <1>3

(* The state space of the counter is closed under advancing.                *)
LEMMA AdvanceType ==
    ASSUME NEW s \in SysTickState, NEW n \in Nat
    PROVE  SysTickAdvance(s, n) \in SysTickState
  <1>1. CASE n = 0 \/ ~Counting(s)
    BY <1>1 DEF SysTickAdvance
  <1>2. CASE n # 0 /\ Counting(s)
    <2> DEFINE w == WrapsIn(s, n)
               c == s.countflag \/ w > 0
               p == s.pend_st \/ (w > 0 /\ s.tickint)
    <2>0. w \in Nat /\ CountAfter(s, n) \in 1 .. RegMod - 1
      BY <1>2, AdvanceFields, Zenon
    <2>1. w \in Nat /\ CountAfter(s, n) \in RegVal
      BY <2>0, RegModAssumption DEF RegVal
    <2>2. s.wraps + w \in Nat
      BY <2>1 DEF SysTickState
    <2>3. c \in BOOLEAN /\ p \in BOOLEAN
      BY Zenon
    <2>4. SysTickAdvance(s, n) =
             [s EXCEPT !.val = CountAfter(s, n), !.wraps = s.wraps + w,
                       !.countflag = c, !.pend_st = p]
      BY <1>2, AdvanceFields, Zenon
    <2> HIDE DEF w, c, p
    <2> QED
      BY <2>1, <2>2, <2>3, <2>4 DEF SysTickState
  <1> QED
    BY <1>1, <1>2

(* One cycle more of mm_scs_systick_advance is one cycle of the reference    *)
(* counter: the induction step of FastForwardIsStepping, for every LOAD, VAL *)
(* and width.                                                               *)
LEMMA AdvanceSucc ==
    ASSUME NEW s \in SysTickState, Counting(s), NEW n \in Nat
    PROVE  IF CountAfter(s, n) = 1
           THEN CountAfter(s, n + 1) = s.load /\ WrapsIn(s, n + 1) = WrapsIn(s, n) + 1
           ELSE CountAfter(s, n + 1) = CountAfter(s, n) - 1 /\ WrapsIn(s, n + 1) = WrapsIn(s, n)
  <1> DEFINE cur == CurrentCount(s)
             r == n - cur
  <1>1. cur \in 1 .. RegMod - 1 /\ s.load \in 1 .. RegMod - 1
    BY CurrentCountType
  <1>2. CASE n + 1 < cur
    BY <1>1, <1>2, RegModAssumption DEF WrapsIn, CountAfter
  <1>3. CASE n + 1 = cur
    <2>1. (n + 1) - cur = 0 /\ 0 \div s.load = 0 /\ 0 % s.load = 0
      BY <1>1, <1>3, RegModAssumption
    <2> QED
      BY <1>1, <1>3, <2>1, RegModAssumption DEF WrapsIn, CountAfter
  <1>4. CASE n + 1 > cur
    <2>1. r \in Nat /\ (n + 1) - cur = r + 1
      BY <1>1, <1>4, RegModAssumption
    <2>2. r \div s.load \in Nat /\ r % s.load \in 0 .. s.load - 1
      BY <2>1, <1>1, RegModAssumption, DivMod
    <2>3. IF r % s.load = s.load - 1
          THEN (r + 1) \div s.load = (r \div s.load) + 1 /\ (r + 1) % s.load = 0
          ELSE (r + 1) \div s.load = r \div s.load /\ (r + 1) % s.load = (r % s.load) + 1
      <3>1. s.load \in Nat /\ s.load > 0
        BY <1>1, RegModAssumption
      <3> HIDE DEF r
      <3> QED
        BY <2>1, <3>1, DivModSucc, Zenon
    <2>a. ~(n < cur) /\ ~(n + 1 < cur)
      BY <1>1, <1>4, RegModAssumption
    <2>4. /\ WrapsIn(s, n) = 1 + r \div s.load
          /\ WrapsIn(s, n + 1) = 1 + (r + 1) \div s.load
          /\ CountAfter(s, n) = IF r % s.load = 0 THEN s.load ELSE s.load - (r % s.load)
          /\ CountAfter(s, n + 1) = IF (r + 1) % s.load = 0 THEN s.load ELSE s.load - ((r + 1) % s.load)
      BY <2>a, <2>1, Zenon DEF WrapsIn, CountAfter
    <2> HIDE DEF r, cur
    <2> QED
      BY <1>1, <2>2, <2>3, <2>4, RegModAssumption
  <1> QED
    BY <1>1, <1>2, <1>3, <1>4

(***************************************************************************)
(* Advancing by one cycle more is advancing and then letting the reference *)
(* counter run for one cycle; advancing by zero cycles changes nothing.    *)
(* By induction on n, skipping n cycles at once is stepping n times        *)
(* (FastForwardIsStepping), for every width, LOAD and VAL.                 *)
(***************************************************************************)
THEOREM FastForwardStep ==
    ASSUME NEW s \in SysTickState, NEW n \in Nat
    PROVE  /\ SysTickAdvance(s, 0) = s
           /\ SysTickAdvance(s, n + 1) = OneCycle(SysTickAdvance(s, n))
  <1>0. SysTickAdvance(s, 0) = s
    BY DEF SysTickAdvance
  <1>1. CASE ~Counting(s)
    BY <1>1 DEF SysTickAdvance, OneCycle
  <1>2. CASE Counting(s)
    <2> DEFINE w == WrapsIn(s, n)
               v == CountAfter(s, n)
               a == SysTickAdvance(s, n)
               b == SysTickAdvance(s, n + 1)
    <2>1. /\ s.load \in 1 .. RegMod - 1 /\ s.load \in Nat
          /\ CurrentCount(s) \in 1 .. RegMod - 1
      BY <1>2, CurrentCountType, RegModAssumption
    <2>2. /\ n + 1 \in Nat \ {0}
          /\ SysTickAdvance(s, n + 1) =
                [s EXCEPT !.val = CountAfter(s, n + 1),
                          !.wraps = s.wraps + WrapsIn(s, n + 1),
                          !.countflag = s.countflag \/ WrapsIn(s, n + 1) > 0,
                          !.pend_st = s.pend_st \/ (WrapsIn(s, n + 1) > 0 /\ s.tickint)]
      <3>1. n + 1 \in Nat \ {0}
        OBVIOUS
      <3> QED
        BY <1>2, <3>1, AdvanceFields, Zenon
    <2>3. w \in Nat /\ v \in Nat /\ v > 0 /\ (n = 0 => w = 0 /\ v = CurrentCount(s))
      <3>1. CASE n = 0
        BY <2>1, <3>1, RegModAssumption DEF WrapsIn, CountAfter
      <3>2. CASE n # 0
        <4>1. w \in Nat /\ v \in 1 .. RegMod - 1
          BY <1>2, <3>2, AdvanceFields
        <4> QED
          BY <4>1, <3>2, RegModAssumption
      <3> QED
        BY <3>1, <3>2
    <2>4. IF v = 1
          THEN CountAfter(s, n + 1) = s.load /\ WrapsIn(s, n + 1) = w + 1
          ELSE CountAfter(s, n + 1) = v - 1 /\ WrapsIn(s, n + 1) = w
      BY <1>2, AdvanceSucc, Zenon
    <2>5. /\ a \in SysTickState
          /\ Counting(a) /\ CurrentCount(a) = v
          /\ a.load = s.load /\ a.tickint = s.tickint
          /\ a.enable = s.enable /\ a.wraps = s.wraps + w
          /\ a.countflag <=> (s.countflag \/ w > 0)
          /\ a.pend_st <=> (s.pend_st \/ (w > 0 /\ s.tickint))
      <3>0. a \in SysTickState
        BY AdvanceType
      <3>1. CASE n = 0
        <4>1. a = s /\ w = 0 /\ v = CurrentCount(s)
          BY <3>1, <1>0, <2>3
        <4> HIDE DEF w, v, a
        <4> QED
          BY <3>0, <4>1, <1>2, <2>1 DEF SysTickState
      <3>2. CASE n # 0
        <4>1. a = [s EXCEPT !.val = v, !.wraps = s.wraps + w,
                            !.countflag = s.countflag \/ w > 0,
                            !.pend_st = s.pend_st \/ (w > 0 /\ s.tickint)]
          BY <1>2, <3>2, AdvanceFields, Zenon
        <4> DEFINE cf == s.countflag \/ w > 0
                   pf == s.pend_st \/ (w > 0 /\ s.tickint)
        <4>2. cf \in BOOLEAN /\ pf \in BOOLEAN
          BY Zenon
        <4>3. /\ a.val = v /\ a.load = s.load /\ a.tickint = s.tickint
              /\ a.enable = s.enable /\ a.wraps = s.wraps + w
              /\ a.countflag = cf /\ a.pend_st = pf
          <5>1. a = [s EXCEPT !.val = v, !.wraps = s.wraps + w,
                              !.countflag = cf, !.pend_st = pf]
            BY <4>1
          <5>2. v \in RegVal /\ s.wraps + w \in Nat
            <6>1. v \in 1 .. RegMod - 1
              BY <1>2, <3>2, AdvanceFields
            <6> QED
              BY <6>1, <2>3, RegModAssumption DEF RegVal, SysTickState
          <5> HIDE DEF w, v, a, cf, pf
          <5> QED
            BY <4>2, <5>1, <5>2 DEF SysTickState
        <4>4. Counting(a) /\ CurrentCount(a) = v
          <5> HIDE DEF w, v, a, cf, pf
          <5> QED
            BY <4>3, <1>2, <2>3 DEF Counting, CurrentCount
        <4> QED
          BY <3>0, <4>3, <4>4
      <3> QED
        BY <3>1, <3>2
    <2>6. OneCycle(a) =
             IF v > 1 THEN [a EXCEPT !.val = v - 1]
             ELSE [a EXCEPT !.val = s.load, !.wraps = a.wraps + 1,
                            !.countflag = TRUE, !.pend_st = a.pend_st \/ s.tickint]
      <3> HIDE DEF a, v
      <3> QED
        BY <2>5 DEF OneCycle, CurrentCount, SysTickState
    <2>7. OneCycle(a) = b
      <3>a. CASE v = 1
        <4>1. /\ OneCycle(a) = [a EXCEPT !.val = s.load, !.wraps = a.wraps + 1,
                              !.countflag = TRUE, !.pend_st = a.pend_st \/ s.tickint]
              /\ WrapsIn(s, n + 1) = w + 1 /\ w + 1 > 0
          BY <2>3, <2>4, <2>6, <3>a
        <4>2. b = [s EXCEPT !.val = s.load, !.wraps = s.wraps + (w + 1),
                            !.countflag = TRUE, !.pend_st = s.pend_st \/ s.tickint]
          BY <2>2, <2>4, <3>a, <4>1
        <4> DEFINE pa == a.pend_st \/ s.tickint
                   ps == s.pend_st \/ s.tickint
                   c == OneCycle(a)
        <4>3. pa = ps /\ pa \in BOOLEAN
          BY <2>5
        <4>4. /\ a.wraps + 1 = s.wraps + (w + 1) /\ a.wraps + 1 \in Nat
              /\ s.load \in RegVal
          BY <2>3, <2>5 DEF SysTickState
        <4>5. /\ c = [a EXCEPT !.val = s.load, !.wraps = a.wraps + 1,
                               !.countflag = TRUE, !.pend_st = pa]
              /\ b = [s EXCEPT !.val = s.load, !.wraps = a.wraps + 1,
                               !.countflag = TRUE, !.pend_st = pa]
          BY <4>1, <4>2, <4>3, <4>4
        <4> HIDE DEF a, v, w, b, pa, ps, c
        <4>6. /\ c \in SysTickState /\ c.val = s.load /\ c.wraps = a.wraps + 1
              /\ c.countflag = TRUE /\ c.pend_st = pa
              /\ c.enable = a.enable /\ c.tickint = a.tickint /\ c.load = a.load
          BY <2>5, <4>3, <4>4, <4>5 DEF SysTickState
        <4>7. /\ b \in SysTickState /\ b.val = s.load /\ b.wraps = a.wraps + 1
              /\ b.countflag = TRUE /\ b.pend_st = pa
              /\ b.enable = s.enable /\ b.tickint = s.tickint /\ b.load = s.load
          BY <4>3, <4>4, <4>5 DEF SysTickState
        <4>8. c = b
          BY <2>5, <4>6, <4>7, SameFields
        <4> QED
          BY <4>8 DEF c
      <3>b. CASE v # 1
        <4> DEFINE cf == s.countflag \/ w > 0
                   pf == s.pend_st \/ (w > 0 /\ s.tickint)
                   c == OneCycle(a)
        <4>1. c = [a EXCEPT !.val = v - 1]
          BY <2>3, <2>6, <3>b
        <4>2. b = [s EXCEPT !.val = v - 1, !.wraps = s.wraps + w,
                            !.countflag = cf, !.pend_st = pf]
          BY <2>2, <2>4, <3>b
        <4>3. /\ a.countflag = cf /\ a.pend_st = pf /\ cf \in BOOLEAN /\ pf \in BOOLEAN
              /\ s.wraps + w \in Nat
          BY <2>3, <2>5 DEF SysTickState
        <4>4. v - 1 \in RegVal
          <5>1. a.val \in RegVal /\ a.load \in RegVal /\ v \in RegVal
            BY <2>5 DEF SysTickState, CurrentCount
          <5> QED
            BY <5>1, <2>3, RegModAssumption DEF RegVal
        <4> HIDE DEF a, v, w, b, cf, pf, c
        <4>6. /\ c \in SysTickState /\ c.val = v - 1 /\ c.wraps = a.wraps
              /\ c.countflag = a.countflag /\ c.pend_st = a.pend_st
              /\ c.enable = a.enable /\ c.tickint = a.tickint /\ c.load = a.load
          BY <2>5, <4>1, <4>4 DEF SysTickState
        <4>7. /\ b \in SysTickState /\ b.val = v - 1 /\ b.wraps = s.wraps + w
              /\ b.countflag = cf /\ b.pend_st = pf
              /\ b.enable = s.enable /\ b.tickint = s.tickint /\ b.load = s.load
          BY <4>2, <4>3, <4>4 DEF SysTickState
        <4>8. c = b
          BY <2>5, <4>3, <4>6, <4>7, SameFields
        <4> QED
          BY <4>8 DEF c
      <3> QED
        BY <3>a, <3>b
    <2> QED
      BY <2>7, <1>0
  <1> QED
    BY <1>1, <1>2

(* Stepping the reference counter n times is advancing it by n: induction   *)
(* on n, with FastForwardStep as its step.                                  *)
LEMMA CyclesAreAdvance ==
    ASSUME NEW s \in SysTickState, NEW n \in Nat
    PROVE  Cycles(s, n) = SysTickAdvance(s, n)
  <1>. DEFINE Step(f) == [k \in 0 .. n |-> IF k = 0 THEN s ELSE OneCycle(f[k - 1])]
              after == CHOOSE f : f = Step(f)
              skip == [k \in 0 .. n |-> SysTickAdvance(s, k)]
  <1>1. Cycles(s, n) = after[n]
    BY DEF Cycles
  <1>2. skip = Step(skip)
    <2>1. ASSUME NEW k \in 0 .. n
          PROVE  skip[k] = IF k = 0 THEN s ELSE OneCycle(skip[k - 1])
      <3>1. CASE k = 0
        BY <3>1, FastForwardStep
      <3>2. CASE k # 0
        <4>1. k - 1 \in Nat /\ k - 1 \in 0 .. n /\ (k - 1) + 1 = k
          BY <3>2
        <4>2. SysTickAdvance(s, (k - 1) + 1) = OneCycle(SysTickAdvance(s, k - 1))
          BY <4>1, FastForwardStep
        <4>. QED
          BY <3>2, <4>1, <4>2
      <3>. QED
        BY <3>1, <3>2
    <2>. QED
      BY <2>1
  <1>3. after = Step(after)
    <2>. HIDE DEF skip
    <2>. QED
      BY <1>2
  <1>. DEFINE S == {k \in 0 .. n : after[k] = skip[k]}
  <1>. HIDE DEF after
  <1>4. 0 \in S
    BY <1>3, FastForwardStep
  <1>5. ASSUME NEW k \in 0 .. n - 1, k \in S
        PROVE  k + 1 \in S
    <2>1. k \in 0 .. n /\ k + 1 \in 0 .. n /\ k + 1 # 0 /\ (k + 1) - 1 = k
      OBVIOUS
    <2>2. after[k + 1] = OneCycle(after[k])
      BY <1>3, <2>1
    <2>3. after[k] = skip[k]
      BY <1>5
    <2>4. skip[k + 1] = OneCycle(skip[k])
      <3>1. SysTickAdvance(s, k + 1) = OneCycle(SysTickAdvance(s, k))
        BY FastForwardStep
      <3>. QED
        BY <2>1, <3>1
    <2>. HIDE DEF skip
    <2>. QED
      BY <2>1, <2>2, <2>3, <2>4
  <1>6. n \in S
    <2>1. n \in 0 .. n
      OBVIOUS
    <2>. HIDE DEF S
    <2>. QED
      BY <1>4, <1>5, <2>1, SegmentInduction
  <1>. QED
    BY <1>1, <1>6

(***************************************************************************)
(* mm_scs_systick_cycles_until_fire is exact, for every width, LOAD and    *)
(* VAL: a running counter advanced by its result wraps exactly once, and   *)
(* advanced by fewer cycles it does not wrap.  A counter for which it      *)
(* answers Never does not move, whatever the number of cycles.             *)
(***************************************************************************)
THEOREM UntilFireExact ==
    ASSUME NEW s \in SysTickState
    PROVE  /\ CyclesUntilFire(s) # Never =>
                 /\ SysTickAdvance(s, CyclesUntilFire(s)).wraps = s.wraps + 1
                 /\ \A n \in 0 .. CyclesUntilFire(s) - 1 :
                        SysTickAdvance(s, n).wraps = s.wraps
           /\ CyclesUntilFire(s) = Never =>
                 \A n \in Nat : SysTickAdvance(s, n) = s
  <1>1. CASE ~Counting(s)
    BY <1>1 DEF CyclesUntilFire, SysTickAdvance, Never
  <1>2. CASE Counting(s)
    <2> DEFINE d == CyclesUntilFire(s)
    <2>1. d = CurrentCount(s) /\ d \in 1 .. RegMod - 1 /\ s.load \in 1 .. RegMod - 1
      BY <1>2, CurrentCountType DEF CyclesUntilFire
    <2>2. d \in Nat \ {0} /\ d # Never
      BY <2>1, RegModAssumption DEF Never
    <2>3. WrapsIn(s, d) = 1
      <3>1. d - d = 0 /\ 0 \div s.load = 0 /\ ~(d < d)
        BY <2>1, RegModAssumption
      <3> HIDE DEF d
      <3> QED
        BY <2>1, <3>1 DEF WrapsIn
    <2>4. SysTickAdvance(s, d).wraps = s.wraps + 1
      <3>1. SysTickAdvance(s, d) =
               [s EXCEPT !.val = CountAfter(s, d), !.wraps = s.wraps + WrapsIn(s, d),
                         !.countflag = s.countflag \/ WrapsIn(s, d) > 0,
                         !.pend_st = s.pend_st \/ (WrapsIn(s, d) > 0 /\ s.tickint)]
        BY <1>2, <2>2, AdvanceFields, Zenon
      <3> QED
        BY <3>1, <2>3 DEF SysTickState
    <2>5. ASSUME NEW n \in 0 .. d - 1
          PROVE  SysTickAdvance(s, n).wraps = s.wraps
      <3>1. n \in Nat /\ n < CurrentCount(s)
        BY <2>1, RegModAssumption
      <3>2. CASE n = 0
        BY <3>2 DEF SysTickAdvance
      <3>3. CASE n # 0
        <4>1. WrapsIn(s, n) = 0
          BY <3>1 DEF WrapsIn
        <4>2. SysTickAdvance(s, n) =
                 [s EXCEPT !.val = CountAfter(s, n), !.wraps = s.wraps + WrapsIn(s, n),
                           !.countflag = s.countflag \/ WrapsIn(s, n) > 0,
                           !.pend_st = s.pend_st \/ (WrapsIn(s, n) > 0 /\ s.tickint)]
          BY <1>2, <3>1, <3>3, AdvanceFields, Zenon
        <4> QED
          BY <4>1, <4>2 DEF SysTickState
      <3> QED
        BY <3>2, <3>3
    <2> QED
      BY <2>2, <2>4, <2>5, Zenon
  <1> QED
    BY <1>1, <1>2

(***************************************************************************)
(* The registers stay within their width and the flags boolean.            *)
(***************************************************************************)
THEOREM TypeCorrect == Spec => []TypeOK
  <1>1. Init => TypeOK
    BY RegModAssumption DEF Init, TypeOK, SysTickState, RegVal
  <1>2. TypeOK /\ [Next]_vars => TypeOK'
    <2> SUFFICES ASSUME TypeOK, [Next]_vars PROVE TypeOK'
      OBVIOUS
    <2> USE DEF TypeOK
    <2>1. ASSUME NEW n \in 1 .. MaxDelta, Advance(n) PROVE TypeOK'
      BY <2>1, AdvanceType, BoundsAssumption DEF Advance
    <2>2. ASSUME NEW e \in BOOLEAN, NEW t \in BOOLEAN, WriteCtrl(e, t) PROVE TypeOK'
      BY <2>2 DEF WriteCtrl, SysTickState
    <2>3. CASE ReadCtrl
      BY <2>3 DEF ReadCtrl, SysTickState
    <2>4. ASSUME NEW v \in 0 .. RegMod, WriteLoad(v) PROVE TypeOK'
      BY <2>4, RegModAssumption DEF WriteLoad, SysTickState, RegVal
    <2>5. CASE WriteVal
      <3>1. 0 \in RegVal
        BY RegModAssumption DEF RegVal
      <3> QED
        BY <2>5, <3>1 DEF WriteVal, SysTickState
    <2>6. ASSUME NEW s \in BOOLEAN, NEW c \in BOOLEAN, WriteIcsr(s, c) PROVE TypeOK'
      BY <2>6 DEF WriteIcsr, SysTickState
    <2>7. CASE TakeException
      BY <2>7 DEF TakeException, SysTickState
    <2>8. CASE Reset
      BY <2>8, RegModAssumption DEF Reset, SysTickState, RegVal
    <2>9. CASE UNCHANGED vars
      BY <2>9 DEF vars
    <2> QED
      BY <2>1, <2>2, <2>3, <2>4, <2>5, <2>6, <2>7, <2>8, <2>9 DEF Next
  <1> QED
    BY <1>1, <1>2, PTL DEF Spec

(***************************************************************************)
(* COUNTFLAG is set exactly when the counter wrapped since the flag was    *)
(* last cleared.  The invariant needs that the wrap count only grows, which *)
(* AdvanceFields gives, and that the history value never exceeds it.       *)
(***************************************************************************)
THEOREM CountFlagCorrect == Spec => []CountFlagMeansWrapped
  <1> DEFINE IInv == TypeOK /\ CountFlagMeansWrapped /\ wrapsSeen <= st.wraps
  <1>1. Init => IInv
    BY RegModAssumption DEF Init, TypeOK, SysTickState, RegVal, CountFlagMeansWrapped
  <1>2. IInv /\ TypeOK' /\ [Next]_vars => IInv'
    <2> SUFFICES ASSUME IInv, TypeOK', [Next]_vars
                 PROVE  CountFlagMeansWrapped' /\ (wrapsSeen <= st.wraps)'
      OBVIOUS
    <2> USE DEF TypeOK, CountFlagMeansWrapped
    <2>1. ASSUME NEW n \in 1 .. MaxDelta, Advance(n)
          PROVE  CountFlagMeansWrapped' /\ (wrapsSeen <= st.wraps)'
      <3>1. n \in Nat \ {0}
        BY BoundsAssumption
      <3>2. CASE ~Counting(st)
        BY <2>1, <3>1, <3>2 DEF Advance, SysTickAdvance
      <3>3. CASE Counting(st)
        <4>1. WrapsIn(st, n) \in Nat
          BY <3>1, <3>3, AdvanceFields, Zenon
        <4>2. st' = [st EXCEPT !.val = CountAfter(st, n), !.wraps = st.wraps + WrapsIn(st, n),
                               !.countflag = st.countflag \/ WrapsIn(st, n) > 0,
                               !.pend_st = st.pend_st \/ (WrapsIn(st, n) > 0 /\ st.tickint)]
          BY <2>1, <3>1, <3>3, AdvanceFields, Zenon DEF Advance
        <4>3. /\ st'.wraps = st.wraps + WrapsIn(st, n)
              /\ st'.countflag <=> (st.countflag \/ WrapsIn(st, n) > 0)
          BY <4>2 DEF SysTickState
        <4>4. st.wraps \in Nat /\ wrapsSeen \in Nat
          BY DEF SysTickState
        <4> QED
          BY <2>1, <4>1, <4>3, <4>4 DEF Advance
      <3> QED
        BY <3>2, <3>3
    <2>2. ASSUME NEW e \in BOOLEAN, NEW t \in BOOLEAN, WriteCtrl(e, t)
          PROVE  CountFlagMeansWrapped' /\ (wrapsSeen <= st.wraps)'
      BY <2>2 DEF WriteCtrl, SysTickState
    <2>3. CASE ReadCtrl
      BY <2>3 DEF ReadCtrl, SysTickState
    <2>4. ASSUME NEW v \in 0 .. RegMod, WriteLoad(v)
          PROVE  CountFlagMeansWrapped' /\ (wrapsSeen <= st.wraps)'
      BY <2>4 DEF WriteLoad, SysTickState
    <2>5. CASE WriteVal
      BY <2>5 DEF WriteVal, SysTickState
    <2>6. ASSUME NEW s \in BOOLEAN, NEW c \in BOOLEAN, WriteIcsr(s, c)
          PROVE  CountFlagMeansWrapped' /\ (wrapsSeen <= st.wraps)'
      BY <2>6 DEF WriteIcsr, SysTickState
    <2>7. CASE TakeException
      BY <2>7 DEF TakeException, SysTickState
    <2>8. CASE Reset
      BY <2>8 DEF Reset
    <2>9. CASE UNCHANGED vars
      BY <2>9 DEF vars
    <2> QED
      BY <2>1, <2>2, <2>3, <2>4, <2>5, <2>6, <2>7, <2>8, <2>9 DEF Next
  <1> QED
    BY <1>1, <1>2, TypeCorrect, PTL DEF Spec

(***************************************************************************)
(* Skipping cycles is stepping them, in every state the registers can      *)
(* reach: mm_scs_systick_advance over a sleep of any length leaves what    *)
(* that many single instructions would have left.                          *)
(***************************************************************************)
THEOREM FastForwardCorrect == Spec => []FastForwardIsStepping
  <1>1. TypeOK => FastForwardIsStepping
    <2>. SUFFICES ASSUME TypeOK, NEW n \in 0 .. MaxDelta
                  PROVE  SysTickAdvance(st, n) = Cycles(st, n)
      BY DEF FastForwardIsStepping
    <2>. QED
      BY CyclesAreAdvance, BoundsAssumption DEF TypeOK
  <1>. QED
    BY <1>1, TypeCorrect, PTL

(***************************************************************************)
(* In every reachable state the sleep loop's distance to the next tick is  *)
(* the number of single steps after which the reference counter wraps.     *)
(***************************************************************************)
THEOREM UntilFireCorrect == Spec => []UntilFireIsExact
  <1>1. TypeOK => UntilFireIsExact
    <2>. SUFFICES ASSUME TypeOK PROVE UntilFireIsExact
      OBVIOUS
    <2>. DEFINE d == CyclesUntilFire(st)
    <2>0. st \in SysTickState
      BY DEF TypeOK
    <2>1. CASE d = Never
      <3>1. ASSUME NEW n \in 0 .. MaxDelta
            PROVE  Cycles(st, n) = st
        <4>1. n \in Nat
          BY BoundsAssumption
        <4>2. SysTickAdvance(st, n) = st
          BY <2>0, <2>1, <4>1, UntilFireExact
        <4>. QED
          BY <2>0, <4>1, <4>2, CyclesAreAdvance
      <3>. QED
        BY <2>1, <3>1 DEF UntilFireIsExact
    <2>2. CASE d # Never
      <3>1. Counting(st) /\ d = CurrentCount(st)
        BY <2>2 DEF CyclesUntilFire
      <3>2. d \in Nat /\ d > 0 /\ d - 1 \in Nat /\ d - 1 \in 0 .. d - 1
        BY <2>0, <3>1, CurrentCountType, RegModAssumption
      <3>3. /\ SysTickAdvance(st, d).wraps = st.wraps + 1
            /\ SysTickAdvance(st, d - 1).wraps = st.wraps
        BY <2>0, <2>2, <3>2, UntilFireExact
      <3>4. /\ Cycles(st, d) = SysTickAdvance(st, d)
            /\ Cycles(st, d - 1) = SysTickAdvance(st, d - 1)
        BY <2>0, <3>2, CyclesAreAdvance
      <3>. HIDE DEF d
      <3>5. /\ d > 0
            /\ Cycles(st, d).wraps = st.wraps + 1
            /\ Cycles(st, d - 1).wraps = st.wraps
        BY <3>2, <3>3, <3>4
      <3>. QED
        BY <2>2, <3>5 DEF UntilFireIsExact, d
    <2>. QED
      BY <2>1, <2>2
  <1>. QED
    BY <1>1, TypeCorrect, PTL

(***************************************************************************)
(* No tick is lost: a step that wraps with TICKINT set leaves SysTick      *)
(* pending, one that wraps with TICKINT clear leaves the pending bit as it *)
(* was, and only exception entry, PENDSTCLR or a reset takes it away.      *)
(***************************************************************************)
THEOREM TickPendedCorrect == Spec => TickIsPended
  <1>. DEFINE Kept == /\ (st'.wraps > st.wraps /\ st.tickint) => st'.pend_st
                      /\ (st'.wraps > st.wraps /\ ~st.tickint) => st'.pend_st = st.pend_st
                      /\ (st.pend_st /\ ~st'.pend_st) =>
                             TakeException \/ Reset \/ (\E s \in BOOLEAN : WriteIcsr(s, TRUE))
  <1>1. TypeOK /\ [Next]_vars => [Kept]_vars
    <2>. SUFFICES ASSUME TypeOK, Next PROVE Kept
      OBVIOUS
    <2>0. st \in SysTickState /\ st.wraps \in Nat /\ st.pend_st \in BOOLEAN
      BY DEF TypeOK, SysTickState
    <2>a. ASSUME st'.wraps = st.wraps, st'.pend_st = st.pend_st PROVE Kept
      <3>1. ~(st'.wraps > st.wraps)
        BY <2>0, <2>a
      <3>. QED
        BY <2>a, <3>1, Zenon
    <2>1. ASSUME NEW n \in 1 .. MaxDelta, Advance(n) PROVE Kept
      <3>1. n \in Nat \ {0}
        BY BoundsAssumption
      <3>2. CASE ~Counting(st)
        <4>1. st' = st
          BY <2>1, <3>1, <3>2 DEF Advance, SysTickAdvance
        <4>. QED
          BY <2>a, <4>1
      <3>3. CASE Counting(st)
        <4>. DEFINE w == WrapsIn(st, n)
                    cf == st.countflag \/ w > 0
                    pf == st.pend_st \/ (w > 0 /\ st.tickint)
        <4>1. w \in Nat
          BY <2>0, <3>1, <3>3, AdvanceFields, Zenon
        <4>2. st' = [st EXCEPT !.val = CountAfter(st, n), !.wraps = st.wraps + w,
                               !.countflag = cf, !.pend_st = pf]
          BY <2>0, <2>1, <3>1, <3>3, AdvanceFields, Zenon DEF Advance
        <4>3. pf \in BOOLEAN
          BY Zenon
        <4>4. st'.wraps = st.wraps + w /\ st'.pend_st = pf
          <5>. HIDE DEF w, cf, pf
          <5>. QED
            BY <2>0, <4>2 DEF SysTickState
        <4>5. w > 0 <=> st'.wraps > st.wraps
          <5>. HIDE DEF w
          <5>. QED
            BY <2>0, <4>1, <4>4
        <4>. QED
          BY <2>0, <4>4, <4>5
      <3>. QED
        BY <3>2, <3>3
    <2>2. ASSUME NEW e \in BOOLEAN, NEW t \in BOOLEAN, WriteCtrl(e, t) PROVE Kept
      <3>1. st'.wraps = st.wraps /\ st'.pend_st = st.pend_st
        BY <2>0, <2>2 DEF WriteCtrl, SysTickState
      <3>. QED
        BY <2>a, <3>1
    <2>3. CASE ReadCtrl
      <3>1. st'.wraps = st.wraps /\ st'.pend_st = st.pend_st
        BY <2>0, <2>3 DEF ReadCtrl, SysTickState
      <3>. QED
        BY <2>a, <3>1
    <2>4. ASSUME NEW v \in 0 .. RegMod, WriteLoad(v) PROVE Kept
      <3>1. st'.wraps = st.wraps /\ st'.pend_st = st.pend_st
        BY <2>0, <2>4 DEF WriteLoad, SysTickState
      <3>. QED
        BY <2>a, <3>1
    <2>5. CASE WriteVal
      <3>1. st'.wraps = st.wraps /\ st'.pend_st = st.pend_st
        BY <2>0, <2>5 DEF WriteVal, SysTickState
      <3>. QED
        BY <2>a, <3>1
    <2>6. ASSUME NEW s \in BOOLEAN, NEW c \in BOOLEAN, WriteIcsr(s, c) PROVE Kept
      <3>1. st'.wraps = st.wraps /\ st'.pend_st = ((st.pend_st \/ s) /\ ~c)
        BY <2>0, <2>6 DEF WriteIcsr, SysTickState
      <3>2. ~(st'.wraps > st.wraps)
        BY <2>0, <3>1
      <3>3. (st.pend_st /\ ~st'.pend_st) => c = TRUE
        BY <2>0, <3>1
      <3>. QED
        BY <2>6, <3>2, <3>3
    <2>7. CASE TakeException
      <3>1. st'.wraps = st.wraps
        BY <2>0, <2>7 DEF TakeException, SysTickState
      <3>. QED
        BY <2>0, <2>7, <3>1
    <2>8. CASE Reset
      <3>1. st'.wraps = 0
        BY <2>8 DEF Reset
      <3>. QED
        BY <2>0, <2>8, <3>1
    <2>. QED
      BY <2>1, <2>2, <2>3, <2>4, <2>5, <2>6, <2>7, <2>8 DEF Next
  <1>. QED
    BY <1>1, TypeCorrect, PTL DEF Spec, TickIsPended
=============================================================================
