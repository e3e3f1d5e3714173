----------------------------- MODULE NvicProofs -----------------------------
(***************************************************************************)
(* What the loop of mm_nvic_select_routed returns, for any number of       *)
(* register words, bits per word and priorities, and what the Non-secure   *)
(* side can do to it.                                                      *)
(***************************************************************************)
EXTENDS Nvic, Induction

\* The interrupts that pass the tests of the loop.
Takeable(n, mask) == {i \in Irq : CanTake(n, mask, i)}

\* i goes before j: the lower priority value, the lower number among equals.
Before(n, i, j) == n.priority[i] < n.priority[j] \/ (n.priority[i] = n.priority[j] /\ i < j)

NvicTypeOK == nvic \in NvicState /\ primask \in [World -> BOOLEAN]

-----------------------------------------------------------------------------
(* The loop.                                                               *)

\* The numbers of a register word are interrupts.
LEMMA WordIsIrqs ==
    ASSUME NEW w \in 0 .. Words - 1
    PROVE  BitsOf(w) \subseteq Irq
  <1>1. Words \in Nat /\ WordBits \in Nat
    BY WordsAssumption
  <1>2. 0 <= w * WordBits /\ (w + 1) * WordBits <= Words * WordBits
    BY <1>1, TimesMonotone
  <1>. QED
    BY <1>1, <1>2 DEF BitsOf, Irq

\* mm_nvic_select_routed finds the takeable interrupt that goes before all the
\* others, and -1 when there is none.  The invariant of the loop says so of the
\* interrupts below k, with best_prio the priority of best_irq.
LEMMA SelectFindsBest ==
    ASSUME NEW n \in NvicState, NEW mask
    PROVE  IF Takeable(n, mask) = {}
           THEN Select(n, mask) = NoIrq
           ELSE /\ Select(n, mask) \in Takeable(n, mask)
                /\ \A j \in Takeable(n, mask) \ {Select(n, mask)} : Before(n, Select(n, mask), j)
  <1>. DEFINE N == Words * WordBits
              V == [irq : Irq \cup {NoIrq}, prio : Nat]
              Ok(k) == CanTake(n, mask, k - 1)
              Turn(k, b) == IF Ok(k) /\ (b.irq = NoIrq \/ n.priority[k - 1] < b.prio)
                            THEN [irq |-> k - 1, prio |-> n.priority[k - 1]]
                            ELSE b
              start == [irq |-> NoIrq, prio |-> 255]
              Step(f) == [k \in 0 .. N |-> IF k = 0 THEN start ELSE Turn(k, f[k - 1])]
              best == CHOOSE f : f = Step(f)
  <1>0. N \in Nat /\ Irq = 0 .. N - 1
    BY WordsAssumption DEF Irq
  <1>1. Select(n, mask) = best[N].irq
    BY DEF Select
  <1>2. \A i \in Irq : n.priority[i] \in Nat
    BY DEF NvicState
  <1>3. start \in V
    OBVIOUS
  <1>4. ASSUME NEW k \in 1 .. N, NEW b \in V
        PROVE  Turn(k, b) \in V
    <2>1. k - 1 \in Irq
      BY <1>0
    <2>2. n.priority[k - 1] \in Nat
      BY <1>2, <2>1
    <2>. QED
      BY <2>1, <2>2
  <1>5. \E f : f = Step(f)
    <2>. DEFINE step == [k \in 1 .. N |-> [b \in V |-> Turn(k, b)]]
    <2>. HIDE DEF N, V, start, Turn
    <2>1. step \in StepsOver(N, V)
      BY <1>4 DEF StepsOver
    <2>2. PICK f : Recurs(f, N, V, start, step)
      <3>1. N \in Nat
        BY <1>0
      <3>. HIDE DEF step
      <3>. QED
        BY <1>3, <2>1, <3>1, RecursiveFunction
    <2>a. f \in [0 .. N -> V] /\ f[0] = start /\ \A k \in 1 .. N : f[k] = step[k][f[k - 1]]
      BY <2>2 DEF Recurs
    <2>3. ASSUME NEW k \in 0 .. N
          PROVE  f[k] = IF k = 0 THEN start ELSE Turn(k, f[k - 1])
      <3>1. CASE k = 0
        BY <2>a, <3>1
      <3>2. CASE k # 0
        <4>1. k \in 1 .. N /\ k - 1 \in 0 .. N
          BY <1>0, <3>2
        <4>2. f[k - 1] \in V
          BY <2>a, <4>1
        <4>3. f[k] = step[k][f[k - 1]]
          BY <2>a, <4>1
        <4>. QED
          BY <3>2, <4>1, <4>2, <4>3
      <3>. QED
        BY <3>1, <3>2
    <2>4. f = Step(f)
      BY <2>a, <2>3
    <2>. QED
      BY <2>4
  <1>6. best = Step(best)
    <2>. HIDE DEF Step
    <2>. QED
      BY <1>5
  <1>. DEFINE T(k) == {i \in 0 .. k - 1 : CanTake(n, mask, i)}
              Good(k) == /\ best[k] \in V
                         /\ IF T(k) = {} THEN best[k].irq = NoIrq
                            ELSE /\ best[k].irq \in T(k)
                                 /\ best[k].prio = n.priority[best[k].irq]
                                 /\ \A j \in T(k) \ {best[k].irq} : Before(n, best[k].irq, j)
              S == {k \in 0 .. N : Good(k)}
  <1>. HIDE DEF best, N
  <1>7. 0 \in S
    <2>1. best[0] = start /\ T(0) = {} /\ 0 \in 0 .. N
      BY <1>0, <1>6
    <2>. QED
      BY <1>3, <2>1
  <1>8. ASSUME NEW k \in 0 .. N - 1, k \in S
        PROVE  k + 1 \in S
    <2>. DEFINE b == best[k]
                c == best[k + 1]
                pk == n.priority[k]
    <2>0. k \in 0 .. N /\ k + 1 \in 0 .. N /\ k + 1 # 0 /\ (k + 1) - 1 = k /\ k \in Irq /\ k # NoIrq
      BY <1>0 DEF NoIrq
    <2>1. Good(k)
      BY <1>8
    <2>2. c = Turn(k + 1, b)
      <3>. HIDE DEF Turn
      <3>. QED
        BY <1>6, <2>0
    <2>3. c = IF CanTake(n, mask, k) /\ (b.irq = NoIrq \/ pk < b.prio)
              THEN [irq |-> k, prio |-> pk] ELSE b
      BY <2>0, <2>2
    <2>4. pk \in Nat /\ k + 1 \in 1 .. N
      BY <1>2, <2>0
    <2>5. c \in V
      <3>1. b \in V
        BY <2>1
      <3>. HIDE DEF Turn, V, c, b
      <3>. QED
        BY <1>4, <2>2, <2>4, <3>1
    <2>6. T(k + 1) = IF CanTake(n, mask, k) THEN T(k) \cup {k} ELSE T(k)
      <3>1. 0 .. (k + 1) - 1 = (0 .. k - 1) \cup {k}
        BY <2>0
      <3>. QED
        BY <3>1
    <2>7. ~(k \in T(k)) /\ T(k) \subseteq Irq /\ (\A i \in T(k) : i < k /\ n.priority[i] \in Nat)
      BY <1>0, <1>2, <2>0
    <2>8. NoIrq \notin T(k)
      BY DEF NoIrq
    <2>9. b.irq = NoIrq <=> T(k) = {}
      BY <2>1, <2>8
    <2>. DEFINE Tk == T(k)
                Tk1 == T(k + 1)
    <2>10. IF Tk1 = {} THEN c.irq = NoIrq
           ELSE /\ c.irq \in Tk1
                /\ c.prio = n.priority[c.irq]
                /\ \A j \in Tk1 \ {c.irq} : Before(n, c.irq, j)
      <3>. HIDE DEF Tk, Tk1, b, c, pk, V
      <3>a. /\ IF Tk = {} THEN b.irq = NoIrq
               ELSE /\ b.irq \in Tk
                    /\ b.prio = n.priority[b.irq]
                    /\ \A j \in Tk \ {b.irq} : Before(n, b.irq, j)
            /\ \A i \in Tk : i < k /\ n.priority[i] \in Nat
            /\ Tk1 = IF CanTake(n, mask, k) THEN Tk \cup {k} ELSE Tk
            /\ ~(k \in Tk)
        BY <2>1, <2>6, <2>7 DEF Tk, Tk1, b
      <3>1. CASE ~CanTake(n, mask, k)
        <4>1. c = b /\ Tk1 = Tk
          BY <2>3, <3>1, <3>a
        <4>. QED
          BY <3>a, <4>1
      <3>2. CASE CanTake(n, mask, k) /\ Tk = {}
        <4>1. c = [irq |-> k, prio |-> pk] /\ Tk1 = {k}
          BY <2>3, <2>9, <3>2, <3>a DEF Tk
        <4>. QED
          BY <4>1 DEF pk
      <3>3. CASE CanTake(n, mask, k) /\ Tk # {} /\ pk < b.prio
        <4>1. c = [irq |-> k, prio |-> pk] /\ Tk1 = Tk \cup {k}
          BY <2>3, <3>3, <3>a
        <4>2. ASSUME NEW j \in Tk
              PROVE  pk < n.priority[j]
          <5>1. b.prio <= n.priority[j]
            <6>1. CASE j = b.irq
              BY <3>3, <3>a, <6>1
            <6>2. CASE j # b.irq
              BY <3>3, <3>a, <6>2 DEF Before
            <6>. QED
              BY <6>1, <6>2
          <5>. QED
            BY <2>4, <3>3, <3>a, <5>1
        <4>. QED
          BY <4>1, <4>2 DEF Before, pk
      <3>4. CASE CanTake(n, mask, k) /\ Tk # {} /\ ~(pk < b.prio)
        <4>1. c = b /\ Tk1 = Tk \cup {k}
          BY <2>3, <2>9, <3>4, <3>a DEF Tk
        <4>2. Before(n, b.irq, k)
          <5>1. b.irq \in Tk /\ b.prio = n.priority[b.irq] /\ b.prio \in Nat /\ b.irq < k
            BY <3>4, <3>a
          <5>. QED
            BY <2>4, <3>4, <5>1 DEF Before, pk
        <4>. QED
          BY <3>a, <3>4, <4>1, <4>2
      <3>. QED
        BY <3>1, <3>2, <3>3, <3>4
    <2>11. Good(k + 1)
      <3>. HIDE DEF V
      <3>. QED
        BY <2>5, <2>10
    <2>. HIDE DEF Good
    <2>. QED
      BY <2>0, <2>11
  <1>9. N \in S
    <2>1. N \in 0 .. N
      BY <1>0
    <2>. HIDE DEF S
    <2>. QED
      BY <1>0, <1>7, <1>8, <2>1, SegmentInduction
  <1>10. T(N) = Takeable(n, mask)
    BY <1>0 DEF Takeable
  <1>11. Good(N)
    BY <1>9
  <1>. HIDE DEF T, V
  <1>. QED
    BY <1>1, <1>10, <1>11

\* The selection depends on nothing but which interrupts can be taken and their
\* priorities.
LEMMA SelectDetermined ==
    ASSUME NEW n \in NvicState, NEW m \in NvicState, NEW mask,
           n.priority = m.priority,
           \A i \in Irq : CanTake(n, mask, i) <=> CanTake(m, mask, i)
    PROVE  Select(n, mask) = Select(m, mask)
  <1>. DEFINE T == Takeable(n, mask)
              a == Select(n, mask)
              b == Select(m, mask)
  <1>1. Takeable(m, mask) = T
    BY DEF Takeable
  <1>2. CASE T = {}
    BY <1>1, <1>2, SelectFindsBest
  <1>3. CASE T # {}
    <2>1. /\ a \in T /\ \A j \in T \ {a} : Before(n, a, j)
          /\ b \in T /\ \A j \in T \ {b} : Before(n, b, j)
      <3>1. \A i, j : Before(m, i, j) <=> Before(n, i, j)
        BY DEF Before
      <3>2. IF T = {} THEN a = NoIrq ELSE a \in T /\ \A j \in T \ {a} : Before(n, a, j)
        BY SelectFindsBest
      <3>3. IF T = {} THEN b = NoIrq ELSE b \in T /\ \A j \in T \ {b} : Before(m, b, j)
        <4>. HIDE DEF T
        <4>. QED
          BY <1>1, SelectFindsBest
      <3>. HIDE DEF T, a, b
      <3>. QED
        BY <1>3, <3>1, <3>2, <3>3
    <2>. SUFFICES ASSUME a # b PROVE FALSE
      OBVIOUS
    <2>2. Before(n, a, b) /\ Before(n, b, a)
      BY <2>1
    <2>3. a \in Irq /\ b \in Irq
      BY <2>1 DEF Takeable
    <2>4. a \in Int /\ b \in Int /\ n.priority[a] \in Nat /\ n.priority[b] \in Nat
      <3>. HIDE DEF a, b
      <3>. QED
        BY <2>3, WordsAssumption DEF Irq, NvicState
    <2>. HIDE DEF a, b
    <2>. QED
      BY <2>2, <2>4 DEF Before
  <1>. QED
    BY <1>2, <1>3

-----------------------------------------------------------------------------
(* The registers.                                                          *)

\* The registers hold interrupt numbers and every interrupt has a priority.
LEMMA NvicTypeCorrect == NvicSpec => []NvicTypeOK
  <1>1. NvicInit => NvicTypeOK
    BY DEF NvicInit, InitialNvic, NvicTypeOK, NvicState, World
  <1>2. NvicTypeOK /\ [NvicNext]_nvicvars => NvicTypeOK'
    <2>. SUFFICES ASSUME NvicTypeOK, [NvicNext]_nvicvars PROVE NvicTypeOK'
      OBVIOUS
    <2>. USE DEF NvicTypeOK
    <2>1. ASSUME NEW s \in World, NEW w \in 0 .. Words - 1, NEW v \in SUBSET BitsOf(w),
                 WriteISER(s, v) \/ WriteICER(s, v) \/ WriteISPR(s, v) \/ WriteICPR(s, v)
                   \/ WriteITNS(s, w, v)
          PROVE  NvicTypeOK'
      <3>1. v \subseteq Irq /\ Owned(s, v) \subseteq Irq
        BY WordIsIrqs DEF Owned
      <3>2. CASE WriteISER(s, v)
        BY <3>1, <3>2 DEF WriteISER, NvicState
      <3>3. CASE WriteICER(s, v)
        BY <3>1, <3>3 DEF WriteICER, NvicState
      <3>4. CASE WriteISPR(s, v)
        BY <3>1, <3>4 DEF WriteISPR, NvicState
      <3>5. CASE WriteICPR(s, v)
        BY <3>1, <3>5 DEF WriteICPR, NvicState
      <3>6. CASE WriteITNS(s, w, v)
        BY <3>1, <3>6 DEF WriteITNS, NvicState
      <3>. QED
        BY <2>1, <3>2, <3>3, <3>4, <3>5, <3>6
    <2>2. ASSUME NEW is, NEW p \in [is -> Prio], WriteIPR(is, p)
          PROVE  NvicTypeOK'
      <3>0. nvic.priority \in [Irq -> Nat] /\ Prio \subseteq Nat
        BY PrioAssumption DEF NvicState
      <3>1. [i \in Irq |-> IF i \in is THEN p[i] ELSE nvic.priority[i]] \in [Irq -> Nat]
        BY <3>0
      <3>. DEFINE q == [i \in Irq |-> IF i \in is THEN p[i] ELSE nvic.priority[i]]
      <3>2. nvic' = [nvic EXCEPT !.priority = q] /\ UNCHANGED primask
        BY <2>2 DEF WriteIPR
      <3>. HIDE DEF q
      <3>. QED
        BY <3>1, <3>2 DEF NvicState, q
    <2>3. ASSUME NEW i \in Irq, DevicePends(i) PROVE NvicTypeOK'
      BY <2>3 DEF DevicePends, NvicState
    <2>4. ASSUME NEW s \in World, NEW v \in BOOLEAN, WritePrimask(s, v) PROVE NvicTypeOK'
      BY <2>4 DEF WritePrimask
    <2>5. ASSUME NEW i \in Irq, AcceptInterrupt(i) PROVE NvicTypeOK'
      BY <2>5 DEF AcceptInterrupt, NvicState
    <2>6. CASE UNCHANGED nvicvars
      BY <2>6 DEF nvicvars
    <2>7. CASE NonSecureWrite
      BY <2>1, <2>7 DEF NonSecureWrite, World
    <2>8. CASE SecureWrite
      BY <2>1, <2>8 DEF SecureWrite, World
    <2>9. CASE \E i \in Irq, q \in Prio : WriteIPR({i}, [j \in {i} |-> q])
      <3>1. PICK i \in Irq, q \in Prio : WriteIPR({i}, [j \in {i} |-> q])
        BY <2>9
      <3>2. [j \in {i} |-> q] \in [{i} -> Prio]
        OBVIOUS
      <3>. QED
        BY <2>2, <3>1, <3>2
    <2>10. CASE \E g \in 0 .. (Words * WordBits) \div 4 :
                   LET is == {i \in Irq : i \div 4 = g} IN \E p \in [is -> Prio] : WriteIPR(is, p)
      BY <2>2, <2>10
    <2>. QED
      BY <2>3, <2>4, <2>5, <2>6, <2>7, <2>8, <2>9, <2>10 DEF NvicNext
  <1>. QED
    BY <1>1, <1>2, PTL DEF NvicSpec

(***************************************************************************)
(* mm_nvic_select_routed selects the highest priority interrupt that the   *)
(* PRIMASK of its target lets through, in every reachable state, for every *)
(* number of interrupts: a pending interrupt that may be taken is never    *)
(* passed over, not even with the priority 0xff the registers reset to.    *)
(***************************************************************************)
THEOREM SelectionCorrect == NvicSpec => []SelectsHighestPriority
  <1>1. NvicTypeOK => SelectsHighestPriority
    <2>. SUFFICES ASSUME NvicTypeOK PROVE SelectsHighestPriority
      OBVIOUS
    <2>. DEFINE takeable == {i \in nvic.enable \cap nvic.pending :
                                IF i \in nvic.itns THEN ~primask["NS"] ELSE ~primask["S"]}
                i == Select(nvic, primask)
    <2>1. nvic \in NvicState /\ nvic.enable \subseteq Irq
      BY DEF NvicTypeOK, NvicState
    <2>2. takeable = Takeable(nvic, primask)
      BY <2>1 DEF Takeable, CanTake, TargetSec
    <2>. HIDE DEF takeable, i
    <2>3. IF takeable = {} THEN i = NoIrq
          ELSE i \in takeable /\ \A j \in takeable \ {i} : Before(nvic, i, j)
      BY <2>1, <2>2, SelectFindsBest DEF i
    <2>. QED
      BY <2>3 DEF takeable, i, Before, SelectsHighestPriority
  <1>. QED
    BY <1>1, NvicTypeCorrect, PTL

(***************************************************************************)
(* No write of the Non-secure side to ISER, ICER, ISPR, ICPR or ITNS       *)
(* changes which Secure interrupt is selected: the ITNS mask in scs_write  *)
(* keeps it out of every bit the selection of a Secure interrupt reads.    *)
(***************************************************************************)
THEOREM SecureSelectionCorrect == NvicSpec => SecureSelectionIsOwn
  <1>. DEFINE Secure(n) == [n EXCEPT !.pending = @ \ n.itns]
              Own == NonSecureWrite =>
                        Select(Secure(nvic'), primask) = Select(Secure(nvic), primask)
  <1>1. NvicTypeOK /\ NvicTypeOK' /\ [NvicNext]_nvicvars => [Own]_nvicvars
    <2>. SUFFICES ASSUME NvicTypeOK, NvicTypeOK', NonSecureWrite
                  PROVE  Select(Secure(nvic'), primask) = Select(Secure(nvic), primask)
      OBVIOUS
    <2>1. nvic \in NvicState /\ nvic' \in NvicState
      BY DEF NvicTypeOK
    <2>2. PICK w \in 0 .. Words - 1 : \E v \in SUBSET BitsOf(w) :
             WriteISER("NS", v) \/ WriteICER("NS", v) \/ WriteISPR("NS", v)
               \/ WriteICPR("NS", v) \/ WriteITNS("NS", w, v)
      BY DEF NonSecureWrite
    <2>a. PICK v \in SUBSET BitsOf(w) :
             WriteISER("NS", v) \/ WriteICER("NS", v) \/ WriteISPR("NS", v)
               \/ WriteICPR("NS", v) \/ WriteITNS("NS", w, v)
      BY <2>2
    <2>3. /\ nvic'.itns = nvic.itns /\ nvic'.priority = nvic.priority
          /\ nvic'.enable \ nvic.itns = nvic.enable \ nvic.itns
          /\ nvic'.pending \ nvic.itns = nvic.pending \ nvic.itns
      <3>1. CASE WriteISER("NS", v)
        BY <2>1, <3>1 DEF WriteISER, Owned, NvicState
      <3>2. CASE WriteICER("NS", v)
        BY <2>1, <3>2 DEF WriteICER, Owned, NvicState
      <3>3. CASE WriteISPR("NS", v)
        BY <2>1, <3>3 DEF WriteISPR, Owned, NvicState
      <3>4. CASE WriteICPR("NS", v)
        BY <2>1, <3>4 DEF WriteICPR, Owned, NvicState
      <3>5. CASE WriteITNS("NS", w, v)
        BY <2>1, <3>5 DEF WriteITNS
      <3>. QED
        BY <2>a, <3>1, <3>2, <3>3, <3>4, <3>5
    <2>4. ASSUME NEW n \in NvicState
          PROVE  /\ Secure(n) \in NvicState
                 /\ Secure(n).priority = n.priority /\ Secure(n).itns = n.itns
                 /\ Secure(n).enable = n.enable /\ Secure(n).pending = n.pending \ n.itns
      BY DEF NvicState
    <2>. DEFINE a == Secure(nvic')
                b == Secure(nvic)
    <2>5. /\ a \in NvicState /\ a.priority = nvic'.priority /\ a.itns = nvic'.itns
          /\ a.enable = nvic'.enable /\ a.pending = nvic'.pending \ nvic'.itns
          /\ b \in NvicState /\ b.priority = nvic.priority /\ b.itns = nvic.itns
          /\ b.enable = nvic.enable /\ b.pending = nvic.pending \ nvic.itns
      BY <2>1, <2>4
    <2>. HIDE DEF a, b
    <2>6. \A i \in Irq : CanTake(a, primask, i) <=> CanTake(b, primask, i)
      BY <2>3, <2>5 DEF CanTake, TargetSec
    <2>7. Select(a, primask) = Select(b, primask)
      BY <2>3, <2>5, <2>6, SelectDetermined
    <2>. QED
      BY <2>7 DEF a, b
  <1>. QED
    BY <1>1, NvicTypeCorrect, PTL DEF NvicSpec, SecureSelectionIsOwn
=============================================================================
