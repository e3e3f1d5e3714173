-------------------------- MODULE ExceptionsProofs --------------------------
(***************************************************************************)
(* Proofs about Exceptions.tla, for any number of program points, any      *)
(* stack size and any nesting depth up to MM_EXC_STACK_MAX.                *)
(***************************************************************************)
EXTENDS Exceptions, SequenceTheorems, TLAPS

-----------------------------------------------------------------------------
(* Sequences.                                                              *)

\* What Append does to a sequence.
LEMMA AppendFacts ==
    ASSUME NEW S, NEW s \in Seq(S), NEW e \in S
    PROVE  /\ Append(s, e) \in Seq(S)
           /\ Len(Append(s, e)) = Len(s) + 1
           /\ Append(s, e)[Len(s) + 1] = e
           /\ \A i \in 1 .. Len(s) : Append(s, e)[i] = s[i]
           /\ Append(s, e) # << >>
           /\ Last(Append(s, e)) = e
  BY DEF Last

\* What Front and Last are of a sequence that is not empty.
LEMMA FrontFacts ==
    ASSUME NEW S, NEW s \in Seq(S), s # << >>
    PROVE  /\ Len(s) \in Nat /\ Len(s) > 0
           /\ Front(s) \in Seq(S)
           /\ Len(Front(s)) = Len(s) - 1
           /\ \A i \in 1 .. Len(s) - 1 : Front(s)[i] = s[i]
           /\ Last(s) \in S
<1>1. Len(s) \in Nat /\ Len(s) > 0 OBVIOUS
<1>2. Last(s) \in S BY <1>1 DEF Last
<1>3. Front(s) = [i \in 1 .. Len(s) - 1 |-> s[i]] BY <1>1 DEF Front
<1>4. Len(Front(s)) = Len(s) - 1
  <2> DEFINE n == Len(s)
             t == Front(s)
  <2>1. \A i \in 1 .. n - 1 : s[i] \in S BY <1>1
  <2>2. Len(t) = IF 1 <= n - 1 THEN n - 1 - 1 + 1 ELSE 0
    BY <1>1, <2>1, SubSeqProperties DEF Front
  <2>3. n \in Nat /\ n > 0 BY <1>1
  <2> HIDE DEF n, t
  <2>4. Len(t) = n - 1 BY <2>2, <2>3
  <2> QED BY <2>4 DEF n, t
<1>5. Front(s) \in Seq(S) BY <1>1 DEF Front
<1> QED BY <1>1, <1>2, <1>3, <1>4, <1>5

-----------------------------------------------------------------------------
(* EXC_RETURN values.                                                      *)

Stack == {"MSP", "PSP"}

\* A stack pointer register of either security state.
LEMMA RegType ==
    ASSUME NEW s \in Sec, NEW stack \in Stack
    PROVE  Reg(s, stack) \in StackReg
  BY DEF Reg, Sec, Stack, StackReg

\* mm_exc_return_decode undoes exc_return_encode, for every context that an
\* exception can suspend (a handler is always suspended on MSP).
LEMMA DecodeEncode ==
    ASSUME NEW s \in Sec, NEW stack \in Stack, NEW m \in Mode,
           stack = "PSP" => m = "Thread"
    PROVE  /\ Encode(s, stack, m) \in ExcReturn
           /\ Decode(Encode(s, stack, m)) = [stack |-> stack, mode |-> m, sec |-> s]
<1>1. s \in {"S", "NS"} /\ stack \in {"MSP", "PSP"} /\ m \in {"Thread", "Handler"}
  BY DEF Sec, Stack, Mode
<1>2. CASE s = "S" /\ m = "Thread" /\ stack = "PSP"
  BY <1>2 DEF Encode, Decode, ExcReturn, Bit
<1>3. CASE s = "S" /\ m = "Thread" /\ stack = "MSP"
  BY <1>3 DEF Encode, Decode, ExcReturn, Bit
<1>4. CASE s = "S" /\ m = "Handler"
  BY <1>1, <1>4 DEF Encode, Decode, ExcReturn, Bit
<1>5. CASE s = "NS" /\ m = "Thread" /\ stack = "PSP"
  BY <1>5 DEF Encode, Decode, ExcReturn, Bit
<1>6. CASE s = "NS" /\ m = "Thread" /\ stack = "MSP"
  BY <1>6 DEF Encode, Decode, ExcReturn, Bit
<1>7. CASE s = "NS" /\ m = "Handler"
  BY <1>1, <1>7 DEF Encode, Decode, ExcReturn, Bit
<1> QED BY <1>1, <1>2, <1>3, <1>4, <1>5, <1>6, <1>7

\* The fields of any EXC_RETURN value.
LEMMA DecodeType ==
    ASSUME NEW v
    PROVE  Decode(v) \in [stack : Stack, mode : Mode, sec : Sec]
  BY DEF Decode, Stack, Mode, Sec

-----------------------------------------------------------------------------
(* Contexts.                                                               *)

\* Stack pointers that stay in their stacks are levels.
LEMMA AddrLevel == \A q : q \in [StackReg -> Addr] => q \in [StackReg -> Level]
  BY LimitsAssumption DEF Addr, Level

\* One slot up and one down, or the other way round.
LEMMA UpDown ==
    ASSUME NEW x \in Level
    PROVE  /\ [[x EXCEPT !.n = @ + 1] EXCEPT !.n = @ - 1] = x
           /\ [[x EXCEPT !.n = @ - 1] EXCEPT !.n = @ + 1] = x
<1>1. x = [area |-> x.area, n |-> x.n] /\ x.n \in Int
  BY DEF Level
<1>2. ASSUME NEW a, NEW m \in Int
      PROVE  /\ [[area |-> a, n |-> m] EXCEPT !.n = @ + 1] = [area |-> a, n |-> m + 1]
             /\ [[area |-> a, n |-> m] EXCEPT !.n = @ - 1] = [area |-> a, n |-> m - 1]
  OBVIOUS
<1>3. [x EXCEPT !.n = @ + 1] = [area |-> x.area, n |-> x.n + 1]
  BY <1>1, <1>2
<1>4. [x EXCEPT !.n = @ - 1] = [area |-> x.area, n |-> x.n - 1]
  BY <1>1, <1>2
<1>5. [[area |-> x.area, n |-> x.n + 1] EXCEPT !.n = @ - 1] = [area |-> x.area, n |-> x.n + 1 - 1]
  BY <1>1, <1>2
<1>6. [[area |-> x.area, n |-> x.n - 1] EXCEPT !.n = @ + 1] = [area |-> x.area, n |-> x.n - 1 + 1]
  BY <1>1, <1>2
<1>7. x.n + 1 - 1 = x.n /\ x.n - 1 + 1 = x.n
  BY <1>1
<1> QED BY <1>1, <1>3, <1>4, <1>5, <1>6, <1>7, Zenon

\* The registers make a context.
LEMMA SuspendType ==
    ASSUME TypeOK, NEW p \in CodeAddr
    PROVE  Suspend(p) \in Context
<1>1. sp \in [StackReg -> Level]
  BY AddrLevel DEF TypeOK
<1> QED BY <1>1 DEF TypeOK, Suspend, Context

\* The register that a context is stacked with, and the EXC_RETURN value of it.
LEMMA EntryType ==
    ASSUME NEW c \in Context
    PROVE  /\ EntryStack(c) \in Stack
           /\ EntryReg(c) \in StackReg
           /\ c.sp[EntryReg(c)] \in Level
           /\ FrameOf(c) \in Slot
           /\ ExcReturnOf(c) \in ExcReturn
           /\ Decode(ExcReturnOf(c)) = [stack |-> EntryStack(c), mode |-> c.mode, sec |-> c.sec]
<1>1. c.sec \in Sec /\ c.mode \in Mode /\ c.sp \in [StackReg -> Level]
  BY DEF Context
<1>2. EntryStack(c) \in Stack /\ (EntryStack(c) = "PSP" => c.mode = "Thread")
  BY DEF EntryStack, StackOf, Stack
<1>3. EntryReg(c) \in StackReg
  BY <1>1, <1>2, RegType DEF EntryReg
<1>4. FrameOf(c) \in Slot
  BY DEF FrameOf, Slot, Context
<1> QED BY <1>1, <1>2, <1>3, <1>4, DecodeEncode DEF ExcReturnOf

\* The stack pointers after stacking.
LEMMA StackedFacts ==
    ASSUME NEW c \in Context
    PROVE  /\ DOMAIN Stacked(c) = StackReg
           /\ Stacked(c)[EntryReg(c)].area = c.sp[EntryReg(c)].area
           /\ Stacked(c)[EntryReg(c)].n = c.sp[EntryReg(c)].n + 1
           /\ \A r \in StackReg : r # EntryReg(c) => Stacked(c)[r] = c.sp[r]
           /\ c.sp \in [StackReg -> Addr] /\ CanWrite(c.sp[EntryReg(c)])
                => Stacked(c) \in [StackReg -> Addr]
<1>1. EntryReg(c) \in StackReg /\ c.sp \in [StackReg -> Level] /\ c.sp[EntryReg(c)] \in Level
  BY EntryType DEF Context
<1>2. /\ DOMAIN Stacked(c) = StackReg
      /\ Stacked(c)[EntryReg(c)].area = c.sp[EntryReg(c)].area
      /\ Stacked(c)[EntryReg(c)].n = c.sp[EntryReg(c)].n + 1
      /\ \A r \in StackReg : r # EntryReg(c) => Stacked(c)[r] = c.sp[r]
  BY <1>1 DEF Stacked, Level
<1>3. ASSUME c.sp \in [StackReg -> Addr], CanWrite(c.sp[EntryReg(c)])
      PROVE  Stacked(c) \in [StackReg -> Addr]
  BY <1>1, <1>3, LimitsAssumption DEF Stacked, Addr, CanWrite
<1> QED BY <1>2, <1>3

-----------------------------------------------------------------------------
(* Type correctness.                                                       *)

\* A step that ends the run changes nothing else.
LEMMA HaltType == ASSUME TypeOK, Halt PROVE TypeOK'
  BY DEF TypeOK, Halt, regs

\* Exception entry keeps the types.
LEMMA EnterType ==
    ASSUME TypeOK, NEW e \in Exc, NEW hs \in Sec, NEW ret \in CodeAddr,
           NEW quit \in BOOLEAN, EnterException(e, hs, ret, quit)
    PROVE  TypeOK'
<1> DEFINE c == Suspend(ret)
           r == EntryReg(c)
<1>1. CASE ~CanWrite(sp[r]) /\ Halt
  BY <1>1, HaltType
<1>2. CASE CanWrite(sp[r]) /\ ~(~CanWrite(sp[r]) /\ Halt)
  <2>1. c \in Context /\ c.sp = sp
    BY SuspendType DEF Suspend
  <2>2. r \in StackReg /\ sp[r] \in Addr /\ FrameOf(c) \in Slot /\ ExcReturnOf(c) \in ExcReturn
    BY <2>1, EntryType DEF TypeOK
  <2>3. Stacked(c) \in [StackReg -> Addr]
    BY <1>2, <2>1, StackedFacts DEF TypeOK
  <2> HIDE DEF c, r
  <2>4. /\ mem' = [mem EXCEPT ![sp[r].area][sp[r].n + 1] = FrameOf(c)]
        /\ sp' = Stacked(c)
        /\ exc' = IF Len(exc) < ExcStackMax
                  THEN Append(exc, [sp |-> sp'[r], sec |-> sec])
                  ELSE exc
        /\ lr' = ExcReturnOf(c)
        /\ mode' = "Handler" /\ sec' = hs /\ ipsr' = e /\ pc' = VectorPc
        /\ ctx' = Append(ctx, c)
        /\ done' = quit
        /\ UNCHANGED <<spsel, tz, calls>>
    BY <1>2 DEF EnterException, c, r
  <2>5. mem' \in [StackReg -> [1 .. Cap -> Slot]]
    BY <1>2, <2>2, <2>4, LimitsAssumption DEF TypeOK, CanWrite, Addr
  <2>6. [sp |-> sp'[r], sec |-> sec] \in ExcRecord
    BY <2>2, <2>3, <2>4 DEF TypeOK, ExcRecord
  <2>7. exc' \in Seq(ExcRecord)
    BY <2>4, <2>6, AppendFacts DEF TypeOK
  <2>8. ctx' \in Seq(Context)
    BY <2>1, <2>4, AppendFacts DEF TypeOK
  <2>9. lr' \in Lr /\ mode' \in Mode /\ sec' \in Sec /\ ipsr' \in IPSR /\ pc' \in CodeAddr
    BY <2>2, <2>4, PcAssumption DEF Lr, Mode, IPSR, CodeAddr
  <2> QED BY <2>3, <2>4, <2>5, <2>7, <2>8, <2>9 DEF TypeOK
<1> QED BY <1>1, <1>2 DEF EnterException

\* What a context keeps of the one it was when a slot stays in use above it: all
\* but the level of stack pointer r, and that too if it was stacked with r.
Alike(d, c, r) ==
    /\ d \in Context
    /\ d.pc = c.pc /\ d.lr = c.lr /\ d.ipsr = c.ipsr /\ d.mode = c.mode /\ d.sec = c.sec
    /\ d.spsel = c.spsel
    /\ \A q \in StackReg : d.sp[q].area = c.sp[q].area /\ (q # r => d.sp[q] = c.sp[q])
    /\ \/ d.sp[r] = c.sp[r]
       \/ EntryReg(c) # r /\ d.sp[r].n = c.sp[r].n + 1

\* What WithLeft does to the contexts.
LEMMA LeftFacts ==
    ASSUME NEW s \in Seq(Context), NEW r \in StackReg
    PROVE  /\ WithLeft(s, r) \in Seq(Context)
           /\ Len(WithLeft(s, r)) = Len(s)
           /\ \A i \in 1 .. Len(s) : Alike(WithLeft(s, r)[i], s[i], r)
           /\ \A i, j \in 1 .. Len(s) :
                 i < j => \/ WithLeft(s, r)[i].sp[r] = s[i].sp[r]
                          \/ WithLeft(s, r)[j].sp[r].n = s[j].sp[r].n + 1
<1> DEFINE w == WithLeft(s, r)
           Below(i) == \E j \in i .. Len(s) : EntryReg(s[j]) = r
<1>1. Len(s) \in Nat /\ \A i \in 1 .. Len(s) : s[i] \in Context
  OBVIOUS
<1>2. w = [i \in 1 .. Len(s) |-> IF Below(i) THEN s[i] ELSE [s[i] EXCEPT !.sp[r].n = @ + 1]]
  BY DEF WithLeft
<1>3. ASSUME NEW i \in 1 .. Len(s)
      PROVE  /\ Alike(w[i], s[i], r)
             /\ Below(i) => w[i] = s[i]
             /\ ~Below(i) => w[i].sp[r].n = s[i].sp[r].n + 1
  <2>1. s[i] \in Context /\ s[i].sp \in [StackReg -> Level]
    BY <1>1 DEF Context
  <2>2. CASE Below(i)
    <3>1. w[i] = s[i]
      BY <1>2, <2>2
    <3> QED BY <2>1, <2>2, <3>1 DEF Alike
  <2>3. CASE ~Below(i)
    <3> DEFINE d == [s[i] EXCEPT !.sp[r].n = @ + 1]
    <3>1. w[i] = d
      BY <1>2, <2>3
    <3>2. EntryReg(s[i]) # r
      <4>1. i \in i .. Len(s)
        BY <1>1
      <4> QED BY <2>3, <4>1
    <3>3. d.sp = [s[i].sp EXCEPT ![r].n = @ + 1]
      BY <2>1 DEF Context
    <3>4. d.sp \in [StackReg -> Level] /\ d.sp[r].n = s[i].sp[r].n + 1
          /\ \A q \in StackReg : d.sp[q].area = s[i].sp[q].area /\ (q # r => d.sp[q] = s[i].sp[q])
      BY <2>1, <3>3 DEF Level
    <3>5. /\ d.pc = s[i].pc /\ d.lr = s[i].lr /\ d.ipsr = s[i].ipsr /\ d.mode = s[i].mode
          /\ d.sec = s[i].sec /\ d.spsel = s[i].spsel
      BY <2>1 DEF Context
    <3>6. d \in Context
      BY <2>1, <3>4 DEF Context
    <3> HIDE DEF d, w, Below
    <3> QED BY <2>3, <3>1, <3>2, <3>4, <3>5, <3>6 DEF Alike
  <2> QED BY <2>2, <2>3
<1>4. Len(w) = Len(s) /\ w \in Seq(Context)
  <2>1. \A i \in 1 .. Len(s) : w[i] \in Context
    BY <1>3 DEF Alike
  <2>2. DOMAIN w = 1 .. Len(s) /\ w = [i \in 1 .. Len(s) |-> w[i]]
    BY <1>2
  <2> HIDE DEF w
  <2> QED BY <1>1, <2>1, <2>2
<1>5. ASSUME NEW i \in 1 .. Len(s), NEW j \in 1 .. Len(s), i < j, ~Below(i)
      PROVE  ~Below(j)
  BY <1>1, <1>5
<1>6. ASSUME NEW i \in 1 .. Len(s), NEW j \in 1 .. Len(s), i < j
      PROVE  w[i].sp[r] = s[i].sp[r] \/ w[j].sp[r].n = s[j].sp[r].n + 1
  <2> HIDE DEF w, Below
  <2> QED BY <1>3, <1>5, <1>6
<1> QED BY <1>3, <1>4, <1>6

\* The active stack pointer.
LEMMA ActiveType ==
    ASSUME TypeOK
    PROVE  ActiveReg \in StackReg /\ sp[ActiveReg] \in Addr
<1>1. StackOf(mode, sec, spsel) \in Stack
  BY DEF StackOf, Stack
<1> QED BY <1>1, RegType DEF ActiveReg, TypeOK

\* Exception return keeps the types.
LEMMA UnstackType ==
    ASSUME TypeOK, ctx # << >>, NEW v, NEW rest \in Seq(Context), Unstack(v, rest)
    PROVE  TypeOK'
<1> DEFINE info == Decode(v)
           r    == Reg(info.sec, info.stack)
           from == IF exc # << >> /\ Last(exc).sec = info.sec THEN Last(exc).sp ELSE sp[r]
           slot == mem[from.area][from.n]
<1>1. info \in [stack : Stack, mode : Mode, sec : Sec] /\ r \in StackReg
  BY DecodeType, RegType
<1>2. exc # << >> => Last(exc) \in ExcRecord /\ Front(exc) \in Seq(ExcRecord)
  BY FrontFacts DEF TypeOK
<1>3. from \in Addr
  BY <1>1, <1>2 DEF ExcRecord, TypeOK
<1> HIDE DEF info, r, from
<1>5. /\ exc' = IF exc # << >> THEN Front(exc) ELSE exc
      /\ \/ ~CanRead(from) /\ done' = TRUE /\ UNCHANGED <<regs, ctx>>
         \/ /\ CanRead(from)
            /\ pc' = slot.pc /\ lr' = slot.lr
            /\ ipsr' = IF info.mode = "Thread" THEN "None" ELSE slot.ipsr
            /\ sp' = [sp EXCEPT ![r] = [from EXCEPT !.n = @ - 1]]
            /\ sec' = info.sec
            /\ mode' = info.mode
            /\ ctx' = rest
            /\ UNCHANGED <<spsel, done>>
      /\ UNCHANGED <<mem, tz, calls>>
  BY DEF Unstack, info, r, from
<1>6. exc' \in Seq(ExcRecord)
  BY <1>2, <1>5 DEF TypeOK
<1>7. CASE ~CanRead(from)
  BY <1>5, <1>6, <1>7 DEF TypeOK, regs
<1>8. CASE CanRead(from)
  <2>1. slot \in Slot
    <3>1. from.area \in StackReg /\ from.n \in 1 .. Cap
      BY <1>3, <1>8, LimitsAssumption DEF CanRead, Addr
    <3> QED BY <3>1 DEF TypeOK
  <2>2. [from EXCEPT !.n = @ - 1] \in Addr
    BY <1>3, <1>8, LimitsAssumption DEF CanRead, Addr
  <2>3. sp' \in [StackReg -> Addr]
    BY <1>1, <1>5, <1>8, <2>2 DEF TypeOK
  <2>4. pc' \in CodeAddr /\ lr' \in Lr /\ ipsr' \in IPSR
    BY <1>5, <1>8, <2>1 DEF Slot, IPSR
  <2> QED BY <1>1, <1>5, <1>6, <1>8, <2>3, <2>4 DEF TypeOK
<1> QED BY <1>7, <1>8

\* Every step keeps the types.
LEMMA TypeStep == TypeOK /\ [Next]_vars => TypeOK'
<1> SUFFICES ASSUME TypeOK, [Next]_vars PROVE TypeOK'
  OBVIOUS
<1>pc. ResetPc \in CodeAddr /\ VectorPc \in CodeAddr /\ Pc \subseteq CodeAddr /\ CodeAddr \subseteq Lr
  BY PcAssumption DEF CodeAddr, Lr
<1>0. CASE UNCHANGED vars
  BY <1>0 DEF TypeOK, vars
<1>1. CASE TakeSystemException
  <2>1. PICK e \in {"SysTick", "PendSV"} : EnterException(e, sec, pc, FALSE)
    BY <1>1 DEF TakeSystemException
  <2>2. e \in Exc /\ sec \in Sec /\ pc \in CodeAddr
    BY DEF Exc, Async, TypeOK
  <2> QED BY <2>1, <2>2, EnterType
<1>2. ASSUME NEW hs \in Sec, TakeInterrupt(hs) PROVE TypeOK'
  <2>1. "Irq" \in Exc /\ pc \in CodeAddr
    BY DEF Exc, Async, TypeOK
  <2> QED BY <1>2, <2>1, EnterType DEF TakeInterrupt
<1>3. ASSUME NEW p \in Pc, SupervisorCall(p) PROVE TypeOK'
  <2>1. "SVCall" \in Exc /\ sec \in Sec /\ p \in CodeAddr
    BY <1>pc DEF Exc, TypeOK
  <2> QED BY <1>3, <2>1, EnterType DEF SupervisorCall
<1>4. CASE UsageFault
  <2>1. "UsageFault" \in Exc /\ sec \in Sec /\ pc \in CodeAddr
    BY DEF Exc, Fault, TypeOK
  <2>2. EnterException("UsageFault", sec, pc, FALSE) \/ Halt
    BY <1>4 DEF UsageFault
  <2> QED BY <2>1, <2>2, EnterType, HaltType
<1>5. ASSUME NEW e \in Fault \ {"UsageFault"}, MemFault(e) PROVE TypeOK'
  <2>1. e \in Exc /\ sec \in Sec /\ pc \in CodeAddr /\ QuitOnFaults \in BOOLEAN
    BY OptionsAssumption DEF Exc, TypeOK
  <2> QED BY <1>5, <2>1, EnterType DEF MemFault, RaiseHardFault
<1>6. CASE ReturnByBx
  <2>1. ctx # << >> /\ Unstack(lr, Front(ctx)) /\ Front(ctx) \in Seq(Context)
    BY <1>6, FrontFacts DEF ReturnByBx, CanReturn, TypeOK
  <2> QED BY <2>1, UnstackType
<1>7. CASE ReturnByPop
  <2> DEFINE rest == IF ActiveReg = EntryReg(Last(ctx)) THEN Front(ctx)
                     ELSE WithLeft(Front(ctx), ActiveReg)
  <2>1. ctx # << >> /\ Unstack(ExcReturnOf(Last(ctx)), rest)
    BY <1>7 DEF ReturnByPop, CanReturn
  <2>2. Front(ctx) \in Seq(Context) /\ WithLeft(Front(ctx), ActiveReg) \in Seq(Context)
    BY <2>1, FrontFacts, LeftFacts, ActiveType DEF TypeOK
  <2> HIDE DEF rest
  <2>3. rest \in Seq(Context)
    BY <2>2 DEF rest
  <2> QED BY <2>1, <2>3, UnstackType
<1>8. ASSUME NEW p \in Pc, Execute(p) \/ BranchLink(p) \/ BranchNonSecure(p) PROVE TypeOK'
  BY <1>8, <1>pc DEF Execute, BranchLink, BranchNonSecure, TypeOK, Sec
<1>9. CASE ReloadLr
  <2>1. Last(ctx) \in Context
    BY <1>9, FrontFacts DEF ReloadLr, TypeOK
  <2>2. lr' \in Lr
    BY <1>9, <2>1, EntryType DEF ReloadLr, Lr
  <2> QED BY <1>9, <2>2 DEF ReloadLr, TypeOK
<1>10. CASE Push
  <2>1. CASE Halt
    BY <2>1, HaltType
  <2>2. CASE ~Halt
    <3> DEFINE r == ActiveReg
    <3>1. r \in StackReg /\ sp[r] \in Addr
      BY ActiveType
    <3>2. /\ CanWrite(sp[r])
          /\ mem' = [mem EXCEPT ![sp[r].area][sp[r].n + 1] = Data]
          /\ sp' = [sp EXCEPT ![r].n = @ + 1]
          /\ UNCHANGED <<mode, sec, ipsr, pc, lr, spsel, exc, tz, done, ctx, calls>>
      BY <1>10, <2>2 DEF Push
    <3> HIDE DEF r
    <3>3. Data \in Slot
      BY DEF Data, Slot, CodeAddr, Lr, IPSR
    <3>4. mem' \in [StackReg -> [1 .. Cap -> Slot]]
      BY <3>1, <3>2, <3>3, LimitsAssumption DEF TypeOK, CanWrite, Addr
    <3>5. sp' \in [StackReg -> Addr]
      <4>1. [sp[r] EXCEPT !.n = @ + 1] \in Addr
        BY <3>1, <3>2, LimitsAssumption DEF CanWrite, Addr
      <4> QED BY <3>1, <3>2, <4>1 DEF TypeOK
    <3> QED BY <3>2, <3>4, <3>5 DEF TypeOK
  <2> QED BY <2>1, <2>2
<1>11. CASE Pop
  <2> DEFINE r == ActiveReg
             low == IF ctx = << >> THEN 0 ELSE Stacked(Last(ctx))[r].n
  <2>1. r \in StackReg /\ sp[r] \in Addr
    BY ActiveType
  <2>2. low \in Nat
    <3>1. CASE ctx = << >>
      BY <3>1
    <3>2. CASE ctx # << >>
      <4>1. Last(ctx) \in Context
        BY <3>2, FrontFacts DEF TypeOK
      <4>2. Last(ctx).sp[r] \in Level /\ Last(ctx).sp[EntryReg(Last(ctx))] \in Level
        BY <2>1, <4>1, EntryType DEF Context
      <4>3. Stacked(Last(ctx))[r].n \in Nat
        BY <2>1, <4>1, <4>2, StackedFacts DEF Level
      <4> QED BY <3>2, <4>3
    <3> QED BY <3>1, <3>2
  <2>3. /\ sp[r].n > low
        /\ sp' = [sp EXCEPT ![r].n = @ - 1]
        /\ UNCHANGED <<mode, sec, ipsr, pc, lr, spsel, mem, exc, tz, done, ctx, calls>>
    BY <1>11 DEF Pop
  <2> HIDE DEF r, low
  <2>4. sp' \in [StackReg -> Addr]
    <3>1. [sp[r] EXCEPT !.n = @ - 1] \in Addr
      BY <2>1, <2>2, <2>3, LimitsAssumption DEF Addr
    <3> QED BY <2>1, <2>3, <3>1 DEF TypeOK
  <2> QED BY <2>3, <2>4 DEF TypeOK
<1>12. ASSUME NEW r \in StackReg, WriteStackPointer(r) PROVE TypeOK'
  <2>1. [area |-> r, n |-> 0] \in Addr
    BY LimitsAssumption DEF Addr
  <2>2. sp' \in [StackReg -> Addr]
    BY <1>12, <2>1 DEF WriteStackPointer, TypeOK
  <2> QED BY <1>12, <2>2 DEF WriteStackPointer, TypeOK
<1>13. ASSUME NEW s \in Sec, NEW v \in BOOLEAN, WriteControl(s, v) PROVE TypeOK'
  <2>1. spsel' \in [Sec -> BOOLEAN]
    BY <1>13 DEF WriteControl, TypeOK
  <2> QED BY <1>13, <2>1 DEF WriteControl, TypeOK
<1>14. CASE SecureGateway
  BY <1>14 DEF SecureGateway, TypeOK, Sec
<1>15. ASSUME NEW p \in Pc, NEW ret \in Pc, CallNonSecure(p, ret) PROVE TypeOK'
  <2>1. [pc |-> ret, sec |-> sec, mode |-> mode] \in TzRecord
    BY <1>pc DEF TzRecord, TypeOK
  <2>2. [pc |-> ret, sec |-> sec, mode |-> mode, nest |-> Len(ctx)] \in CallRecord
    BY <1>pc DEF CallRecord, TypeOK
  <2>3. tz' \in Seq(TzRecord)
    BY <1>15, <2>1, AppendFacts DEF CallNonSecure, TypeOK
  <2>4. calls' \in Seq(CallRecord)
    BY <1>15, <2>2, AppendFacts DEF CallNonSecure, TypeOK
  <2>5. lr' \in Lr /\ pc' \in CodeAddr /\ sec' \in Sec
    BY <1>15, <1>pc DEF CallNonSecure, Lr, Sec
  <2> QED BY <1>15, <2>3, <2>4, <2>5 DEF CallNonSecure, TypeOK
<1>16. CASE ReturnFromNonSecure
  <2>1. Front(calls) \in Seq(CallRecord)
    BY <1>16, FrontFacts DEF ReturnFromNonSecure, TypeOK
  <2>2. tz # << >> => Front(tz) \in Seq(TzRecord) /\ Last(tz) \in TzRecord
    BY FrontFacts DEF TypeOK
  <2>3. Wild \in CodeAddr
    BY DEF CodeAddr
  <2>4. tz' \in Seq(TzRecord) /\ sec' \in Sec /\ mode' \in Mode /\ pc' \in CodeAddr /\ lr' \in Lr
    BY <1>16, <1>pc, <2>2, <2>3 DEF ReturnFromNonSecure, TypeOK, TzRecord
  <2> QED BY <1>16, <2>1, <2>4 DEF ReturnFromNonSecure, TypeOK
<1>17. CASE ResetTarget
  <2>1. ResetState.sp \in [StackReg -> Addr]
    BY LimitsAssumption DEF ResetState, Addr, Null
  <2>2. ResetState \in Context
    <3>1. ResetState.sp \in [StackReg -> Level]
      BY <2>1, AddrLevel
    <3> QED BY <1>pc, <3>1 DEF ResetState, Context, CodeAddr, Lr, InitialLr, ExcReturn,
              IPSR, Mode, Sec
  <2> QED BY <1>17, <2>1, <2>2 DEF ResetTarget, TypeOK, Context
<1> QED BY <1>0, <1>1, <1>2, <1>3, <1>4, <1>5, <1>6, <1>7, <1>8, <1>9, <1>10, <1>11,
           <1>12, <1>13, <1>14, <1>15, <1>16, <1>17 DEF Next

\* The reset state has the types.
LEMMA InitType == ASSUME Init PROVE TypeOK
<1>1. Data \in Slot
    BY DEF Data, Slot, CodeAddr, Lr, IPSR
<1>2. mem \in [StackReg -> [1 .. Cap -> Slot]]
    BY <1>1 DEF Init
<1>3. ResetPc \in CodeAddr /\ InitialLr \in Lr /\ "None" \in IPSR
    BY PcAssumption DEF CodeAddr, InitialLr, Lr, ExcReturn, IPSR
<1>4. sp \in [StackReg -> Addr] /\ spsel \in [Sec -> BOOLEAN]
    BY LimitsAssumption DEF Init, Addr, Null
<1>5. exc \in Seq(ExcRecord) /\ tz \in Seq(TzRecord) /\ ctx \in Seq(Context)
          /\ calls \in Seq(CallRecord) /\ done \in BOOLEAN
  <2>1. \A S : << >> \in Seq(S) OBVIOUS
  <2>2. exc = << >> /\ tz = << >> /\ ctx = << >> /\ calls = << >> /\ done = FALSE
      BY DEF Init
  <2> QED BY <2>1, <2>2, Zenon
<1>6. mode \in Mode /\ sec \in Sec /\ ipsr \in IPSR /\ pc \in CodeAddr /\ lr \in Lr
    BY <1>3 DEF Init, Mode, Sec
<1> QED BY <1>2, <1>4, <1>5, <1>6 DEF TypeOK

\* TypeOK is an invariant of the emulator for every choice of the constants:
\* in particular no run of entries, returns, calls and faults moves a stack
\* pointer out of its stack or reads a frame from outside of it.
THEOREM TypeCorrect == Spec => []TypeOK
<1>1. Init => TypeOK
  BY InitType
<1> QED BY <1>1, TypeStep, PTL DEF Spec

-----------------------------------------------------------------------------
(* The inductive invariant.                                                *)

\* q has, on every stack, at least what preempting c left there.
Above(q, c) ==
    \A r \in StackReg : q[r].area = c.sp[r].area /\ q[r].n >= Stacked(c)[r].n

\* Every register is unset or points into its own region.
OwnStacks(q) == \A r \in StackReg : q[r].area \in {r, Unset}

\* The record x and the frame, in memory m, of a suspended context.
Recorded(m, x, c) ==
    LET r == EntryReg(c)
    IN  /\ x = [sp |-> Stacked(c)[r], sec |-> c.sec]
        /\ Stacked(c)[r].area = r /\ Stacked(c)[r].n \in 1 .. Cap
        /\ m[r][Stacked(c)[r].n] = FrameOf(c)

StackInv ==
    /\ Len(exc) = Len(ctx) /\ Len(ctx) <= MaxNest
    /\ OwnStacks(sp)
    /\ \A i \in 1 .. Len(ctx) :
          Recorded(mem, exc[i], ctx[i]) /\ OwnStacks(ctx[i].sp) /\ Above(sp, ctx[i])
    /\ \A i, j \in 1 .. Len(ctx) : i < j => Above(ctx[j].sp, ctx[i])

\* An EXC_RETURN value in LR is the one of the innermost suspended context.
LrInv ==
    /\ ctx # << >> /\ lr \in ExcReturn => lr = ExcReturnOf(Last(ctx))
    /\ \A i \in 2 .. Len(ctx) :
          ctx[i].lr \in ExcReturn => ctx[i].lr = ExcReturnOf(ctx[i - 1])

\* Only the outermost context is one of Thread mode; handlers leave CONTROL.
ModeInv ==
    /\ mode = "Handler" <=> ctx # << >>
    /\ ipsr = "None" <=> ctx = << >>
    /\ \A i \in 1 .. Len(ctx) :
          /\ ctx[i].mode = "Thread" <=> i = 1
          /\ ctx[i].ipsr = "None" <=> i = 1
          /\ ctx[i].spsel = spsel

\* tz_ret_*[] describe the outstanding calls, each made at its nesting depth.
CallInv ==
    /\ Len(tz) = Len(calls) /\ Len(calls) <= MaxCalls
    /\ \A i \in 1 .. Len(calls) :
          /\ tz[i] = [pc |-> calls[i].pc, sec |-> calls[i].sec, mode |-> calls[i].mode]
          /\ calls[i].nest <= Len(ctx)
          /\ calls[i].mode = "Thread" <=> calls[i].nest = 0
    /\ \A i, j \in 1 .. Len(calls) : i < j => calls[i].nest <= calls[j].nest

IInv == TypeOK /\ (~done => StackInv /\ LrInv /\ ModeInv /\ CallInv)

\* The innermost suspended context and its record.
LEMMA Innermost ==
    ASSUME TypeOK, StackInv, ctx # << >>
    PROVE  /\ Len(ctx) \in Nat /\ Len(ctx) > 0 /\ Last(ctx) = ctx[Len(ctx)]
           /\ Last(ctx) \in Context
           /\ exc # << >> /\ Recorded(mem, Last(exc), Last(ctx))
           /\ OwnStacks(Last(ctx).sp) /\ Above(sp, Last(ctx))
<1>1. Len(ctx) \in Nat /\ Len(ctx) > 0 /\ Last(ctx) = ctx[Len(ctx)] /\ Last(ctx) \in Context
  BY FrontFacts DEF TypeOK, Last
<1>2. exc # << >> /\ Last(exc) = exc[Len(ctx)]
  BY <1>1 DEF StackInv, TypeOK, Last
<1>3. Len(ctx) \in 1 .. Len(ctx)
  BY <1>1
<1> QED BY <1>1, <1>2, <1>3 DEF StackInv

\* The slot that a return leaves in use on the stack of q.
LeavesOn(q) ==
    LET c == Last(ctx)
    IN  /\ q # EntryReg(c)
        /\ sp[q] = [c.sp[q] EXCEPT !.n = @ + 1]
        /\ sp' = [c.sp EXCEPT ![q] = sp[q]]
        /\ ctx' = WithLeft(Front(ctx), q)

\* Both kinds of exception return resume the innermost suspended context: all
\* registers, mode and security state are as they were, and so are the stack
\* pointers, but for the slot that a POP leaves on another stack.
LEMMA ReturnExact ==
    ASSUME IInv, ReturnByBx \/ ReturnByPop
    PROVE  LET c == Last(ctx)
           IN  /\ ctx # << >> /\ done' = FALSE
               /\ pc' = c.pc /\ lr' = c.lr /\ ipsr' = c.ipsr /\ mode' = c.mode /\ sec' = c.sec
               /\ spsel' = c.spsel /\ exc' = Front(exc)
               /\ UNCHANGED <<mem, tz, calls, spsel>>
               /\ \/ sp' = c.sp /\ ctx' = Front(ctx)
                  \/ \E q \in StackReg : LeavesOn(q)
<1> DEFINE c == Last(ctx)
           r == EntryReg(c)
           v == ExcReturnOf(c)
           a == ActiveReg
<1>1. ~done /\ ctx # << >> /\ TypeOK /\ StackInv /\ LrInv /\ ModeInv
  BY DEF ReturnByBx, ReturnByPop, CanReturn, IInv
<1>2. /\ c \in Context /\ exc # << >> /\ Recorded(mem, Last(exc), c) /\ Above(sp, c)
      /\ Len(ctx) \in 1 .. Len(ctx) /\ c = ctx[Len(ctx)]
  BY <1>1, Innermost
<1>3. /\ Last(exc).sp = Stacked(c)[r] /\ Last(exc).sec = c.sec
      /\ Stacked(c)[r].area = r /\ Stacked(c)[r].n \in 1 .. Cap
      /\ mem[r][Stacked(c)[r].n] = FrameOf(c)
  BY <1>2 DEF Recorded
<1>4. /\ r \in StackReg /\ c.sp[r] \in Level /\ r = Reg(c.sec, EntryStack(c))
      /\ Decode(v) = [stack |-> EntryStack(c), mode |-> c.mode, sec |-> c.sec]
  BY <1>2, EntryType DEF EntryReg
<1>a. a \in StackReg /\ sp[a] \in Addr /\ sp \in [StackReg -> Addr]
      /\ sp \in [StackReg -> Level] /\ c.sp \in [StackReg -> Level]
  BY <1>1, <1>2, ActiveType, AddrLevel DEF TypeOK, Context
<1> DEFINE Kept(rest) ==
             \/ /\ \A q \in StackReg : q # r => sp[q] = c.sp[q]
                /\ rest = Front(ctx)
             \/ /\ a # r /\ sp[a] = [c.sp[a] EXCEPT !.n = @ + 1]
                /\ \A q \in StackReg : q # r /\ q # a => sp[q] = c.sp[q]
                /\ rest = WithLeft(Front(ctx), a)
<1>5. PICK rest : Unstack(v, rest) /\ Kept(rest)
  <2>0. \A q \in StackReg : q # r => Stacked(c)[q] = c.sp[q]
    BY <1>2, StackedFacts
  <2>1. CASE ReturnByBx
    <3>1. lr = v /\ Unstack(lr, Front(ctx)) /\ sp = Stacked(c)
      BY <1>1, <2>1 DEF ReturnByBx, LrInv
    <3> HIDE DEF v, a, c, r
    <3> QED BY <2>0, <3>1
  <2>2. CASE ReturnByPop
    <3>1. /\ sp[a].n > 0
          /\ [sp EXCEPT ![a].n = @ - 1] = Stacked(c)
          /\ Unstack(v, IF a = r THEN Front(ctx) ELSE WithLeft(Front(ctx), a))
      BY <2>2 DEF ReturnByPop
    <3>2. /\ \A q \in StackReg : q # a => sp[q] = Stacked(c)[q]
          /\ Stacked(c)[a] = [sp[a] EXCEPT !.n = @ - 1]
      <4> HIDE DEF a, c, r, v
      <4> QED BY <1>a, <3>1
    <3>3. CASE a = r
      <4> HIDE DEF a, c, r, v
      <4> QED BY <2>0, <3>1, <3>2, <3>3
    <3>4. CASE a # r
      <4>1. c.sp[a] = [sp[a] EXCEPT !.n = @ - 1]
        BY <1>a, <2>0, <3>2, <3>4
      <4>2. sp[a] = [c.sp[a] EXCEPT !.n = @ + 1]
        <5> HIDE DEF a, c, r, v
        <5>1. sp[a] \in Level
          BY <1>a
        <5> QED BY <4>1, <5>1, UpDown
      <4> HIDE DEF a, c, r, v
      <4> QED BY <2>0, <3>1, <3>2, <3>4, <4>2
    <3> QED BY <3>3, <3>4
  <2> QED BY <2>1, <2>2
<1> HIDE DEF v, a, Kept
<1>7. /\ exc' = Front(exc) /\ UNCHANGED <<mem, tz, calls>>
      /\ \/ ~CanRead(Stacked(c)[r])
         \/ /\ pc' = mem[r][Stacked(c)[r].n].pc
            /\ lr' = mem[r][Stacked(c)[r].n].lr
            /\ ipsr' = IF c.mode = "Thread" THEN "None" ELSE mem[r][Stacked(c)[r].n].ipsr
            /\ sp' = [sp EXCEPT ![r] = [Stacked(c)[r] EXCEPT !.n = @ - 1]]
            /\ sec' = c.sec /\ mode' = c.mode /\ ctx' = rest
            /\ UNCHANGED <<spsel, done>>
  <2> DEFINE info == Decode(v)
             to   == Reg(info.sec, info.stack)
             from == IF exc # << >> /\ Last(exc).sec = info.sec THEN Last(exc).sp ELSE sp[to]
  <2>1. info.sec = c.sec /\ info.mode = c.mode /\ to = r
    BY <1>4
  <2>2. from = Stacked(c)[r] /\ from.area = r
    BY <1>2, <1>3, <2>1
  <2>3. /\ exc' = IF exc # << >> THEN Front(exc) ELSE exc
        /\ \/ ~CanRead(from) /\ done' = TRUE /\ UNCHANGED <<regs, ctx>>
           \/ /\ CanRead(from)
              /\ pc' = mem[from.area][from.n].pc /\ lr' = mem[from.area][from.n].lr
              /\ ipsr' = IF info.mode = "Thread" THEN "None" ELSE mem[from.area][from.n].ipsr
              /\ sp' = [sp EXCEPT ![to] = [from EXCEPT !.n = @ - 1]]
              /\ sec' = info.sec
              /\ mode' = info.mode
              /\ ctx' = rest
              /\ UNCHANGED <<spsel, done>>
        /\ UNCHANGED <<mem, tz, calls>>
    BY <1>5 DEF Unstack
  <2> HIDE DEF info, to, from, c, r
  <2> QED BY <1>2, <2>1, <2>2, <2>3
<1>8. CanRead(Stacked(c)[r])
  BY <1>3, <1>4, LimitsAssumption DEF CanRead
<1>9. pc' = c.pc /\ lr' = c.lr
  BY <1>3, <1>7, <1>8 DEF FrameOf
<1>10. ipsr' = c.ipsr
  <2>1. c.mode = "Thread" => c.ipsr = "None"
    BY <1>1, <1>2 DEF ModeInv
  <2> QED BY <1>3, <1>7, <1>8, <2>1 DEF FrameOf
<1>11. spsel' = c.spsel
  BY <1>1, <1>2, <1>7, <1>8 DEF ModeInv
<1>12. sp' = [sp EXCEPT ![r] = c.sp[r]] /\ ctx' = rest
  <2>1. [Stacked(c)[r] EXCEPT !.n = @ - 1] = c.sp[r]
    <3>1. Stacked(c)[r] = [c.sp[r] EXCEPT !.n = @ + 1] /\ c.sp[r] \in Level
      BY <1>a, <1>4 DEF Stacked
    <3> HIDE DEF c, r
    <3> QED BY <3>1, UpDown
  <2> HIDE DEF c, r
  <2> QED BY <1>7, <1>8, <2>1
<1>13. \/ sp' = c.sp /\ ctx' = Front(ctx)
       \/ \E q \in StackReg : LeavesOn(q)
  <2>1. CASE /\ \A q \in StackReg : q # r => sp[q] = c.sp[q]
             /\ rest = Front(ctx)
    <3> HIDE DEF c, r
    <3> QED BY <1>a, <1>4, <1>12, <2>1
  <2>2. CASE /\ a # r /\ sp[a] = [c.sp[a] EXCEPT !.n = @ + 1]
             /\ \A q \in StackReg : q # r /\ q # a => sp[q] = c.sp[q]
             /\ rest = WithLeft(Front(ctx), a)
    <3>1. sp' = [c.sp EXCEPT ![a] = sp[a]]
      <4> HIDE DEF c, r
      <4> QED BY <1>a, <1>4, <1>12, <2>2
    <3> QED BY <1>a, <1>12, <2>2, <3>1 DEF LeavesOn
  <2> QED BY <1>5, <2>1, <2>2 DEF Kept
<1> QED BY <1>1, <1>7, <1>8, <1>9, <1>10, <1>11, <1>13

\* Stack levels are numbers, and stacking adds to them.
LEMMA StackedLevels ==
    ASSUME NEW c \in Context, NEW r \in StackReg
    PROVE  /\ c.sp[r].n \in Nat /\ Stacked(c)[r].n \in Nat
           /\ Stacked(c)[r].n >= c.sp[r].n /\ Stacked(c)[r].area = c.sp[r].area
<1>1. c.sp[r].n \in Nat
  BY DEF Context, Level
<1>2. CASE r = EntryReg(c)
  BY <1>1, <1>2, StackedFacts
<1>3. CASE r # EntryReg(c)
  BY <1>1, <1>3, StackedFacts
<1> QED BY <1>1, <1>2, <1>3

\* More stack in use keeps Above.
LEMMA AboveMono ==
    ASSUME NEW p \in [StackReg -> Level], NEW q \in [StackReg -> Level], NEW c \in Context,
           Above(p, c),
           \A r \in StackReg : q[r].area = p[r].area /\ q[r].n >= p[r].n
    PROVE  Above(q, c)
<1> SUFFICES ASSUME NEW r \in StackReg
             PROVE  q[r].area = c.sp[r].area /\ q[r].n >= Stacked(c)[r].n
  BY DEF Above
<1>1. p[r].n \in Nat /\ q[r].n \in Nat
  BY DEF Level
<1>2. p[r].area = c.sp[r].area /\ p[r].n >= Stacked(c)[r].n
  BY DEF Above
<1> QED BY <1>1, <1>2, StackedLevels

\* What is above a context is above those that it is above of.
LEMMA AboveTrans ==
    ASSUME NEW q \in [StackReg -> Level], NEW c \in Context, NEW b \in Context,
           Above(q, c), Above(c.sp, b)
    PROVE  Above(q, b)
<1> SUFFICES ASSUME NEW r \in StackReg
             PROVE  q[r].area = b.sp[r].area /\ q[r].n >= Stacked(b)[r].n
  BY DEF Above
<1>1. q[r].n \in Nat
  BY DEF Level
<1>2. q[r].area = c.sp[r].area /\ q[r].n >= Stacked(c)[r].n
  BY DEF Above
<1>3. c.sp[r].area = b.sp[r].area /\ c.sp[r].n >= Stacked(b)[r].n
  BY DEF Above
<1>4. Stacked(c)[r].n >= c.sp[r].n /\ Stacked(c)[r].n \in Nat /\ c.sp[r].n \in Nat
        /\ Stacked(b)[r].n \in Nat
  BY StackedLevels
<1> QED BY <1>1, <1>2, <1>3, <1>4

\* A write above the stack pointer leaves the frames of suspended contexts.
LEMMA FrameSurvives ==
    ASSUME NEW m \in [StackReg -> [1 .. Cap -> Slot]], NEW q \in [StackReg -> Addr],
           NEW c \in Context, NEW x, NEW k \in StackReg, NEW d \in Slot,
           Recorded(m, x, c), Above(q, c), q[k].area = k, q[k].n < Cap
    PROVE  Recorded([m EXCEPT ![q[k].area][q[k].n + 1] = d], x, c)
<1> DEFINE r == EntryReg(c)
           top == Stacked(c)[r].n
           new == [m EXCEPT ![q[k].area][q[k].n + 1] = d]
<1>1. r \in StackReg /\ top \in 1 .. Cap /\ m[r][top] = FrameOf(c)
  BY EntryType DEF Recorded
<1>2. q[r].n >= top /\ q[r].n \in Nat /\ q[k].n \in Nat
  BY <1>1, LimitsAssumption DEF Above, Addr
<1>3. new[r][top] = m[r][top]
  <2> HIDE DEF r, top
  <2>1. CASE r = k
    <3>1. top # q[k].n + 1 /\ top \in 1 .. Cap
      BY <1>1, <1>2, <2>1, LimitsAssumption
    <3>2. new[r] = [m[k] EXCEPT ![q[k].n + 1] = d]
      BY <2>1
    <3> QED BY <2>1, <3>1, <3>2
  <2>2. CASE r # k
    BY <1>1, <2>2
  <2> QED BY <2>1, <2>2
<1> QED BY <1>1, <1>3 DEF Recorded

\* What an exception entry that does not end the run does.
LEMMA EnterFacts ==
    ASSUME IInv, MaxNest <= ExcStackMax, NEW e \in Exc, NEW hs \in Sec, NEW ret \in CodeAddr,
           NEW quit \in BOOLEAN, EnterException(e, hs, ret, quit), ~done'
    PROVE  LET c == Suspend(ret)
               r == EntryReg(c)
           IN  /\ TypeOK /\ StackInv /\ LrInv /\ ModeInv /\ CallInv
               /\ Len(ctx) < MaxNest
               /\ c \in Context /\ r \in StackReg /\ sp[r].area = r /\ sp[r].n < Cap
               /\ mem' = [mem EXCEPT ![sp[r].area][sp[r].n + 1] = FrameOf(c)]
               /\ sp' = Stacked(c)
               /\ exc' = Append(exc, [sp |-> Stacked(c)[r], sec |-> c.sec])
               /\ lr' = ExcReturnOf(c)
               /\ mode' = "Handler" /\ sec' = hs /\ ipsr' = e /\ pc' = VectorPc
               /\ ctx' = Append(ctx, c)
               /\ UNCHANGED <<spsel, tz, calls>>
<1> DEFINE c == Suspend(ret)
           r == EntryReg(c)
<1>1. ~done /\ Len(ctx) < MaxNest
  BY DEF EnterException
<1>2. TypeOK /\ StackInv /\ LrInv /\ ModeInv /\ CallInv
  BY <1>1 DEF IInv
<1>3. ~Halt
  BY DEF Halt
<1>4. c \in Context /\ c.sp = sp /\ c.sec = sec
  BY <1>2, SuspendType DEF Suspend
<1>5. r \in StackReg
  BY <1>4, EntryType
<1>6. /\ CanWrite(sp[r])
      /\ mem' = [mem EXCEPT ![sp[r].area][sp[r].n + 1] = FrameOf(c)]
      /\ sp' = Stacked(c)
      /\ exc' = IF Len(exc) < ExcStackMax
                THEN Append(exc, [sp |-> sp'[r], sec |-> sec])
                ELSE exc
      /\ lr' = ExcReturnOf(c)
      /\ mode' = "Handler" /\ sec' = hs /\ ipsr' = e /\ pc' = VectorPc
      /\ ctx' = Append(ctx, c)
      /\ UNCHANGED <<spsel, tz, calls>>
  BY <1>3 DEF EnterException
<1> HIDE DEF c, r
<1>7. Len(exc) < ExcStackMax
  BY <1>1, <1>2, LimitsAssumption DEF StackInv, TypeOK
<1>8. sp[r].area = r /\ sp[r].n < Cap
  BY <1>2, <1>5, <1>6 DEF CanWrite, StackInv, OwnStacks, Unset, StackReg
<1> QED BY <1>1, <1>2, <1>4, <1>5, <1>6, <1>7, <1>8 DEF c, r

\* Exception entry keeps the invariant.
LEMMA EnterInv ==
    ASSUME IInv, MaxNest <= ExcStackMax, NEW e \in Exc, NEW hs \in Sec, NEW ret \in CodeAddr,
           NEW quit \in BOOLEAN, EnterException(e, hs, ret, quit), ~done'
    PROVE  StackInv' /\ LrInv' /\ ModeInv' /\ CallInv'
<1> DEFINE c == Suspend(ret)
           r == EntryReg(c)
           N == Len(ctx)
           x == [sp |-> Stacked(c)[r], sec |-> c.sec]
<1>1. /\ TypeOK /\ StackInv /\ LrInv /\ ModeInv /\ CallInv
      /\ N < MaxNest
      /\ c \in Context /\ r \in StackReg /\ sp[r].area = r /\ sp[r].n < Cap
      /\ mem' = [mem EXCEPT ![sp[r].area][sp[r].n + 1] = FrameOf(c)]
      /\ sp' = Stacked(c)
      /\ exc' = Append(exc, x)
      /\ lr' = ExcReturnOf(c)
      /\ mode' = "Handler" /\ sec' = hs /\ ipsr' = e /\ pc' = VectorPc
      /\ ctx' = Append(ctx, c)
      /\ UNCHANGED <<spsel, tz, calls>>
  BY EnterFacts
<1>2. /\ c.sp = sp /\ c.sec = sec /\ c.lr = lr /\ c.mode = mode /\ c.ipsr = ipsr
      /\ c.spsel = spsel
  BY DEF Suspend
<1>3. TypeOK'
  BY <1>1, EnterType
<1>4. N \in Nat /\ Len(exc) = N
  BY <1>1 DEF TypeOK, StackInv
<1>5. FrameOf(c) \in Slot /\ Stacked(c) \in [StackReg -> Addr] /\ sp \in [StackReg -> Addr]
  BY <1>1, <1>3, EntryType DEF TypeOK
<1>6. r = EntryReg(c)
  OBVIOUS
<1>x. x.sp = Stacked(c)[r] /\ x.sec = c.sec /\ x = [sp |-> Stacked(c)[r], sec |-> c.sec]
  OBVIOUS
<1>y. x \in ExcRecord
  BY <1>1, <1>5 DEF ExcRecord, Context
<1> HIDE DEF c, r, N, x
<1>7. /\ Len(ctx') = N + 1 /\ ctx'[N + 1] = c /\ \A i \in 1 .. N : ctx'[i] = ctx[i]
      /\ ctx' # << >> /\ Last(ctx') = c
  <2>1. ctx \in Seq(Context) /\ c \in Context /\ ctx' = Append(ctx, c)
    BY <1>1 DEF TypeOK
  <2>2. /\ Len(ctx') = Len(ctx) + 1 /\ ctx'[Len(ctx) + 1] = c
        /\ \A i \in 1 .. Len(ctx) : ctx'[i] = ctx[i]
    BY <2>1
  <2>3. ctx' # << >>
    BY <2>1
  <2> QED BY <2>2, <2>3 DEF N, Last
<1>8. Len(exc') = N + 1 /\ exc'[N + 1] = x /\ \A i \in 1 .. N : exc'[i] = exc[i]
  BY <1>1, <1>4, <1>y, AppendFacts DEF TypeOK
<1>9. \A i \in 1 .. N : ctx[i] \in Context
  BY <1>1 DEF TypeOK, N
<1>10. \A q \in StackReg : sp'[q].area = sp[q].area /\ sp'[q].n >= sp[q].n
  BY <1>1, <1>2, StackedLevels
<1>11. StackInv'
  <2>1. Len(exc') = Len(ctx') /\ Len(ctx') <= MaxNest
    BY <1>1, <1>4, <1>7, <1>8, LimitsAssumption
  <2>2. OwnStacks(sp')
    BY <1>1, <1>10 DEF StackInv, OwnStacks
  <2>3. ASSUME NEW i \in 1 .. N
        PROVE  Recorded(mem', exc'[i], ctx'[i]) /\ OwnStacks(ctx'[i].sp) /\ Above(sp', ctx'[i])
    <3>1. Recorded(mem, exc[i], ctx[i]) /\ OwnStacks(ctx[i].sp) /\ Above(sp, ctx[i])
      BY <1>1 DEF StackInv, N
    <3>2. Recorded(mem', exc[i], ctx[i])
      BY <1>1, <1>5, <1>9, <3>1, FrameSurvives DEF TypeOK
    <3>3. Above(sp', ctx[i])
      BY <1>1, <1>5, <1>9, <1>10, <3>1, AboveMono, AddrLevel
    <3> QED BY <1>7, <1>8, <3>1, <3>2, <3>3
  <2>4. Recorded(mem', x, c) /\ OwnStacks(c.sp) /\ Above(sp', c)
    <3>1. Stacked(c)[r].area = r /\ Stacked(c)[r].n = sp[r].n + 1
      BY <1>1, <1>2, <1>6, StackedFacts
    <3>2. sp[r].n + 1 \in 1 .. Cap
      BY <1>1, <1>5, LimitsAssumption DEF Addr
    <3>3. mem'[r][sp[r].n + 1] = FrameOf(c)
      BY <1>1, <3>2 DEF TypeOK
    <3>4. Recorded(mem', x, c)
      BY <1>6, <1>x, <3>1, <3>2, <3>3 DEF Recorded
    <3>5. Above(sp', c)
      <4> SUFFICES ASSUME NEW q \in StackReg
                   PROVE  sp'[q].area = c.sp[q].area /\ sp'[q].n >= Stacked(c)[q].n
        BY DEF Above
      <4> QED BY <1>1, StackedLevels
    <3> QED BY <1>1, <1>2, <3>4, <3>5 DEF StackInv
  <2>5. \A i \in 1 .. Len(ctx') :
           Recorded(mem', exc'[i], ctx'[i]) /\ OwnStacks(ctx'[i].sp) /\ Above(sp', ctx'[i])
    BY <1>4, <1>7, <1>8, <2>3, <2>4
  <2>6. ASSUME NEW i \in 1 .. Len(ctx'), NEW j \in 1 .. Len(ctx'), i < j
        PROVE  Above(ctx'[j].sp, ctx'[i])
    <3>1. i \in 1 .. N
      BY <1>4, <1>7, <2>6
    <3>2. CASE j = N + 1
      BY <1>1, <1>2, <1>7, <3>1, <3>2 DEF StackInv, N
    <3>3. CASE j # N + 1
      <4>1. j \in 1 .. N
        BY <1>4, <1>7, <3>3
      <4> QED BY <1>1, <1>7, <2>6, <3>1, <4>1 DEF StackInv, N
    <3> QED BY <3>2, <3>3
  <2> QED BY <2>1, <2>2, <2>5, <2>6 DEF StackInv
<1>12. LrInv'
  <2>1. ASSUME NEW i \in 2 .. Len(ctx'), ctx'[i].lr \in ExcReturn
        PROVE  ctx'[i].lr = ExcReturnOf(ctx'[i - 1])
    <3>1. i - 1 \in 1 .. N /\ ctx'[i - 1] = ctx[i - 1]
      BY <1>4, <1>7
    <3>2. CASE i = N + 1
      <4>1. ctx # << >> /\ Last(ctx) = ctx[N]
        BY <1>1, <1>4, <3>1 DEF Last, N, TypeOK
      <4> QED BY <1>1, <1>2, <1>4, <1>7, <2>1, <3>1, <3>2, <4>1 DEF LrInv
    <3>3. CASE i # N + 1
      <4>1. i \in 2 .. N /\ ctx'[i] = ctx[i]
        BY <1>4, <1>7, <3>3
      <4> QED BY <1>1, <2>1, <3>1, <4>1 DEF LrInv, N
    <3> QED BY <3>2, <3>3
  <2> QED BY <1>1, <1>7, <2>1 DEF LrInv
<1>13. ModeInv'
  <2>1. ASSUME NEW i \in 1 .. Len(ctx')
        PROVE  /\ ctx'[i].mode = "Thread" <=> i = 1
               /\ ctx'[i].ipsr = "None" <=> i = 1
               /\ ctx'[i].spsel = spsel'
    <3>1. CASE i \in 1 .. N
      BY <1>1, <1>7, <3>1 DEF ModeInv, N
    <3>2. CASE i = N + 1
      <4>1. ctx = << >> <=> N = 0
        BY <1>1 DEF N, TypeOK
      <4>2. mode = "Thread" <=> N = 0
        BY <1>1, <4>1 DEF ModeInv, TypeOK, Mode
      <4>3. ipsr = "None" <=> N = 0
        BY <1>1, <4>1 DEF ModeInv
      <4> QED BY <1>1, <1>2, <1>4, <1>7, <3>2, <4>2, <4>3
    <3> QED BY <1>4, <1>7, <3>1, <3>2
  <2>2. e # "None"
    BY DEF Exc, Fault, Async
  <2>3. ctx' # << >> /\ mode' = "Handler" /\ ipsr' # "None"
    BY <1>1, <1>7, <2>2
  <2> QED BY <2>1, <2>3 DEF ModeInv
<1>14. CallInv'
  <2>1. tz' = tz /\ calls' = calls
    BY <1>1
  <2>2. ASSUME NEW i \in 1 .. Len(calls) PROVE calls[i].nest <= Len(ctx')
    <3>1. calls[i].nest <= N /\ calls[i].nest \in Nat
      <4>1. calls[i] \in CallRecord
        BY <1>1 DEF TypeOK
      <4> QED BY <1>1, <4>1 DEF CallInv, N, CallRecord
    <3> QED BY <1>4, <1>7, <3>1
  <2> QED BY <1>1, <2>1, <2>2 DEF CallInv
<1> QED BY <1>11, <1>12, <1>13, <1>14

\* A context that keeps all but one level has the same frame and record.
LEMMA AlikeFacts ==
    ASSUME NEW c \in Context, NEW d, NEW r \in StackReg, Alike(d, c, r)
    PROVE  /\ EntryReg(d) = EntryReg(c) /\ ExcReturnOf(d) = ExcReturnOf(c)
           /\ OwnStacks(c.sp) => OwnStacks(d.sp)
           /\ \A m, x : Recorded(m, x, c) => Recorded(m, x, d)
           /\ \A q \in StackReg : q # r => Stacked(d)[q] = Stacked(c)[q]
           /\ \/ d.sp[r] = c.sp[r] /\ Stacked(d)[r] = Stacked(c)[r]
              \/ d.sp[r].n = c.sp[r].n + 1 /\ Stacked(d)[r].n = Stacked(c)[r].n + 1
<1>1. d \in Context /\ EntryStack(d) = EntryStack(c)
  BY DEF Alike, EntryStack
<1>2. EntryReg(d) = EntryReg(c) /\ ExcReturnOf(d) = ExcReturnOf(c) /\ FrameOf(d) = FrameOf(c)
  BY <1>1 DEF Alike, EntryReg, ExcReturnOf, FrameOf
<1>3. c.sp \in [StackReg -> Level] /\ d.sp \in [StackReg -> Level] /\ EntryReg(c) \in StackReg
  BY <1>1, EntryType DEF Context
<1>4. \A q \in StackReg : d.sp[q] = c.sp[q] => Stacked(d)[q] = Stacked(c)[q]
  BY <1>2, <1>3 DEF Stacked
<1>5. \A q \in StackReg : q # r => Stacked(d)[q] = Stacked(c)[q]
  BY <1>4 DEF Alike
<1>6. \/ d.sp[r] = c.sp[r] /\ Stacked(d)[r] = Stacked(c)[r]
      \/ d.sp[r].n = c.sp[r].n + 1 /\ Stacked(d)[r].n = Stacked(c)[r].n + 1
  <2>1. CASE d.sp[r] = c.sp[r]
    BY <1>4, <2>1
  <2>2. CASE EntryReg(c) # r /\ d.sp[r].n = c.sp[r].n + 1
    BY <1>1, <1>2, <2>2, StackedFacts
  <2> QED BY <2>1, <2>2 DEF Alike
<1>7. Stacked(d)[EntryReg(d)] = Stacked(c)[EntryReg(c)]
  <2>1. EntryReg(c) # r => d.sp[EntryReg(c)] = c.sp[EntryReg(c)]
    BY <1>3 DEF Alike
  <2>2. EntryReg(c) = r => d.sp[r] = c.sp[r]
    BY DEF Alike
  <2> QED BY <1>2, <1>3, <1>4, <2>1, <2>2
<1>8. ASSUME NEW m, NEW x, Recorded(m, x, c) PROVE Recorded(m, x, d)
  BY <1>2, <1>7, <1>8 DEF Recorded, Alike
<1>9. ASSUME OwnStacks(c.sp) PROVE OwnStacks(d.sp)
  BY <1>9 DEF OwnStacks, Alike
<1> QED BY <1>2, <1>5, <1>6, <1>8, <1>9

\* Nothing lost: a return leaves the contexts still suspended above each other.
LEMMA AlikeAbove ==
    ASSUME NEW c \in Context, NEW d, NEW r \in StackReg, Alike(d, c, r),
           NEW p \in [StackReg -> Level], NEW q \in [StackReg -> Level], Above(p, c),
           \A k \in StackReg : q[k].area = p[k].area,
           \A k \in StackReg : k # r => q[k].n = p[k].n,
           \/ q[r].n = p[r].n + 1
           \/ q[r].n = p[r].n /\ d.sp[r] = c.sp[r]
    PROVE  Above(q, d)
<1> SUFFICES ASSUME NEW k \in StackReg
             PROVE  q[k].area = d.sp[k].area /\ q[k].n >= Stacked(d)[k].n
  BY DEF Above
<1>1. p[k].area = c.sp[k].area /\ p[k].n >= Stacked(c)[k].n
  BY DEF Above
<1>2. q[k].area = d.sp[k].area
  BY <1>1 DEF Alike
<1>3. p[k].n \in Nat /\ q[k].n \in Nat /\ Stacked(c)[k].n \in Nat /\ Stacked(d)[k].n \in Nat
  BY StackedLevels DEF Level, Alike
<1>4. q[k].n >= Stacked(d)[k].n
  <2>1. CASE k # r
    BY <1>1, <2>1, AlikeFacts
  <2>2. CASE k = r
    <3>1. CASE d.sp[r] = c.sp[r]
      <4>1. Stacked(d)[r] = Stacked(c)[r]
        <5>1. c.sp[r].n \in Nat
          BY StackedLevels
        <5>2. d.sp[r].n # c.sp[r].n + 1
          BY <3>1, <5>1
        <5> QED BY <5>2, AlikeFacts
      <4>2. q[k].n = p[k].n + 1 \/ q[k].n = p[k].n
        BY <2>2
      <4> QED BY <1>1, <1>3, <2>2, <4>1, <4>2
    <3>2. CASE d.sp[r] # c.sp[r]
      <4>1. q[k].n = p[k].n + 1 /\ Stacked(d)[k].n = Stacked(c)[k].n + 1
        BY <2>2, <3>2, AlikeFacts
      <4> QED BY <1>1, <1>3, <4>1
    <3> QED BY <3>1, <3>2
  <2> QED BY <2>1, <2>2
<1> QED BY <1>2, <1>4

\* Exception return keeps the invariant.
LEMMA ReturnInv ==
    ASSUME IInv, TypeOK', ReturnByBx \/ ReturnByPop
    PROVE  StackInv' /\ LrInv' /\ ModeInv' /\ CallInv'
<1> DEFINE c == Last(ctx)
           N == Len(ctx)
<1>1. ~done /\ TypeOK /\ StackInv /\ LrInv /\ ModeInv /\ CallInv /\ CanReturn
  BY DEF ReturnByBx, ReturnByPop, CanReturn, IInv
<1>2. /\ ctx # << >>
      /\ lr' = c.lr /\ ipsr' = c.ipsr /\ mode' = c.mode /\ exc' = Front(exc)
      /\ UNCHANGED <<mem, tz, calls, spsel>>
      /\ \/ sp' = c.sp /\ ctx' = Front(ctx)
         \/ \E q \in StackReg : LeavesOn(q)
  BY ReturnExact
<1>3. N \in Nat /\ N > 0 /\ c = ctx[N] /\ c \in Context /\ exc # << >> /\ OwnStacks(c.sp)
  BY <1>1, <1>2, Innermost
<1>f. Front(ctx) \in Seq(Context) /\ Len(Front(ctx)) = N - 1
      /\ \A i \in 1 .. N - 1 : Front(ctx)[i] = ctx[i] /\ ctx[i] \in Context
  <2>1. \A i \in 1 .. N - 1 : i \in 1 .. N
    BY <1>3
  <2>2. ctx \in Seq(Context) /\ ctx # << >> /\ \A i \in 1 .. N : ctx[i] \in Context
    BY <1>1, <1>2 DEF TypeOK
  <2>3. Front(ctx) \in Seq(Context) /\ Len(Front(ctx)) = N - 1
        /\ \A i \in 1 .. N - 1 : Front(ctx)[i] = ctx[i]
    BY <2>2, FrontFacts
  <2> HIDE DEF c, N
  <2> QED BY <2>1, <2>2, <2>3
\* The stack that a slot stays on, any if none does.
<1>4. PICK k \in StackReg :
         /\ Len(ctx') = N - 1
         /\ \A i \in 1 .. N - 1 : Alike(ctx'[i], ctx[i], k)
         /\ \A i, j \in 1 .. N - 1 :
               i < j => \/ ctx'[i].sp[k] = ctx[i].sp[k]
                        \/ ctx'[j].sp[k].n = ctx[j].sp[k].n + 1
         /\ \A q \in StackReg : sp'[q].area = c.sp[q].area /\ (q # k => sp'[q].n = c.sp[q].n)
         /\ \/ sp'[k].n = c.sp[k].n + 1
            \/ /\ sp'[k].n = c.sp[k].n
               /\ \A i \in 1 .. N - 1 : ctx'[i] = ctx[i]
  <2>1. CASE sp' = c.sp /\ ctx' = Front(ctx)
    <3>1. "msp_s" \in StackReg
      BY DEF StackReg
    <3>2. \A i \in 1 .. N - 1 : Alike(ctx'[i], ctx[i], "msp_s")
      BY <1>f, <2>1 DEF Alike
    <3> HIDE DEF c, N
    <3> QED BY <1>f, <2>1, <3>1, <3>2
  <2>2. ASSUME NEW q \in StackReg, LeavesOn(q)
        PROVE  /\ Len(ctx') = N - 1
               /\ \A i \in 1 .. N - 1 : Alike(ctx'[i], ctx[i], q)
               /\ \A i, j \in 1 .. N - 1 :
                     i < j => \/ ctx'[i].sp[q] = ctx[i].sp[q]
                              \/ ctx'[j].sp[q].n = ctx[j].sp[q].n + 1
               /\ \A x \in StackReg :
                     sp'[x].area = c.sp[x].area /\ (x # q => sp'[x].n = c.sp[x].n)
               /\ sp'[q].n = c.sp[q].n + 1
    <3>1. /\ sp[q] = [c.sp[q] EXCEPT !.n = @ + 1]
          /\ sp' = [c.sp EXCEPT ![q] = sp[q]]
          /\ ctx' = WithLeft(Front(ctx), q)
      BY <2>2 DEF LeavesOn
    <3>2. c.sp \in [StackReg -> Level]
      BY <1>3 DEF Context
    <3> HIDE DEF c, N
    <3>3. /\ \A x \in StackReg :
               sp'[x].area = c.sp[x].area /\ (x # q => sp'[x].n = c.sp[x].n)
          /\ sp'[q].n = c.sp[q].n + 1
      BY <3>1, <3>2 DEF Level
    <3>4. /\ Len(ctx') = N - 1
          /\ \A i \in 1 .. N - 1 : Alike(ctx'[i], Front(ctx)[i], q)
          /\ \A i, j \in 1 .. N - 1 :
                i < j => \/ ctx'[i].sp[q] = Front(ctx)[i].sp[q]
                         \/ ctx'[j].sp[q].n = Front(ctx)[j].sp[q].n + 1
      <4> DEFINE f == Front(ctx)
      <4>1. f \in Seq(Context) /\ Len(f) = N - 1 /\ ctx' = WithLeft(f, q)
        BY <1>f, <3>1
      <4>2. /\ Len(WithLeft(f, q)) = Len(f)
            /\ \A i \in 1 .. Len(f) : Alike(WithLeft(f, q)[i], f[i], q)
            /\ \A i, j \in 1 .. Len(f) :
                  i < j => \/ WithLeft(f, q)[i].sp[q] = f[i].sp[q]
                           \/ WithLeft(f, q)[j].sp[q].n = f[j].sp[q].n + 1
        BY <4>1, LeftFacts
      <4> HIDE DEF f
      <4> QED BY <4>1, <4>2 DEF f
    <3> QED BY <1>f, <3>3, <3>4
  <2> QED BY <1>2, <2>1, <2>2
<1>5. Len(exc') = N - 1 /\ \A i \in 1 .. N - 1 : exc'[i] = exc[i]
  <2>1. exc \in Seq(ExcRecord) /\ Len(exc) = N
    BY <1>1 DEF TypeOK, StackInv
  <2> QED BY <1>2, <1>3, <2>1, FrontFacts
<1>6. ctx' = << >> <=> N = 1
  <2>1. ctx' \in Seq(Context)
    BY DEF TypeOK
  <2> QED BY <1>3, <1>4, <2>1
<1>s. sp' \in [StackReg -> Level] /\ c.sp \in [StackReg -> Level]
  BY <1>3, LimitsAssumption DEF TypeOK, Addr, Level, Context
<1> HIDE DEF c, N
<1>a. ASSUME NEW i \in 1 .. N - 1
      PROVE  /\ ctx[i] \in Context /\ Alike(ctx'[i], ctx[i], k) /\ i \in 1 .. N
             /\ ctx'[i].lr = ctx[i].lr /\ ctx'[i].mode = ctx[i].mode
             /\ ctx'[i].ipsr = ctx[i].ipsr /\ ctx'[i].spsel = ctx[i].spsel
             /\ ExcReturnOf(ctx'[i]) = ExcReturnOf(ctx[i])
  <2>1. ctx[i] \in Context /\ Alike(ctx'[i], ctx[i], k) /\ i \in 1 .. N
    BY <1>3, <1>4, <1>f
  <2>2. ExcReturnOf(ctx'[i]) = ExcReturnOf(ctx[i])
    BY <2>1, AlikeFacts
  <2> QED BY <2>1, <2>2 DEF Alike
<1>7. StackInv'
  <2>1. Len(exc') = Len(ctx') /\ Len(ctx') <= MaxNest
    BY <1>1, <1>3, <1>4, <1>5, LimitsAssumption DEF StackInv, N
  <2>2. ASSUME NEW i \in 1 .. N - 1
        PROVE  Recorded(mem', exc'[i], ctx'[i]) /\ OwnStacks(ctx'[i].sp) /\ Above(sp', ctx'[i])
    <3>1. i \in 1 .. N /\ N \in 1 .. N /\ i < N /\ exc'[i] = exc[i]
      BY <1>3, <1>5
    <3>2. Recorded(mem, exc[i], ctx[i]) /\ OwnStacks(ctx[i].sp) /\ Above(c.sp, ctx[i])
      BY <1>1, <1>3, <3>1 DEF StackInv, N
    <3>3. Recorded(mem', exc'[i], ctx'[i]) /\ OwnStacks(ctx'[i].sp)
      BY <1>2, <1>a, <3>1, <3>2, AlikeFacts
    <3>4. sp'[k].n = c.sp[k].n + 1 \/ (sp'[k].n = c.sp[k].n /\ ctx'[i].sp[k] = ctx[i].sp[k])
      BY <1>4
    <3>5. Above(sp', ctx'[i])
      BY <1>4, <1>a, <1>s, <3>2, <3>4, AlikeAbove
    <3> QED BY <3>3, <3>5
  <2>3. ASSUME NEW i \in 1 .. N - 1, NEW j \in 1 .. N - 1, i < j
        PROVE  Above(ctx'[j].sp, ctx'[i])
    <3>1. Above(ctx[j].sp, ctx[i])
      BY <1>1, <1>a, <2>3 DEF StackInv, N
    <3>2. /\ ctx[j].sp \in [StackReg -> Level] /\ ctx'[j].sp \in [StackReg -> Level]
          /\ \A q \in StackReg : ctx'[j].sp[q].area = ctx[j].sp[q].area
          /\ \A q \in StackReg : q # k => ctx'[j].sp[q].n = ctx[j].sp[q].n
          /\ ctx'[j].sp[k].n = ctx[j].sp[k].n + 1 \/ ctx'[j].sp[k].n = ctx[j].sp[k].n
      BY <1>a DEF Alike, Context
    <3>3. ctx'[i].sp[k] = ctx[i].sp[k] \/ ctx'[j].sp[k].n = ctx[j].sp[k].n + 1
      BY <1>4, <2>3
    <3> QED BY <1>a, <3>1, <3>2, <3>3, AlikeAbove
  <2>4. OwnStacks(sp')
    BY <1>3, <1>4 DEF OwnStacks
  <2> QED BY <1>4, <2>1, <2>2, <2>3, <2>4 DEF StackInv
<1>8. LrInv'
  <2>1. ASSUME ctx' # << >>, lr' \in ExcReturn PROVE lr' = ExcReturnOf(Last(ctx'))
    <3>1. N \in 2 .. N /\ N - 1 \in 1 .. N - 1 /\ Last(ctx') = ctx'[N - 1]
      BY <1>3, <1>4, <1>6, <2>1 DEF Last
    <3>2. ctx[N].lr \in ExcReturn => ctx[N].lr = ExcReturnOf(ctx[N - 1])
      BY <1>1, <3>1 DEF LrInv, N
    <3> QED BY <1>2, <1>3, <1>a, <2>1, <3>1, <3>2
  <2>2. ASSUME NEW i \in 2 .. Len(ctx'), ctx'[i].lr \in ExcReturn
        PROVE  ctx'[i].lr = ExcReturnOf(ctx'[i - 1])
    <3>1. i \in 2 .. N /\ i \in 1 .. N - 1 /\ i - 1 \in 1 .. N - 1
      BY <1>3, <1>4
    <3>2. ctx[i].lr \in ExcReturn => ctx[i].lr = ExcReturnOf(ctx[i - 1])
      BY <1>1, <3>1 DEF LrInv, N
    <3> QED BY <1>a, <2>2, <3>1, <3>2
  <2> QED BY <2>1, <2>2 DEF LrInv
<1>9. ModeInv'
  <2>1. N \in 1 .. N
    BY <1>3
  <2>2. (c.mode = "Thread" <=> N = 1) /\ (c.ipsr = "None" <=> N = 1)
    BY <1>1, <1>3, <2>1 DEF ModeInv, N
  <2>3. c.mode \in {"Thread", "Handler"}
    BY <1>3 DEF Context, Mode
  <2>4. ASSUME NEW i \in 1 .. Len(ctx')
        PROVE  /\ ctx'[i].mode = "Thread" <=> i = 1
               /\ ctx'[i].ipsr = "None" <=> i = 1
               /\ ctx'[i].spsel = spsel'
    <3>1. i \in 1 .. N - 1
      BY <1>4
    <3>2. /\ ctx[i].mode = "Thread" <=> i = 1
          /\ ctx[i].ipsr = "None" <=> i = 1
          /\ ctx[i].spsel = spsel
      BY <1>1, <1>a, <3>1 DEF ModeInv, N
    <3> QED BY <1>2, <1>a, <3>1, <3>2
  <2> QED BY <1>2, <1>6, <2>2, <2>3, <2>4 DEF ModeInv
<1>10. CallInv'
  <2>1. ASSUME NEW i \in 1 .. Len(calls) PROVE calls[i].nest <= Len(ctx')
    <3> DEFINE K == Len(calls)
    <3>1. K \in Nat /\ K \in 1 .. K /\ calls # << >> /\ Last(calls) = calls[K]
      BY <1>1 DEF TypeOK, Last
    <3>2. calls[i] \in CallRecord /\ calls[K] \in CallRecord
      BY <1>1, <3>1 DEF TypeOK
    <3>3. calls[i].nest \in Nat /\ calls[K].nest \in Nat
      BY <3>2 DEF CallRecord
    <3>4. calls[K].nest < N
      BY <1>1, <3>1 DEF CanReturn, N
    <3>5. i = K \/ calls[i].nest <= calls[K].nest
      BY <1>1, <3>1 DEF CallInv
    <3> HIDE DEF K
    <3> QED BY <1>3, <1>4, <3>3, <3>4, <3>5
  <2> QED BY <1>1, <1>2, <2>1 DEF CallInv
<1> QED BY <1>7, <1>8, <1>9, <1>10

\* PUSH keeps the stack part of the invariant.
LEMMA PushInv ==
    ASSUME IInv, Push, ~done'
    PROVE  StackInv'
<1> DEFINE r == ActiveReg
<1>1. ~done /\ TypeOK /\ StackInv /\ ~Halt
  BY DEF Push, IInv, Halt
<1>2. r \in StackReg /\ sp[r] \in Addr
  BY <1>1, ActiveType
<1>3. /\ CanWrite(sp[r])
      /\ mem' = [mem EXCEPT ![sp[r].area][sp[r].n + 1] = Data]
      /\ sp' = [sp EXCEPT ![r].n = @ + 1]
      /\ UNCHANGED <<exc, ctx>>
  BY <1>1 DEF Push
<1>4. TypeOK'
  BY TypeStep DEF IInv, Next
<1> HIDE DEF r
<1>5. sp[r].area = r /\ sp[r].n < Cap
  BY <1>1, <1>2, <1>3 DEF CanWrite, StackInv, OwnStacks, Unset, StackReg
<1>6. \A q \in StackReg : sp'[q].area = sp[q].area /\ sp'[q].n >= sp[q].n
  <2>1. sp \in [StackReg -> Addr]
    BY <1>1 DEF TypeOK
  <2>2. \A q \in StackReg : sp[q].n \in Nat
    BY <2>1, LimitsAssumption DEF Addr
  <2>3. sp'[r].area = sp[r].area /\ sp'[r].n = sp[r].n + 1
    BY <1>2, <1>3, <2>1 DEF Addr
  <2>4. \A q \in StackReg : q # r => sp'[q] = sp[q]
    BY <1>2, <1>3, <2>1
  <2> QED BY <2>2, <2>3, <2>4
<1>7. Data \in Slot
  BY DEF Data, Slot, CodeAddr, Lr, IPSR
<1>8. OwnStacks(sp')
  BY <1>1, <1>6 DEF StackInv, OwnStacks
<1>9. ASSUME NEW i \in 1 .. Len(ctx)
      PROVE  Recorded(mem', exc[i], ctx[i]) /\ Above(sp', ctx[i])
  <2>1. ctx[i] \in Context
    BY <1>1 DEF TypeOK
  <2>2. Recorded(mem, exc[i], ctx[i]) /\ Above(sp, ctx[i])
    BY <1>1 DEF StackInv
  <2>3. sp \in [StackReg -> Addr] /\ sp' \in [StackReg -> Addr]
          /\ mem \in [StackReg -> [1 .. Cap -> Slot]]
    BY <1>1, <1>4 DEF TypeOK
  <2>4. Recorded(mem', exc[i], ctx[i])
    BY <1>2, <1>3, <1>5, <1>7, <2>1, <2>2, <2>3, FrameSurvives
  <2>5. Above(sp', ctx[i])
    BY <1>6, <2>1, <2>2, <2>3, AboveMono, AddrLevel
  <2> QED BY <2>4, <2>5
<1> QED BY <1>1, <1>3, <1>8, <1>9 DEF StackInv

\* POP keeps the stack part of the invariant.
LEMMA PopInv ==
    ASSUME IInv, Pop
    PROVE  StackInv'
<1> DEFINE r == ActiveReg
           N == Len(ctx)
<1>1. ~done /\ TypeOK /\ StackInv
  BY DEF Pop, IInv
<1>2. r \in StackReg /\ sp[r] \in Addr
  BY <1>1, ActiveType
<1>3. /\ sp[r].n > (IF ctx = << >> THEN 0 ELSE Stacked(Last(ctx))[r].n)
      /\ sp' = [sp EXCEPT ![r].n = @ - 1]
      /\ UNCHANGED <<mem, exc, ctx>>
  BY DEF Pop
<1>4. TypeOK'
  BY TypeStep DEF IInv, Next
<1>5. sp \in [StackReg -> Addr] /\ sp' \in [StackReg -> Addr]
  BY <1>1, <1>4 DEF TypeOK
<1> HIDE DEF r
<1>6. sp'[r].area = sp[r].area /\ sp'[r].n = sp[r].n - 1 /\ sp[r].n \in Nat
  BY <1>2, <1>3, <1>5, LimitsAssumption DEF Addr
<1>7. \A q \in StackReg : q # r => sp'[q] = sp[q]
  BY <1>2, <1>3, <1>5
<1>8. OwnStacks(sp')
  BY <1>1, <1>2, <1>6, <1>7 DEF StackInv, OwnStacks
<1>9. ASSUME NEW i \in 1 .. N
      PROVE  Above(sp', ctx[i])
  <2>1. ctx # << >> /\ ctx \in Seq(Context) /\ N \in Nat
    BY <1>1 DEF TypeOK
  <2>2. Last(ctx) \in Context /\ Last(ctx) = ctx[N] /\ Above(sp, Last(ctx))
    BY <1>1, <2>1, Innermost
  <2>3. Above(sp', Last(ctx))
    <3> SUFFICES ASSUME NEW q \in StackReg
                 PROVE  sp'[q].area = Last(ctx).sp[q].area /\ sp'[q].n >= Stacked(Last(ctx))[q].n
      BY DEF Above
    <3>1. CASE q = r
      <4>1. sp[r].n > Stacked(Last(ctx))[r].n /\ Stacked(Last(ctx))[r].n \in Nat
        BY <1>2, <1>3, <2>1, <2>2, StackedLevels
      <4>2. sp[r].area = Last(ctx).sp[r].area
        BY <1>2, <2>2 DEF Above
      <4> QED BY <1>6, <3>1, <4>1, <4>2
    <3>2. CASE q # r
      BY <1>7, <2>2, <3>2 DEF Above
    <3> QED BY <3>1, <3>2
  <2>4. CASE i = N
    BY <2>2, <2>3, <2>4
  <2>5. CASE i # N
    <3>1. i < N /\ N \in 1 .. N
      BY <2>1, <2>5
    <3>2. Above(ctx[N].sp, ctx[i]) /\ ctx[i] \in Context
      BY <1>1, <2>1, <3>1 DEF StackInv
    <3> QED BY <1>5, <2>2, <2>3, <3>2, AboveTrans, AddrLevel
  <2> QED BY <2>4, <2>5
<1> QED BY <1>1, <1>3, <1>8, <1>9 DEF StackInv

\* Steps that leave a part of the state leave the invariant's part about it.
LEMMA KeepStack == ASSUME StackInv, UNCHANGED <<sp, mem, exc, ctx>> PROVE StackInv'
  BY DEF StackInv

\* The same for the mode part: CONTROL, mode and IPSR are untouched.
LEMMA KeepMode == ASSUME ModeInv, UNCHANGED <<mode, ipsr, spsel, ctx>> PROVE ModeInv'
  BY DEF ModeInv

\* The same for the part about Non-secure calls.
LEMMA KeepCall == ASSUME CallInv, UNCHANGED <<tz, calls, ctx>> PROVE CallInv'
  BY DEF CallInv

\* The same for LR, also when a code address or the sentinel is written to it.
LEMMA KeepLr == ASSUME LrInv, UNCHANGED ctx, lr' = lr \/ lr' \notin ExcReturn PROVE LrInv'
  BY DEF LrInv

\* Code addresses are not EXC_RETURN values.
LEMMA CodeIsNotExcReturn == \A p \in CodeAddr : p \notin ExcReturn
  BY PcAssumption DEF CodeAddr, ExcReturn, Wild

\* No deeper nesting than MM_EXC_STACK_MAX and no more calls than
\* MM_TZ_STACK_MAX: beyond them the code drops the record of an entry or call.
Disciplined == MaxNest <= ExcStackMax /\ MaxCalls <= TzStackMax

\* A BLXNS keeps the call part of the invariant.
LEMMA CallStep ==
    ASSUME IInv, ~done, MaxCalls <= TzStackMax,
           NEW p \in Pc, NEW ret \in Pc, CallNonSecure(p, ret)
    PROVE  CallInv'
<1> DEFINE K == Len(calls)
           x == [pc |-> ret, sec |-> sec, mode |-> mode]
           y == [pc |-> ret, sec |-> sec, mode |-> mode, nest |-> Len(ctx)]
<1>1. TypeOK /\ CallInv /\ ModeInv
  BY DEF IInv
<1>2. K \in Nat /\ Len(tz) = K /\ K < MaxCalls /\ Len(ctx) \in Nat
  BY <1>1 DEF CallNonSecure, CallInv, TypeOK
<1>3. tz' = Append(tz, x) /\ calls' = Append(calls, y) /\ ctx' = ctx
  BY <1>2, LimitsAssumption DEF CallNonSecure
<1>4. tz \in Seq(TzRecord) /\ calls \in Seq(CallRecord)
  BY <1>1 DEF TypeOK
<1>6. mode = "Thread" <=> Len(ctx) = 0
  BY <1>1 DEF ModeInv, TypeOK, Mode
<1>7. /\ y.pc = ret /\ y.sec = sec /\ y.mode = mode /\ y.nest = Len(ctx)
      /\ x = [pc |-> y.pc, sec |-> y.sec, mode |-> y.mode]
  OBVIOUS
<1> HIDE DEF K, x, y
<1>8. Len(tz') = K + 1 /\ tz'[K + 1] = x /\ \A i \in 1 .. K : tz'[i] = tz[i]
  <2>1. /\ Len(tz') = Len(tz) + 1 /\ tz'[Len(tz) + 1] = x
        /\ \A i \in 1 .. Len(tz) : tz'[i] = tz[i]
    BY <1>3, <1>4
  <2> QED BY <1>2, <2>1
<1>9. Len(calls') = K + 1 /\ calls'[K + 1] = y /\ \A i \in 1 .. K : calls'[i] = calls[i]
  BY <1>3, <1>4 DEF K
<1>10. ASSUME NEW i \in 1 .. Len(calls')
       PROVE  /\ tz'[i] = [pc |-> calls'[i].pc, sec |-> calls'[i].sec, mode |-> calls'[i].mode]
              /\ calls'[i].nest <= Len(ctx')
              /\ calls'[i].mode = "Thread" <=> calls'[i].nest = 0
  <2>1. CASE i \in 1 .. K
    BY <1>1, <1>3, <1>8, <1>9, <2>1 DEF CallInv, K
  <2>2. CASE i = K + 1
    BY <1>2, <1>3, <1>6, <1>7, <1>8, <1>9, <2>2
  <2> QED BY <1>2, <1>9, <2>1, <2>2
<1>11. ASSUME NEW i \in 1 .. Len(calls'), NEW j \in 1 .. Len(calls'), i < j
       PROVE  calls'[i].nest <= calls'[j].nest
  <2>1. i \in 1 .. K
    BY <1>2, <1>9, <1>11
  <2>2. CASE j \in 1 .. K
    BY <1>1, <1>9, <1>11, <2>1, <2>2 DEF CallInv, K
  <2>3. CASE j = K + 1
    BY <1>1, <1>7, <1>9, <2>1, <2>3 DEF CallInv, K
  <2> QED BY <1>2, <1>9, <2>2, <2>3
<1>12. Len(tz') = Len(calls') /\ Len(calls') <= MaxCalls
  BY <1>2, <1>8, <1>9, LimitsAssumption
<1> QED BY <1>10, <1>11, <1>12 DEF CallInv

\* The BX LR that ends a Non-secure call: it resumes the innermost call.
LEMMA NsReturnFacts ==
    ASSUME IInv, ReturnFromNonSecure
    PROVE  /\ calls # << >> /\ tz # << >>
           /\ Last(tz).pc = Last(calls).pc /\ Last(tz).sec = Last(calls).sec
           /\ Last(tz).mode = Last(calls).mode
           /\ pc' = Last(calls).pc /\ lr' = Last(calls).pc
           /\ sec' = Last(calls).sec /\ mode' = Last(calls).mode /\ mode' = mode
           /\ tz' = Front(tz) /\ calls' = Front(calls)
           /\ UNCHANGED <<ipsr, spsel, sp, mem, exc, done, ctx>>
<1>1. ~done /\ TypeOK /\ CallInv /\ ModeInv /\ calls # << >>
  BY DEF ReturnFromNonSecure, IInv
<1> DEFINE K == Len(calls)
<1>2. K \in Nat /\ K > 0 /\ K \in 1 .. K /\ Last(calls) = calls[K] /\ Last(calls) \in CallRecord
  BY <1>1, FrontFacts DEF TypeOK, Last
<1>3. tz # << >> /\ Last(tz) = tz[K]
  BY <1>1, <1>2 DEF CallInv, TypeOK, Last
<1>4. tz[K] = [pc |-> calls[K].pc, sec |-> calls[K].sec, mode |-> calls[K].mode]
  BY <1>1, <1>2 DEF CallInv
<1>5. mode = Last(calls).mode
  <2>1. Last(calls).mode = "Thread" <=> Last(calls).nest = 0
    BY <1>1, <1>2 DEF CallInv
  <2>2. Last(calls).nest = Len(ctx)
    BY DEF ReturnFromNonSecure
  <2>3. mode = "Thread" <=> Len(ctx) = 0
    BY <1>1 DEF ModeInv, TypeOK, Mode
  <2>4. mode \in {"Thread", "Handler"} /\ Last(calls).mode \in {"Thread", "Handler"}
    BY <1>1, <1>2 DEF TypeOK, CallRecord, Mode
  <2> QED BY <2>1, <2>2, <2>3, <2>4
<1> QED BY <1>1, <1>2, <1>3, <1>4, <1>5 DEF ReturnFromNonSecure

\* It keeps the call part of the invariant.
LEMMA NsReturnStep ==
    ASSUME IInv, ReturnFromNonSecure
    PROVE  CallInv'
<1>1. ~done /\ TypeOK /\ CallInv
  BY DEF ReturnFromNonSecure, IInv
<1>2. calls # << >> /\ tz # << >> /\ tz' = Front(tz) /\ calls' = Front(calls) /\ ctx' = ctx
  BY NsReturnFacts
<1>3. /\ Len(calls) \in Nat /\ Len(tz) = Len(calls)
      /\ Len(calls') = Len(calls) - 1 /\ \A i \in 1 .. Len(calls) - 1 : calls'[i] = calls[i]
  BY <1>1, <1>2, FrontFacts DEF TypeOK, CallInv
<1>4. Len(tz') = Len(tz) - 1 /\ \A i \in 1 .. Len(tz) - 1 : tz'[i] = tz[i]
  BY <1>1, <1>2, FrontFacts DEF TypeOK
<1>5. Len(tz') = Len(calls') /\ Len(calls') <= MaxCalls
  BY <1>1, <1>3, <1>4, LimitsAssumption DEF CallInv
<1>6. \A i \in 1 .. Len(calls') : i \in 1 .. Len(calls) /\ calls'[i] = calls[i] /\ tz'[i] = tz[i]
  BY <1>3, <1>4
<1>7. ASSUME NEW i \in 1 .. Len(calls')
      PROVE  /\ tz'[i] = [pc |-> calls'[i].pc, sec |-> calls'[i].sec, mode |-> calls'[i].mode]
             /\ calls'[i].nest <= Len(ctx')
             /\ calls'[i].mode = "Thread" <=> calls'[i].nest = 0
  BY <1>1, <1>2, <1>6 DEF CallInv
<1>8. \A i, j \in 1 .. Len(calls') : i < j => calls'[i].nest <= calls'[j].nest
  BY <1>1, <1>6 DEF CallInv
<1> QED BY <1>5, <1>7, <1>8 DEF CallInv

\* Every step keeps the invariant.
LEMMA InvStep ==
    ASSUME Disciplined, IInv, [Next]_vars
    PROVE  IInv'
<1>t. TypeOK'
  BY TypeStep DEF IInv
<1> SUFFICES ASSUME ~done' PROVE StackInv' /\ LrInv' /\ ModeInv' /\ CallInv'
  BY <1>t DEF IInv
<1>h. ~Halt
  BY DEF Halt
<1>k. TypeOK /\ (~done => StackInv /\ LrInv /\ ModeInv /\ CallInv)
  BY DEF IInv
<1>c. /\ \A p \in Pc : p \in CodeAddr /\ p \notin ExcReturn
      /\ Sentinel \notin ExcReturn
  BY CodeIsNotExcReturn DEF CodeAddr, Sentinel, ExcReturn
<1>d. MaxNest <= ExcStackMax /\ MaxCalls <= TzStackMax
  BY DEF Disciplined
<1>0. CASE UNCHANGED vars
  <2>1. ~done /\ UNCHANGED <<mode, ipsr, lr, spsel, sp, mem, exc, tz, ctx, calls>>
    BY <1>0 DEF vars
  <2> QED BY <1>k, <2>1, KeepStack, KeepLr, KeepMode, KeepCall
<1>1. CASE TakeSystemException
  <2>1. PICK e \in {"SysTick", "PendSV"} : EnterException(e, sec, pc, FALSE)
    BY <1>1 DEF TakeSystemException
  <2>2. e \in Exc /\ sec \in Sec /\ pc \in CodeAddr
    BY <1>k DEF Exc, Async, TypeOK
  <2> QED BY <1>d, <2>1, <2>2, EnterInv
<1>2. ASSUME NEW hs \in Sec, TakeInterrupt(hs) PROVE StackInv' /\ LrInv' /\ ModeInv' /\ CallInv'
  <2>1. "Irq" \in Exc /\ pc \in CodeAddr
    BY <1>k DEF Exc, Async, TypeOK
  <2> QED BY <1>2, <1>d, <2>1, EnterInv DEF TakeInterrupt
<1>3. ASSUME NEW p \in Pc, SupervisorCall(p) PROVE StackInv' /\ LrInv' /\ ModeInv' /\ CallInv'
  <2>1. "SVCall" \in Exc /\ sec \in Sec /\ p \in CodeAddr
    BY <1>c, <1>k DEF Exc, TypeOK
  <2> QED BY <1>3, <1>d, <2>1, EnterInv DEF SupervisorCall
<1>4. CASE UsageFault
  <2>1. "UsageFault" \in Exc /\ sec \in Sec /\ pc \in CodeAddr
    BY <1>k DEF Exc, Fault, TypeOK
  <2>2. EnterException("UsageFault", sec, pc, FALSE)
    BY <1>4, <1>h DEF UsageFault
  <2> QED BY <1>d, <2>1, <2>2, EnterInv
<1>5. ASSUME NEW e \in Fault \ {"UsageFault"}, MemFault(e)
      PROVE  StackInv' /\ LrInv' /\ ModeInv' /\ CallInv'
  <2>1. e \in Exc /\ sec \in Sec /\ pc \in CodeAddr /\ QuitOnFaults \in BOOLEAN
    BY <1>k, OptionsAssumption DEF Exc, TypeOK
  <2> QED BY <1>5, <1>d, <2>1, EnterInv DEF MemFault, RaiseHardFault
<1>6. CASE ReturnByBx \/ ReturnByPop
  BY <1>6, <1>t, ReturnInv
<1>7. ASSUME NEW p \in Pc, Execute(p) \/ BranchLink(p) \/ BranchNonSecure(p)
      PROVE  StackInv' /\ LrInv' /\ ModeInv' /\ CallInv'
  <2>1. /\ ~done /\ UNCHANGED <<mode, ipsr, spsel, sp, mem, exc, tz, ctx, calls>>
        /\ lr' = lr \/ lr' \notin ExcReturn
    BY <1>7, <1>c DEF Execute, BranchLink, BranchNonSecure
  <2> QED BY <1>k, <2>1, KeepStack, KeepLr, KeepMode, KeepCall
<1>8. CASE ReloadLr
  <2>1. ~done /\ UNCHANGED <<mode, ipsr, spsel, sp, mem, exc, tz, ctx, calls>>
          /\ lr' = ExcReturnOf(Last(ctx))
    BY <1>8 DEF ReloadLr
  <2>2. LrInv'
    BY <1>k, <2>1 DEF LrInv
  <2> QED BY <1>k, <2>1, <2>2, KeepStack, KeepMode, KeepCall
<1>9. CASE Push
  <2>1. ~done /\ UNCHANGED <<mode, ipsr, lr, spsel, exc, tz, ctx, calls>>
    BY <1>9, <1>h DEF Push
  <2> QED BY <1>9, <1>k, <2>1, PushInv, KeepLr, KeepMode, KeepCall
<1>10. CASE Pop
  <2>1. ~done /\ UNCHANGED <<mode, ipsr, lr, spsel, exc, tz, ctx, calls>>
    BY <1>10 DEF Pop
  <2> QED BY <1>10, <1>k, <2>1, PopInv, KeepLr, KeepMode, KeepCall
<1>11. ASSUME NEW r \in StackReg, WriteStackPointer(r)
       PROVE  StackInv' /\ LrInv' /\ ModeInv' /\ CallInv'
  <2>1. /\ ~done /\ ctx = << >> /\ UNCHANGED <<mode, ipsr, lr, spsel, exc, tz, ctx, calls>>
        /\ sp' = [sp EXCEPT ![r] = [area |-> r, n |-> 0]]
    BY <1>11 DEF WriteStackPointer
  <2>2. OwnStacks(sp')
    BY <1>k, <2>1 DEF StackInv, OwnStacks, TypeOK
  <2>3. StackInv'
    BY <1>k, <2>1, <2>2 DEF StackInv
  <2> QED BY <1>k, <2>1, <2>3, KeepLr, KeepMode, KeepCall
<1>12. ASSUME NEW s \in Sec, NEW v \in BOOLEAN, WriteControl(s, v)
       PROVE  StackInv' /\ LrInv' /\ ModeInv' /\ CallInv'
  <2>1. ~done /\ ctx = << >> /\ UNCHANGED <<mode, ipsr, lr, sp, mem, exc, tz, ctx, calls>>
    BY <1>12 DEF WriteControl
  <2>2. ModeInv'
    BY <1>k, <2>1 DEF ModeInv
  <2> QED BY <1>k, <2>1, <2>2, KeepStack, KeepLr, KeepCall
<1>13. CASE SecureGateway
  <2>1. ~done /\ UNCHANGED <<mode, ipsr, lr, spsel, sp, mem, exc, tz, ctx, calls>>
    BY <1>13 DEF SecureGateway
  <2> QED BY <1>k, <2>1, KeepStack, KeepLr, KeepMode, KeepCall
<1>14. ASSUME NEW p \in Pc, NEW ret \in Pc, CallNonSecure(p, ret)
       PROVE  StackInv' /\ LrInv' /\ ModeInv' /\ CallInv'
  <2>1. ~done /\ UNCHANGED <<mode, ipsr, spsel, sp, mem, exc, ctx>> /\ lr' = Sentinel
    BY <1>14 DEF CallNonSecure
  <2> QED BY <1>14, <1>c, <1>d, <1>k, <2>1, CallStep, KeepStack, KeepLr, KeepMode
<1>15. CASE ReturnFromNonSecure
  <2>1. ~done
    BY <1>15 DEF ReturnFromNonSecure
  <2>2. /\ UNCHANGED <<mode, ipsr, spsel, sp, mem, exc, ctx>>
        /\ lr' = Last(calls).pc /\ calls # << >>
    BY <1>15, NsReturnFacts
  <2>3. lr' \notin ExcReturn
    <3>1. Last(calls) \in CallRecord
      BY <1>k, <2>2, FrontFacts DEF TypeOK
    <3> QED BY <2>2, <3>1, CodeIsNotExcReturn DEF CallRecord
  <2> QED BY <1>15, <1>k, <2>1, <2>2, <2>3, NsReturnStep, KeepStack, KeepLr, KeepMode
<1>16. CASE ResetTarget
  <2>1. /\ exc' = << >> /\ tz' = << >> /\ ctx' = << >> /\ calls' = << >>
        /\ mode' = "Thread" /\ ipsr' = "None"
        /\ sp' = [r \in StackReg |-> IF r = "msp_s" THEN [area |-> r, n |-> 0] ELSE Null]
    BY <1>16 DEF ResetTarget, ResetState
  <2>2. OwnStacks(sp')
    BY <2>1 DEF OwnStacks, Null
  <2>3. StackInv'
    BY <2>1, <2>2, LimitsAssumption DEF StackInv
  <2>4. LrInv' /\ ModeInv'
    BY <2>1 DEF LrInv, ModeInv
  <2>5. CallInv'
    BY <2>1, LimitsAssumption DEF CallInv
  <2> QED BY <2>3, <2>4, <2>5
<1> QED BY <1>0, <1>1, <1>2, <1>3, <1>4, <1>5, <1>6, <1>7, <1>8, <1>9, <1>10, <1>11,
           <1>12, <1>13, <1>14, <1>15, <1>16 DEF Next

\* The invariant holds of the reset state.
LEMMA InvInit == Init => IInv
<1> SUFFICES ASSUME Init PROVE IInv
  OBVIOUS
<1>1. TypeOK
  BY InitType
<1>2. /\ exc = << >> /\ tz = << >> /\ ctx = << >> /\ calls = << >>
      /\ mode = "Thread" /\ ipsr = "None"
      /\ sp = [r \in StackReg |-> IF r = "msp_s" THEN [area |-> r, n |-> 0] ELSE Null]
  BY DEF Init
<1>3. OwnStacks(sp)
  BY <1>2 DEF OwnStacks, Null
<1>4. StackInv
  BY <1>2, <1>3, LimitsAssumption DEF StackInv
<1>5. LrInv /\ ModeInv
  BY <1>2 DEF LrInv, ModeInv
<1>6. CallInv
  BY <1>2, LimitsAssumption DEF CallInv
<1> QED BY <1>1, <1>4, <1>5, <1>6 DEF IInv

\* The invariant holds throughout.
LEMMA Invariance == ASSUME Disciplined PROVE Spec => []IInv
<1>1. Init => IInv
  BY InvInit
<1>2. IInv /\ [Next]_vars => IInv'
  BY InvStep
<1> QED BY <1>1, <1>2, PTL DEF Spec

-----------------------------------------------------------------------------
(* Theorems.                                                               *)

\* The frames of all suspended activations stay intact, and exc_sp[] points at
\* them, however deep the nesting and whatever the handlers push.
THEOREM FramesCorrect == ASSUME Disciplined PROVE Spec => []FramesIntact
<1>1. ASSUME IInv PROVE FramesIntact
  <2> SUFFICES ASSUME ~done
               PROVE  /\ Len(exc) = Len(ctx)
                      /\ \A i \in 1 .. Len(ctx) :
                            LET top == Stacked(ctx[i])[EntryReg(ctx[i])]
                            IN  /\ exc[i] = [sp |-> top, sec |-> ctx[i].sec]
                                /\ top.area \in StackReg /\ top.n \in 1 .. Cap
                                /\ mem[top.area][top.n] = FrameOf(ctx[i])
    BY DEF FramesIntact
  <2>1. StackInv /\ TypeOK
    BY <1>1 DEF IInv
  <2>2. ASSUME NEW i \in 1 .. Len(ctx)
        PROVE  LET top == Stacked(ctx[i])[EntryReg(ctx[i])]
               IN  /\ exc[i] = [sp |-> top, sec |-> ctx[i].sec]
                   /\ top.area \in StackReg /\ top.n \in 1 .. Cap
                   /\ mem[top.area][top.n] = FrameOf(ctx[i])
    <3>1. Recorded(mem, exc[i], ctx[i])
      BY <2>1 DEF StackInv
    <3>2. ctx[i] \in Context
      BY <2>1 DEF TypeOK
    <3>3. EntryReg(ctx[i]) \in StackReg
      BY <3>2, EntryType
    <3> QED BY <3>1, <3>3 DEF Recorded
  <2> QED BY <2>1, <2>2 DEF StackInv
<1> QED BY <1>1, Invariance, PTL

\* Handler mode and a nonzero IPSR mean exactly that an activation is suspended.
THEOREM HandlerIffNestedCorrect == ASSUME Disciplined PROVE Spec => []HandlerIffNested
<1>1. IInv => HandlerIffNested
  BY DEF IInv, ModeInv, HandlerIffNested
<1> QED BY <1>1, Invariance, PTL

\* What a step does to the suspended activations and to the outstanding calls:
\* one entry or one return, or neither, or a reset.
LEMMA StepKinds ==
    ASSUME Disciplined, IInv, Next
    PROVE  \/ ResetTarget
           \/ ReturnFromNonSecure
           \/ /\ ReturnByBx \/ ReturnByPop
              /\ calls' = calls
           \/ /\ \E p \in CodeAddr : ctx' = Append(ctx, Suspend(p))
              /\ calls' = calls
           \/ /\ ctx' = ctx
              /\ calls' = calls \/ \E x \in CallRecord : calls' = Append(calls, x)
<1>k. TypeOK
  BY DEF IInv
<1>p. pc \in CodeAddr /\ \A p \in Pc : p \in CodeAddr
  BY <1>k DEF TypeOK, CodeAddr
<1>e. ASSUME NEW e, NEW hs, NEW ret \in CodeAddr, NEW quit, EnterException(e, hs, ret, quit)
      PROVE  /\ ctx' = ctx \/ \E p \in CodeAddr : ctx' = Append(ctx, Suspend(p))
             /\ calls' = calls
  BY <1>e DEF EnterException, Halt
<1>1. CASE TakeSystemException
  BY <1>1, <1>p, <1>e DEF TakeSystemException
<1>2. ASSUME NEW hs \in Sec, TakeInterrupt(hs)
      PROVE  /\ ctx' = ctx \/ \E p \in CodeAddr : ctx' = Append(ctx, Suspend(p))
             /\ calls' = calls
  BY <1>2, <1>p, <1>e DEF TakeInterrupt
<1>3. ASSUME NEW p \in Pc, SupervisorCall(p)
      PROVE  /\ ctx' = ctx \/ \E q \in CodeAddr : ctx' = Append(ctx, Suspend(q))
             /\ calls' = calls
  BY <1>3, <1>p, <1>e DEF SupervisorCall
<1>4. CASE UsageFault
  BY <1>4, <1>p, <1>e DEF UsageFault, Halt
<1>5. ASSUME NEW x \in Fault \ {"UsageFault"}, MemFault(x)
      PROVE  /\ ctx' = ctx \/ \E p \in CodeAddr : ctx' = Append(ctx, Suspend(p))
             /\ calls' = calls
  BY <1>5, <1>p, <1>e DEF MemFault, RaiseHardFault
<1>6. CASE ReturnByBx \/ ReturnByPop
  BY <1>6 DEF ReturnByBx, ReturnByPop, Unstack
<1>7. ASSUME NEW p \in Pc, Execute(p) \/ BranchLink(p) \/ BranchNonSecure(p)
      PROVE  ctx' = ctx /\ calls' = calls
  BY <1>7 DEF Execute, BranchLink, BranchNonSecure
<1>8. CASE ReloadLr \/ Push \/ Pop \/ SecureGateway
  BY <1>8 DEF ReloadLr, Push, Pop, SecureGateway, Halt
<1>9. ASSUME NEW r \in StackReg, WriteStackPointer(r) PROVE ctx' = ctx /\ calls' = calls
  BY <1>9 DEF WriteStackPointer
<1>10. ASSUME NEW s \in Sec, NEW v \in BOOLEAN, WriteControl(s, v)
       PROVE  ctx' = ctx /\ calls' = calls
  BY <1>10 DEF WriteControl
<1>11. ASSUME NEW p \in Pc, NEW ret \in Pc, CallNonSecure(p, ret)
       PROVE  ctx' = ctx /\ \E x \in CallRecord : calls' = Append(calls, x)
  <2>1. [pc |-> ret, sec |-> sec, mode |-> mode, nest |-> Len(ctx)] \in CallRecord
    BY <1>k, <1>p DEF CallRecord, TypeOK
  <2> QED BY <1>11, <2>1 DEF CallNonSecure
<1> QED BY <1>1, <1>2, <1>3, <1>4, <1>5, <1>6, <1>7, <1>8, <1>9, <1>10, <1>11 DEF Next

\* BX LR to the sentinel returns to the innermost BLXNS, in its security state
\* and mode: the claim of include/m33mu/cpu.h, within the depth of the array.
THEOREM NsCallReturnsCorrect == ASSUME Disciplined PROVE Spec => NsCallReturns
<1>1. ASSUME IInv, [Next]_vars
      PROVE  [Len(calls') < Len(calls) /\ ~ResetTarget =>
                /\ calls' = Front(calls)
                /\ pc' = Last(calls).pc /\ sec' = Last(calls).sec
                /\ mode' = Last(calls).mode]_vars
  <2> SUFFICES ASSUME Next, Len(calls') < Len(calls), ~ResetTarget
               PROVE  /\ calls' = Front(calls)
                      /\ pc' = Last(calls).pc /\ sec' = Last(calls).sec
                      /\ mode' = Last(calls).mode
    BY <1>1
  <2>1. calls \in Seq(CallRecord) /\ Len(calls) \in Nat
    BY <1>1 DEF IInv, TypeOK
  <2>2. calls' # calls
    BY <2>1
  <2>3. \A x \in CallRecord : calls' # Append(calls, x)
    BY <2>1, AppendFacts
  <2>4. ReturnFromNonSecure
    BY <1>1, <2>2, <2>3, StepKinds
  <2> QED BY <1>1, <2>4, NsReturnFacts
<1> QED BY <1>1, Invariance, PTL DEF Spec, NsCallReturns

\* Every step of the emulator is a step of Preemption, or none.
LEMMA AbsStep ==
    ASSUME Disciplined, IInv, Next
    PROVE  Abs!AbsNext
<1>1. TypeOK /\ TypeOK'
  BY TypeStep DEF IInv
<1>2. Suspend(pc)' \in Context
  <2>1. sp' \in [StackReg -> Level]
    BY <1>1, AddrLevel DEF TypeOK
  <2> QED BY <1>1, <2>1 DEF TypeOK, Suspend, Context
<1>3. CASE ResetTarget
  <2>1. ctx' = << >>
    BY <1>3 DEF ResetTarget
  <2>2. Suspend(pc)' = ResetState
    BY <1>3 DEF ResetTarget, ResetState, Suspend
  <2> QED BY <2>1, <2>2 DEF Abs!AbsNext, Abs!Restart
<1>4. CASE ReturnFromNonSecure
  BY <1>2, <1>4 DEF ReturnFromNonSecure, Abs!AbsNext, Abs!Work
<1>5. CASE ReturnByBx \/ ReturnByPop
  <2> DEFINE c == Last(ctx)
  <2>1. /\ ctx # << >>
        /\ pc' = c.pc /\ lr' = c.lr /\ ipsr' = c.ipsr /\ mode' = c.mode /\ sec' = c.sec
        /\ spsel' = c.spsel
        /\ \/ sp' = c.sp /\ ctx' = Front(ctx)
           \/ \E q \in StackReg : LeavesOn(q)
    BY <1>5, ReturnExact
  <2>2. c \in Context /\ Front(ctx) \in Seq(Context)
    BY <1>1, <2>1, FrontFacts DEF TypeOK
  <2>3. CASE sp' = c.sp /\ ctx' = Front(ctx)
    <3>1. Suspend(pc)' = c
      BY <2>1, <2>2, <2>3 DEF Suspend, Context
    <3> QED BY <2>1, <2>3, <3>1
          DEF Abs!AbsNext, Abs!Resume, Abs!Preempted, Abs!Others, Front, Last
  <2>4. ASSUME NEW q \in StackReg, LeavesOn(q) PROVE Abs!AbsNext
    <3> DEFINE run == Suspend(pc)
               on  == [x \in Context |-> EntryReg(x)]
    <3>1. /\ q # EntryReg(c) /\ sp[q] = [c.sp[q] EXCEPT !.n = @ + 1]
          /\ sp' = [c.sp EXCEPT ![q] = sp[q]] /\ ctx' = WithLeft(Front(ctx), q)
      BY <2>4 DEF LeavesOn
    <3>2. run.sp = sp /\ q \in DOMAIN run.sp
      BY <1>1 DEF Suspend, TypeOK
    <3>3. Suspend(pc)' = [c EXCEPT !.sp[q] = sp[q]]
      <4>1. Suspend(pc)' = [pc |-> c.pc, lr |-> c.lr, ipsr |-> c.ipsr, mode |-> c.mode,
                            sec |-> c.sec, spsel |-> c.spsel, sp |-> [c.sp EXCEPT ![q] = sp[q]]]
        BY <2>1, <3>1 DEF Suspend
      <4>2. c = [pc |-> c.pc, lr |-> c.lr, ipsr |-> c.ipsr, mode |-> c.mode,
                 sec |-> c.sec, spsel |-> c.spsel, sp |-> c.sp]
        BY <2>2 DEF Context
      <4> HIDE DEF c
      <4> QED BY <4>1, <4>2
    <3>4. \A i \in 1 .. Len(Front(ctx)) : on[Front(ctx)[i]] = EntryReg(Front(ctx)[i])
      BY <2>2
    <3>5. ctx' = Abs!Leaving(Front(ctx), q)
      <4> DEFINE f == Front(ctx)
      <4>1. Len(f) \in Nat /\ \A i \in 1 .. Len(f) : on[f[i]] = EntryReg(f[i])
        BY <2>2, <3>4
      <4>2. \A i \in 1 .. Len(f) : \A j \in i .. Len(f) : j \in 1 .. Len(f)
        <5> HIDE DEF f, on
        <5> QED BY <4>1
      <4>3. \A i \in 1 .. Len(f) :
              (\E j \in i .. Len(f) : EntryReg(f[j]) = q)
                <=> (\E j \in i .. Len(f) : on[f[j]] = q)
        <5> HIDE DEF f, on
        <5> QED BY <4>1, <4>2
      <4>4. WithLeft(f, q) = [i \in 1 .. Len(f) |->
                IF \E j \in i .. Len(f) : on[f[j]] = q THEN f[i]
                ELSE [f[i] EXCEPT !.sp[q].n = @ + 1]]
        <5> HIDE DEF f, on
        <5> QED BY <4>3, Zenon DEF WithLeft
      <4> QED BY <3>1, <4>4 DEF Abs!Leaving
    <3>6. Abs!Preempted = c /\ Abs!Others = Front(ctx) /\ on[c] = EntryReg(c)
      BY <2>2 DEF Abs!Preempted, Abs!Others, Front, Last
    <3>7. Abs!ResumeLeaving(q)
      BY <2>1, <3>1, <3>2, <3>3, <3>5, <3>6 DEF Abs!ResumeLeaving
    <3> QED BY <3>2, <3>7 DEF Abs!AbsNext
  <2> QED BY <2>1, <2>3, <2>4
<1>6. ASSUME NEW p \in CodeAddr, ctx' = Append(ctx, Suspend(p)) PROVE Abs!AbsNext
  <2>1. Suspend(p) = [Suspend(pc) EXCEPT !.pc = p]
    BY DEF Suspend
  <2> QED BY <1>2, <1>6, <2>1 DEF Abs!AbsNext, Abs!Preempt
<1>7. CASE ctx' = ctx
  BY <1>2, <1>7 DEF Abs!AbsNext, Abs!Work
<1> QED BY <1>3, <1>4, <1>5, <1>6, <1>7, StepKinds

\* The emulator implements Preemption: exceptions are transparent to whatever
\* they interrupt, for any firmware that keeps to the (F) guards and within the
\* depths of Disciplined, but for the slot that a handler ending in POP {pc} or
\* LDM leaves on a stack that the resumed activation does not run on.
THEOREM TransparentPreemptionCorrect == ASSUME Disciplined PROVE Spec => TransparentPreemption
<1>1. Init => Abs!AbsInit
  BY DEF Init, Abs!AbsInit, Suspend, ResetState
<1>2. IInv /\ [Next]_vars => [Abs!AbsNext]_(Abs!absvars)
  <2> SUFFICES ASSUME IInv, [Next]_vars PROVE [Abs!AbsNext]_(Abs!absvars)
    OBVIOUS
  <2>1. CASE Next
    BY <2>1, AbsStep
  <2>2. CASE UNCHANGED vars
    BY <2>2 DEF vars, Abs!absvars, Suspend
  <2> QED BY <2>1, <2>2
<1> QED BY <1>1, <1>2, Invariance, PTL DEF Spec, TransparentPreemption, Abs!AbsSpec
=============================================================================
