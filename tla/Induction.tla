------------------------------ MODULE Induction ------------------------------
(***************************************************************************)
(* Facts about the naturals that the proofs of the components share:       *)
(* induction over a set, least and greatest members, functions defined by  *)
(* recursion on an initial segment, and division.                          *)
(*                                                                         *)
(* Everything is stated about sets and functions, never about an operator  *)
(* parameter, so that the lemmas can be instantiated by citing them.       *)
(***************************************************************************)
EXTENDS Integers, WellFoundedInduction, TLAPS

-----------------------------------------------------------------------------
(* Induction and extreme members *)

\* A set of naturals that is not empty has a least member.
LEMMA LeastMember ==
  ASSUME NEW S, S \subseteq Nat, S # {}
  PROVE  \E x \in S : \A y \in S : x <= y
  <1>. DEFINE R == OpToRel(<, Nat)
  <1>1. IsWellFoundedOn(R, Nat)
    BY NatLessThanWellFounded
  <1>2. PICK x \in S : \A y \in S : ~(<<y, x>> \in R)
    BY <1>1, WFMin
  <1>3. ASSUME NEW y \in S
        PROVE  x <= y
    <2>1. x \in Nat /\ y \in Nat
      OBVIOUS
    <2>2. y < x => <<y, x>> \in R
      BY <2>1 DEF OpToRel
    <2>. HIDE DEF R
    <2>3. ~(<<y, x>> \in R)
      BY <1>2
    <2>. QED
      BY <2>1, <2>2, <2>3
  <1>. QED
    BY <1>3

\* A set that holds zero and with each number the next one holds all of them.
LEMMA SetInduction ==
  ASSUME NEW S, 0 \in S, \A n \in Nat : n \in S => n + 1 \in S
  PROVE  Nat \subseteq S
  <1>. SUFFICES ASSUME Nat \ S # {} PROVE FALSE
    OBVIOUS
  <1>1. PICK x \in Nat \ S : \A y \in Nat \ S : x <= y
    BY LeastMember
  <1>2. x # 0 /\ x - 1 \in Nat
    BY <1>1
  <1>3. x - 1 \in S
    BY <1>1, <1>2
  <1>. QED
    BY <1>1, <1>2, <1>3

\* The same up to a bound.
LEMMA SegmentInduction ==
  ASSUME NEW N \in Nat, NEW S, 0 \in S, \A n \in 0 .. N - 1 : n \in S => n + 1 \in S
  PROVE  0 .. N \subseteq S
  <1>. DEFINE T == {n \in Nat : n <= N => n \in S}
  <1>1. 0 \in T
    OBVIOUS
  <1>2. ASSUME NEW n \in Nat, n \in T
        PROVE  n + 1 \in T
    BY <1>2
  <1>3. Nat \subseteq T
    <2>. HIDE DEF T
    <2>. QED
      BY <1>1, <1>2, SetInduction
  <1>. QED
    BY <1>3

\* A set of naturals with a bound that is not empty has a greatest member.
LEMMA GreatestMember ==
  ASSUME NEW N \in Nat, NEW S, S \subseteq 0 .. N, S # {}
  PROVE  \E x \in S : \A y \in S : y <= x
  <1>. DEFINE U == {n \in Nat : \A y \in S : y <= n}
  <1>1. N \in U /\ U \subseteq Nat
    OBVIOUS
  <1>2. PICK x \in U : \A y \in U : x <= y
    <2>. HIDE DEF U
    <2>. QED
      BY <1>1, LeastMember
  <1>3. x \in S
    <2>. SUFFICES ASSUME x \notin S PROVE FALSE
      OBVIOUS
    <2>1. PICK s \in S : TRUE
      OBVIOUS
    <2>2. s \in Nat /\ s < x /\ x \in Nat
      BY <2>1
    <2>3. x - 1 \in U
      BY <2>2
    <2>. QED
      BY <1>2, <2>2, <2>3
  <1>. QED
    BY <1>3

-----------------------------------------------------------------------------
(* Recursion *)

\* The functions of k and of the value at k - 1, which give the value at k.
StepsOver(N, V) == [1 .. N -> [V -> V]]

\* f on 0 .. N starts with first and goes on as step says.
Recurs(f, N, V, first, step) ==
  /\ f \in [0 .. N -> V]
  /\ f[0] = first
  /\ \A k \in 1 .. N : f[k] = step[k][f[k - 1]]

\* A function on 0 .. N can be defined by its first value and a step.
LEMMA RecursiveFunction ==
  ASSUME NEW N \in Nat, NEW V, NEW first \in V, NEW step \in StepsOver(N, V)
  PROVE  \E f : Recurs(f, N, V, first, step)
  <1>. DEFINE Follows(f, n) == f[0] = first /\ \A k \in 1 .. n : f[k] = step[k][f[k - 1]]
              S == {n \in 0 .. N : \E f \in [0 .. n -> V] : Follows(f, n)}
  <1>. USE DEF StepsOver
  <1>1. 0 \in S
    <2>. DEFINE f0 == [k \in 0 .. 0 |-> first]
    <2>1. f0 \in [0 .. 0 -> V]
      OBVIOUS
    <2>2. Follows(f0, 0)
      OBVIOUS
    <2>3. 0 \in 0 .. N
      OBVIOUS
    <2>. HIDE DEF f0, Follows
    <2>. QED
      BY <2>1, <2>2, <2>3
  <1>2. ASSUME NEW n \in 0 .. N - 1, n \in S
        PROVE  n + 1 \in S
    <2>1. PICK f \in [0 .. n -> V] : Follows(f, n)
      BY <1>2
    <2>. DEFINE v == step[n + 1][f[n]]
                g == [k \in 0 .. n + 1 |-> IF k = n + 1 THEN v ELSE f[k]]
    <2>2. v \in V
      <3>1. n + 1 \in 1 .. N /\ f[n] \in V
        OBVIOUS
      <3>. QED
        BY <3>1
    <2>3. g \in [0 .. n + 1 -> V]
      <3>. HIDE DEF v
      <3>. QED
        BY <2>2
    <2>4. g[0] = first
      BY <2>1
    <2>5. ASSUME NEW k \in 1 .. n + 1
          PROVE  g[k] = step[k][g[k - 1]]
      <3>1. CASE k = n + 1
        <4>1. g[k] = v /\ g[k - 1] = f[n]
          <5>. HIDE DEF v
          <5>. QED BY <3>1
        <4>. QED
          BY <3>1, <4>1
      <3>2. CASE k # n + 1
        <4>1. k \in 1 .. n /\ k - 1 \in 0 .. n
          BY <3>2
        <4>2. g[k] = f[k] /\ g[k - 1] = f[k - 1]
          <5>. HIDE DEF v
          <5>. QED BY <4>1
        <4>. QED
          BY <2>1, <4>1, <4>2
      <3>. QED
        BY <3>1, <3>2
    <2>. HIDE DEF g
    <2>6. Follows(g, n + 1)
      BY <2>4, <2>5
    <2>. QED
      BY <2>3, <2>6
  <1>3. 0 .. N \subseteq S
    <2>. HIDE DEF S
    <2>. QED
      BY <1>1, <1>2, SegmentInduction
  <1>4. N \in S
    <2>. HIDE DEF S
    <2>. QED
      BY <1>3
  <1>. QED
    BY <1>4 DEF Recurs

-----------------------------------------------------------------------------
(* Multiplication and division *)

\* A product grows with its factor.
LEMMA TimesMonotone ==
  ASSUME NEW a \in Int, NEW b \in Int, NEW c \in Nat, a <= b
  PROVE  a * c <= b * c
  <1>1. b * c - a * c = (b - a) * c
    OBVIOUS
  <1>2. (b - a) * c >= 0
    OBVIOUS
  <1>. QED
    BY <1>1, <1>2

(* Division by a positive divisor, in the only form the proofs use.         *)
LEMMA DivMod ==
    ASSUME NEW a \in Nat, NEW b \in Nat, b > 0
    PROVE  /\ a \div b \in Nat
           /\ a % b \in 0 .. b - 1
           /\ a = b * (a \div b) + (a % b)
  BY SMT

(* The quotient and remainder of a number and of its successor.             *)
LEMMA DivModSucc ==
    ASSUME NEW a \in Nat, NEW b \in Nat, b > 0
    PROVE  IF a % b = b - 1
           THEN (a + 1) \div b = (a \div b) + 1 /\ (a + 1) % b = 0
           ELSE (a + 1) \div b = a \div b /\ (a + 1) % b = (a % b) + 1
  BY DivMod, SMT

\* Quotient and remainder are determined by what they give back.
LEMMA DivModUnique ==
  ASSUME NEW a \in Nat, NEW b \in Nat, b > 0, NEW q \in Nat, NEW r \in 0 .. b - 1,
         a = b * q + r
  PROVE  a \div b = q /\ a % b = r
  <1>. DEFINE d == a \div b
              m == a % b
  <1>1. d \in Nat /\ m \in 0 .. b - 1 /\ a = b * d + m
    BY DivMod
  <1>. HIDE DEF d, m
  <1>2. ~(d < q)
    <2>. SUFFICES ASSUME d + 1 <= q PROVE FALSE
      BY <1>1
    <2>1. (d + 1) * b <= q * b
      BY <1>1, TimesMonotone
    <2>2. (d + 1) * b = b * d + b /\ q * b = b * q
      BY <1>1
    <2>. QED
      BY <1>1, <2>1, <2>2
  <1>3. ~(q < d)
    <2>. SUFFICES ASSUME q + 1 <= d PROVE FALSE
      BY <1>1
    <2>1. (q + 1) * b <= d * b
      BY <1>1, TimesMonotone
    <2>2. (q + 1) * b = b * q + b /\ d * b = b * d
      BY <1>1
    <2>. QED
      BY <1>1, <2>1, <2>2
  <1>4. d = q /\ m = r
    BY <1>1, <1>2, <1>3
  <1>. QED
    BY <1>4 DEF d, m

\* Dividing in two portions, with the remainder of the first carried to the second.
LEMMA DivModAdd ==
  ASSUME NEW a \in Nat, NEW c \in Nat, NEW b \in Nat, b > 0
  PROVE  /\ (a + c) \div b = (a \div b) + ((a % b) + c) \div b
         /\ (a + c) % b = ((a % b) + c) % b
  <1>. DEFINE q == a \div b
              m == a % b
              p == (m + c) \div b
              r == (m + c) % b
  <1>1. q \in Nat /\ m \in 0 .. b - 1 /\ a = b * q + m
    BY DivMod
  <1>2. m + c \in Nat
    BY <1>1
  <1>. HIDE DEF q, m
  <1>3. p \in Nat /\ r \in 0 .. b - 1 /\ m + c = b * p + r
    BY <1>2, DivMod
  <1>. HIDE DEF p, r
  <1>4. b * (q + p) = b * q + b * p
    BY <1>1, <1>3
  <1>5. a + c = b * (q + p) + r /\ q + p \in Nat /\ a + c \in Nat
    BY <1>1, <1>3, <1>4
  <1>6. (a + c) \div b = q + p /\ (a + c) % b = r
    BY <1>3, <1>5, DivModUnique
  <1>. QED
    BY <1>6 DEF q, m, p, r

\* A number below the divisor is its own remainder; one below twice the divisor
\* leaves the difference.
LEMMA SmallMod ==
  ASSUME NEW a \in Nat, NEW b \in Nat, b > 0
  PROVE  /\ a < b => a % b = a /\ a \div b = 0
         /\ b <= a /\ a < b + b => a % b = a - b
         /\ b <= a => (a - b) % b = a % b
  <1>1. ASSUME a < b
        PROVE  a % b = a /\ a \div b = 0
    <2>1. a = b * 0 + a /\ a \in 0 .. b - 1
      BY <1>1
    <2>. QED
      BY <2>1, DivModUnique
  <1>2. ASSUME b <= a
        PROVE  (a - b) % b = a % b
    <2>. DEFINE q == (a - b) \div b
                r == (a - b) % b
    <2>0. a - b \in Nat
      BY <1>2
    <2>1. q \in Nat /\ r \in 0 .. b - 1 /\ a - b = b * q + r
      BY <2>0, DivMod
    <2>. HIDE DEF q, r
    <2>2. b * (q + 1) = b * q + b
      BY <2>1
    <2>3. a = b * (q + 1) + r /\ q + 1 \in Nat
      BY <1>2, <2>1, <2>2
    <2>4. a % b = r
      BY <2>1, <2>3, DivModUnique
    <2>. QED
      BY <2>4 DEF r
  <1>3. ASSUME b <= a, a < b + b
        PROVE  a % b = a - b
    <2>1. a - b \in Nat /\ a - b < b
      BY <1>3
    <2>2. a - b = b * 0 + (a - b) /\ a - b \in 0 .. b - 1
      BY <2>1
    <2>3. (a - b) % b = a - b
      BY <2>1, <2>2, DivModUnique
    <2>. QED
      BY <1>2, <1>3, <2>3
  <1>. QED
    BY <1>1, <1>2, <1>3
=============================================================================
