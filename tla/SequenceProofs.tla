---------------------------- MODULE SequenceProofs ----------------------------
(***************************************************************************)
(* Induction over data, in a form the provers take: the induction theorems *)
(* of the library have an operator as a parameter, but that the finite     *)
(* subsets of a set are well-founded has none.  From it follow induction   *)
(* for a set of numbers, the existence of a function defined by recursion  *)
(* on a number, and what FlattenSeq makes of sequences.                    *)
(***************************************************************************)
EXTENDS Integers, SequencesExt, FiniteSetTheorems, SequenceTheorems, Bits,
        WellFoundedInduction, TLAPS

\* A set of numbers with 0, and with n + 1 if it has n, has them all: if one
\* were missing, 0 .. n for the missing n would be a descending chain.
LEMMA SetInduction ==
  ASSUME NEW S, 0 \in S, \A n \in Nat : n \in S => n + 1 \in S
  PROVE  Nat \subseteq S
  <1> DEFINE R == StrictSubsetOrdering(Nat)
             T == {0 .. n : n \in Nat \ S}
  <1>1. IsWellFoundedOn(R, FiniteSubsetsOf(Nat))
    BY FS_StrictSubsetOrderingWellFounded
  <1>2. T \subseteq FiniteSubsetsOf(Nat)
    <2> SUFFICES ASSUME NEW n \in Nat PROVE 0 .. n \in FiniteSubsetsOf(Nat)
      OBVIOUS
    <2>1. IsFiniteSet(0 .. n)
      BY FS_Interval
    <2> QED BY <2>1 DEF FiniteSubsetsOf
  <1> SUFFICES ASSUME T # {} PROVE FALSE
    OBVIOUS
  <1>3. PICK x \in T : \A y \in T : ~ (<<y, x>> \in R)
    <2> HIDE DEF T, R
    <2> QED BY <1>1, <1>2, WFMin
  <1>4. PICK n \in Nat \ S : x = 0 .. n
    OBVIOUS
  <1>5. n # 0 /\ n - 1 \in Nat
    BY <1>4
  <1>6. n - 1 \notin S
    BY <1>4, <1>5
  <1>7. <<0 .. (n - 1), 0 .. n>> \in R
    <2>1. 0 .. (n - 1) \subseteq 0 .. n /\ n \in 0 .. n /\ n \notin 0 .. (n - 1)
      BY <1>4
    <2>2. 0 .. (n - 1) # 0 .. n
      BY <2>1
    <2> QED BY <1>4, <2>1, <2>2 DEF StrictSubsetOrdering
  <1> QED BY <1>3, <1>4, <1>5, <1>6, <1>7

\* The same from 1 up to n.
LEMMA UpToInduction ==
  ASSUME NEW n \in Nat, NEW S, 1 \in S, \A i \in 1 .. n - 1 : i \in S => i + 1 \in S
  PROVE  1 .. n \subseteq S
  <1> DEFINE T == {i \in Nat : i \in 1 .. n => i \in S}
  <1>1. 0 \in T
    OBVIOUS
  <1>2. \A i \in Nat : i \in T => i + 1 \in T
    OBVIOUS
  <1>3. Nat \subseteq T
    <2> HIDE DEF T
    <2> QED BY <1>1, <1>2, SetInduction
  <1> QED BY <1>3

\* Each value up to n is made of its place and of the one before it.
StepByStep(f, n, base, G) ==
  \A i \in 1 .. n : f[i] = G[<<i, IF i = 1 THEN base ELSE f[i - 1]>>]

\* There is such a function.
LEMMA Recursion ==
  ASSUME NEW V, NEW n \in Nat, NEW base \in V, NEW G \in [(1 .. n) \X V -> V]
  PROVE  \E f \in [1 .. n -> V] : StepByStep(f, n, base, G)
  <1> USE DEF StepByStep
  <1> DEFINE Steps(f, m) == StepByStep(f, m, base, G)
             S == {m \in Nat : m <= n => \E f \in [1 .. m -> V] : Steps(f, m)}
  <1>1. 0 \in S
    <2>1. Steps(<<>>, 0) /\ <<>> \in [1 .. 0 -> V]
      OBVIOUS
    <2> QED BY <2>1
  <1>2. ASSUME NEW m \in Nat, m \in S PROVE m + 1 \in S
    <2> SUFFICES ASSUME m + 1 <= n PROVE \E g \in [1 .. m + 1 -> V] : Steps(g, m + 1)
      OBVIOUS
    <2>1. PICK f \in [1 .. m -> V] : Steps(f, m)
      BY <1>2
    <2> DEFINE last == IF m = 0 THEN base ELSE f[m]
               next == G[<<m + 1, last>>]
               g == [i \in 1 .. m + 1 |-> IF i = m + 1 THEN next ELSE f[i]]
    <2>2. last \in V
      OBVIOUS
    <2> HIDE DEF last
    <2>3. next \in V
      BY <2>2
    <2> HIDE DEF next
    <2>4. g \in [1 .. m + 1 -> V]
      BY <2>3
    <2>5. g[m + 1] = next /\ \A i \in 1 .. m : g[i] = f[i]
      OBVIOUS
    <2> HIDE DEF g
    <2>6. ASSUME NEW i \in 1 .. m + 1
          PROVE  g[i] = G[<<i, IF i = 1 THEN base ELSE g[i - 1]>>]
      <3>1. CASE i = m + 1
        <4>1. (IF i = 1 THEN base ELSE g[i - 1]) = last
          <5>1. CASE m = 0
            BY <3>1, <5>1 DEF last
          <5>2. CASE m # 0
            BY <2>5, <3>1, <5>2 DEF last
          <5> QED BY <5>1, <5>2
        <4> QED BY <2>5, <3>1, <4>1 DEF next
      <3>2. CASE i # m + 1
        <4>1. i \in 1 .. m /\ (i # 1 => i - 1 \in 1 .. m)
          BY <3>2
        <4>2. g[i] = f[i] /\ (i # 1 => g[i - 1] = f[i - 1])
          BY <2>5, <4>1
        <4>3. f[i] = G[<<i, IF i = 1 THEN base ELSE f[i - 1]>>]
          BY <2>1, <4>1
        <4>4. CASE i = 1
          BY <4>2, <4>3, <4>4
        <4>5. CASE i # 1
          BY <4>2, <4>3, <4>5
        <4> QED BY <4>4, <4>5
      <3> QED BY <3>1, <3>2
    <2>7. Steps(g, m + 1)
      BY <2>6
    <2> HIDE DEF Steps
    <2> QED BY <2>4, <2>7
  <1>3. n \in S
    <2> HIDE DEF S
    <2> QED BY <1>1, <1>2, SetInduction
  <1> HIDE DEF StepByStep
  <1> QED BY <1>3

\* Two functions built in the same way are the same as far as both go.
LEMMA OneWay ==
  ASSUME NEW base, NEW G, NEW n \in Nat, NEW m \in Nat, NEW f, NEW g,
         StepByStep(f, n, base, G), StepByStep(g, m, base, G)
  PROVE  \A i \in 1 .. n : i <= m => f[i] = g[i]
  <1> USE DEF StepByStep
  <1> DEFINE S == {i \in Nat : i \in 1 .. n /\ i <= m => f[i] = g[i]}
  <1>1. 0 \in S
    OBVIOUS
  <1>2. ASSUME NEW i \in Nat, i \in S PROVE i + 1 \in S
    <2> SUFFICES ASSUME i + 1 \in 1 .. n, i + 1 <= m PROVE f[i + 1] = g[i + 1]
      OBVIOUS
    <2>1. CASE i = 0
      <3>1. 1 \in 1 .. n /\ 1 \in 1 .. m /\ i + 1 = 1
        BY <2>1
      <3>2. f[1] = G[<<1, base>>] /\ g[1] = G[<<1, base>>]
        BY <3>1
      <3> QED BY <3>1, <3>2
    <2>2. CASE i # 0
      <3>1. i \in 1 .. n /\ i <= m /\ f[i] = g[i]
        BY <1>2, <2>2
      <3>2. /\ f[i + 1] = G[<<i + 1, IF i + 1 = 1 THEN base ELSE f[(i + 1) - 1]>>]
            /\ g[i + 1] = G[<<i + 1, IF i + 1 = 1 THEN base ELSE g[(i + 1) - 1]>>]
        <4>1. i + 1 \in 1 .. n /\ i + 1 \in 1 .. m
          OBVIOUS
        <4> QED BY <4>1
      <3>3. (i + 1) - 1 = i /\ i + 1 # 1
        BY <2>2
      <3> QED BY <3>1, <3>2, <3>3
    <2> QED BY <2>1, <2>2
  <1>3. Nat \subseteq S
    <2> HIDE DEF S
    <2> QED BY <1>1, <1>2, SetInduction
  <1> QED BY <1>3

\* Each value is made of its place and of the one before it.
FromZero(f, base, G) == f[0] = base /\ \A n \in Nat : f[n + 1] = G[<<n + 1, f[n]>>]

\* Recursion over all numbers.
LEMMA NatRecursion ==
  ASSUME NEW V, NEW base \in V, NEW G \in [(Nat \ {0}) \X V -> V]
  PROVE  \E f \in [Nat -> V] : FromZero(f, base, G)
  <1> DEFINE H(n) == [p \in (1 .. n) \X V |-> G[p]]
             Is(f, n) == f \in [1 .. n -> V] /\ StepByStep(f, n, base, G)
             F(n) == CHOOSE f : Is(f, n)
             h == [n \in Nat |-> IF n = 0 THEN base ELSE F(n)[n]]
  <1>1. ASSUME NEW n \in Nat PROVE Is(F(n), n)
    <2>1. H(n) \in [(1 .. n) \X V -> V]
      OBVIOUS
    <2>2. PICK f \in [1 .. n -> V] : StepByStep(f, n, base, H(n))
      <3> HIDE DEF H
      <3> QED BY <2>1, Recursion
    <2>3. ASSUME NEW i \in 1 .. n
          PROVE f[i] = G[<<i, IF i = 1 THEN base ELSE f[i - 1]>>]
      <3> DEFINE last == IF i = 1 THEN base ELSE f[i - 1]
      <3>1. last \in V
        OBVIOUS
      <3>2. f[i] = H(n)[<<i, last>>]
        <4> HIDE DEF H
        <4> QED BY <2>2 DEF StepByStep
      <3> HIDE DEF last
      <3>3. H(n)[<<i, last>>] = G[<<i, last>>]
        BY <3>1
      <3> QED BY <3>2, <3>3 DEF last
    <2>4. Is(f, n)
      BY <2>3 DEF StepByStep
    <2> HIDE DEF Is
    <2> QED BY <2>4
  <1>2. ASSUME NEW n \in Nat PROVE h[n] \in V
    <2>1. F(n) \in [1 .. n -> V]
      BY <1>1
    <2> HIDE DEF F
    <2> QED BY <2>1
  <1>3. ASSUME NEW n \in Nat PROVE h[n + 1] = G[<<n + 1, h[n]>>]
    <2>1. /\ StepByStep(F(n), n, base, G) /\ StepByStep(F(n + 1), n + 1, base, G)
      BY <1>1
    <2> HIDE DEF F
    <2>2. F(n + 1)[n + 1] = G[<<n + 1, IF n + 1 = 1 THEN base ELSE F(n + 1)[(n + 1) - 1]>>]
      <3>1. n + 1 \in 1 .. n + 1
        OBVIOUS
      <3> QED BY <2>1, <3>1 DEF StepByStep
    <2>3. n # 0 => F(n)[n] = F(n + 1)[n]
      BY <2>1, OneWay
    <2>4. h[n + 1] = F(n + 1)[n + 1] /\ h[n] = IF n = 0 THEN base ELSE F(n)[n]
      OBVIOUS
    <2> HIDE DEF h
    <2>5. (n + 1) - 1 = n /\ (n + 1 = 1 <=> n = 0)
      OBVIOUS
    <2> QED BY <2>2, <2>3, <2>4, <2>5
  <1>4. h \in [Nat -> V] /\ h[0] = base
    <2> HIDE DEF F
    <2> QED BY <1>2
  <1> HIDE DEF h
  <1>5. FromZero(h, base, G)
    BY <1>3, <1>4 DEF FromZero
  <1> QED BY <1>4, <1>5

-----------------------------------------------------------------------------
(* FlattenSeq                                                              *)

\* What FlattenSeq makes of the first i sequences.
Flattens(f, s) ==
  \A i \in 1 .. Len(s) : f[i] = IF i = 1 THEN s[1] ELSE f[i - 1] \o s[i]

\* The function that FlattenSeq chooses is the one meant.
LEMMA FlattenExists ==
  ASSUME NEW S, NEW s \in Seq(Seq(S)), s # <<>>
  PROVE  \E f \in [1 .. Len(s) -> Seq(S)] : Flattens(f, s) /\ FlattenSeq(s) = f[Len(s)]
  <1> DEFINE n == Len(s)
             G == [p \in (1 .. n) \X Seq(S) |-> p[2] \o s[p[1]]]
             Is(f) == f = [i \in 1 .. n |-> IF i = 1 THEN s[i] ELSE f[i - 1] \o s[i]]
             F == CHOOSE f : Is(f)
  <1>1. n \in Nat \ {0}
    OBVIOUS
  <1>2. FlattenSeq(s) = F[n]
    BY <1>1 DEF FlattenSeq
  <1>3. n = Len(s) /\ \A i \in 1 .. n : s[i] \in Seq(S)
    OBVIOUS
  <1> HIDE DEF n
  <1>4. G \in [(1 .. n) \X Seq(S) -> Seq(S)]
    BY <1>1, <1>3
  <1>5. \A i \in 1 .. n, t \in Seq(S) : G[<<i, t>>] = t \o s[i]
    BY <1>1, <1>3
  <1> HIDE DEF G
  <1> DEFINE none == <<>>
  <1>6. none \in Seq(S) /\ \A t \in Seq(S) : none \o t = t
    OBVIOUS
  <1> HIDE DEF none
  <1>7. PICK f \in [1 .. n -> Seq(S)] :
          StepByStep(f, n, none, G)
    <2> DEFINE V == Seq(S)
    <2>1. none \in V /\ G \in [(1 .. n) \X V -> V]
      BY <1>4, <1>6
    <2>2. \E f \in [1 .. n -> V] :
            StepByStep(f, n, none, G)
      <3> HIDE DEF V
      <3>1. n \in Nat
        BY <1>1
      <3> QED BY <2>1, <3>1, Recursion
    <2> QED BY <2>2
  <1>8. ASSUME NEW i \in 1 .. n
        PROVE  f[i] = IF i = 1 THEN s[i] ELSE f[i - 1] \o s[i]
    <2>1. CASE i = 1
      BY <1>3, <1>5, <1>6, <1>7, <2>1 DEF StepByStep
    <2>2. CASE i # 1
      <3>1. i - 1 \in 1 .. n
        BY <1>1, <2>2
      <3>2. f[i - 1] \in Seq(S)
        BY <3>1
      <3> QED BY <1>5, <1>7, <2>2, <3>2 DEF StepByStep
    <2> QED BY <2>1, <2>2
  <1>9. Is(f)
    BY <1>8
  <1>10. Is(F)
    <2> HIDE DEF Is
    <2> QED BY <1>9
  <1> HIDE DEF F
  <1>11. \A i \in 1 .. n : F[i] = IF i = 1 THEN s[i] ELSE F[i - 1] \o s[i]
    BY <1>10
  <1> DEFINE T == {i \in 1 .. n : F[i] = f[i]}
  <1>12. 1 \in T
    <2>1. 1 \in 1 .. n
      BY <1>1
    <2>2. F[1] = s[1] /\ f[1] = s[1]
      BY <1>8, <1>11, <2>1
    <2> QED BY <2>1, <2>2
  <1>13. ASSUME NEW i \in 1 .. n - 1, i \in T PROVE i + 1 \in T
    <2>1. i + 1 \in 1 .. n /\ i + 1 # 1 /\ (i + 1) - 1 = i
      BY <1>1
    <2>2. F[i + 1] = F[i] \o s[i + 1] /\ f[i + 1] = f[i] \o s[i + 1]
      BY <1>8, <1>11, <2>1
    <2> QED BY <1>13, <2>1, <2>2
  <1>14. 1 .. n \subseteq T
    <2> HIDE DEF T
    <2> QED BY <1>1, <1>12, <1>13, UpToInduction
  <1>15. FlattenSeq(s) = f[n]
    BY <1>1, <1>2, <1>14
  <1>16. Flattens(f, s)
    BY <1>3, <1>8 DEF Flattens
  <1> QED BY <1>3, <1>15, <1>16

LEMMA FlattenNone == FlattenSeq(<<>>) = <<>>
  BY DEF FlattenSeq

LEMMA FlattenType ==
  ASSUME NEW S, NEW s \in Seq(Seq(S))
  PROVE  FlattenSeq(s) \in Seq(S)
  <1>1. CASE s = <<>>
    BY <1>1, FlattenNone, EmptySeq
  <1>2. CASE s # <<>>
    <2>1. Len(s) \in 1 .. Len(s)
      BY <1>2
    <2>2. PICK f \in [1 .. Len(s) -> Seq(S)] : FlattenSeq(s) = f[Len(s)]
      BY <1>2, FlattenExists, Zenon
    <2> QED BY <2>1, <2>2, Zenon
  <1> QED BY <1>1, <1>2

\* Concatenation under a name: the provers regroup named ones at once, and lose
\* their way among those that they know the meaning of.
Cat(a, b) == a \o b

LEMMA CatAssociative ==
  ASSUME NEW S
  PROVE  \A a, b, c \in Seq(S) :
           Cat(a, b) \in Seq(S) /\ Cat(Cat(a, b), c) = Cat(a, Cat(b, c))
  <1> SUFFICES ASSUME NEW a \in Seq(S), NEW b \in Seq(S), NEW c \in Seq(S)
               PROVE  a \o b \in Seq(S) /\ (a \o b) \o c = a \o (b \o c)
    BY DEF Cat
  <1>1. a \o b \in Seq(S)
    OBVIOUS
  <1>2. (a \o b) \o c = a \o (b \o c)
    BY ConcatAssociative
  <1> QED BY <1>1, <1>2

\* What the three make, and how long it is.
LEMMA Grouped ==
  ASSUME NEW S
  PROVE  \A a, b, c \in Seq(S) :
           /\ Cat(a, b) \in Seq(S) /\ Cat(b, c) \in Seq(S)
           /\ Len(Cat(a, b)) = Len(a) + Len(b)
           /\ Cat(Cat(a, b), c) = Cat(a, Cat(b, c))
  <1> SUFFICES ASSUME NEW a \in Seq(S), NEW b \in Seq(S), NEW c \in Seq(S)
               PROVE  /\ a \o b \in Seq(S) /\ b \o c \in Seq(S)
                      /\ Len(a \o b) = Len(a) + Len(b)
                      /\ (a \o b) \o c = a \o (b \o c)
    BY DEF Cat
  <1>1. a \o b \in Seq(S) /\ b \o c \in Seq(S) /\ Len(a \o b) = Len(a) + Len(b)
    OBVIOUS
  <1>2. (a \o b) \o c = a \o (b \o c)
    BY ConcatAssociative
  <1> QED BY <1>1, <1>2

\* The first sequence comes first.
LEMMA FlattenFirst ==
  ASSUME NEW S, NEW s \in Seq(Seq(S)), s # <<>>
  PROVE  FlattenSeq(s) = Head(s) \o FlattenSeq(Tail(s))
  <1> DEFINE n == Len(s)
             t == Tail(s)
  <1>1. n \in Nat \ {0} /\ s[1] \in Seq(S) /\ Head(s) = s[1]
    OBVIOUS
  <1>2. t \in Seq(Seq(S)) /\ Len(t) = n - 1 /\ \A i \in 1 .. n - 1 : t[i] = s[i + 1]
    OBVIOUS
  <1> HIDE DEF t
  <1>3. PICK f \in [1 .. n -> Seq(S)] : Flattens(f, s) /\ FlattenSeq(s) = f[n]
    BY FlattenExists
  <1>4. \A i \in 1 .. n : f[i] = IF i = 1 THEN s[1] ELSE f[i - 1] \o s[i]
    BY <1>3 DEF Flattens
  <1>5. \A i \in 1 .. n - 1 : f[i + 1] = f[i] \o s[i + 1]
    <2> SUFFICES ASSUME NEW i \in 1 .. n - 1 PROVE f[i + 1] = f[i] \o s[i + 1]
      OBVIOUS
    <2>1. i + 1 \in 1 .. n /\ i + 1 # 1 /\ (i + 1) - 1 = i
      BY <1>1
    <2> QED BY <1>4, <2>1
  <1>6. CASE n = 1
    <2>1. t = <<>>
      <3>1. Len(t) = 0
        BY <1>2, <1>6
      <3> QED BY <1>2, <3>1, EmptySeq
    <2>2. f[1] = s[1]
      BY <1>4, <1>6
    <2>3. s[1] = s[1] \o <<>>
      BY <1>1, ConcatEmptySeq
    <2>4. FlattenSeq(t) = <<>>
      BY <2>1, FlattenNone
    <2>5. FlattenSeq(s) = s[1]
      BY <1>3, <1>6, <2>2
    <2> QED BY <1>1, <2>3, <2>4, <2>5 DEF t
  <1>7. CASE n # 1
    <2>1. t # <<>>
      <3>1. Len(t) # 0
        BY <1>1, <1>2, <1>7
      <3> QED BY <3>1
    <2>2. PICK g \in [1 .. n - 1 -> Seq(S)] : Flattens(g, t) /\ FlattenSeq(t) = g[n - 1]
      BY <1>2, <2>1, FlattenExists
    <2> HIDE DEF n
    <2>3. \A i \in 1 .. n - 1 : g[i] = IF i = 1 THEN t[1] ELSE g[i - 1] \o t[i]
      BY <1>2, <2>2 DEF Flattens
    <2> DEFINE T == {i \in 1 .. n - 1 : f[i + 1] = s[1] \o g[i]}
    <2>4. 1 \in T
      <3>1. 1 \in 1 .. n - 1 /\ 2 \in 1 .. n /\ 1 \in 1 .. n
        BY <1>1, <1>7
      <3>2. f[1] = s[1]
        BY <1>4, <3>1
      <3>3. f[1 + 1] = f[1] \o s[1 + 1]
        BY <1>5, <3>1
      <3>4. g[1] = s[1 + 1]
        BY <1>2, <2>3, <3>1
      <3> QED BY <3>1, <3>2, <3>3, <3>4
    <2>5. ASSUME NEW i \in 1 .. (n - 1) - 1, i \in T PROVE i + 1 \in T
      <3> DEFINE j == i + 1
      <3>1. /\ j \in 1 .. n - 1 /\ j # 1 /\ j - 1 = i
            /\ j + 1 \in 1 .. n /\ j + 1 # 1 /\ (j + 1) - 1 = j
            /\ i \in 1 .. n - 1
        BY <1>1
      <3> HIDE DEF j
      <3>2. f[j + 1] = f[j] \o s[j + 1]
        BY <1>4, <3>1
      <3>3. g[j] = g[i] \o s[j + 1]
        BY <1>2, <2>3, <3>1
      <3>4. f[j] = s[1] \o g[i]
        BY <2>5 DEF j
      <3>5. g[i] \in Seq(S) /\ s[j + 1] \in Seq(S)
        <4>1. g[i] \in Seq(S)
          BY <3>1
        <4>2. j + 1 \in 1 .. Len(s)
          BY <3>1 DEF n
        <4> QED BY <4>1, <4>2
      <3>6. f[j + 1] = s[1] \o g[j]
        <4>1. Cat(Cat(s[1], g[i]), s[j + 1]) = Cat(s[1], Cat(g[i], s[j + 1]))
          <5> DEFINE x == s[1]
                     y == g[i]
                     z == s[j + 1]
          <5>1. x \in Seq(S) /\ y \in Seq(S) /\ z \in Seq(S)
            BY <1>1, <3>5
          <5> HIDE DEF x, y, z
          <5>2. Cat(Cat(x, y), z) = Cat(x, Cat(y, z))
            BY <5>1, CatAssociative
          <5> QED BY <5>2 DEF x, y, z
        <4>2. /\ f[j + 1] = Cat(f[j], s[j + 1]) /\ f[j] = Cat(s[1], g[i])
              /\ g[j] = Cat(g[i], s[j + 1])
          BY <3>2, <3>3, <3>4 DEF Cat
        <4>3. f[j + 1] = Cat(s[1], g[j])
          BY <4>1, <4>2, Zenon
        <4> QED BY <4>3 DEF Cat
      <3> QED BY <3>1, <3>6 DEF j
    <2>6. 1 .. n - 1 \subseteq T
      <3> HIDE DEF T
      <3>1. n - 1 \in Nat
        BY <1>1
      <3> QED BY <2>4, <2>5, <3>1, UpToInduction
    <2>7. n - 1 \in 1 .. n - 1 /\ (n - 1) + 1 = n
      BY <1>1, <1>7
    <2>8. f[n] = s[1] \o g[n - 1]
      BY <2>6, <2>7
    <2> QED BY <1>1, <1>3, <2>2, <2>8 DEF t
  <1> QED BY <1>6, <1>7

-----------------------------------------------------------------------------
(* FoldLeft: it takes the places of a sequence from the last to the first.  *)

LEMMA Largest ==
  ASSUME NEW n \in Nat, NEW T \in SUBSET (1 .. n), T # {}
  PROVE  Max(T) \in T /\ \A i \in T : Max(T) >= i
  <1> DEFINE HasMax(U) == \E x \in U : \A y \in U : x >= y
             S == {m \in Nat : \A U \in SUBSET (1 .. m) : U # {} => HasMax(U)}
  <1>1. 0 \in S
    <2>1. \A U \in SUBSET (1 .. 0) : U = {}
      OBVIOUS
    <2> QED BY <2>1
  <1>2. ASSUME NEW m \in Nat, m \in S PROVE m + 1 \in S
    <2> SUFFICES ASSUME NEW U \in SUBSET (1 .. m + 1), U # {} PROVE HasMax(U)
      OBVIOUS
    <2>1. CASE m + 1 \in U
      BY <2>1
    <2>2. CASE m + 1 \notin U
      <3>1. U \in SUBSET (1 .. m)
        BY <2>2
      <3> QED BY <1>2, <3>1
    <2> QED BY <2>1, <2>2
  <1>3. n \in S
    <2> HIDE DEF S
    <2> QED BY <1>1, <1>2, SetInduction
  <1>4. HasMax(T)
    BY <1>3
  <1> QED BY <1>4 DEF Max

LEMMA LargestUpTo ==
  ASSUME NEW n \in Nat \ {0}
  PROVE  Max(1 .. n) = n /\ (1 .. n) \ {n} = 1 .. n - 1
  <1>1. n \in 1 .. n /\ 1 .. n # {}
    OBVIOUS
  <1>2. Max(1 .. n) \in 1 .. n /\ Max(1 .. n) >= n
    BY <1>1, Largest
  <1> QED BY <1>2

\* A function on the sets of places: each value is made of the largest place and
\* of the value without it.
SetBySet(f, n, base, G) ==
  \A T \in SUBSET (1 .. n) :
    f[T] = IF T = {} THEN base ELSE G[<<Max(T), f[T \ {Max(T)}]>>]

\* There is such a function.
LEMMA SetRecursion ==
  ASSUME NEW V, NEW n \in Nat, NEW base \in V, NEW G \in [(1 .. n) \X V -> V]
  PROVE  \E f \in [SUBSET (1 .. n) -> V] : SetBySet(f, n, base, G)
  <1> DEFINE Built(m) == \E f \in [SUBSET (1 .. m) -> V] : SetBySet(f, m, base, G)
  <1>1. Built(0)
    <2> DEFINE f == [T \in SUBSET (1 .. 0) |-> base]
    <2>1. f \in [SUBSET (1 .. 0) -> V]
      OBVIOUS
    <2>2. \A T \in SUBSET (1 .. 0) : T = {} /\ f[T] = base
      OBVIOUS
    <2> HIDE DEF f
    <2>3. SetBySet(f, 0, base, G)
      BY <2>2 DEF SetBySet
    <2> QED BY <2>1, <2>3
  <1>2. ASSUME NEW m \in 0 .. n - 1, Built(m) PROVE Built(m + 1)
    <2>1. PICK f \in [SUBSET (1 .. m) -> V] : SetBySet(f, m, base, G)
      BY <1>2
    <2> DEFINE Rest(T) == T \ {m + 1}
               g == [T \in SUBSET (1 .. m + 1) |->
                       IF m + 1 \in T THEN G[<<m + 1, f[Rest(T)]>>] ELSE f[T]]
    <2>2. ASSUME NEW T \in SUBSET (1 .. m + 1)
          PROVE  /\ Rest(T) \in SUBSET (1 .. m)
                 /\ m + 1 \notin T => T \in SUBSET (1 .. m)
      OBVIOUS
    <2>3. g \in [SUBSET (1 .. m + 1) -> V]
      <3> SUFFICES ASSUME NEW T \in SUBSET (1 .. m + 1)
                   PROVE  (IF m + 1 \in T THEN G[<<m + 1, f[Rest(T)]>>] ELSE f[T]) \in V
        OBVIOUS
      <3>1. CASE m + 1 \in T
        <4>1. f[Rest(T)] \in V
          BY <2>2
        <4>2. <<m + 1, f[Rest(T)]>> \in (1 .. n) \X V
          BY <4>1
        <4> QED BY <3>1, <4>2
      <3>2. CASE m + 1 \notin T
        BY <2>2, <3>2
      <3> QED BY <3>1, <3>2
    <2>4. \A T \in SUBSET (1 .. m + 1) :
            g[T] = IF m + 1 \in T THEN G[<<m + 1, f[Rest(T)]>>] ELSE f[T]
      OBVIOUS
    <2> HIDE DEF g
    <2>5. ASSUME NEW T \in SUBSET (1 .. m + 1)
          PROVE  g[T] = IF T = {} THEN base ELSE G[<<Max(T), g[T \ {Max(T)}]>>]
      <3>1. CASE m + 1 \in T
        <4>1. Max(T) \in 1 .. m + 1 /\ Max(T) >= m + 1
          <5>1. m + 1 \in Nat /\ T # {}
            BY <3>1
          <5> QED BY <3>1, <5>1, Largest
        <4>2. Max(T) = m + 1
          BY <4>1
        <4>3. Rest(T) \in SUBSET (1 .. m + 1) /\ m + 1 \notin Rest(T)
          BY <2>2
        <4>4. g[Rest(T)] = f[Rest(T)]
          BY <2>4, <4>3
        <4> QED BY <2>4, <3>1, <4>2, <4>4
      <3>2. CASE m + 1 \notin T
        <4> DEFINE U == T \ {Max(T)}
        <4>1. T \in SUBSET (1 .. m) /\ U \in SUBSET (1 .. m)
              /\ U \in SUBSET (1 .. m + 1) /\ m + 1 \notin U
          BY <2>2, <3>2
        <4>2. g[T] = f[T] /\ g[U] = f[U]
          BY <2>4, <3>2, <4>1
        <4>3. f[T] = IF T = {} THEN base ELSE G[<<Max(T), f[U]>>]
          BY <2>1, <4>1 DEF SetBySet
        <4> QED BY <4>2, <4>3
      <3> QED BY <3>1, <3>2
    <2>6. SetBySet(g, m + 1, base, G)
      BY <2>5 DEF SetBySet
    <2> QED BY <2>3, <2>6
  <1> HIDE DEF Built
  <1> DEFINE S == {m \in Nat : m <= n => Built(m)}
  <1>3. 0 \in S
    BY <1>1
  <1>4. \A m \in Nat : m \in S => m + 1 \in S
    BY <1>2
  <1>5. n \in S
    <2> HIDE DEF S
    <2> QED BY <1>3, <1>4, SetInduction
  <1>6. Built(n)
    BY <1>5
  <1> QED BY <1>6 DEF Built

-----------------------------------------------------------------------------
(* What is left of a sequence                                              *)

LEMMA SuffixProperties ==
  ASSUME NEW S, NEW u \in Seq(S), NEW e \in 0 .. Len(u)
  PROVE  /\ SubSeq(u, e + 1, Len(u)) \in Seq(S)
         /\ Len(SubSeq(u, e + 1, Len(u))) = Len(u) - e
         /\ \A i \in 1 .. Len(u) - e : SubSeq(u, e + 1, Len(u))[i] = u[e + i]
  <1>1. Len(u) \in Nat /\ e \in Nat /\ e <= Len(u)
    OBVIOUS
  <1>2. \A i \in e + 1 .. Len(u) : u[i] \in S
    OBVIOUS
  <1>3. /\ SubSeq(u, e + 1, Len(u)) \in Seq(S)
        /\ Len(SubSeq(u, e + 1, Len(u)))
             = IF e + 1 <= Len(u) THEN Len(u) - (e + 1) + 1 ELSE 0
        /\ \A i \in 1 .. Len(u) - (e + 1) + 1 :
             SubSeq(u, e + 1, Len(u))[i] = u[(e + 1) + i - 1]
    BY <1>1, <1>2, SubSeqProperties
  <1> QED BY <1>1, <1>3

\* What is taken from the front of u is taken from the front of u and v.
LEMMA TakeFront ==
  ASSUME NEW S, NEW u \in Seq(S), NEW v \in Seq(S), NEW n \in 0 .. Len(u)
  PROVE  /\ SubSeq(u \o v, 1, n) = SubSeq(u, 1, n)
         /\ SubSeq(u \o v, n + 1, Len(u \o v)) = SubSeq(u, n + 1, Len(u)) \o v
  <1> DEFINE w == u \o v
             behind == SubSeq(u, n + 1, Len(u))
  <1>1. /\ w \in Seq(S) /\ Len(w) = Len(u) + Len(v)
        /\ \A i \in 1 .. Len(u) + Len(v) : w[i] = IF i <= Len(u) THEN u[i] ELSE v[i - Len(u)]
    BY ConcatProperties
  <1> HIDE DEF w
  <1>2. Len(u) \in Nat /\ Len(v) \in Nat /\ n \in Nat /\ n <= Len(u)
    OBVIOUS
  <1>3. SubSeq(w, 1, n) = SubSeq(u, 1, n)
    <2>1. \A i \in 1 .. n : w[i] \in S /\ u[i] \in S /\ w[i] = u[i]
      BY <1>1, <1>2
    <2>2. /\ SubSeq(w, 1, n) \in Seq(S) /\ SubSeq(u, 1, n) \in Seq(S)
          /\ Len(SubSeq(w, 1, n)) = n /\ Len(SubSeq(u, 1, n)) = n
          /\ \A i \in 1 .. n : SubSeq(w, 1, n)[i] = w[i] /\ SubSeq(u, 1, n)[i] = u[i]
      BY <1>1, <1>2, <2>1
    <2> QED BY <2>1, <2>2, SeqEqual
  <1>4. SubSeq(w, n + 1, Len(w)) = behind \o v
    <2>1. /\ behind \in Seq(S) /\ Len(behind) = Len(u) - n
          /\ \A i \in 1 .. Len(u) - n : behind[i] = u[n + i]
      BY SuffixProperties
    <2>2. /\ SubSeq(w, n + 1, Len(w)) \in Seq(S)
          /\ Len(SubSeq(w, n + 1, Len(w))) = Len(w) - n
          /\ \A i \in 1 .. Len(w) - n : SubSeq(w, n + 1, Len(w))[i] = w[n + i]
      BY <1>1, <1>2, SuffixProperties
    <2> HIDE DEF behind
    <2>3. /\ behind \o v \in Seq(S) /\ Len(behind \o v) = (Len(u) - n) + Len(v)
          /\ \A i \in 1 .. (Len(u) - n) + Len(v) :
               (behind \o v)[i] = IF i <= Len(u) - n THEN behind[i] ELSE v[i - (Len(u) - n)]
      <3>1. /\ behind \o v \in Seq(S) /\ Len(behind \o v) = Len(behind) + Len(v)
            /\ \A i \in 1 .. Len(behind) + Len(v) :
                 (behind \o v)[i] = IF i <= Len(behind) THEN behind[i]
                                                       ELSE v[i - Len(behind)]
        BY <2>1, ConcatProperties
      <3>2. Len(behind) = Len(u) - n
        BY <2>1
      <3> QED BY <3>1, <3>2
    <2>4. Len(w) - n = (Len(u) - n) + Len(v)
      BY <1>1, <1>2
    <2>5. ASSUME NEW i \in 1 .. Len(w) - n
          PROVE  SubSeq(w, n + 1, Len(w))[i] = (behind \o v)[i]
      <3>1. w[n + i] = IF n + i <= Len(u) THEN u[n + i] ELSE v[(n + i) - Len(u)]
        <4>1. n + i \in 1 .. Len(u) + Len(v)
          BY <1>1, <1>2
        <4> QED BY <1>1, <4>1
      <3>2. CASE n + i <= Len(u)
        <4>1. i \in 1 .. Len(u) - n /\ i \in 1 .. (Len(u) - n) + Len(v) /\ i <= Len(u) - n
          BY <1>2, <2>4, <3>2
        <4>2. (behind \o v)[i] = u[n + i]
          BY <2>1, <2>3, <4>1, Zenon
        <4>3. SubSeq(w, n + 1, Len(w))[i] = w[n + i]
          BY <2>2, Zenon
        <4> QED BY <3>1, <3>2, <4>2, <4>3, Zenon
      <3>3. CASE ~(n + i <= Len(u))
        <4>1. (n + i) - Len(u) = i - (Len(u) - n) /\ ~(i <= Len(u) - n)
          BY <1>2, <3>3
        <4> QED BY <2>2, <2>3, <2>4, <3>1, <3>3, <4>1
      <3> QED BY <3>2, <3>3
    <2> QED BY <2>2, <2>3, <2>4, <2>5, SeqEqual
  <1> QED BY <1>3, <1>4 DEF w

\* What is taken from what is left.
LEMMA TakeTwice ==
  ASSUME NEW S, NEW u \in Seq(S), NEW e \in 0 .. Len(u), NEW n \in 0 .. Len(u) - e,
         NEW t, t = SubSeq(u, e + 1, Len(u))
  PROVE  /\ SubSeq(t, 1, n) = SubSeq(u, e + 1, e + n)
         /\ SubSeq(t, n + 1, Len(t)) = SubSeq(u, (e + n) + 1, Len(u))
  <1>1. Len(u) \in Nat /\ e \in Nat /\ n \in Nat /\ e + n <= Len(u) /\ e + n \in 0 .. Len(u)
    OBVIOUS
  <1>2. t \in Seq(S) /\ Len(t) = Len(u) - e /\ \A i \in 1 .. Len(u) - e : t[i] = u[e + i]
    BY SuffixProperties
  <1>3. SubSeq(t, 1, n) = SubSeq(u, e + 1, e + n)
    <2>1. \A i \in 1 .. n : t[i] \in S /\ t[i] = u[e + i]
      BY <1>1, <1>2
    <2>2. \A i \in e + 1 .. e + n : u[i] \in S
      BY <1>1
    <2>3. /\ SubSeq(t, 1, n) \in Seq(S) /\ Len(SubSeq(t, 1, n)) = n
          /\ \A i \in 1 .. n : SubSeq(t, 1, n)[i] = t[i]
      BY <1>1, <1>2, <2>1
    <2>4. /\ SubSeq(u, e + 1, e + n) \in Seq(S) /\ Len(SubSeq(u, e + 1, e + n)) = n
          /\ \A i \in 1 .. n : SubSeq(u, e + 1, e + n)[i] = u[e + i]
      BY <1>1, <2>2
    <2> QED BY <2>1, <2>3, <2>4, SeqEqual
  <1>4. SubSeq(t, n + 1, Len(t)) = SubSeq(u, (e + n) + 1, Len(u))
    <2>1. n \in 0 .. Len(t)
      BY <1>1, <1>2
    <2>2. /\ SubSeq(t, n + 1, Len(t)) \in Seq(S)
          /\ Len(SubSeq(t, n + 1, Len(t))) = Len(t) - n
          /\ \A i \in 1 .. Len(t) - n : SubSeq(t, n + 1, Len(t))[i] = t[n + i]
      BY <1>2, <2>1, SuffixProperties
    <2>3. /\ SubSeq(u, (e + n) + 1, Len(u)) \in Seq(S)
          /\ Len(SubSeq(u, (e + n) + 1, Len(u))) = Len(u) - (e + n)
          /\ \A i \in 1 .. Len(u) - (e + n) :
               SubSeq(u, (e + n) + 1, Len(u))[i] = u[(e + n) + i]
      BY <1>1, SuffixProperties
    <2>4. ASSUME NEW i \in 1 .. Len(t) - n
          PROVE  SubSeq(t, n + 1, Len(t))[i] = SubSeq(u, (e + n) + 1, Len(u))[i]
      <3>1. n + i \in 1 .. Len(u) - e /\ e + (n + i) = (e + n) + i
        BY <1>1, <1>2
      <3>2. i \in 1 .. Len(u) - (e + n)
        BY <1>1, <1>2
      <3> QED BY <1>2, <2>2, <2>3, <3>1, <3>2
    <2>5. Len(t) - n = Len(u) - (e + n)
      BY <1>1, <1>2
    <2> QED BY <2>2, <2>3, <2>4, <2>5, SeqEqual
  <1> QED BY <1>3, <1>4

\* A set of numbers has a smallest one.
LEMMA Smallest ==
  ASSUME NEW T \in SUBSET Nat, T # {}
  PROVE  \E x \in T : \A y \in T : x <= y
  <1> SUFFICES ASSUME \A x \in T : \E y \in T : y < x PROVE FALSE
    <2>1. \A x, y \in Nat : ~(x <= y) <=> y < x
      OBVIOUS
    <2> QED BY <2>1
  <1> DEFINE S == {n \in Nat : \A x \in T : x >= n}
  <1>1. 0 \in S
    OBVIOUS
  <1>2. ASSUME NEW n \in Nat, n \in S PROVE n + 1 \in S
    <2> SUFFICES ASSUME NEW x \in T PROVE x >= n + 1
      OBVIOUS
    <2>1. PICK y \in T : y < x
      OBVIOUS
    <2>2. y >= n /\ y \in Nat /\ x \in Nat
      BY <1>2
    <2> QED BY <2>1, <2>2
  <1>3. Nat \subseteq S
    <2> HIDE DEF S
    <2> QED BY <1>1, <1>2, SetInduction
  <1>4. PICK x \in T : x \in Nat
    OBVIOUS
  <1>5. x + 1 \in S
    BY <1>3, <1>4
  <1> QED BY <1>4, <1>5

\* The sequences from the c-th on, one after the other.
FlatFrom(s, c) == FlattenSeq(SubSeq(s, c, Len(s)))

LEMMA FlatFromType ==
  ASSUME NEW S, NEW s \in Seq(Seq(S)), NEW c \in 1 .. Len(s) + 1
  PROVE  FlatFrom(s, c) \in Seq(S)
  <1>1. SubSeq(s, c, Len(s)) \in Seq(Seq(S))
    OBVIOUS
  <1> QED BY <1>1, FlattenType DEF FlatFrom

LEMMA FlatFromEnd ==
  ASSUME NEW S, NEW s \in Seq(Seq(S))
  PROVE  FlatFrom(s, Len(s) + 1) = <<>>
  <1>1. SubSeq(s, Len(s) + 1, Len(s)) = <<>>
    BY SubSeqEmpty
  <1> QED BY <1>1, FlattenNone DEF FlatFrom

LEMMA FlatFromFirst ==
  ASSUME NEW S, NEW s \in Seq(Seq(S)), NEW c \in 1 .. Len(s)
  PROVE  FlatFrom(s, c) = s[c] \o FlatFrom(s, c + 1)
  <1> DEFINE t == SubSeq(s, c, Len(s))
  <1>1. t \in Seq(Seq(S)) /\ Len(t) = Len(s) - c + 1
    OBVIOUS
  <1>2. Head(t) = s[c] /\ Tail(t) = SubSeq(s, c + 1, Len(s))
    <2>1. Len(s) \in c .. Len(s)
      OBVIOUS
    <2> QED BY <2>1, HeadTailOfSubSeq
  <1>3. Len(t) # 0
    BY <1>1
  <1> HIDE DEF t
  <1>4. t # <<>>
    BY <1>3
  <1>5. FlattenSeq(t) = Head(t) \o FlattenSeq(Tail(t))
    BY <1>1, <1>4, FlattenFirst
  <1> QED BY <1>2, <1>5 DEF FlatFrom, t

LEMMA FlatFromSame ==
  ASSUME NEW S, NEW s \in Seq(Seq(S)), NEW t \in Seq(Seq(S)), Len(s) = Len(t),
         NEW c \in 1 .. Len(s) + 1, \A i \in c .. Len(s) : s[i] = t[i]
  PROVE  FlatFrom(s, c) = FlatFrom(t, c)
  <1> DEFINE p == SubSeq(s, c, Len(s))
             q == SubSeq(t, c, Len(t))
  <1>1. /\ p \in Seq(Seq(S)) /\ Len(p) = Len(s) - c + 1
        /\ q \in Seq(Seq(S)) /\ Len(q) = Len(s) - c + 1
        /\ \A i \in 1 .. Len(s) - c + 1 : p[i] = s[c + i - 1] /\ q[i] = t[c + i - 1]
    OBVIOUS
  <1> HIDE DEF p, q
  <1>2. ASSUME NEW i \in 1 .. Len(s) - c + 1 PROVE p[i] = q[i]
    <2>1. c + i - 1 \in c .. Len(s)
      OBVIOUS
    <2> QED BY <1>1, <2>1
  <1>3. p = q
    BY <1>1, <1>2, SeqEqual
  <1> QED BY <1>3 DEF FlatFrom, p, q

-----------------------------------------------------------------------------
(* Functions over the places of a sequence, and what is appended           *)

\* Such a function goes through the places in turn.
InTurn(h, F, n, base, G) ==
  /\ h[0] = base /\ h[n] = F[1 .. n]
  /\ \A k \in 1 .. n : h[k] = G[<<k, h[k - 1]>>]

Follows(F, n, base, G, V) ==
  /\ F[{}] = base
  /\ \A T \in SUBSET (1 .. n) : T # {} /\ F[T \ {Max(T)}] \in V =>
       F[T] = G[<<Max(T), F[T \ {Max(T)}]>>]

LEMMA PlacesInTurn ==
  ASSUME NEW V, NEW n \in Nat, NEW base \in V, NEW G \in [(1 .. n) \X V -> V], NEW F,
         Follows(F, n, base, G, V)
  PROVE  \E h \in [0 .. n -> V] : InTurn(h, F, n, base, G)
  <1> DEFINE S == {k \in Nat : k <= n => F[1 .. k] \in V}
  <1>1. F[1 .. 0] = base
    <2>1. 1 .. 0 = {}
      OBVIOUS
    <2> QED BY <2>1 DEF Follows
  <1>2. ASSUME NEW k \in Nat, k + 1 <= n, F[1 .. k] \in V
        PROVE  F[1 .. k + 1] = G[<<k + 1, F[1 .. k]>>] /\ F[1 .. k + 1] \in V
    <2>1. Max(1 .. k + 1) = k + 1 /\ (1 .. k + 1) \ {k + 1} = 1 .. k
      <3>1. k + 1 \in Nat \ {0} /\ (k + 1) - 1 = k
        OBVIOUS
      <3>2. Max(1 .. k + 1) = k + 1 /\ (1 .. k + 1) \ {k + 1} = 1 .. (k + 1) - 1
        BY <3>1, LargestUpTo
      <3> QED BY <3>1, <3>2
    <2>2. 1 .. k + 1 \in SUBSET (1 .. n) /\ 1 .. k + 1 # {} /\ k + 1 \in 1 .. n
      <3>1. k + 1 <= n /\ k + 1 \in 1 .. k + 1
        BY <1>2
      <3> QED BY <3>1
    <2>3. F[1 .. k + 1] = G[<<k + 1, F[1 .. k]>>]
      BY <1>2, <2>1, <2>2 DEF Follows
    <2> QED BY <1>2, <2>2, <2>3
  <1>3. 0 \in S
    BY <1>1
  <1>4. ASSUME NEW k \in Nat, k \in S PROVE k + 1 \in S
    <2>1. ASSUME k + 1 <= n PROVE F[1 .. k + 1] \in V
      <3>1. k <= n /\ F[1 .. k] \in V
        BY <1>4, <2>1
      <3> QED BY <1>2, <2>1, <3>1
    <2> QED BY <2>1
  <1>5. Nat \subseteq S
    <2> HIDE DEF S
    <2> QED BY <1>3, <1>4, SetInduction
  <1> DEFINE h == [k \in 0 .. n |-> F[1 .. k]]
  <1>6. h \in [0 .. n -> V]
    BY <1>5
  <1>7. ASSUME NEW k \in 1 .. n PROVE h[k] = G[<<k, h[k - 1]>>]
    <2>1. k - 1 \in Nat /\ (k - 1) + 1 = k /\ (k - 1) + 1 <= n /\ k - 1 \in 0 .. n
      OBVIOUS
    <2>2. F[1 .. k - 1] \in V
      BY <1>5, <2>1
    <2>3. F[1 .. (k - 1) + 1] = G[<<(k - 1) + 1, F[1 .. k - 1]>>]
      BY <1>2, <2>1, <2>2
    <2> QED BY <2>1, <2>3
  <1>8. InTurn(h, F, n, base, G)
    <2>1. 0 \in 0 .. n /\ n \in 0 .. n
      OBVIOUS
    <2>2. h[0] = base /\ h[n] = F[1 .. n]
      BY <1>1, <2>1
    <2> HIDE DEF h
    <2> QED BY <1>7, <2>2 DEF InTurn
  <1> HIDE DEF h
  <1> QED BY <1>6, <1>8

LEMMA CatProperties ==
  ASSUME NEW S
  PROVE  \A a, b \in Seq(S) :
           /\ Cat(a, b) \in Seq(S) /\ Len(Cat(a, b)) = Len(a) + Len(b)
           /\ \A i \in 1 .. Len(a) + Len(b) :
                Cat(a, b)[i] = IF i <= Len(a) THEN a[i] ELSE b[i - Len(a)]
  <1> SUFFICES ASSUME NEW a \in Seq(S), NEW b \in Seq(S)
               PROVE  /\ a \o b \in Seq(S) /\ Len(a \o b) = Len(a) + Len(b)
                      /\ \A i \in 1 .. Len(a) + Len(b) :
                           (a \o b)[i] = IF i <= Len(a) THEN a[i] ELSE b[i - Len(a)]
    BY DEF Cat
  <1> QED BY ConcatProperties

\* What is appended comes last.
LEMMA FlattenLast ==
  ASSUME NEW S, NEW s \in Seq(Seq(S)), NEW x \in Seq(S)
  PROVE  /\ Append(s, x) \in Seq(Seq(S))
         /\ FlattenSeq(Append(s, x)) = Cat(FlattenSeq(s), x)
  <1> DEFINE n == Len(s)
             t == Append(s, x)
             T == {k \in Nat : k <= n =>
                     FlatFrom(t, (n + 1) - k) = Cat(FlatFrom(s, (n + 1) - k), x)}
  <1>1. /\ n \in Nat /\ t \in Seq(Seq(S)) /\ Len(t) = n + 1 /\ t[n + 1] = x
        /\ \A i \in 1 .. n : t[i] = s[i]
    <2> DEFINE W == Seq(S)
    <2>1. s \in Seq(W) /\ x \in W
      OBVIOUS
    <2> HIDE DEF W
    <2>2. t \in Seq(W) /\ Len(t) = n + 1 /\ t[n + 1] = x /\ \A i \in 1 .. n : t[i] = s[i]
      BY <2>1, AppendProperties
    <2> QED BY <2>1, <2>2 DEF W
  <1> HIDE DEF t
  <1>2. Cat(<<>>, x) = x /\ Cat(x, <<>>) = x
    BY ConcatEmptySeq DEF Cat
  <1>3. 0 \in T
    <2>1. (n + 1) - 0 = n + 1 /\ n + 1 \in 1 .. Len(t) /\ Len(t) + 1 = (n + 1) + 1
      BY <1>1
    <2>2. FlatFrom(t, n + 1) = Cat(t[n + 1], FlatFrom(t, (n + 1) + 1))
      BY <1>1, <2>1, FlatFromFirst DEF Cat
    <2>3. FlatFrom(t, (n + 1) + 1) = <<>>
      <3>1. FlatFrom(t, Len(t) + 1) = <<>>
        BY <1>1, FlatFromEnd
      <3> QED BY <2>1, <3>1
    <2>4. FlatFrom(s, n + 1) = <<>>
      BY FlatFromEnd
    <2>5. FlatFrom(t, n + 1) = Cat(FlatFrom(s, n + 1), x)
      BY <1>1, <1>2, <2>2, <2>3, <2>4
    <2> QED BY <2>1, <2>5
  <1>4. ASSUME NEW k \in Nat, k \in T PROVE k + 1 \in T
    <2> SUFFICES ASSUME k + 1 <= n
                 PROVE  FlatFrom(t, (n + 1) - (k + 1)) = Cat(FlatFrom(s, (n + 1) - (k + 1)), x)
      OBVIOUS
    <2> DEFINE i == n - k
               r == FlatFrom(s, i + 1)
               y == s[i]
    <2>1. /\ i \in 1 .. n /\ i \in 1 .. Len(t) /\ (n + 1) - k = i + 1 /\ (n + 1) - (k + 1) = i
          /\ i + 1 \in 1 .. n + 1 /\ k <= n
      BY <1>1
    <2>2. FlatFrom(t, i + 1) = Cat(r, x)
      BY <1>4, <2>1
    <2>3. FlatFrom(t, i) = Cat(t[i], FlatFrom(t, i + 1))
      BY <1>1, <2>1, FlatFromFirst DEF Cat
    <2>4. FlatFrom(s, i) = Cat(y, r)
      BY <2>1, FlatFromFirst DEF Cat
    <2>5. y \in Seq(S) /\ r \in Seq(S)
      BY <2>1, FlatFromType
    <2>6. t[i] = y
      BY <1>1, <2>1
    <2> HIDE DEF i, r, y
    <2>7. Cat(Cat(y, r), x) = Cat(y, Cat(r, x))
      BY <2>5, CatAssociative
    <2>8. FlatFrom(t, i) = Cat(FlatFrom(s, i), x)
      BY <2>2, <2>3, <2>4, <2>6, <2>7
    <2> QED BY <2>1, <2>8
  <1>5. n \in T
    <2> HIDE DEF T
    <2> QED BY <1>1, <1>3, <1>4, SetInduction
  <1>6. FlatFrom(t, 1) = Cat(FlatFrom(s, 1), x)
    <2>1. (n + 1) - n = 1
      BY <1>1
    <2> QED BY <1>1, <1>5, <2>1
  <1>7. SubSeq(t, 1, Len(t)) = t /\ SubSeq(s, 1, Len(s)) = s
    BY <1>1, SubSeqFull
  <1>8. FlattenSeq(t) = Cat(FlattenSeq(s), x)
    BY <1>6, <1>7 DEF FlatFrom
  <1> QED BY <1>1, <1>8 DEF t

\* One more place of a sequence.
LEMMA PrefixStep ==
  ASSUME NEW S, NEW s \in Seq(S), NEW k \in Nat, k + 1 <= Len(s)
  PROVE  /\ SubSeq(s, 1, k) \in Seq(S) /\ s[k + 1] \in S
         /\ SubSeq(s, 1, k + 1) = Append(SubSeq(s, 1, k), s[k + 1])
         /\ SubSeq(s, 1, k + 1) = Cat(SubSeq(s, 1, k), <<s[k + 1]>>)
         /\ <<s[k + 1]>> \in Seq(S)
  <1>1. k + 1 \in 1 .. Len(s) /\ (k + 1) - 1 = k
    OBVIOUS
  <1>2. SubSeq(s, 1, k) \in Seq(S) /\ s[k + 1] \in S
    BY <1>1
  <1>3. SubSeq(s, 1, k + 1) = Append(SubSeq(s, 1, k), s[k + 1])
    BY <1>1
  <1> DEFINE q == SubSeq(s, 1, k)
             x == s[k + 1]
  <1> HIDE DEF q, x
  <1>4. q \in Seq(S) /\ x \in S
    BY <1>2 DEF q, x
  <1>5. Append(q, x) = q \o <<x>> /\ <<x>> \in Seq(S)
    BY <1>4
  <1> QED BY <1>2, <1>3, <1>5 DEF Cat, q, x

\* FlattenSeq of two sequences of sequences behind each other.
LEMMA FlattenCat ==
  ASSUME NEW S, NEW s \in Seq(Seq(S)), NEW t \in Seq(Seq(S))
  PROVE  FlattenSeq(Cat(s, t)) = Cat(FlattenSeq(s), FlattenSeq(t))
  <1> DEFINE W == Seq(S)
             Q(k) == SubSeq(t, 1, k)
             T == {k \in Nat : k <= Len(t) =>
                     FlattenSeq(Cat(s, Q(k))) = Cat(FlattenSeq(s), FlattenSeq(Q(k)))}
  <1>1. s \in Seq(W) /\ t \in Seq(W) /\ Len(t) \in Nat
    OBVIOUS
  <1>2. 0 \in T
    <2>1. Q(0) = <<>>
      BY <1>1, SubSeqEmpty
    <2>2. Cat(s, <<>>) = s
      BY DEF Cat
    <2>3. FlattenSeq(s) \in Seq(S)
      BY FlattenType
    <2>4. Cat(FlattenSeq(s), <<>>) = FlattenSeq(s)
      BY <2>3 DEF Cat
    <2> QED BY <2>1, <2>2, <2>4, FlattenNone
  <1>3. ASSUME NEW k \in Nat, k \in T PROVE k + 1 \in T
    <2> SUFFICES ASSUME k + 1 <= Len(t)
                 PROVE  FlattenSeq(Cat(s, Q(k + 1))) = Cat(FlattenSeq(s), FlattenSeq(Q(k + 1)))
      OBVIOUS
    <2> DEFINE q == Q(k)
               x == t[k + 1]
    <2>1. q \in Seq(W) /\ x \in W /\ Q(k + 1) = Append(q, x)
      <3> HIDE DEF W
      <3>1. k + 1 \in 1 .. Len(t) /\ (k + 1) - 1 = k
        BY <1>1
      <3>2. SubSeq(t, 1, k + 1) = Append(SubSeq(t, 1, k), t[k + 1])
        BY <1>1, <3>1
      <3>3. SubSeq(t, 1, k) \in Seq(W)
        BY <1>1, <3>1
      <3> QED BY <1>1, <3>1, <3>2, <3>3
    <2>2. FlattenSeq(Cat(s, q)) = Cat(FlattenSeq(s), FlattenSeq(q))
      BY <1>1, <1>3
    <2> HIDE DEF q, x
    <2>3. Cat(s, q) \in Seq(W)
      BY <1>1, <2>1, CatProperties
    <2>4. Cat(s, Append(q, x)) = Append(Cat(s, q), x)
      <3> HIDE DEF W
      <3>1. s \o Append(q, x) = Append(s \o q, x)
        BY <1>1, <2>1
      <3> QED BY <3>1 DEF Cat
    <2>5. FlattenSeq(Append(q, x)) = Cat(FlattenSeq(q), x)
      BY <2>1, FlattenLast
    <2>6. FlattenSeq(Append(Cat(s, q), x)) = Cat(FlattenSeq(Cat(s, q)), x)
      BY <2>1, <2>3, FlattenLast
    <2>7. FlattenSeq(s) \in Seq(S) /\ FlattenSeq(q) \in Seq(S) /\ x \in Seq(S)
      BY <1>1, <2>1, FlattenType
    <2>8. Cat(Cat(FlattenSeq(s), FlattenSeq(q)), x) = Cat(FlattenSeq(s), Cat(FlattenSeq(q), x))
      BY <2>7, CatAssociative
    <2> QED BY <2>1, <2>2, <2>4, <2>5, <2>6, <2>8
  <1>4. Len(t) \in T
    <2> HIDE DEF T
    <2> QED BY <1>1, <1>2, <1>3, SetInduction
  <1>5. Q(Len(t)) = t
    BY <1>1
  <1>6. FlattenSeq(Cat(s, Q(Len(t)))) = Cat(FlattenSeq(s), FlattenSeq(Q(Len(t))))
    BY <1>1, <1>4
  <1> HIDE DEF Q
  <1> QED BY <1>5, <1>6
-----------------------------------------------------------------------------
(* Bits                                                                    *)

\* A bit more, twice as many numbers.
LEMMA Pow2Step ==
  /\ Pow2 \in [Nat -> Nat \ {0}]
  /\ Pow2[0] = 1 /\ \A n \in Nat : Pow2[n + 1] = 2 * Pow2[n]
  <1> DEFINE V == Nat \ {0}
             G == [p \in V \X V |-> 2 * p[2]]
             Is(f) == f = [n \in Nat |-> IF n = 0 THEN 1 ELSE 2 * f[n - 1]]
  <1>1. G \in [(Nat \ {0}) \X V -> V] /\ 1 \in V
    OBVIOUS
  <1>2. PICK f \in [Nat -> V] : FromZero(f, 1, G)
    <2> HIDE DEF G
    <2> QED BY <1>1, NatRecursion
  <1>3. ASSUME NEW n \in Nat PROVE f[n] = IF n = 0 THEN 1 ELSE 2 * f[n - 1]
    <2>1. CASE n = 0
      BY <1>2, <2>1 DEF FromZero
    <2>2. CASE n # 0
      <3>1. n - 1 \in Nat /\ (n - 1) + 1 = n
        BY <2>2
      <3>2. f[n] = G[<<n, f[n - 1]>>] /\ <<n, f[n - 1]>> \in V \X V
        BY <1>2, <3>1 DEF FromZero
      <3> QED BY <2>2, <3>2
    <2> QED BY <2>1, <2>2
  <1>4. Is(f)
    BY <1>3
  <1>5. Is(Pow2)
    <2>1. Pow2 = CHOOSE g : Is(g)
      BY DEF Pow2
    <2> HIDE DEF Is
    <2> QED BY <1>4, <2>1
  <1>6. Pow2[0] = 1 /\ \A n \in Nat : Pow2[n + 1] = 2 * Pow2[n]
    <2>1. ASSUME NEW n \in Nat PROVE Pow2[n + 1] = 2 * Pow2[n]
      <3>1. n + 1 \in Nat /\ n + 1 # 0 /\ (n + 1) - 1 = n
        OBVIOUS
      <3> QED BY <1>5, <3>1
    <2> QED BY <1>5, <2>1
  <1>7. ASSUME NEW n \in Nat PROVE Pow2[n] \in V
    <2> DEFINE S == {i \in Nat : Pow2[i] \in V}
    <2>1. 0 \in S /\ \A i \in Nat : i \in S => i + 1 \in S
      BY <1>6
    <2>2. Nat \subseteq S
      <3> HIDE DEF S
      <3> QED BY <2>1, SetInduction
    <2> QED BY <2>2
  <1>8. Pow2 = [n \in Nat |-> Pow2[n]]
    BY <1>5
  <1> QED BY <1>6, <1>7, <1>8

LEMMA Pow2Sum ==
  ASSUME NEW a \in Nat, NEW b \in Nat
  PROVE  Pow2[a + b] = Pow2[a] * Pow2[b]
  <1> DEFINE S == {i \in Nat : Pow2[a + i] = Pow2[a] * Pow2[i]}
  <1>1. 0 \in S
    <2>1. Pow2[a] \in Nat /\ Pow2[0] = 1 /\ a + 0 = a
      BY Pow2Step
    <2> QED BY <2>1
  <1>2. ASSUME NEW i \in Nat, i \in S PROVE i + 1 \in S
    <2> DEFINE p == Pow2[a]
               q == Pow2[i]
    <2>1. p \in Nat /\ q \in Nat /\ Pow2[i + 1] = 2 * q
      BY Pow2Step
    <2>2. Pow2[a + (i + 1)] = 2 * Pow2[a + i]
      <3>1. a + (i + 1) = (a + i) + 1 /\ a + i \in Nat
        OBVIOUS
      <3> QED BY <3>1, Pow2Step
    <2>3. Pow2[a + i] = p * q
      BY <1>2
    <2> HIDE DEF p, q
    <2>4. 2 * (p * q) = p * (2 * q)
      BY <2>1
    <2> QED BY <2>1, <2>2, <2>3, <2>4 DEF p, q
  <1>3. Nat \subseteq S
    <2> HIDE DEF S
    <2> QED BY <1>1, <1>2, SetInduction
  <1> QED BY <1>3

LEMMA Pow2Grows ==
  ASSUME NEW a \in Nat, NEW b \in Nat, a <= b
  PROVE  Pow2[a] <= Pow2[b] /\ Pow2[b] = Pow2[b - a] * Pow2[a]
  <1> DEFINE p == Pow2[a]
             q == Pow2[b - a]
  <1>1. b - a \in Nat /\ (b - a) + a = b
    OBVIOUS
  <1>2. p \in Nat \ {0} /\ q \in Nat \ {0} /\ Pow2[b] = q * p
    BY <1>1, Pow2Step, Pow2Sum
  <1> HIDE DEF p, q
  <1>3. p <= q * p
    BY <1>2
  <1> QED BY <1>2, <1>3 DEF p, q
=============================================================================
