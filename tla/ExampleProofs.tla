---------------------------- MODULE ExampleProofs ----------------------------
(***************************************************************************)
(* What is done to an example, for every number of bits, features, threads *)
(* and skips: what is written to a cache is what is read back, a mask of   *)
(* an n-gram is used once, and every feature of a namespace is given to    *)
(* one thread.  Then, for the proofs of InputProofs: what the parser makes *)
(* of a line, what sorting and setup_example make of slots that agree, and *)
(* the cells of an example in a cache.                                     *)
(***************************************************************************)
EXTENDS InputPath, SequenceProofs

-----------------------------------------------------------------------------
(* Numbers                                                                 *)

\* What the widths mean.
LEMMA Widths ==
  /\ Base \in Nat /\ Base >= 2 /\ Word \in Nat \ {0} /\ IntSize \in Nat \ {0}
  /\ 8 * Pow2[MaxBits] <= Word
  /\ Word <= Pow2[IntSize * DigitBits]
  <1>1. {WordBits, DigitBits, IntSize, MaxBits} \subseteq Nat \ {0}
    BY WidthAssumption
  <1>2. Base \in Nat /\ Base >= 2
    <2>1. DigitBits - 1 \in Nat /\ (DigitBits - 1) + 1 = DigitBits
      BY <1>1
    <2>2. Pow2[DigitBits] = 2 * Pow2[DigitBits - 1] /\ Pow2[DigitBits - 1] \in Nat \ {0}
      BY <2>1, Pow2Step
    <2> QED BY <2>2 DEF Base
  <1>3. 8 * Pow2[MaxBits] <= Word
    <2>1. Pow2[MaxBits + 3] = 8 * Pow2[MaxBits]
      <3>1. MaxBits \in Nat /\ MaxBits + 1 \in Nat /\ MaxBits + 2 \in Nat
            /\ MaxBits + 3 = (MaxBits + 2) + 1 /\ MaxBits + 2 = (MaxBits + 1) + 1
        BY <1>1
      <3>2. /\ Pow2[MaxBits + 3] = 2 * Pow2[MaxBits + 2]
            /\ Pow2[MaxBits + 2] = 2 * Pow2[MaxBits + 1]
            /\ Pow2[MaxBits + 1] = 2 * Pow2[MaxBits]
            /\ Pow2[MaxBits] \in Nat
        BY <3>1, Pow2Step
      <3> QED BY <3>2
    <2>2. MaxBits + 3 \in Nat /\ WordBits \in Nat /\ MaxBits + 3 <= WordBits
      BY <1>1, WidthAssumption
    <2> QED BY <2>1, <2>2, Pow2Grows DEF Word
  <1>4. Word <= Pow2[IntSize * DigitBits]
    <2>1. IntSize * DigitBits \in Nat /\ WordBits \in Nat /\ WordBits <= IntSize * DigitBits
      BY <1>1, WidthAssumption
    <2> QED BY <2>1, Pow2Grows DEF Word
  <1>5. Word \in Nat \ {0}
    BY <1>1, Pow2Step DEF Word
  <1> QED BY <1>1, <1>2, <1>3, <1>4, <1>5

\* What is left of a number once its first digit is taken.
LEMMA Shorter ==
  ASSUME NEW n \in Nat, n >= Base
  PROVE  /\ n \div Base \in Nat /\ n \div Base >= 1 /\ n \div Base < n
         /\ n % Base \in 0 .. Base - 1
         /\ n = (n % Base) + Base * (n \div Base)
         /\ \A k \in Nat : n < Base * k => n \div Base < k
  <1> DEFINE q == n \div Base
             r == n % Base
  <1>1. Base \in Nat /\ Base >= 2
    BY Widths
  <1>2. q \in Int /\ r \in 0 .. Base - 1 /\ n = Base * q + r
    BY <1>1
  <1> HIDE DEF q, r
  <1>3. q >= 1
    <2> SUFFICES ASSUME q <= 0 PROVE FALSE
      BY <1>2
    <2>1. Base * q <= 0
      BY <1>1, <1>2
    <2> QED BY <1>1, <1>2, <2>1
  <1>4. q < n
    <2> DEFINE p == Base * q
    <2>1. p >= 2 * q /\ p \in Int
      BY <1>1, <1>2, <1>3
    <2>2. n = p + r
      BY <1>2
    <2> HIDE DEF p
    <2>3. r >= 0 /\ r \in Int
      BY <1>1, <1>2
    <2> QED BY <1>2, <1>3, <2>1, <2>2, <2>3
  <1>5. ASSUME NEW k \in Nat, n < Base * k PROVE q < k
    <2> SUFFICES ASSUME q >= k PROVE FALSE
      BY <1>2
    <2>1. Base * q >= Base * k
      BY <1>1, <1>2
    <2> QED BY <1>1, <1>2, <1>5, <2>1
  <1>6. q \in Nat /\ q >= 1 /\ q < n
    BY <1>2, <1>3, <1>4
  <1>7. n = r + Base * q
    <2>1. Base * q \in Int /\ r \in Int
      BY <1>1, <1>2
    <2> QED BY <1>2, <2>1
  <1> QED BY <1>2, <1>5, <1>6, <1>7 DEF q, r

\* What the digits from each on add up to.
Sums(t, s, n) ==
  /\ t[1] = n
  /\ t[Len(s)] = s[Len(s)]
  /\ \A i \in 1 .. Len(s) - 1 : t[i] = (s[i] % Base) + Base * t[i + 1]

\* s is how n is written: all digits but the last are marked, and they add up to n.
Encodes(s, n) ==
  /\ s \in Seq(Nat) /\ Len(s) \in Nat \ {0}
  /\ s[Len(s)] < Base /\ \A i \in 1 .. Len(s) - 1 : s[i] >= Base
  /\ \E t \in [1 .. Len(s) -> Nat] : Sums(t, s, n)
  /\ \A k \in Nat : n < Pow2[k * DigitBits] => Len(s) <= k \/ Len(s) = 1

LEMMA EncodesShort ==
  ASSUME NEW n \in Nat, n < Base
  PROVE  Encodes(<<n>>, n)
  <1> DEFINE t == [i \in 1 .. 1 |-> n]
  <1>1. t \in [1 .. Len(<<n>>) -> Nat] /\ Sums(t, <<n>>, n)
    BY DEF Sums
  <1>2. \E u \in [1 .. Len(<<n>>) -> Nat] : Sums(u, <<n>>, n)
    BY <1>1
  <1> QED BY <1>2 DEF Encodes

LEMMA EncodesLong ==
  ASSUME NEW n \in Nat, n >= Base, NEW r, Encodes(r, n \div Base)
  PROVE  Encodes(<<(n % Base) + Base>> \o r, n)
  <1> DEFINE d == (n % Base) + Base
             m == Len(r)
             s == <<d>> \o r
  <1>1. /\ r \in Seq(Nat) /\ m \in Nat \ {0}
        /\ r[m] < Base /\ \A i \in 1 .. m - 1 : r[i] >= Base
    BY DEF Encodes
  <1>2. PICK u \in [1 .. m -> Nat] : Sums(u, r, n \div Base)
    BY DEF Encodes
  <1>3. /\ Base \in Nat /\ Base >= 2
        /\ n % Base \in 0 .. Base - 1 /\ n \div Base \in Nat
        /\ n = (n % Base) + Base * (n \div Base)
    BY Shorter, Widths
  <1>4. d \in Nat /\ d >= Base /\ d % Base = n % Base
    BY <1>3
  <1> HIDE DEF d
  <1>5. /\ s \in Seq(Nat) /\ Len(s) = m + 1 /\ s[1] = d
        /\ \A i \in 1 .. m : s[i + 1] = r[i]
    BY <1>1, <1>4
  <1> HIDE DEF s
  <1>6. s[m + 1] = r[m] /\ \A i \in 2 .. m : s[i] = r[i - 1]
    <2>1. ASSUME NEW i \in 2 .. m PROVE s[i] = r[i - 1]
      <3>1. i - 1 \in 1 .. m /\ (i - 1) + 1 = i
        BY <1>1
      <3> QED BY <1>5, <3>1
    <2>2. m \in 1 .. m
      BY <1>1
    <2> QED BY <1>5, <2>1, <2>2
  <1>7. /\ s[Len(s)] < Base /\ \A i \in 1 .. Len(s) - 1 : s[i] >= Base
    <2>1. ASSUME NEW i \in 1 .. m PROVE s[i] >= Base
      <3>1. CASE i = 1
        BY <1>4, <1>5, <3>1
      <3>2. CASE i # 1
        <4>1. i \in 2 .. m /\ i - 1 \in 1 .. m - 1
          BY <1>1, <3>2
        <4> QED BY <1>1, <1>6, <4>1
      <3> QED BY <3>1, <3>2
    <2>2. Len(s) - 1 = m /\ Len(s) = m + 1
      BY <1>1, <1>5
    <2> QED BY <1>1, <1>6, <2>1, <2>2
  <1>8. \E t \in [1 .. Len(s) -> Nat] : Sums(t, s, n)
    <2> DEFINE t == [i \in 1 .. m + 1 |-> IF i = 1 THEN n ELSE u[i - 1]]
    <2>1. t \in [1 .. m + 1 -> Nat] /\ t[1] = n /\ \A i \in 1 .. m : t[i + 1] = u[i]
      BY <1>1
    <2> HIDE DEF t
    <2>2. t[m + 1] = s[m + 1]
      <3>1. m \in 1 .. m
        BY <1>1
      <3> QED BY <1>2, <1>6, <2>1, <3>1 DEF Sums
    <2>3. ASSUME NEW i \in 1 .. m PROVE t[i] = (s[i] % Base) + Base * t[i + 1]
      <3>1. CASE i = 1
        <4>1. 1 \in 1 .. m /\ t[2] = u[1]
          BY <1>1, <2>1
        <4> QED BY <1>2, <1>3, <1>4, <1>5, <2>1, <3>1, <4>1 DEF Sums
      <3>2. CASE i # 1
        <4>1. i \in 2 .. m /\ i - 1 \in 1 .. m - 1 /\ (i - 1) + 1 = i /\ i - 1 \in 1 .. m
          BY <1>1, <3>2
        <4>2. s[i] = r[i - 1] /\ t[i] = u[i - 1] /\ t[i + 1] = u[i]
          BY <1>6, <2>1, <4>1
        <4>3. u[i - 1] = (r[i - 1] % Base) + Base * u[(i - 1) + 1]
          BY <1>2, <4>1 DEF Sums
        <4> QED BY <4>1, <4>2, <4>3
      <3> QED BY <3>1, <3>2
    <2>4. Sums(t, s, n)
      <3>1. Len(s) = m + 1 /\ Len(s) - 1 = m
        BY <1>1, <1>5
      <3> QED BY <2>1, <2>2, <2>3, <3>1 DEF Sums
    <2> QED BY <1>5, <2>1, <2>4
  <1>9. ASSUME NEW k \in Nat, n < Pow2[k * DigitBits]
        PROVE  Len(s) <= k
    <2>1. DigitBits \in Nat \ {0}
      BY WidthAssumption
    <2>2. k # 0
      <3> SUFFICES ASSUME k = 0 PROVE FALSE
        OBVIOUS
      <3>1. k * DigitBits = 0
        BY <2>1
      <3>2. Pow2[k * DigitBits] = 1
        BY <3>1, Pow2Step
      <3> QED BY <1>3, <1>9, <3>2
    <2> DEFINE p == Pow2[(k - 1) * DigitBits]
    <2>3. k - 1 \in Nat /\ (k - 1) * DigitBits \in Nat /\ DigitBits \in Nat
          /\ (k - 1) * DigitBits + DigitBits = k * DigitBits
      BY <2>1, <2>2
    <2>4. Pow2[k * DigitBits] = p * Base /\ p \in Nat \ {0}
      BY <2>3, Pow2Step, Pow2Sum DEF Base
    <2> HIDE DEF p
    <2>5. p * Base = Base * p
      BY <1>3, <2>4
    <2>6. n \div Base < p
      BY <1>9, <2>4, <2>5, Shorter
    <2>7. m <= k - 1 \/ m = 1
      BY <2>3, <2>6 DEF Encodes, p
    <2>8. k # 1
      <3> SUFFICES ASSUME k = 1 PROVE FALSE
        OBVIOUS
      <3>1. k * DigitBits = DigitBits
        BY <2>1
      <3> QED BY <1>3, <1>9, <3>1 DEF Base
    <2> QED BY <1>1, <1>5, <2>2, <2>7, <2>8
  <1>10. Encodes(s, n)
    BY <1>1, <1>5, <1>7, <1>8, <1>9 DEF Encodes
  <1> QED BY <1>10 DEF s, d

\* What run_len_encode writes.
LEMMA Encoded ==
  ASSUME NEW i \in Nat
  PROVE  Encodes(RunLenEncode(i), i)
  <1> DEFINE Digits(f, n) == IF n < Base THEN <<n>>
                             ELSE <<(n % Base) + Base>> \o f[n \div Base]
             Is(f) == f = [n \in 0 .. i |-> Digits(f, n)]
             F == CHOOSE f : Is(f)
             Built(m) == \E f : \A n \in 0 .. i : n <= m => f[n] = Digits(f, n)
             S == {m \in Nat : Built(m)}
  <1>1. RunLenEncode(i) = F[i]
    BY DEF RunLenEncode
  <1>2. Base \in Nat /\ Base >= 2
    BY Widths
  <1>3. 0 \in S
    <2> DEFINE f == [n \in 0 .. i |-> <<n>>]
    <2>1. \A n \in 0 .. i : n <= 0 => f[n] = Digits(f, n)
      BY <1>2
    <2> HIDE DEF f
    <2> QED BY <2>1
  <1>4. ASSUME NEW m \in Nat, m \in S PROVE m + 1 \in S
    <2>1. PICK f : \A n \in 0 .. i : n <= m => f[n] = Digits(f, n)
      BY <1>4
    <2> DEFINE g == [n \in 0 .. i |-> IF n <= m THEN f[n] ELSE Digits(f, n)]
    <2>2. \A n \in 0 .. i : g[n] = Digits(f, n)
      BY <2>1
    <2>3. \A n \in 0 .. i : n <= m => g[n] = f[n]
      OBVIOUS
    <2> HIDE DEF g
    <2>4. ASSUME NEW n \in 0 .. i, n <= m + 1 PROVE g[n] = Digits(g, n)
      <3>1. CASE n < Base
        BY <2>2, <3>1
      <3>2. CASE ~(n < Base)
        <4>1. n \in Nat /\ n >= Base
          BY <1>2, <3>2
        <4>2. n \div Base \in Nat /\ n \div Base < n
          BY <4>1, Shorter
        <4>3. n \div Base \in 0 .. i /\ n \div Base <= m
          BY <2>4, <4>1, <4>2
        <4> QED BY <2>2, <2>3, <4>3
      <3> QED BY <3>1, <3>2
    <2>5. Built(m + 1)
      <3> HIDE DEF Digits
      <3> QED BY <2>4
    <2> HIDE DEF Built
    <2> QED BY <2>5
  <1>5. Built(i)
    <2>1. Nat \subseteq S
      <3> HIDE DEF S
      <3> QED BY <1>3, <1>4, SetInduction
    <2> HIDE DEF Built
    <2> QED BY <2>1
  <1>6. Is(F)
    <2>1. PICK f : \A n \in 0 .. i : n <= i => f[n] = Digits(f, n)
      BY <1>5
    <2> DEFINE g == [n \in 0 .. i |-> f[n]]
    <2>2. ASSUME NEW n \in 0 .. i PROVE g[n] = Digits(g, n)
      <3>1. f[n] = Digits(f, n)
        BY <2>1
      <3>2. CASE n < Base
        BY <3>1, <3>2
      <3>3. CASE ~(n < Base)
        <4>1. n \in Nat /\ n >= Base
          BY <1>2, <3>3
        <4>2. n \div Base \in 0 .. i
          BY <4>1, Shorter
        <4> QED BY <3>1, <4>2
      <3> QED BY <3>2, <3>3
    <2>3. Is(g)
      <3> HIDE DEF Digits
      <3> QED BY <2>2
    <2> HIDE DEF Is
    <2> QED BY <2>3
  <1>7. \A n \in 0 .. i : F[n] = Digits(F, n)
    <2> HIDE DEF F, Digits
    <2> QED BY <1>6
  <1> HIDE DEF F
  <1> DEFINE T == {m \in Nat : \A n \in 0 .. i : n <= m => Encodes(F[n], n)}
  <1>8. 0 \in T
    <2>1. F[0] = <<0>>
      <3>1. 0 \in 0 .. i /\ 0 < Base
        BY <1>2
      <3>2. F[0] = Digits(F, 0) /\ Digits(F, 0) = <<0>>
        BY <1>7, <3>1
      <3> QED BY <3>2
    <2>2. Encodes(<<0>>, 0)
      BY <1>2, EncodesShort
    <2> QED BY <2>1, <2>2
  <1>9. ASSUME NEW m \in Nat, m \in T PROVE m + 1 \in T
    <2> SUFFICES ASSUME NEW n \in 0 .. i, n <= m + 1 PROVE Encodes(F[n], n)
      OBVIOUS
    <2>1. CASE n < Base
      <3>1. F[n] = <<n>>
        BY <1>7, <2>1
      <3> QED BY <2>1, <3>1, EncodesShort
    <2>2. CASE ~(n < Base)
      <3>1. n \in Nat /\ n >= Base
        BY <1>2, <2>2
      <3>2. n \div Base \in 0 .. i /\ n \div Base <= m
        BY <3>1, Shorter
      <3>3. Encodes(F[n \div Base], n \div Base)
        BY <1>9, <3>2
      <3>4. F[n] = <<(n % Base) + Base>> \o F[n \div Base]
        BY <1>7, <2>2
      <3> QED BY <3>1, <3>3, <3>4, EncodesLong
    <2> QED BY <2>1, <2>2
  <1>10. Nat \subseteq T
    <2> HIDE DEF T
    <2> QED BY <1>8, <1>9, SetInduction
  <1>11. Encodes(F[i], i)
    BY <1>10
  <1> QED BY <1>1, <1>11

\* What run_len_decode makes of digits that are followed by anything.
LEMMA Decoded ==
  ASSUME NEW i \in Nat, NEW s, Encodes(s, i), NEW rest \in Seq(Int)
  PROVE  RunLength(s \o rest) = Len(s) /\ RunLenDecode(s \o rest) = i % Word
  <1> DEFINE cells == s \o rest
             n == Len(s)
  <1>1. /\ s \in Seq(Nat) /\ n \in Nat \ {0}
        /\ s[n] < Base /\ \A j \in 1 .. n - 1 : s[j] >= Base
    BY DEF Encodes
  <1>2. Len(cells) \in Nat /\ n <= Len(cells) /\ \A j \in 1 .. n : cells[j] = s[j]
    <2>1. s \in Seq(Int)
      BY <1>1
    <2> QED BY <1>1, <2>1, ConcatProperties
  <1> HIDE DEF cells
  <1>3. RunLength(cells) = n
    <2> DEFINE End(k) == cells[k] < Base /\ \A j \in 1 .. k - 1 : cells[j] >= Base
    <2>1. n \in 1 .. Len(cells) /\ End(n)
      <3>1. n \in 1 .. n /\ n \in 1 .. Len(cells) /\ \A j \in 1 .. n - 1 : j \in 1 .. n
        BY <1>1, <1>2
      <3>2. cells[n] < Base
        BY <1>1, <1>2, <3>1
      <3>3. \A j \in 1 .. n - 1 : cells[j] >= Base
        BY <1>1, <1>2, <3>1
      <3> QED BY <3>1, <3>2, <3>3
    <2>2. ASSUME NEW k \in 1 .. Len(cells), End(k) PROVE k = n
      <3>1. k \in Nat /\ Base \in Nat /\ \A j \in 1 .. n : cells[j] \in Nat
        <4>1. \A j \in 1 .. n : s[j] \in Nat
          BY <1>1
        <4> QED BY <1>2, <4>1, Widths
      <3>2. CASE k < n
        <4>1. k \in 1 .. n - 1 /\ k \in 1 .. n
          BY <1>1, <3>1, <3>2
        <4>2. cells[k] >= Base /\ cells[k] < Base /\ cells[k] \in Nat
          BY <1>1, <1>2, <2>2, <3>1, <4>1
        <4> QED BY <3>1, <4>2
      <3>3. CASE n < k
        <4>1. n \in 1 .. k - 1 /\ n \in 1 .. n
          BY <1>1, <3>1, <3>3
        <4>2. cells[n] >= Base /\ cells[n] < Base /\ cells[n] \in Nat
          BY <1>1, <1>2, <2>2, <3>1, <4>1
        <4> QED BY <3>1, <4>2
      <3> QED BY <1>1, <3>1, <3>2, <3>3
    <2>3. RunLength(cells) = CHOOSE k \in 1 .. Len(cells) : End(k)
      BY DEF RunLength
    <2> HIDE DEF End
    <2> QED BY <2>1, <2>2, <2>3
  <1>4. PICK t \in [1 .. n -> Nat] : Sums(t, s, i)
    BY DEF Encodes
  <1> DEFINE Value(f, k) == IF k = 0 THEN 0
                            ELSE (cells[(n + 1) - k] % Base) + (Base * f[k - 1])
             Is(f) == f = [k \in 0 .. n |-> Value(f, k)]
             F == CHOOSE f : Is(f)
             h == [k \in 0 .. n |-> IF k = 0 THEN 0 ELSE t[(n + 1) - k]]
  <1>5. RunLenDecode(cells) = F[n] % Word
    BY <1>3 DEF RunLenDecode
  <1>6. h[0] = 0 /\ \A k \in 1 .. n : h[k] = t[(n + 1) - k]
    BY <1>1
  <1>7. h = [k \in 0 .. n |-> h[k]]
    OBVIOUS
  <1> HIDE DEF h
  <1>8. ASSUME NEW k \in 0 .. n PROVE h[k] = Value(h, k)
    <2>1. CASE k = 0
      BY <1>6, <2>1
    <2>2. CASE k = 1
      <3>1. n \in 1 .. n /\ 1 \in 1 .. n /\ (n + 1) - 1 = n /\ k - 1 = 0 /\ k # 0
        BY <1>1, <2>2
      <3>2. h[k] = t[n] /\ cells[(n + 1) - k] = s[n] /\ h[k - 1] = 0 /\ t[n] = s[n]
        BY <1>2, <1>4, <1>6, <2>2, <3>1 DEF Sums
      <3>3. s[n] \in Nat /\ s[n] % Base = s[n]
        <4> DEFINE d == s[n]
        <4>1. d \in Nat /\ d < Base /\ Base \in Nat
          BY <1>1, <3>1, Widths
        <4> HIDE DEF d
        <4>2. d % Base = d
          BY <4>1
        <4> QED BY <4>1, <4>2 DEF d
      <3>4. Value(h, k) = (s[n] % Base) + (Base * 0)
        BY <3>1, <3>2
      <3>5. Base * 0 = 0
        BY Widths
      <3> QED BY <3>2, <3>3, <3>4, <3>5
    <2>3. CASE k \notin {0, 1}
      <3>1. /\ k \in 1 .. n /\ k - 1 \in 1 .. n /\ (n + 1) - k \in 1 .. n - 1
            /\ (n + 1) - k \in 1 .. n
            /\ (n + 1) - (k - 1) = ((n + 1) - k) + 1 /\ k # 0
        BY <1>1, <2>3
      <3>2. h[k] = t[(n + 1) - k] /\ h[k - 1] = t[((n + 1) - k) + 1]
        BY <1>6, <3>1
      <3>3. t[(n + 1) - k] = (s[(n + 1) - k] % Base) + Base * t[((n + 1) - k) + 1]
        BY <1>4, <3>1 DEF Sums
      <3>4. cells[(n + 1) - k] = s[(n + 1) - k]
        BY <1>2, <3>1
      <3>5. Value(h, k) = (cells[(n + 1) - k] % Base) + (Base * h[k - 1])
        BY <3>1
      <3> QED BY <3>2, <3>3, <3>4, <3>5
    <2> QED BY <2>1, <2>2, <2>3
  <1>9. Is(F)
    <2>1. Is(h)
      <3> HIDE DEF Value
      <3> QED BY <1>7, <1>8
    <2> HIDE DEF Is
    <2> QED BY <2>1
  <1>10. \A k \in 0 .. n : F[k] = Value(F, k)
    <2> HIDE DEF F, Value
    <2> QED BY <1>9
  <1> HIDE DEF F
  <1> DEFINE T == {k \in Nat : k <= n => F[k] = h[k]}
  <1>11. 0 \in T
    <2>1. 0 \in 0 .. n
      BY <1>1
    <2>2. F[0] = 0
      BY <1>10, <2>1
    <2> QED BY <1>6, <2>2
  <1>12. ASSUME NEW k \in Nat, k \in T PROVE k + 1 \in T
    <2> SUFFICES ASSUME k + 1 <= n PROVE F[k + 1] = h[k + 1]
      OBVIOUS
    <2>1. k + 1 \in 0 .. n /\ (k + 1) - 1 = k /\ k <= n /\ k + 1 # 0
      BY <1>1
    <2>2. F[k] = h[k]
      BY <1>12, <2>1
    <2>3. Value(F, k + 1) = Value(h, k + 1)
      BY <2>1, <2>2
    <2> HIDE DEF Value
    <2> QED BY <1>8, <1>10, <2>1, <2>3
  <1>13. Nat \subseteq T
    <2> HIDE DEF T
    <2> QED BY <1>11, <1>12, SetInduction
  <1>14. F[n] = h[n]
    BY <1>1, <1>13
  <1>15. h[n] = i
    <2>1. n \in 1 .. n /\ (n + 1) - n = 1
      BY <1>1
    <2> QED BY <1>4, <1>6, <2>1 DEF Sums
  <1> QED BY <1>3, <1>5, <1>14, <1>15 DEF cells

-----------------------------------------------------------------------------
(* A feature                                                               *)

\* The indices of at most MaxBits bits.
Indices == 0 .. Pow2[MaxBits] - 1

\* A difference of two indices, with two flags, is a number below Word, and is
\* what it was when it is decoded.
LEMMA Differences ==
  ASSUME NEW last \in Indices, NEW w \in Indices, NEW flag \in {0, neg_1, general}
  PROVE  LET word == ((ZigZagEncode(w - last) * 4) % Word) + flag
         IN  /\ word \in Nat /\ word < Word
             /\ ZigZagDecode(word \div 4) = w - last
             /\ word % 4 = flag /\ (word % 2 = neg_1 <=> flag = neg_1)
  <1> DEFINE d == w - last
             p == Pow2[MaxBits]
             z == IF d >= 0 THEN 2 * d ELSE -2 * d - 1
             word == 4 * z + flag
  <1>1. p \in Nat \ {0} /\ Word \in Nat \ {0} /\ 8 * p <= Word
    BY Widths, Pow2Step, WidthAssumption
  <1>2. d \in Int /\ -p < d /\ d < p
    BY <1>1 DEF Indices
  <1> HIDE DEF d, p
  <1>3. z \in Nat /\ z <= 2 * p - 1
    BY <1>1, <1>2
  <1>4. z % Word = z
    BY <1>1, <1>3
  <1>5. ZigZagEncode(d) = z
    BY <1>2, <1>4 DEF ZigZagEncode
  <1>6. (z * 4) % Word = 4 * z
    BY <1>1, <1>3
  <1>7. flag \in 0 .. 2
    BY DEF neg_1, general
  <1>8. word \in Nat /\ word < Word /\ word \div 4 = z /\ word % 4 = flag
        /\ (word % 2 = 1 <=> flag = 1)
    <2> HIDE DEF z
    <2>1. word \in Nat /\ word <= 8 * p - 2 /\ word = 4 * z + flag
      BY <1>1, <1>3, <1>7
    <2> HIDE DEF word
    <2>2. word % 2 = 1 <=> flag = 1
      BY <1>3, <1>7, <2>1
    <2> QED BY <1>1, <1>3, <1>7, <2>1, <2>2
  <1>9. ZigZagDecode(z) = d
    <2>1. CASE d >= 0
      <3>1. z = 2 * d
        BY <2>1
      <3>2. z % 2 = 0 /\ z \div 2 = d
        BY <1>2, <2>1, <3>1
      <3> QED BY <3>2 DEF ZigZagDecode
    <2>2. CASE ~(d >= 0)
      <3>1. z = -2 * d - 1
        BY <2>2
      <3>2. z % 2 # 0 /\ (z + 1) \div 2 = -d
        BY <1>2, <2>2, <3>1
      <3> QED BY <1>2, <3>2 DEF ZigZagDecode
    <2> QED BY <2>1, <2>2
  <1> HIDE DEF z
  <1>10. ((ZigZagEncode(d) * 4) % Word) + flag = word
    BY <1>5, <1>6
  <1> HIDE DEF word
  <1> QED BY <1>8, <1>9, <1>10 DEF d, neg_1

\* A feature of a cache.
CachedFeature == [x : Int, weight_index : Indices]

LEMMA FeatureDecoded ==
  ASSUME NEW last \in Indices, NEW f \in CachedFeature, NEW rest \in Seq(Int)
  PROVE  LET cells == FeatureCells(last, f)
         IN  /\ cells \in Seq(Int) /\ Len(cells) >= 1
             /\ Len(cells) <= IntSize + (IF IsUnit(f.x) THEN 0 ELSE 1)
             /\ DecodeFeature(cells \o rest, last) =
                  [x |-> f.x, weight_index |-> f.weight_index,
                   backwards |-> f.weight_index < last, behind |-> rest]
  <1> DEFINE x == f.x
             w == f.weight_index
             word == ((ZigZagEncode(w - last) * 4) % Word) + Flag(x)
             R == RunLenEncode(word)
             V == IF IsUnit(x) THEN <<>> ELSE <<x>>
             n == Len(R)
             cells == (R \o V) \o rest
  <1>1. x \in Int /\ w \in Indices /\ w \in Int /\ last \in Int
    BY Pow2Step, WidthAssumption DEF CachedFeature, Indices
  <1>2. /\ Flag(x) \in {0, neg_1, general}
        /\ Flag(x) = neg_1 <=> x = -1
        /\ Flag(x) = general <=> ~IsUnit(x)
        /\ Flag(x) = 0 <=> x = 1
    BY <1>1 DEF Flag, neg_1, general, IsUnit
  <1>3. /\ word \in Nat /\ word < Word /\ ZigZagDecode(word \div 4) = w - last
        /\ word % 4 = Flag(x) /\ (word % 2 = neg_1 <=> Flag(x) = neg_1)
    <2> DEFINE flag == Flag(x)
    <2>1. flag \in {0, neg_1, general}
      BY <1>2
    <2> HIDE DEF flag, w, x
    <2> QED BY <1>1, <2>1, Differences DEF flag
  <1>4. FeatureCells(last, f) = R \o V
    BY DEF FeatureCells
  <1> HIDE DEF word, w, x
  <1>5. Encodes(R, word)
    BY <1>3, Encoded
  <1>6. R \in Seq(Int) /\ n \in Nat \ {0} /\ n <= IntSize
    <2>1. R \in Seq(Nat) /\ n \in Nat \ {0}
      BY <1>5 DEF Encodes
    <2>2. IntSize \in Nat \ {0} /\ word < Pow2[IntSize * DigitBits]
      <3>1. /\ IntSize \in Nat \ {0} /\ DigitBits \in Nat /\ Word \in Nat
            /\ Word <= Pow2[IntSize * DigitBits]
        BY Widths, WidthAssumption
      <3>2. IntSize * DigitBits \in Nat
        BY <3>1
      <3>3. Pow2[IntSize * DigitBits] \in Nat
        BY <3>2, Pow2Step
      <3> QED BY <1>3, <3>1, <3>3, SMTT(40)
    <2>3. n <= IntSize
      BY <1>5, <2>1, <2>2 DEF Encodes
    <2> HIDE DEF R
    <2>4. R \in Seq(Int)
      BY <2>1
    <2> QED BY <2>1, <2>3, <2>4
  <1>7. V \in Seq(Int) /\ Len(V) = IF IsUnit(x) THEN 0 ELSE 1
    BY <1>1
  <1>8. ~IsUnit(x) => V = <<x>>
    OBVIOUS
  <1> HIDE DEF R, V
  <1>9. /\ R \o V \in Seq(Int) /\ Len(R \o V) = n + Len(V)
        /\ V \o rest \in Seq(Int) /\ cells = R \o (V \o rest)
    <2>1. /\ Cat(R, V) \in Seq(Int) /\ Len(Cat(R, V)) = Len(R) + Len(V)
          /\ Cat(V, rest) \in Seq(Int) /\ Cat(Cat(R, V), rest) = Cat(R, Cat(V, rest))
      <3>1. R \in Seq(Int) /\ V \in Seq(Int) /\ rest \in Seq(Int)
        BY <1>6, <1>7
      <3> HIDE DEF cells, n
      <3>2. Cat(Cat(R, V), rest) = Cat(R, Cat(V, rest))
        BY <3>1, Grouped
      <3>3. Cat(R, V) \in Seq(Int) /\ Len(Cat(R, V)) = Len(R) + Len(V)
        BY <3>1, Grouped
      <3>4. Cat(V, rest) \in Seq(Int)
        BY <3>1, Grouped
      <3> QED BY <3>2, <3>3, <3>4
    <2> QED BY <2>1, Zenon DEF Cat
  <1>10. RunLength(cells) = n /\ RunLenDecode(cells) = word
    <2>1. RunLength(R \o (V \o rest)) = n /\ RunLenDecode(R \o (V \o rest)) = word % Word
      BY <1>3, <1>5, <1>9, Decoded
    <2>2. word % Word = word
      BY <1>3, Widths, SMTT(40)
    <2> QED BY <1>9, <2>1, <2>2
  <1>11. cells \in Seq(Int) /\ (~IsUnit(x) => cells[n + 1] = x)
    <2>1. cells \in Seq(Int)
      BY <1>9
    <2>2. ASSUME ~IsUnit(x) PROVE cells[n + 1] = x
      <3>1. /\ n + 1 \in 1 .. Len(R) + Len(V) /\ n + 1 \in 1 .. Len(R \o V) + Len(rest)
            /\ n + 1 <= Len(R \o V) /\ ~(n + 1 <= Len(R)) /\ (n + 1) - Len(R) = 1
        BY <1>6, <1>7, <1>9, <2>2
      <3>2. cells[n + 1] = (R \o V)[n + 1]
        BY <1>9, <3>1, ConcatProperties
      <3>3. (R \o V)[n + 1] = V[1]
        BY <1>6, <1>7, <3>1, ConcatProperties
      <3> QED BY <1>8, <2>2, <3>2, <3>3
    <2> QED BY <2>1, <2>2
  <1> DEFINE m == IF IsUnit(x) THEN n ELSE n + 1
  <1>12. SubSeq(cells, m + 1, Len(cells)) = rest
    <2> DEFINE u == R \o V
    <2>1. u \in Seq(Int) /\ Len(u) = m /\ m \in 0 .. Len(u)
      BY <1>6, <1>7, <1>9
    <2> HIDE DEF u, m
    <2>2. SubSeq(u \o rest, m + 1, Len(u \o rest)) = SubSeq(u, m + 1, Len(u)) \o rest
      BY <2>1, TakeFront
    <2>3. SubSeq(u, m + 1, Len(u)) = <<>>
      BY <2>1, SubSeqEmpty
    <2>4. <<>> \o rest = rest
      OBVIOUS
    <2> QED BY <2>2, <2>3, <2>4 DEF u
  <1> HIDE DEF cells
  <1>13. DecodeFeature(cells, last) =
           [x |-> x, weight_index |-> w, backwards |-> w < last, behind |-> rest]
    <2> DEFINE diff == ZigZagDecode(word \div 4)
               got == CASE word % 2 = neg_1 -> -1
                        [] word % 4 = general -> cells[n + 1]
                        [] OTHER -> 1
               taken == IF word % 4 = general THEN n + 1 ELSE n
    <2>1. diff = w - last
      BY <1>3
    <2>2. taken = m
      BY <1>2, <1>3
    <2>3. got = x
      <3>1. neg_1 # general
        BY DEF neg_1, general
      <3>2. x \in {1, -1} \/ ~IsUnit(x)
        BY DEF IsUnit
      <3>3. CASE x = -1
        BY <1>2, <1>3, <3>1, <3>3
      <3>4. CASE x # -1 /\ ~IsUnit(x)
        BY <1>2, <1>3, <1>11, <3>4
      <3>5. CASE x = 1
        <4>1. x # -1 /\ IsUnit(x)
          BY <3>5 DEF IsUnit
        <4> QED BY <1>2, <1>3, <3>5, <4>1
      <3>6. x = -1 => IsUnit(x)
        BY DEF IsUnit
      <3> QED BY <3>2, <3>3, <3>4, <3>5, <3>6
    <2>4. DecodeFeature(cells, last) =
            [x |-> got, weight_index |-> last + diff, backwards |-> diff < 0,
             behind |-> SubSeq(cells, taken + 1, Len(cells))]
      BY <1>10 DEF DecodeFeature
    <2> HIDE DEF diff, got, taken, m
    <2>5. last + diff = w /\ (diff < 0) = (w < last)
      BY <1>1, <2>1
    <2>6. SubSeq(cells, taken + 1, Len(cells)) = rest
      BY <1>12, <2>2
    <2> QED BY <2>3, <2>4, <2>5, <2>6, Zenon
  <1>14. Len(R \o V) >= 1 /\ Len(R \o V) <= IntSize + (IF IsUnit(x) THEN 0 ELSE 1)
    BY <1>6, <1>7, <1>9, Widths
  <1> QED BY <1>4, <1>9, <1>13, <1>14 DEF cells, x, w

\* The pieces of the body of a namespace.
Coded(fs) == [i \in 1 .. Len(fs) |-> FeatureCells(Last0(fs, i), fs[i])]

LEMMA LastIndex ==
  ASSUME NEW fs \in Seq(CachedFeature), NEW i \in 1 .. Len(fs)
  PROVE  Last0(fs, i) \in Indices /\ fs[i] \in CachedFeature
  <1>1. Len(fs) \in Nat /\ \A j \in 1 .. Len(fs) : fs[j] \in CachedFeature
    OBVIOUS
  <1>2. CASE i = 1
    <2>1. Pow2[MaxBits] \in Nat \ {0}
      BY Pow2Step, WidthAssumption
    <2>2. 0 \in Indices
      BY <2>1 DEF Indices
    <2> QED BY <1>1, <1>2, <2>2 DEF Last0
  <1>3. CASE i # 1
    <2>1. i - 1 \in 1 .. Len(fs)
      BY <1>1, <1>3
    <2> QED BY <1>1, <1>3, <2>1 DEF Last0, CachedFeature
  <1> QED BY <1>2, <1>3

\* The rounds of read_cached_features: what is before it is decoded to what was
\* written, and the next round finds what is behind.
THEOREM NamespaceDecoded ==
  ASSUME NEW fs \in Seq(CachedFeature)
  PROVE  /\ Coded(fs) \in Seq(Seq(Int)) /\ Len(Coded(fs)) = Len(fs)
         /\ Body(fs) = FlatFrom(Coded(fs), 1)
         /\ FlatFrom(Coded(fs), Len(fs) + 1) = <<>>
         /\ \A i \in 1 .. Len(fs) :
              /\ FlatFrom(Coded(fs), i) \in Seq(Int) /\ FlatFrom(Coded(fs), i) # <<>>
              /\ DecodeFeature(FlatFrom(Coded(fs), i), Last0(fs, i)) =
                   [x |-> fs[i].x, weight_index |-> fs[i].weight_index,
                    backwards |-> fs[i].weight_index < Last0(fs, i),
                    behind |-> FlatFrom(Coded(fs), i + 1)]
  <1> DEFINE P == Coded(fs)
             n == Len(fs)
  <1>1. n \in Nat /\ \A i \in 1 .. n : fs[i] \in CachedFeature
    OBVIOUS
  <1>2. ASSUME NEW i \in 1 .. n PROVE Last0(fs, i) \in Indices
    BY LastIndex
  <1>3. ASSUME NEW i \in 1 .. n PROVE P[i] = FeatureCells(Last0(fs, i), fs[i])
    BY DEF Coded
  <1>4. ASSUME NEW i \in 1 .. n PROVE P[i] \in Seq(Int) /\ Len(P[i]) >= 1
    <2>1. <<>> \in Seq(Int)
      OBVIOUS
    <2> QED BY <1>1, <1>2, <1>3, <2>1, FeatureDecoded
  <1>5. P \in Seq(Seq(Int)) /\ Len(P) = n
    <2>1. P = [i \in 1 .. n |-> P[i]]
      BY DEF Coded
    <2> HIDE DEF P, n
    <2>2. P \in [1 .. n -> Seq(Int)]
      BY <1>4, <2>1
    <2> QED BY <1>1, <2>2
  <1>6. Body(fs) = FlatFrom(P, 1)
    <2>1. Body(fs) = FlattenSeq(P)
      BY DEF Body, Coded
    <2>2. SubSeq(P, 1, Len(P)) = P
      <3> HIDE DEF P
      <3> QED BY <1>5, SubSeqFull
    <2> QED BY <2>1, <2>2 DEF FlatFrom
  <1> HIDE DEF P
  <1>7. FlatFrom(P, n + 1) = <<>>
    BY <1>5, FlatFromEnd
  <1>8. ASSUME NEW i \in 1 .. n
        PROVE  /\ FlatFrom(P, i) \in Seq(Int) /\ FlatFrom(P, i) # <<>>
               /\ DecodeFeature(FlatFrom(P, i), Last0(fs, i)) =
                    [x |-> fs[i].x, weight_index |-> fs[i].weight_index,
                     backwards |-> fs[i].weight_index < Last0(fs, i),
                     behind |-> FlatFrom(P, i + 1)]
    <2>1. i \in 1 .. Len(P) + 1 /\ i + 1 \in 1 .. Len(P) + 1 /\ i \in 1 .. Len(P)
      BY <1>1, <1>5
    <2>2. FlatFrom(P, i) \in Seq(Int) /\ FlatFrom(P, i + 1) \in Seq(Int)
      BY <1>5, <2>1, FlatFromType
    <2>3. FlatFrom(P, i) = P[i] \o FlatFrom(P, i + 1)
      BY <1>5, <2>1, FlatFromFirst
    <2> DEFINE r == FlatFrom(P, i + 1)
               c == P[i]
    <2> HIDE DEF r, c
    <2>4. DecodeFeature(c \o r, Last0(fs, i)) =
            [x |-> fs[i].x, weight_index |-> fs[i].weight_index,
             backwards |-> fs[i].weight_index < Last0(fs, i), behind |-> r]
      <3>1. r \in Seq(Int) /\ c = FeatureCells(Last0(fs, i), fs[i])
        BY <1>3, <2>2 DEF r, c
      <3> QED BY <1>1, <1>2, <3>1, FeatureDecoded
    <2>5. c \o r # <<>>
      <3>1. c \in Seq(Int) /\ r \in Seq(Int) /\ Len(c) >= 1
        BY <1>4, <2>2 DEF r, c
      <3>2. Len(c \o r) = Len(c) + Len(r) /\ Len(r) \in Nat /\ Len(c) \in Nat
        BY <3>1
      <3>3. Len(c \o r) # 0
        BY <3>1, <3>2
      <3> QED BY <3>3
    <2> QED BY <2>2, <2>3, <2>4, <2>5 DEF r, c
  <1> QED BY <1>5, <1>6, <1>7, <1>8 DEF P

\* output_features asks for as much as the body needs, whatever the differences.
LEMMA BodyFits ==
  ASSUME NEW fs \in Seq(CachedFeature)
  PROVE  Body(fs) \in Seq(Int) /\ Len(Body(fs)) <= Storage(fs) /\ Storage(fs) \in Nat
  <1> DEFINE P == Coded(fs)
             n == Len(fs)
             Given(i) == {j \in i .. n : ~IsUnit(fs[j].x)}
             L(i) == Len(FlatFrom(P, i))
             S == {k \in Nat : k <= n =>
                     L((n + 1) - k) <= k * IntSize + Cardinality(Given((n + 1) - k))}
  <1>1. /\ n \in Nat /\ P \in Seq(Seq(Int)) /\ Len(P) = n
        /\ Body(fs) = FlatFrom(P, 1) /\ FlatFrom(P, n + 1) = <<>>
    BY NamespaceDecoded
  <1>2. IntSize \in Nat
    BY Widths
  <1>3. ASSUME NEW i \in 1 .. n
        PROVE  P[i] \in Seq(Int) /\ Len(P[i]) <= IntSize + (IF IsUnit(fs[i].x) THEN 0 ELSE 1)
    <2>1. P[i] = FeatureCells(Last0(fs, i), fs[i])
      BY DEF Coded
    <2>2. Last0(fs, i) \in Indices /\ fs[i] \in CachedFeature
      BY LastIndex
    <2>3. <<>> \in Seq(Int)
      OBVIOUS
    <2> QED BY <2>1, <2>2, <2>3, FeatureDecoded
  <1> HIDE DEF P
  <1>4. ASSUME NEW i \in 1 .. n + 1
        PROVE  IsFiniteSet(Given(i)) /\ Cardinality(Given(i)) \in Nat
    <2>1. IsFiniteSet(i .. n)
      BY <1>1, FS_Interval
    <2>2. Given(i) \subseteq i .. n
      OBVIOUS
    <2> HIDE DEF Given
    <2> QED BY <2>1, <2>2, FS_Subset, FS_CardinalityType
  <1>5. 0 \in S
    <2>1. (n + 1) - 0 = n + 1 /\ 0 * IntSize = 0 /\ n + 1 \in 1 .. n + 1
      BY <1>1, <1>2
    <2>2. L(n + 1) = 0
      BY <1>1
    <2>3. Cardinality(Given(n + 1)) \in Nat
      BY <1>4, <2>1
    <2> HIDE DEF L, Given
    <2> QED BY <2>1, <2>2, <2>3
  <1>6. ASSUME NEW k \in Nat, k \in S PROVE k + 1 \in S
    <2> SUFFICES ASSUME k + 1 <= n
                 PROVE  L((n + 1) - (k + 1)) <=
                          (k + 1) * IntSize + Cardinality(Given((n + 1) - (k + 1)))
      OBVIOUS
    <2> DEFINE i == n - k
    <2>1. i \in 1 .. n /\ (n + 1) - (k + 1) = i /\ (n + 1) - k = i + 1 /\ k <= n
          /\ i \in 1 .. n + 1 /\ i + 1 \in 1 .. n + 1
      BY <1>1
    <2> HIDE DEF i
    <2>2. L(i + 1) <= k * IntSize + Cardinality(Given(i + 1))
      BY <1>6, <2>1
    <2>3. L(i) = Len(P[i]) + L(i + 1) /\ L(i + 1) \in Nat
      <3>1. FlatFrom(P, i) = P[i] \o FlatFrom(P, i + 1) /\ FlatFrom(P, i + 1) \in Seq(Int)
        BY <1>1, <2>1, FlatFromFirst, FlatFromType
      <3> QED BY <1>3, <2>1, <3>1
    <2>4. Cardinality(Given(i)) =
            Cardinality(Given(i + 1)) + (IF IsUnit(fs[i].x) THEN 0 ELSE 1)
      <3>1. IsFiniteSet(Given(i + 1)) /\ i \notin Given(i + 1)
        BY <1>4, <2>1, SMTT(40)
      <3>2. CASE IsUnit(fs[i].x)
        <4>1. Given(i) = Given(i + 1)
          BY <1>1, <2>1, <3>2
        <4>2. Cardinality(Given(i + 1)) \in Nat
          BY <1>4, <2>1
        <4> HIDE DEF Given
        <4> QED BY <3>2, <4>1, <4>2
      <3>3. CASE ~IsUnit(fs[i].x)
        <4>1. Given(i) = Given(i + 1) \cup {i}
          BY <1>1, <2>1, <3>3
        <4> HIDE DEF Given
        <4>2. Cardinality(Given(i)) = Cardinality(Given(i + 1)) + 1
          BY <3>1, <4>1, FS_AddElement
        <4> QED BY <3>3, <4>2
      <3> QED BY <3>2, <3>3
    <2>5. Cardinality(Given(i + 1)) \in Nat
      BY <1>4, <2>1
    <2>6. Len(P[i]) <= IntSize + (IF IsUnit(fs[i].x) THEN 0 ELSE 1) /\ Len(P[i]) \in Nat
      BY <1>3, <2>1
    <2> HIDE DEF L, Given
    <2>7. (k + 1) * IntSize = k * IntSize + IntSize /\ k * IntSize \in Nat
      BY <1>2
    <2>8. L(i) <= (k + 1) * IntSize + Cardinality(Given(i))
      BY <1>2, <2>2, <2>3, <2>4, <2>5, <2>6, <2>7
    <2> QED BY <2>1, <2>8
  <1>7. L(1) <= n * IntSize + Cardinality(Given(1))
    <2>1. n \in S
      <3> HIDE DEF S
      <3> QED BY <1>1, <1>5, <1>6, SetInduction
    <2>2. (n + 1) - n = 1 /\ n <= n
      BY <1>1
    <2> HIDE DEF L, Given
    <2> QED BY <2>1, <2>2
  <1>8. Storage(fs) = n * IntSize + Cardinality(Given(1))
    <2>1. Given(1) = {i \in DOMAIN fs : ~IsUnit(fs[i].x)}
      OBVIOUS
    <2> HIDE DEF Given
    <2> QED BY <2>1 DEF Storage
  <1>9. Storage(fs) \in Nat
    <2> HIDE DEF Given
    <2>1. Cardinality(Given(1)) \in Nat
      <3>1. 1 \in 1 .. n + 1
        BY <1>1
      <3> QED BY <1>4, <3>1
    <2>2. n * IntSize \in Nat
      BY <1>1, <1>2
    <2> QED BY <1>8, <2>1, <2>2
  <1>10. Body(fs) \in Seq(Int)
    BY <1>1, FlatFromType
  <1> QED BY <1>1, <1>7, <1>8, <1>9, <1>10

-----------------------------------------------------------------------------
(* The masks of n-grams                                                    *)

\* What a mask m becomes if i more offsets are added to it past s features and k more
\* may be skipped.
Extensions(i, k, m, s) ==
  {t \in Seq(Nat) :
     /\ Len(t) = Len(m) + i
     /\ \A j \in 1 .. Len(m) : t[j] = m[j]
     /\ \A j \in Len(m) .. Len(t) - 1 : t[j] < t[j + 1]
     /\ i > 0 => t[Len(m) + 1] > m[Len(m)] + s
     /\ t[Len(t)] <= m[Len(m)] + i + s + k}

\* q lists the sequences of T, each once.
Lists(q, T) ==
  /\ q \in Seq(Seq(Nat))
  /\ \A a, b \in 1 .. Len(q) : q[a] = q[b] => a = b
  /\ T = {q[a] : a \in 1 .. Len(q)}

LEMMA ListsBoth ==
  ASSUME NEW q, NEW r, NEW T, NEW U, Lists(q, T), Lists(r, U), T \cap U = {}
  PROVE  Lists(q \o r, T \cup U)
  <1> DEFINE n == Len(q)
             m == Len(r)
             z == q \o r
  <1>1. /\ q \in Seq(Seq(Nat)) /\ r \in Seq(Seq(Nat)) /\ n \in Nat /\ m \in Nat
        /\ \A a, b \in 1 .. n : q[a] = q[b] => a = b
        /\ \A a, b \in 1 .. m : r[a] = r[b] => a = b
        /\ T = {q[a] : a \in 1 .. n} /\ U = {r[a] : a \in 1 .. m}
    BY DEF Lists
  <1>2. /\ z \in Seq(Seq(Nat)) /\ Len(z) = n + m
        /\ \A i \in 1 .. n + m : z[i] = IF i <= n THEN q[i] ELSE r[i - n]
    BY <1>1, ConcatProperties
  <1> HIDE DEF z, n, m
  <1>3. ASSUME NEW a \in 1 .. n + m
        PROVE  IF a <= n THEN a \in 1 .. n /\ z[a] = q[a] /\ z[a] \in T
                         ELSE a - n \in 1 .. m /\ z[a] = r[a - n] /\ z[a] \in U
    <2>1. CASE a <= n
      <3>1. a \in 1 .. n
        BY <1>1, <2>1
      <3> QED BY <1>1, <1>2, <2>1, <3>1
    <2>2. CASE ~(a <= n)
      <3>1. a - n \in 1 .. m
        BY <1>1, <2>2
      <3>2. z[a] = r[a - n] /\ r[a - n] \in U
        BY <1>1, <1>2, <2>2, <3>1
      <3> QED BY <2>2, <3>1, <3>2
    <2> QED BY <2>1, <2>2
  <1>4. ASSUME NEW a \in 1 .. n + m, NEW b \in 1 .. n + m, z[a] = z[b]
        PROVE  a = b
    <2>1. CASE a <= n /\ b <= n
      BY <1>1, <1>3, <1>4, <2>1
    <2>2. CASE ~(a <= n) /\ ~(b <= n)
      <3>1. a - n = b - n
        BY <1>1, <1>3, <1>4, <2>2
      <3> QED BY <1>1, <3>1
    <2>3. CASE (a <= n /\ ~(b <= n)) \/ (~(a <= n) /\ b <= n)
      BY <1>3, <1>4, <2>3
    <2> QED BY <2>1, <2>2, <2>3
  <1>5. T \cup U = {z[a] : a \in 1 .. n + m}
    <2>1. ASSUME NEW a \in 1 .. n PROVE \E c \in 1 .. n + m : z[c] = q[a]
      <3>1. a \in 1 .. n + m /\ a <= n
        BY <1>1
      <3> QED BY <1>2, <3>1
    <2>2. ASSUME NEW a \in 1 .. m PROVE \E c \in 1 .. n + m : z[c] = r[a]
      <3>1. n + a \in 1 .. n + m /\ ~(n + a <= n) /\ (n + a) - n = a
        BY <1>1
      <3> QED BY <1>2, <3>1
    <2>3. \A a \in 1 .. n + m : z[a] \in T \cup U
      BY <1>3
    <2>4. (\A x \in T : \E a \in 1 .. n : x = q[a]) /\ (\A x \in U : \E a \in 1 .. m : x = r[a])
      BY <1>1
    <2>5. ASSUME NEW x \in T \cup U PROVE \E c \in 1 .. n + m : z[c] = x
      BY <2>1, <2>2, <2>4
    <2> QED BY <2>3, <2>5
  <1>6. Lists(z, T \cup U)
    BY <1>2, <1>4, <1>5 DEF Lists
  <1> QED BY <1>6 DEF z

\* A growing sequence grows by one at least.
LEMMA Grows ==
  ASSUME NEW t \in Seq(Nat), NEW a \in 1 .. Len(t),
         \A j \in a .. Len(t) - 1 : t[j] < t[j + 1]
  PROVE  \A b \in a .. Len(t) : t[b] >= t[a] + (b - a)
  <1> DEFINE S == {d \in Nat : a + d <= Len(t) => t[a + d] >= t[a] + d}
  <1>1. \A j \in 1 .. Len(t) : t[j] \in Nat
    OBVIOUS
  <1>2. 0 \in S
    <2>1. a + 0 = a /\ t[a] \in Nat
      BY <1>1
    <2> QED BY <2>1
  <1>3. ASSUME NEW d \in Nat, d \in S PROVE d + 1 \in S
    <2> SUFFICES ASSUME a + (d + 1) <= Len(t) PROVE t[a + (d + 1)] >= t[a] + (d + 1)
      OBVIOUS
    <2>1. /\ a + d \in a .. Len(t) - 1 /\ a + (d + 1) = (a + d) + 1 /\ a + d <= Len(t)
          /\ a + d \in 1 .. Len(t) /\ (a + d) + 1 \in 1 .. Len(t)
      OBVIOUS
    <2>2. t[a + d] < t[(a + d) + 1]
      BY <2>1
    <2>3. t[a + d] >= t[a] + d
      BY <1>3, <2>1
    <2>4. t[a] \in Nat /\ t[a + d] \in Nat /\ t[(a + d) + 1] \in Nat
      BY <1>1, <2>1
    <2> QED BY <2>1, <2>2, <2>3, <2>4, SMTT(40)
  <1>4. Nat \subseteq S
    <2> HIDE DEF S
    <2> QED BY <1>2, <1>3, SetInduction
  <1> TAKE b \in a .. Len(t)
  <1>5. b - a \in Nat /\ a + (b - a) = b
    OBVIOUS
  <1> QED BY <1>4, <1>5

Longest(m, s) == Append(m, m[Len(m)] + 1 + s)

\* A mask is extended by the next feature or skips one more.
LEMMA Extended ==
  ASSUME NEW i \in Nat \ {0}, NEW k \in Nat, NEW m \in Seq(Nat), m # <<>>, NEW s \in Nat
  PROVE  /\ Longest(m, s) \in Seq(Nat) /\ Longest(m, s) # <<>>
         /\ k = 0 => Extensions(i, k, m, s) = Extensions(i - 1, k, Longest(m, s), 0)
         /\ k > 0 => /\ Extensions(i, k, m, s) = Extensions(i - 1, k, Longest(m, s), 0)
                                                  \cup Extensions(i, k - 1, m, s + 1)
                     /\ Extensions(i - 1, k, Longest(m, s), 0)
                          \cap Extensions(i, k - 1, m, s + 1) = {}
  <1> DEFINE r == Longest(m, s)
             n == Len(m)
             v == m[n] + 1 + s
  <1>1. n \in Nat /\ n >= 1 /\ m[n] \in Nat /\ v \in Nat /\ \A j \in 1 .. n : m[j] \in Nat
    OBVIOUS
  <1>2. /\ r \in Seq(Nat) /\ Len(r) = n + 1 /\ r[n + 1] = v /\ \A j \in 1 .. n : r[j] = m[j]
    BY <1>1 DEF Longest
  <1> HIDE DEF r
  <1>3. ASSUME NEW t
        PROVE  t \in Extensions(i - 1, k, r, 0) <=> t \in Extensions(i, k, m, s) /\ t[n + 1] = v
    <2>1. ASSUME t \in Extensions(i - 1, k, r, 0)
          PROVE  t \in Extensions(i, k, m, s) /\ t[n + 1] = v
      <3>1. /\ t \in Seq(Nat) /\ Len(t) = (n + 1) + (i - 1)
            /\ \A j \in 1 .. n + 1 : t[j] = r[j]
            /\ \A j \in n + 1 .. Len(t) - 1 : t[j] < t[j + 1]
            /\ t[Len(t)] <= v + (i - 1) + 0 + k
        BY <1>2, <2>1 DEF Extensions
      <3>2. Len(t) = n + i /\ n + 1 \in 1 .. n + 1 /\ n \in 1 .. n /\ n \in 1 .. n + 1
        <4>1. n \in Nat /\ n >= 1 /\ i \in Nat /\ Len(t) = (n + 1) + (i - 1)
          BY <1>1, <3>1
        <4> HIDE DEF n
        <4> QED BY <4>1
      <3>3. t[n + 1] = v /\ \A j \in 1 .. n : t[j] = m[j]
        <4>1. \A j \in 1 .. n : j \in 1 .. n + 1
          BY <1>1
        <4> QED BY <1>2, <3>1, <3>2, <4>1
      <3>4. \A j \in n .. Len(t) - 1 : t[j] < t[j + 1]
        <4> SUFFICES ASSUME NEW j \in n .. Len(t) - 1 PROVE t[j] < t[j + 1]
          OBVIOUS
        <4>1. CASE j = n
          BY <1>1, <3>2, <3>3, <4>1
        <4>2. CASE j # n
          <5>1. j \in n + 1 .. Len(t) - 1
            BY <1>1, <4>2
          <5> QED BY <3>1, <5>1
        <4> QED BY <4>1, <4>2
      <3>5. t[Len(t)] <= m[n] + i + s + k
        <4>1. v + (i - 1) + 0 + k = m[n] + i + s + k
          BY <1>1
        <4> QED BY <3>1, <4>1
      <3>6. t[n + 1] > m[n] + s
        BY <1>1, <3>3
      <3> QED BY <3>1, <3>2, <3>3, <3>4, <3>5, <3>6 DEF Extensions
    <2>2. ASSUME t \in Extensions(i, k, m, s), t[n + 1] = v
          PROVE  t \in Extensions(i - 1, k, r, 0)
      <3>1. /\ t \in Seq(Nat) /\ Len(t) = n + i
            /\ \A j \in 1 .. n : t[j] = m[j]
            /\ \A j \in n .. Len(t) - 1 : t[j] < t[j + 1]
            /\ t[Len(t)] <= m[n] + i + s + k
        BY <2>2 DEF Extensions
      <3>2. Len(t) = Len(r) + (i - 1)
        BY <1>1, <1>2, <3>1
      <3>3. \A j \in 1 .. Len(r) : t[j] = r[j]
        <4> SUFFICES ASSUME NEW j \in 1 .. n + 1 PROVE t[j] = r[j]
          BY <1>2
        <4>1. CASE j = n + 1
          BY <1>2, <2>2, <4>1
        <4>2. CASE j # n + 1
          <5>1. j \in 1 .. n
            BY <1>1, <4>2
          <5> QED BY <1>2, <3>1, <5>1
        <4> QED BY <4>1, <4>2
      <3>4. \A j \in Len(r) .. Len(t) - 1 : t[j] < t[j + 1]
        BY <1>1, <1>2, <3>1
      <3>5. i - 1 > 0 => t[Len(r) + 1] > r[Len(r)] + 0
        <4> SUFFICES ASSUME i - 1 > 0 PROVE t[(n + 1) + 1] > v + 0
          BY <1>2
        <4>1. n + 1 \in n .. Len(t) - 1
          BY <1>1, <3>1
        <4> DEFINE l == n + 1
        <4>2. l \in Nat /\ l \in n .. Len(t) - 1 /\ l + 1 \in 1 .. Len(t)
          <5>1. n \in Nat /\ Len(t) = n + i /\ i \in Nat /\ i - 1 > 0
            BY <1>1, <3>1
          <5> HIDE DEF n
          <5> QED BY <5>1
        <4>3. t[l] = v
          BY <2>2
        <4> HIDE DEF l, v
        <4>4. t[l] < t[l + 1] /\ t[l + 1] \in Nat
          <5>1. t[l] < t[l + 1]
            BY <3>1, <4>2
          <5>2. t[l + 1] \in Nat
            BY <3>1, <4>2, ElementOfSeq
          <5> QED BY <5>1, <5>2
        <4>5. t[l + 1] > v + 0
          BY <1>1, <4>3, <4>4
        <4> QED BY <4>5 DEF l
      <3>6. t[Len(t)] <= r[Len(r)] + (i - 1) + 0 + k
        <4>1. v + (i - 1) + 0 + k = m[n] + i + s + k
          BY <1>1
        <4> QED BY <1>2, <3>1, <4>1
      <3> QED BY <3>1, <3>2, <3>3, <3>4, <3>5, <3>6 DEF Extensions
    <2> QED BY <2>1, <2>2
  <1>4. ASSUME NEW t, t \in Extensions(i, k, m, s)
        PROVE  t \in Seq(Nat) /\ t[n + 1] \in Nat /\ t[n + 1] >= v
               /\ n + 1 \in 1 .. Len(t) /\ Len(t) = n + i
    <2>1. t \in Seq(Nat) /\ Len(t) = n + i /\ t[n + 1] > m[n] + s
      BY <1>4 DEF Extensions
    <2>2. n + 1 \in 1 .. Len(t)
      BY <1>1, <2>1
    <2>3. t[n + 1] \in Nat
      BY <2>1, <2>2
    <2> QED BY <1>1, <2>1, <2>2, <2>3, SMTT(40)
  <1>5. ASSUME k > 0, NEW t
        PROVE  t \in Extensions(i, k - 1, m, s + 1)
                 <=> t \in Extensions(i, k, m, s) /\ t[n + 1] # v
    <2> DEFINE x == m[n]
    <2>0. i > 0 /\ x \in Nat /\ v = x + 1 + s
      BY <1>1
    <2> HIDE DEF x, v
    <2>1. x + i + (s + 1) + (k - 1) = x + i + s + k /\ x + (s + 1) = v
      BY <1>5, <2>0
    <2> USE DEF x
    <2>2. t \in Extensions(i, k - 1, m, s + 1) <=>
            /\ t \in Seq(Nat) /\ Len(t) = n + i
            /\ \A j \in 1 .. n : t[j] = m[j]
            /\ \A j \in n .. Len(t) - 1 : t[j] < t[j + 1]
            /\ t[n + 1] > v
            /\ t[Len(t)] <= m[n] + i + s + k
      BY <2>0, <2>1, Zenon DEF Extensions
    <2>3. t \in Extensions(i, k, m, s) <=>
            /\ t \in Seq(Nat) /\ Len(t) = n + i
            /\ \A j \in 1 .. n : t[j] = m[j]
            /\ \A j \in n .. Len(t) - 1 : t[j] < t[j + 1]
            /\ t[n + 1] > m[n] + s
            /\ t[Len(t)] <= m[n] + i + s + k
      BY <2>0, Zenon DEF Extensions
    <2>4. t \in Seq(Nat) /\ Len(t) = n + i => t[n + 1] \in Nat
      BY <1>1
    <2>5. t[n + 1] \in Nat => (t[n + 1] > v <=> t[n + 1] > m[n] + s /\ t[n + 1] # v)
      BY <2>0
    <2> QED BY <2>2, <2>3, <2>4, <2>5
  <1>6. ASSUME k = 0, NEW t, t \in Extensions(i, k, m, s) PROVE t[n + 1] = v
    <2>1. t[Len(t)] <= m[n] + i + s + 0
      BY <1>6 DEF Extensions
    <2>2. /\ t \in Seq(Nat) /\ n + 1 \in 1 .. Len(t) /\ Len(t) = n + i /\ t[n + 1] \in Nat
          /\ t[n + 1] >= v
      BY <1>4, <1>6
    <2>3. \A j \in n + 1 .. Len(t) - 1 : t[j] < t[j + 1]
      <3>1. \A j \in n .. Len(t) - 1 : t[j] < t[j + 1]
        BY <1>6 DEF Extensions
      <3> QED BY <1>1, <2>2, <3>1
    <2>4. t[Len(t)] >= t[n + 1] + (Len(t) - (n + 1))
      <3>1. Len(t) \in n + 1 .. Len(t)
        BY <1>1, <2>2
      <3> QED BY <2>2, <2>3, <3>1, Grows
    <2>5. Len(t) - (n + 1) = i - 1 /\ t[Len(t)] \in Nat /\ m[n] \in Nat /\ v = m[n] + 1 + s
      BY <1>1, <2>2, SMTT(40)
    <2> DEFINE first == t[n + 1]
               last == t[Len(t)]
               x == m[n]
    <2>6. /\ first \in Nat /\ last \in Nat /\ x \in Nat /\ v = x + 1 + s
          /\ first >= v /\ last >= first + (i - 1) /\ last <= x + i + s + 0
      BY <2>1, <2>2, <2>4, <2>5
    <2> HIDE DEF v, first, last, x
    <2>7. first = v
      BY <2>6
    <2> QED BY <2>7 DEF first
  <1> HIDE DEF v, n
  <1>7. k = 0 => Extensions(i, k, m, s) = Extensions(i - 1, k, r, 0)
    BY <1>3, <1>6
  <1>8. k > 0 => /\ Extensions(i, k, m, s) =
                      Extensions(i - 1, k, r, 0) \cup Extensions(i, k - 1, m, s + 1)
                 /\ Extensions(i - 1, k, r, 0) \cap Extensions(i, k - 1, m, s + 1) = {}
    BY <1>3, <1>5
  <1>9. r # <<>>
    <2>1. Len(r) # 0
      BY <1>1, <1>2
    <2> QED BY <2>1
  <1> QED BY <1>2, <1>7, <1>8, <1>9 DEF r

\* addgrams: every extension of the mask that skips no more than it may, once.
LEMMA MasksListed ==
  ASSUME NEW N \in Nat, NEW K \in Nat, NEW mask \in Seq(Nat) \ {<<>>}, NEW skipped \in Nat
  PROVE  Lists(GramMasks(N, K, mask, skipped), Extensions(N, K, mask, skipped))
  <1> DEFINE D == (0 .. N) \X (0 .. K) \X (Seq(Nat) \ {<<>>}) \X Nat
             Longer(p) == <<p[1] - 1, p[2], Append(p[3], Last(p[3]) + 1 + p[4]), 0>>
             Further(p) == <<p[1], p[2] - 1, p[3], p[4] + 1>>
             Masks(f, p) == IF p[1] = 0 THEN <<p[3]>>
                            ELSE f[Longer(p)] \o (IF p[2] > 0 THEN f[Further(p)] ELSE <<>>)
             Is(f) == f = [p \in D |-> Masks(f, p)]
             F == CHOOSE f : Is(f)
             Size(p) == p[1] + p[2]
             Built(q) == \E f : \A p \in D : Size(p) <= q => f[p] = Masks(f, p)
             S == {q \in Nat : Built(q)}
  <1>1. GramMasks(N, K, mask, skipped) = F[<<N, K, mask, skipped>>]
    BY DEF GramMasks
  <1>2. ASSUME NEW p \in D
        PROVE  /\ p[1] \in 0 .. N /\ p[2] \in 0 .. K /\ p[3] \in Seq(Nat) /\ p[3] # <<>>
               /\ p[4] \in Nat /\ p = <<p[1], p[2], p[3], p[4]>>
               /\ Size(p) \in Nat /\ Size(p) <= N + K
    <2>1. /\ p[1] \in 0 .. N /\ p[2] \in 0 .. K /\ p[3] \in Seq(Nat) /\ p[3] # <<>>
          /\ p[4] \in Nat /\ p = <<p[1], p[2], p[3], p[4]>>
      OBVIOUS
    <2> HIDE DEF D
    <2> QED BY <2>1, SMTT(40)
  <1>3. ASSUME NEW p \in D, p[1] # 0
        PROVE  /\ Longer(p) \in D /\ Size(Longer(p)) = Size(p) - 1
               /\ p[2] > 0 => Further(p) \in D /\ Size(Further(p)) = Size(p) - 1
    <2> DEFINE m == p[3]
               v == Last(m) + 1 + p[4]
               r == Append(m, v)
    <2> HIDE DEF D, Size
    <2>1. m \in Seq(Nat) /\ m # <<>> /\ p[4] \in Nat
      BY <1>2
    <2>2. v \in Nat
      <3>1. m[Len(m)] \in Nat
        BY <2>1
      <3> QED BY <2>1, <3>1 DEF Last
    <2> HIDE DEF v, m
    <2>3. r \in Seq(Nat) /\ r # <<>>
      BY <2>1, <2>2
    <2> HIDE DEF r
    <2>4. p[1] - 1 \in 0 .. N /\ p[2] \in 0 .. K /\ p[4] + 1 \in Nat
      BY <1>2, <1>3, SMTT(40)
    <2>5. p[2] > 0 => p[2] - 1 \in 0 .. K
      BY <1>2, SMTT(40)
    <2>6. Longer(p) = <<p[1] - 1, p[2], r, 0>>
      BY DEF r, v, m
    <2>7. Longer(p) \in D /\ Size(Longer(p)) = Size(p) - 1
      <3>1. <<p[1] - 1, p[2], r, 0>> \in D
        BY <2>3, <2>4 DEF D
      <3>2. (p[1] - 1) + p[2] = (p[1] + p[2]) - 1
        BY <1>2
      <3> HIDE DEF Longer
      <3> QED BY <2>6, <3>1, <3>2 DEF Size
    <2>8. p[2] > 0 => Further(p) \in D
      BY <1>2, <2>4, <2>5 DEF D
    <2>9. Size(Further(p)) = Size(p) - 1
      BY <1>2 DEF Size
    <2> QED BY <2>7, <2>8, <2>9
  <1> HIDE DEF D, Longer, Further
  <1>4. 0 \in S
    <2> DEFINE f == [p \in D |-> <<p[3]>>]
    <2>1. ASSUME NEW p \in D, Size(p) <= 0 PROVE f[p] = Masks(f, p)
      <3>1. p[1] = 0
        BY <1>2, <2>1
      <3> QED BY <3>1
    <2>2. \A p \in D : Size(p) <= 0 => f[p] = Masks(f, p)
      BY <2>1
    <2> HIDE DEF f, Masks, Size
    <2>3. Built(0)
      BY <2>2
    <2> HIDE DEF Built
    <2> QED BY <2>3
  \* A function that follows another up to a size does as much with it.
  <1>5. ASSUME NEW f, NEW g, NEW q \in Nat, NEW p \in D, Size(p) <= q + 1,
               \A o \in D : Size(o) <= q => g[o] = f[o]
        PROVE  Masks(g, p) = Masks(f, p)
    <2>1. CASE p[1] = 0
      BY <2>1
    <2>2. CASE p[1] # 0
      <3>1. /\ Longer(p) \in D /\ Size(Longer(p)) <= q
            /\ p[2] > 0 => Further(p) \in D /\ Size(Further(p)) <= q
        <4> HIDE DEF Size
        <4>1. Size(p) \in Nat /\ Size(p) - 1 <= q
          BY <1>2, <1>5
        <4>2. Longer(p) \in D /\ Size(Longer(p)) = Size(p) - 1
          BY <1>3, <2>2
        <4>3. p[2] > 0 => Further(p) \in D /\ Size(Further(p)) = Size(p) - 1
          BY <1>3, <2>2
        <4> QED BY <4>1, <4>2, <4>3
      <3> HIDE DEF Size
      <3>2. g[Longer(p)] = f[Longer(p)] /\ (p[2] > 0 => g[Further(p)] = f[Further(p)])
        BY <1>5, <3>1
      <3> QED BY <3>2
    <2> QED BY <2>1, <2>2
  <1>6. ASSUME NEW q \in Nat, q \in S PROVE q + 1 \in S
    <2>1. PICK f : \A p \in D : Size(p) <= q => f[p] = Masks(f, p)
      BY <1>6
    <2> DEFINE g == [p \in D |-> IF Size(p) <= q THEN f[p] ELSE Masks(f, p)]
    <2> HIDE DEF Masks, Size
    <2>2. \A p \in D : g[p] = Masks(f, p)
      BY <2>1
    <2>3. \A p \in D : Size(p) <= q => g[p] = f[p]
      OBVIOUS
    <2> HIDE DEF g
    <2>4. \A p \in D : Size(p) <= q + 1 => g[p] = Masks(g, p)
      BY <1>5, <2>2, <2>3
    <2>5. Built(q + 1)
      BY <2>4
    <2> HIDE DEF Built
    <2> QED BY <2>5
  <1>7. Built(N + K)
    <2>1. Nat \subseteq S
      <3> HIDE DEF S
      <3> QED BY <1>4, <1>6, SetInduction
    <2> HIDE DEF Built
    <2> QED BY <2>1
  <1>8. Is(F)
    <2>1. PICK f : \A p \in D : Size(p) <= N + K => f[p] = Masks(f, p)
      BY <1>7
    <2> DEFINE g == [p \in D |-> f[p]]
    <2> HIDE DEF Masks, Size
    <2>2. \A p \in D : g[p] = Masks(f, p) /\ g[p] = f[p]
      BY <1>2, <2>1
    <2>3. g = [p \in D |-> g[p]]
      OBVIOUS
    <2> HIDE DEF g
    <2>4. ASSUME NEW p \in D PROVE Masks(g, p) = Masks(f, p)
      <3>1. Size(p) <= (N + K) + 1 /\ N + K \in Nat
        BY <1>2
      <3> QED BY <1>5, <2>2, <3>1
    <2>5. Is(g)
      BY <2>2, <2>3, <2>4
    <2> HIDE DEF Is
    <2> QED BY <2>5
  <1>9. \A p \in D : F[p] = Masks(F, p)
    <2> HIDE DEF F, Masks
    <2> QED BY <1>8
  <1> HIDE DEF F
  <1> DEFINE Meant(p) == Extensions(p[1], p[2], p[3], p[4])
             T == {q \in Nat : \A p \in D : Size(p) <= q => Lists(F[p], Meant(p))}
  <1>10. ASSUME NEW p \in D, p[1] = 0 PROVE Lists(F[p], Meant(p))
    <2> DEFINE m == p[3]
               q == <<m>>
    <2>1. F[p] = q
      BY <1>9, <1>10
    <2>2. m \in Seq(Nat) /\ m # <<>> /\ p[4] \in Nat /\ p[2] \in Nat
      BY <1>2
    <2>3. Meant(p) = {m}
      <3>1. m \in Extensions(0, p[2], m, p[4])
        <4>1. Len(m) \in Nat /\ m[Len(m)] \in Nat
          BY <2>2
        <4> HIDE DEF m
        <4> QED BY <2>2, <4>1, SMTT(40) DEF Extensions
      <3>2. ASSUME NEW t \in Extensions(0, p[2], m, p[4]) PROVE t = m
        <4>1. t \in Seq(Nat) /\ Len(t) = Len(m) + 0 /\ \A j \in 1 .. Len(m) : t[j] = m[j]
          BY DEF Extensions
        <4>2. Len(t) = Len(m)
          BY <2>2, <4>1
        <4> HIDE DEF m
        <4> QED BY <2>2, <4>1, <4>2, SeqEqual
      <3> HIDE DEF m
      <3>3. Meant(p) = Extensions(0, p[2], m, p[4])
        BY <1>10 DEF m
      <3> QED BY <3>1, <3>2, <3>3
    <2> HIDE DEF m
    <2>4. Lists(q, {m})
      <3>1. q \in Seq(Seq(Nat)) /\ Len(q) = 1 /\ q[1] = m
        BY <2>2
      <3> HIDE DEF q
      <3> QED BY <3>1 DEF Lists
    <2> QED BY <2>1, <2>3, <2>4
  <1>11. 0 \in T
    <2>1. ASSUME NEW p \in D, Size(p) <= 0 PROVE Lists(F[p], Meant(p))
      <3>1. p[1] = 0
        BY <1>2, <2>1
      <3> QED BY <1>10, <3>1
    <2> HIDE DEF Size, Meant
    <2> QED BY <2>1
  <1>12. ASSUME NEW q \in Nat, q \in T PROVE q + 1 \in T
    <2>1. ASSUME NEW p \in D, Size(p) <= q + 1, p[1] # 0 PROVE Lists(F[p], Meant(p))
      <3> DEFINE i == p[1]
                 k == p[2]
                 m == p[3]
                 s == p[4]
                 r == Longest(m, s)
      <3>1. /\ i \in Nat \ {0} /\ k \in Nat /\ m \in Seq(Nat) /\ m # <<>> /\ s \in Nat
        BY <1>2, <2>1
      <3>2. Longer(p) = <<i - 1, k, r, 0>> /\ Further(p) = <<i, k - 1, m, s + 1>>
        BY DEF Longer, Further, Last, Longest
      <3>3. Lists(F[Longer(p)], Meant(Longer(p)))
        <4>1. Longer(p) \in D /\ Size(Longer(p)) <= q
          <5> HIDE DEF Size
          <5> QED BY <1>2, <1>3, <2>1
        <4> HIDE DEF Size, Meant
        <4> QED BY <1>12, <4>1
      <3>4. Meant(Longer(p)) = Extensions(i - 1, k, r, 0)
        BY <3>2
      <3>5. Meant(p) = Extensions(i, k, m, s)
        OBVIOUS
      <3>6. CASE k = 0
        <4>1. F[p] = F[Longer(p)] \o <<>>
          <5>1. ~(p[2] > 0)
            BY <3>6
          <5> QED BY <1>9, <2>1, <5>1
        <4>2. F[Longer(p)] \in Seq(Seq(Nat))
          BY <3>3 DEF Lists
        <4>3. F[p] = F[Longer(p)]
          BY <4>1, <4>2
        <4>4. Extensions(i, k, m, s) = Extensions(i - 1, k, r, 0)
          <5> HIDE DEF i, k, m, s
          <5> QED BY <3>1, <3>6, Extended
        <4> HIDE DEF i, k, m, s, r, Meant
        <4> QED BY <3>3, <3>4, <3>5, <4>3, <4>4
      <3>7. CASE k # 0
        <4>0. k > 0
          BY <3>1, <3>7
        <4>1. F[p] = F[Longer(p)] \o F[Further(p)]
          BY <1>9, <2>1, <4>0
        <4>2. Lists(F[Further(p)], Meant(Further(p)))
          <5>1. Further(p) \in D /\ Size(Further(p)) <= q
            <6> HIDE DEF Size
            <6> QED BY <1>2, <1>3, <2>1, <4>0
          <5> HIDE DEF Size, Meant
          <5> QED BY <1>12, <5>1
        <4>3. Meant(Further(p)) = Extensions(i, k - 1, m, s + 1)
          BY <3>2
        <4>4. /\ Extensions(i, k, m, s) =
                   Extensions(i - 1, k, r, 0) \cup Extensions(i, k - 1, m, s + 1)
              /\ Extensions(i - 1, k, r, 0) \cap Extensions(i, k - 1, m, s + 1) = {}
          <5> HIDE DEF i, k, m, s
          <5> QED BY <3>1, <4>0, Extended
        <4> HIDE DEF i, k, m, s, r, Meant
        <4>5. Lists(F[Longer(p)] \o F[Further(p)],
                    Meant(Longer(p)) \cup Meant(Further(p)))
          BY <3>3, <3>4, <4>2, <4>3, <4>4, ListsBoth
        <4> QED BY <3>4, <3>5, <4>1, <4>3, <4>4, <4>5
      <3> QED BY <3>6, <3>7
    <2>2. ASSUME NEW p \in D, Size(p) <= q + 1 PROVE Lists(F[p], Meant(p))
      <3> HIDE DEF Size, Meant
      <3> QED BY <1>10, <2>1, <2>2
    <2> HIDE DEF Size, Meant
    <2> QED BY <2>2
  <1>13. Nat \subseteq T
    <2> HIDE DEF T
    <2> QED BY <1>11, <1>12, SetInduction
  <1> DEFINE p == <<N, K, mask, skipped>>
  <1>14. p \in D /\ p[1] = N /\ p[2] = K /\ p[3] = mask /\ p[4] = skipped
    BY DEF D
  <1>15. Size(p) <= N + K /\ N + K \in Nat
    BY <1>14
  <1> HIDE DEF p
  <1>16. Lists(F[p], Meant(p))
    <2> HIDE DEF Size, Meant
    <2> QED BY <1>13, <1>14, <1>15
  <1> QED BY <1>1, <1>14, <1>16 DEF p

\* addgrams lists every choice of n features of which no more than `skips` are
\* skipped, each once.
THEOREM MasksOnce ==
  ASSUME NEW n \in Nat, n >= 2, NEW skips \in Nat
  PROVE  Lists(GramMasks(n - 1, skips, <<0>>, 0), Offsets(n, skips))
  <1> DEFINE masks == GramMasks(n - 1, skips, <<0>>, 0)
             first == <<0>>
  <1>1. first \in Seq(Nat) \ {<<>>} /\ Len(first) = 1 /\ first[1] = 0
    OBVIOUS
  <1> HIDE DEF first
  <1>2. Lists(masks, Extensions(n - 1, skips, first, 0))
    <2>1. n - 1 \in Nat
      OBVIOUS
    <2> QED BY <1>1, <2>1, MasksListed DEF first
  <1>3. ASSUME NEW t \in Extensions(n - 1, skips, first, 0) PROVE t \in Offsets(n, skips)
    <2>1. /\ t \in Seq(Nat) /\ Len(t) = 1 + (n - 1)
          /\ \A j \in 1 .. 1 : t[j] = first[j]
          /\ \A j \in 1 .. Len(t) - 1 : t[j] < t[j + 1]
          /\ t[Len(t)] <= 0 + (n - 1) + 0 + skips
      BY <1>1 DEF Extensions
    <2>2. Len(t) = n /\ t[1] = 0 /\ t[n] \in Nat /\ t[n] <= n - 1 + skips
      <3>1. Len(t) = n /\ n \in 1 .. n
        BY <2>1
      <3> QED BY <1>1, <2>1, <3>1
    <2>3. ASSUME NEW j \in 1 .. n PROVE t[j] \in 0 .. n - 1 + skips
      <3>1. t[j] \in Nat
        BY <2>1, <2>2
      <3>2. t[n] >= t[j] + (n - j)
        <4>1. \A l \in j .. Len(t) - 1 : t[l] < t[l + 1]
          BY <2>1
        <4>2. n \in j .. Len(t) /\ j \in 1 .. Len(t)
          BY <2>2
        <4> QED BY <2>1, <4>1, <4>2, Grows
      <3> QED BY <2>2, <3>1, <3>2
    <2>4. t \in [1 .. n -> 0 .. n - 1 + skips]
      BY <2>1, <2>2, <2>3
    <2> QED BY <2>1, <2>2, <2>4 DEF Offsets
  <1>4. ASSUME NEW t \in Offsets(n, skips) PROVE t \in Extensions(n - 1, skips, first, 0)
    <2>1. /\ t \in [1 .. n -> 0 .. n - 1 + skips] /\ t[1] = 0
          /\ \A j \in 1 .. n - 1 : t[j] < t[j + 1]
      BY DEF Offsets
    <2>2. \A j \in 1 .. n : t[j] \in Nat /\ t[j] <= n - 1 + skips
      BY <2>1
    <2>3. t \in Seq(Nat) /\ Len(t) = n
      BY <2>1, <2>2
    <2>4. n \in 1 .. n /\ 2 \in 1 .. n /\ 1 \in 1 .. n - 1 /\ Len(t) = 1 + (n - 1)
      BY <2>3
    <2>5. \A j \in 1 .. 1 : t[j] = first[j]
      BY <1>1, <2>1
    <2>6. t[1 + 1] > 0 + 0
      BY <2>1, <2>2, <2>4
    <2>7. t[Len(t)] <= 0 + (n - 1) + 0 + skips
      BY <2>2, <2>3, <2>4
    <2>8. \A j \in 1 .. Len(t) - 1 : t[j] < t[j + 1]
      BY <2>1, <2>3
    <2> QED BY <1>1, <2>3, <2>4, <2>5, <2>6, <2>7, <2>8 DEF Extensions
  <1>5. Extensions(n - 1, skips, first, 0) = Offsets(n, skips)
    BY <1>3, <1>4
  <1> QED BY <1>2, <1>5

-----------------------------------------------------------------------------
(* The shares of the threads                                               *)

Feature == [x : Int, weight_index : Int]

\* What search returns is a boundary, in whatever order the features are: what is
\* there is not below the value, and what is before it is.
LEMMA SearchBoundary ==
  ASSUME NEW fs \in Seq(Feature), NEW begin \in 1 .. Len(fs), NEW value \in Int
  PROVE  LET stop == Len(fs) + 1
             r   == Search(fs, begin, value, stop)
         IN  /\ r \in begin .. stop
             /\ r < stop => fs[r].weight_index >= value
             /\ r > begin => fs[r - 1].weight_index < value
  <1> DEFINE stop == Len(fs) + 1
             P == (begin .. stop) \X (begin .. stop)
             Middle(p) == p[1] + ((p[2] - p[1]) \div 2)
             Halved(f, p) == IF p[2] - p[1] <= 1
                             THEN IF fs[p[1]].weight_index >= value THEN p[1] ELSE p[2]
                             ELSE IF fs[Middle(p)].weight_index >= value
                                    THEN f[<<p[1], Middle(p)>>] ELSE f[<<Middle(p), p[2]>>]
             Is(f) == f = [p \in P |-> Halved(f, p)]
             F == CHOOSE f : Is(f)
  <1>1. Search(fs, begin, value, stop) = F[<<begin, stop>>]
    BY DEF Search
  <1>2. /\ begin \in Nat \ {0} /\ stop \in Nat /\ begin < stop
        /\ \A i \in begin .. stop - 1 : fs[i].weight_index \in Int
    <2>1. Len(fs) \in Nat
      OBVIOUS
    <2>2. ASSUME NEW i \in begin .. stop - 1 PROVE fs[i].weight_index \in Int
      <3>1. i \in 1 .. Len(fs)
        BY <2>1
      <3>2. fs[i] \in Feature
        BY <3>1, ElementOfSeq
      <3> QED BY <3>2 DEF Feature
    <2> QED BY <2>1, <2>2
  <1>3. ASSUME NEW p \in P, p[2] - p[1] > 1
        PROVE  /\ Middle(p) \in p[1] + 1 .. p[2] - 1
               /\ <<p[1], Middle(p)>> \in P /\ <<Middle(p), p[2]>> \in P
    <2>1. p[1] \in Nat /\ p[2] \in Nat
      BY <1>2
    <2>2. Middle(p) \in p[1] + 1 .. p[2] - 1
      BY <1>3, <2>1
    <2> HIDE DEF Middle
    <2> QED BY <1>2, <2>2
  <1> HIDE DEF stop, Middle
  \* It returns.
  <1> DEFINE Built(m) == \E f : \A p \in P : p[2] - p[1] <= m => f[p] = Halved(f, p)
             S == {m \in Nat : Built(m)}
  <1>4. 0 \in S
    <2> DEFINE f == [p \in P |-> IF fs[p[1]].weight_index >= value THEN p[1] ELSE p[2]]
    <2>1. \A p \in P : p[2] - p[1] <= 0 => p[2] - p[1] <= 1
      BY <1>2
    <2>2. \A p \in P : p[2] - p[1] <= 0 => f[p] = Halved(f, p)
      BY <2>1
    <2> QED BY <2>2
  <1>5. ASSUME NEW m \in Nat, m \in S PROVE m + 1 \in S
    <2>1. PICK f : \A p \in P : p[2] - p[1] <= m => f[p] = Halved(f, p)
      BY <1>5
    <2> DEFINE g == [p \in P |-> IF p[2] - p[1] <= m THEN f[p] ELSE Halved(f, p)]
    <2>2. \A p \in P : g[p] = IF p[2] - p[1] <= m THEN f[p] ELSE Halved(f, p)
      OBVIOUS
    <2>3. \A p \in P : g[p] = Halved(f, p)
      BY <2>1, <2>2
    <2> HIDE DEF g
    <2>4. ASSUME NEW p \in P, p[2] - p[1] <= m + 1
          PROVE  Halved(g, p) = Halved(f, p)
      <3>1. CASE p[2] - p[1] <= 1
        BY <3>1
      <3>2. CASE ~(p[2] - p[1] <= 1)
        <4> DEFINE q == <<p[1], Middle(p)>>
                   r == <<Middle(p), p[2]>>
        <4>1. p[1] \in Nat /\ p[2] \in Nat
          BY <1>2
        <4>2. Middle(p) \in p[1] + 1 .. p[2] - 1 /\ q \in P /\ r \in P
          BY <1>3, <3>2, <4>1
        <4>3. q[2] - q[1] <= m /\ r[2] - r[1] <= m
          BY <2>4, <4>1, <4>2
        <4>4. g[q] = f[q] /\ g[r] = f[r]
          BY <2>2, <4>2, <4>3
        <4> QED BY <3>2, <4>4
      <3> QED BY <3>1, <3>2
    <2>5. \A p \in P : p[2] - p[1] <= m + 1 => g[p] = Halved(g, p)
      BY <2>3, <2>4
    <2> QED BY <2>5
  <1>6. stop \in S
    <2> HIDE DEF S
    <2> QED BY <1>2, <1>4, <1>5, SetInduction
  <1>7. \E f : Is(f)
    <2>1. PICK f : \A p \in P : p[2] - p[1] <= stop => f[p] = Halved(f, p)
      BY <1>6
    <2>2. \A p \in P : p[2] - p[1] <= stop
      BY <1>2
    <2> DEFINE g == [p \in P |-> f[p]]
    <2>3. \A p \in P : g[p] = f[p]
      OBVIOUS
    <2> HIDE DEF g
    <2>4. ASSUME NEW p \in P PROVE Halved(g, p) = Halved(f, p)
      <3>1. CASE p[2] - p[1] <= 1
        BY <3>1
      <3>2. CASE ~(p[2] - p[1] <= 1)
        <4>1. p[1] \in Nat /\ p[2] \in Nat
          BY <1>2
        <4>2. <<p[1], Middle(p)>> \in P /\ <<Middle(p), p[2]>> \in P
          BY <1>3, <3>2, <4>1
        <4> QED BY <2>3, <3>2, <4>2
      <3> QED BY <3>1, <3>2
    <2>5. \A p \in P : g[p] = Halved(g, p)
      BY <2>1, <2>2, <2>3, <2>4
    <2>6. g = [p \in P |-> Halved(g, p)]
      BY <2>5 DEF g
    <2> QED BY <2>6
  <1>8. Is(F)
    <2> HIDE DEF Is
    <2> QED BY <1>7
  <1> HIDE DEF F
  <1>9. \A p \in P : F[p] = Halved(F, p)
    BY <1>8
  \* What it returns.
  <1> DEFINE Boundary(p, r) == /\ r \in p[1] .. p[2]
                               /\ r < p[2] => fs[r].weight_index >= value
                               /\ r > p[1] => fs[r - 1].weight_index < value
             T == {m \in Nat : \A p \in P : p[1] <= p[2] /\ p[2] - p[1] <= m =>
                                 Boundary(p, F[p])}
  <1>10. ASSUME NEW p \in P, p[1] <= p[2], p[2] - p[1] <= 1 PROVE Boundary(p, F[p])
    <2>1. p[1] \in Nat /\ p[2] \in Nat
      BY <1>2
    <2>2. F[p] = IF fs[p[1]].weight_index >= value THEN p[1] ELSE p[2]
      BY <1>9, <1>10
    <2>3. p[1] \in begin .. stop /\ p[2] \in begin .. stop
      OBVIOUS
    <2>4. CASE p[1] = p[2]
      BY <2>1, <2>2, <2>4
    <2>5. CASE p[1] # p[2]
      <3>1. p[2] = p[1] + 1 /\ p[1] \in begin .. stop - 1
        <4> DEFINE a == p[1]
                   b == p[2]
        <4>1. a \in Nat /\ b \in Nat /\ a <= b /\ b - a <= 1 /\ a # b
          BY <1>10, <2>1, <2>5
        <4>2. a \in begin .. stop /\ b \in begin .. stop
          BY <2>3
        <4> HIDE DEF a, b
        <4>3. b = a + 1 /\ a \in begin .. stop - 1
          BY <1>2, <4>1, <4>2
        <4> QED BY <4>3 DEF a, b
      <3>2. fs[p[1]].weight_index \in Int
        BY <1>2, <3>1
      <3>3. CASE fs[p[1]].weight_index >= value
        BY <2>1, <2>2, <3>1, <3>3
      <3>4. CASE ~(fs[p[1]].weight_index >= value)
        <4>1. F[p] = p[1] + 1 /\ (p[1] + 1) - 1 = p[1]
          BY <2>1, <2>2, <3>1, <3>4
        <4> QED BY <2>1, <3>1, <3>2, <3>4, <4>1
      <3> QED BY <3>3, <3>4
    <2> QED BY <2>4, <2>5
  <1>11. 0 \in T
    BY <1>2, <1>10
  <1>12. ASSUME NEW m \in Nat, m \in T PROVE m + 1 \in T
    <2> SUFFICES ASSUME NEW p \in P, p[1] <= p[2], p[2] - p[1] <= m + 1
                 PROVE  Boundary(p, F[p])
      OBVIOUS
    <2>1. CASE p[2] - p[1] <= 1
      BY <1>10, <2>1
    <2>2. CASE ~(p[2] - p[1] <= 1)
      <3> DEFINE k == Middle(p)
                 q == <<p[1], k>>
                 r == <<k, p[2]>>
      <3>1. p[1] \in Nat /\ p[2] \in Nat
        BY <1>2
      <3>2. k \in p[1] + 1 .. p[2] - 1 /\ q \in P /\ r \in P
        BY <1>3, <2>2, <3>1
      <3>3. fs[k].weight_index \in Int
        BY <1>2, <3>1, <3>2
      <3>4. F[p] = IF fs[k].weight_index >= value THEN F[q] ELSE F[r]
        BY <1>9, <2>2
      <3> HIDE DEF k
      <3>5. Boundary(q, F[q]) /\ Boundary(r, F[r])
        <4>1. q[1] <= q[2] /\ q[2] - q[1] <= m /\ r[1] <= r[2] /\ r[2] - r[1] <= m
          BY <3>1, <3>2
        <4> HIDE DEF Boundary, q, r
        <4> QED BY <1>12, <3>2, <4>1
      <3>6. CASE fs[k].weight_index >= value
        BY <3>1, <3>2, <3>3, <3>4, <3>5, <3>6
      <3>7. CASE ~(fs[k].weight_index >= value)
        <4>1. F[p] = F[r]
          BY <3>4, <3>7, Zenon
        <4>2. /\ F[r] \in k .. p[2]
              /\ F[r] < p[2] => fs[F[r]].weight_index >= value
              /\ F[r] > k => fs[F[r] - 1].weight_index < value
          BY <3>5
        <4>3. F[r] # k
          BY <3>1, <3>2, <3>3, <3>7, <4>2
        <4>4. F[r] \in p[1] .. p[2] /\ F[r] > k
          BY <3>1, <3>2, <4>2, <4>3
        <4>5. Boundary(p, F[r])
          BY <4>2, <4>4, Zenon DEF Boundary
        <4> QED BY <4>1, <4>5, Zenon
      <3> QED BY <3>6, <3>7
    <2> QED BY <2>1, <2>2
  <1>13. stop \in T
    <2> HIDE DEF T
    <2> QED BY <1>2, <1>11, <1>12, SetInduction
  <1>14. Boundary(<<begin, stop>>, F[<<begin, stop>>])
    <2>1. <<begin, stop>> \in P /\ stop - begin <= stop
      BY <1>2
    <2> HIDE DEF Boundary
    <2> QED BY <1>2, <1>13, <2>1
  <1> QED BY <1>1, <1>14 DEF stop

\* So is what find returns, and from the stop on it stays there.
LEMMA FindBoundary ==
  ASSUME NEW fs \in Seq(Feature), NEW begin \in 1 .. Len(fs) + 1, NEW value \in Int
  PROVE  LET r == Find(fs, begin, value)
         IN  /\ r \in begin .. Len(fs) + 1
             /\ r < Len(fs) + 1 => fs[r].weight_index >= value
             /\ r > begin => fs[r - 1].weight_index < value
  <1>1. Len(fs) \in Nat
    OBVIOUS
  <1>2. CASE begin > Len(fs)
    <2>1. Find(fs, begin, value) = begin /\ begin = Len(fs) + 1
      BY <1>1, <1>2 DEF Find
    <2> QED BY <1>1, <2>1
  <1>3. CASE ~(begin > Len(fs))
    <2>1. begin \in 1 .. Len(fs) /\ Find(fs, begin, value) = Search(fs, begin, value, Len(fs) + 1)
      BY <1>1, <1>3 DEF Find
    <2> QED BY <2>1, SearchBoundary
  <1> QED BY <1>2, <1>3

\* Every cut is looked for from the one before it.
CutInTurn(fs, cuts, n, size) ==
  /\ cuts \in Seq(1 .. Len(fs) + 1) /\ Len(cuts) = n + 1 /\ cuts[1] = 1
  /\ \A t \in 1 .. n : cuts[t + 1] = Find(fs, cuts[t], t * size)

\* The cuts are a fold: one for each thread, made from the one before.
LEMMA CutByCut ==
  ASSUME NEW fs \in Seq(Feature), NEW length \in Nat, NEW stride \in Nat,
         NEW partition_bits, NEW size \in Nat, size = ExpertSize(length, stride, partition_bits),
         NEW n \in Nat, n = (length * stride) \div size
  PROVE  CutInTurn(fs, Cut(fs, length, stride, partition_bits), n, size)
  <1> DEFINE places == 1 .. Len(fs) + 1
             V == {c \in Seq(places) : c # <<>>}
             times == [t \in 1 .. n |-> t]
             More(c, t) == Append(c, Find(fs, Last(c), t * size))
             G == [p \in (1 .. n) \X V |-> More(p[2], p[1])]
             Is(f) == f = [T \in SUBSET DOMAIN times |->
                             IF T = {} THEN <<1>> ELSE More(f[T \ {Max(T)}], times[Max(T)])]
             F == CHOOSE f : Is(f)
  <1>1. Cut(fs, length, stride, partition_bits) = F[DOMAIN times]
    BY DEF Cut, FoldLeft, MapThenFoldSet
  <1>2. DOMAIN times = 1 .. n /\ \A t \in 1 .. n : times[t] = t
    OBVIOUS
  <1>3. <<1>> \in V /\ Len(<<1>>) = 1 /\ <<1>>[1] = 1
    <2>1. 1 \in places
      OBVIOUS
    <2> HIDE DEF places
    <2> QED BY <2>1
  <1>4. ASSUME NEW c \in V, NEW t \in 1 .. n
        PROVE  /\ More(c, t) \in V /\ Len(More(c, t)) = Len(c) + 1
               /\ More(c, t)[Len(c) + 1] = Find(fs, c[Len(c)], t * size)
               /\ \A i \in 1 .. Len(c) : More(c, t)[i] = c[i]
    <2>1. Len(c) \in Nat \ {0} /\ c[Len(c)] \in places /\ c \in Seq(places)
      <3> HIDE DEF places
      <3> QED OBVIOUS
    <2>2. Last(c) = c[Len(c)]
      BY DEF Last
    <2> DEFINE r == Find(fs, Last(c), t * size)
    <2>3. r \in places
      <3>1. t * size \in Int
        OBVIOUS
      <3>2. r \in Last(c) .. Len(fs) + 1
        BY <2>1, <2>2, <3>1, FindBoundary
      <3> QED BY <2>1, <2>2, <3>2
    <2> HIDE DEF r, places
    <2>4. /\ Append(c, r) \in Seq(places) /\ Append(c, r) # <<>>
          /\ Len(Append(c, r)) = Len(c) + 1 /\ Append(c, r)[Len(c) + 1] = r
          /\ \A i \in 1 .. Len(c) : Append(c, r)[i] = c[i]
      BY <2>1, <2>3, AppendProperties
    <2> QED BY <2>2, <2>4 DEF r
  <1> HIDE DEF places, V, times, More
  <1>5. /\ G \in [(1 .. n) \X V -> V]
        /\ \A i \in 1 .. n, c \in V : G[<<i, c>>] = More(c, i)
    BY <1>4
  <1> HIDE DEF G
  <1>6. PICK f \in [SUBSET (1 .. n) -> V] : SetBySet(f, n, <<1>>, G)
    BY <1>3, <1>5, SetRecursion
  <1>7. ASSUME NEW T \in SUBSET (1 .. n)
        PROVE  f[T] = IF T = {} THEN <<1>> ELSE More(f[T \ {Max(T)}], times[Max(T)])
    <2>1. CASE T = {}
      BY <1>6, <2>1 DEF SetBySet
    <2>2. CASE T # {}
      <3>1. Max(T) \in 1 .. n
        BY <2>2, Largest
      <3>2. f[T \ {Max(T)}] \in V
        OBVIOUS
      <3>3. f[T] = G[<<Max(T), f[T \ {Max(T)}]>>]
        BY <1>6, <2>2 DEF SetBySet
      <3> QED BY <1>2, <1>5, <2>2, <3>1, <3>2, <3>3
    <2> QED BY <2>1, <2>2
  <1>8. Is(f)
    BY <1>2, <1>7
  <1>9. Is(F)
    <2> HIDE DEF Is
    <2> QED BY <1>8
  <1> HIDE DEF F
  <1>10. \A T \in SUBSET (1 .. n) :
           F[T] = IF T = {} THEN <<1>> ELSE More(F[T \ {Max(T)}], times[Max(T)])
    BY <1>2, <1>9
  <1> DEFINE Good(c, k) == /\ c \in V /\ Len(c) = k + 1 /\ c[1] = 1
                           /\ \A t \in 1 .. k : c[t + 1] = Find(fs, c[t], t * size)
             S == {k \in Nat : k <= n => Good(F[1 .. k], k)}
  <1>11. 0 \in S
    <2>1. 1 .. 0 = {} /\ {} \in SUBSET (1 .. n)
      OBVIOUS
    <2>2. F[1 .. 0] = <<1>>
      BY <1>10, <2>1
    <2> QED BY <1>3, <2>2
  <1>12. ASSUME NEW k \in Nat, k \in S PROVE k + 1 \in S
    <2> SUFFICES ASSUME k + 1 <= n PROVE Good(F[1 .. k + 1], k + 1)
      OBVIOUS
    <2> DEFINE c == F[1 .. k]
               d == F[1 .. k + 1]
    <2>1. Good(c, k)
      BY <1>12
    <2>2. Max(1 .. k + 1) = k + 1 /\ (1 .. k + 1) \ {k + 1} = 1 .. k
      <3>1. k + 1 \in Nat \ {0} /\ (k + 1) - 1 = k
        OBVIOUS
      <3>2. Max(1 .. k + 1) = k + 1 /\ (1 .. k + 1) \ {k + 1} = 1 .. (k + 1) - 1
        BY <3>1, LargestUpTo
      <3> QED BY <3>1, <3>2
    <2>3. 1 .. k + 1 \in SUBSET (1 .. n) /\ 1 .. k + 1 # {} /\ k + 1 \in 1 .. n
      OBVIOUS
    <2>4. d = More(c, k + 1)
      BY <1>2, <1>10, <2>2, <2>3
    <2> HIDE DEF c, d
    <2>5. /\ d \in V /\ Len(d) = (k + 1) + 1
          /\ d[(k + 1) + 1] = Find(fs, c[k + 1], (k + 1) * size)
          /\ \A i \in 1 .. k + 1 : d[i] = c[i]
      <3>1. c \in V /\ Len(c) = k + 1
        BY <2>1
      <3> DEFINE t == k + 1
      <3>2. t \in 1 .. n /\ Len(c) = t /\ d = More(c, t)
        BY <2>3, <2>4, <3>1
      <3> HIDE DEF t
      <3>3. /\ More(c, t) \in V /\ Len(More(c, t)) = Len(c) + 1
            /\ More(c, t)[Len(c) + 1] = Find(fs, c[Len(c)], t * size)
            /\ \A i \in 1 .. Len(c) : More(c, t)[i] = c[i]
        BY <1>4, <3>1, <3>2
      <3>4. /\ d \in V /\ Len(d) = t + 1 /\ d[t + 1] = Find(fs, c[t], t * size)
            /\ \A i \in 1 .. t : d[i] = c[i]
        BY <3>2, <3>3
      <3> QED BY <3>4 DEF t
    <2>6. ASSUME NEW t \in 1 .. k + 1 PROVE d[t + 1] = Find(fs, d[t], t * size)
      <3>1. CASE t = k + 1
        BY <2>5, <3>1
      <3>2. CASE t # k + 1
        <4>1. t \in 1 .. k /\ t + 1 \in 1 .. k + 1
          BY <3>2
        <4> QED BY <2>1, <2>5, <4>1
      <3> QED BY <3>1, <3>2
    <2>7. d[1] = 1
      BY <2>1, <2>5
    <2> QED BY <2>5, <2>6, <2>7 DEF d
  <1>13. n \in S
    <2> HIDE DEF S
    <2> QED BY <1>11, <1>12, SetInduction
  <1>14. Good(F[1 .. n], n)
    BY <1>13
  <1> QED BY <1>1, <1>2, <1>14 DEF V, places, CutInTurn

\* The numbers from k * m up to the next multiple of m give k when divided by m.
LEMMA DivRange ==
  ASSUME NEW a \in Nat, NEW s \in Nat \ {0}, NEW q \in Nat, q * s <= a, a < q * s + s
  PROVE  a \div s = q
  <1> DEFINE r == a - q * s
  <1>1. q * s \in Int
    OBVIOUS
  <1>2. r \in 0 .. s - 1 /\ a = q * s + r
    BY <1>1
  <1> HIDE DEF r
  <1> QED BY <1>1, <1>2

\* A thread's share of the weights is the same for all, and there is a cut behind
\* each.
SharedEqually(threads, weights, size) ==
  size \in Nat \ {0} /\ threads = weights \div size /\ threads * size = weights

\* If the threads divide the weights, so does expert_size, and it gives as many cuts.
LEMMA EqualShares ==
  ASSUME NEW per \in Nat \ {0}, NEW stride \in Nat \ {0}, NEW threads \in Nat \ {0},
         NEW length \in Nat, length = threads * per,
         NEW size \in Int, size = stride * (length \div threads)
  PROVE  SharedEqually(threads, length * stride, size)
  <1>1. length \in Nat /\ stride * per \in Nat \ {0} /\ per * threads = length
    OBVIOUS
  <1>2. length \div threads = per
    BY <1>1, DivRange
  <1>3. size = stride * per /\ size \in Nat \ {0}
    BY <1>1, <1>2
  <1>4. threads * size = length * stride
    BY <1>3
  <1>5. threads * size \in Nat
    BY <1>3
  <1>6. (threads * size) \div size = threads
    BY <1>3, <1>5, DivRange
  <1> QED BY <1>3, <1>4, <1>6 DEF SharedEqually

\* Where each thread's weights begin is a function to the numbers.
LEMMA LimitFunction ==
  ASSUME NEW size \in Nat, NEW threads \in Nat
  PROVE  [t \in 0 .. threads |-> t * size] \in [0 .. threads -> Nat]
  <1>1. \A t \in 0 .. threads : t * size \in Nat
    OBVIOUS
  <1> QED BY <1>1

\* What is between two neighbours of the limits is between the limits.
LEMMA Between ==
  ASSUME NEW u \in Nat, NEW v \in Nat, NEW x \in Nat, NEW p \in Nat, NEW q \in Nat,
         v <= u, u <= x, x < q, p = 0 \/ v >= p
  PROVE  u \in p .. q - 1
  <1> QED OBVIOUS

\* Cuts that are boundaries of a sorted sequence keep to the limits.
LEMMA CutsAtLimits ==
  ASSUME NEW fs \in Seq(Feature), NEW threads \in Nat \ {0},
         NEW limit \in [0 .. threads -> Nat], limit[0] = 0,
         \A i \in 1 .. Len(fs) : fs[i].weight_index \in 0 .. limit[threads] - 1,
         NEW cuts \in Seq(1 .. Len(fs) + 1), Len(cuts) = threads + 1, cuts[1] = 1,
         \A t \in 1 .. threads : cuts[t + 1] = Find(fs, cuts[t], limit[t])
  PROVE  /\ cuts[threads + 1] = Len(fs) + 1
         /\ \A t \in 1 .. threads : cuts[t] <= cuts[t + 1]
         /\ (\A i, j \in 1 .. Len(fs) :
               i <= j => fs[i].weight_index <= fs[j].weight_index)
             => \A t \in 1 .. threads : \A i \in cuts[t] .. cuts[t + 1] - 1 :
                  fs[i].weight_index \in limit[t - 1] .. limit[t] - 1
  <1> DEFINE w(i) == fs[i].weight_index
             sorted == \A i, j \in 1 .. Len(fs) : i <= j => w(i) <= w(j)
  <1>1. \A i \in 1 .. Len(fs) : w(i) \in Nat /\ w(i) < limit[threads]
    <2>1. limit[threads] \in Nat
      OBVIOUS
    <2> QED BY <2>1
  <1>2. Len(fs) \in Nat /\ \A t \in 1 .. threads + 1 : cuts[t] \in 1 .. Len(fs) + 1
    <2>1. Len(fs) \in Nat
      OBVIOUS
    <2>2. \A t \in 1 .. Len(cuts) : cuts[t] \in 1 .. Len(fs) + 1
      BY ElementOfSeq
    <2> QED BY <2>1, <2>2
  <1>3. ASSUME NEW t \in 1 .. threads
        PROVE  /\ cuts[t + 1] \in cuts[t] .. Len(fs) + 1
               /\ cuts[t + 1] < Len(fs) + 1 => w(cuts[t + 1]) >= limit[t]
               /\ cuts[t + 1] > cuts[t] => w(cuts[t + 1] - 1) < limit[t]
    <2>1. cuts[t] \in 1 .. Len(fs) + 1 /\ limit[t] \in Int
      BY <1>2
    <2>2. cuts[t + 1] = Find(fs, cuts[t], limit[t])
      OBVIOUS
    <2> DEFINE begin == cuts[t]
               value == limit[t]
               r     == Find(fs, begin, value)
    <2>3. begin \in 1 .. Len(fs) + 1 /\ value \in Int
      BY <2>1
    <2> HIDE DEF begin, value
    <2>4. /\ r \in begin .. Len(fs) + 1
          /\ r < Len(fs) + 1 => fs[r].weight_index >= value
          /\ r > begin => fs[r - 1].weight_index < value
      BY <2>3, FindBoundary, Zenon
    <2> QED BY <2>2, <2>4, Zenon DEF begin, value
  <1>4. cuts[threads + 1] = Len(fs) + 1
    <2> DEFINE r == cuts[threads + 1]
    <2>1. r \in 1 .. Len(fs) + 1 /\ (r < Len(fs) + 1 => w(r) >= limit[threads])
      <3>1. threads \in 1 .. threads /\ threads + 1 \in 1 .. threads + 1
        OBVIOUS
      <3> QED BY <1>2, <1>3, <3>1
    <2> HIDE DEF r, w
    <2>2. r < Len(fs) + 1 => w(r) < limit[threads] /\ w(r) \in Nat
      BY <1>1, <1>2, <2>1
    <2>3. limit[threads] \in Nat
      OBVIOUS
    <2>4. r = Len(fs) + 1
      BY <1>2, <2>1, <2>2, <2>3
    <2> QED BY <2>4 DEF r
  <1>5. ASSUME NEW t \in 1 .. threads PROVE cuts[t] <= cuts[t + 1]
    <2> DEFINE a == cuts[t]
               b == cuts[t + 1]
               l == Len(fs)
    <2>1. t \in 1 .. threads + 1
      OBVIOUS
    <2>2. a \in 1 .. l + 1 /\ b \in a .. l + 1 /\ l \in Nat
      BY <1>2, <1>3, <2>1, Zenon
    <2> HIDE DEF a, b, l
    <2>3. a <= b
      BY <2>2
    <2> QED BY <2>3 DEF a, b
  <1>6. ASSUME sorted, NEW t \in 1 .. threads, NEW i \in cuts[t] .. cuts[t + 1] - 1
        PROVE  w(i) \in limit[t - 1] .. limit[t] - 1
    <2> DEFINE a == cuts[t]
               b == cuts[t + 1]
    <2>1. /\ a \in 1 .. Len(fs) + 1 /\ b \in 1 .. Len(fs) + 1 /\ i \in a .. b - 1
          /\ limit[t] \in Nat /\ limit[t - 1] \in Nat
      <3>1. t \in 1 .. threads + 1 /\ t + 1 \in 1 .. threads + 1
            /\ t \in 0 .. threads /\ t - 1 \in 0 .. threads
        OBVIOUS
      <3>2. limit[t] \in Nat /\ limit[t - 1] \in Nat
        BY <3>1
      <3> QED BY <1>2, <3>1, <3>2
    <2>2. b > a => w(b - 1) < limit[t]
      BY <1>3
    <2>3. a < Len(fs) + 1 => (a = 1 /\ limit[t - 1] = 0) \/ w(a) >= limit[t - 1]
      <3>1. CASE t = 1
        BY <3>1
      <3>2. CASE t # 1
        <4> DEFINE s == t - 1
        <4>1. s \in 1 .. threads /\ s + 1 = t
          BY <3>2
        <4> HIDE DEF s
        <4>2. cuts[s + 1] < Len(fs) + 1 => w(cuts[s + 1]) >= limit[s]
          BY <1>3, <4>1
        <4> QED BY <4>1, <4>2 DEF s
      <3> QED BY <3>1, <3>2
    <2> HIDE DEF a, b
    <2>4. /\ i \in 1 .. Len(fs) /\ a \in 1 .. Len(fs) /\ b - 1 \in 1 .. Len(fs)
          /\ a <= i /\ i <= b - 1 /\ b > a
      <3> DEFINE l == Len(fs)
      <3>1. l \in Nat /\ a \in 1 .. l + 1 /\ b \in 1 .. l + 1 /\ i \in a .. b - 1
        BY <1>2, <2>1
      <3> HIDE DEF l
      <3>2. /\ i \in 1 .. l /\ a \in 1 .. l /\ b - 1 \in 1 .. l
            /\ a <= i /\ i <= b - 1 /\ b > a
        BY <3>1
      <3> QED BY <3>2 DEF l
    <2>5. w(a) <= w(i) /\ w(i) <= w(b - 1)
      BY <1>6, <2>4
    <2>6. w(i) \in Nat /\ w(a) \in Nat /\ w(b - 1) \in Nat
      BY <1>1, <2>4
    <2>7. a < Len(fs) + 1
      BY <1>2, <2>4
    <2> DEFINE u == w(i)
               v == w(a)
               x == w(b - 1)
               p == limit[t - 1]
               q == limit[t]
    <2>8. /\ u \in Nat /\ v \in Nat /\ x \in Nat /\ p \in Nat /\ q \in Nat
          /\ v <= u /\ u <= x
      BY <2>1, <2>5, <2>6
    <2>9. x < q /\ (p = 0 \/ v >= p)
      BY <2>2, <2>3, <2>4, <2>7
    <2> HIDE DEF w, u, v, x, p, q, sorted
    <2>10. u \in p .. q - 1
      BY <2>8, <2>9, Between
    <2> QED BY <2>10 DEF u, p, q
  <1> QED BY <1>4, <1>5, <1>6

\* Every feature is given to one thread; if they are sorted, to the thread that owns
\* its weight.
SharedOut(fs, length, stride, partition_bits) ==
  LET cuts    == Cut(fs, length, stride, partition_bits)
      size    == ExpertSize(length, stride, partition_bits)
      threads == Pow2[partition_bits]
      sorted  == \A i, j \in 1 .. Len(fs) :
                   i <= j => fs[i].weight_index <= fs[j].weight_index
  IN  /\ Len(cuts) = threads + 1 /\ cuts[1] = 1 /\ Last(cuts) = Len(fs) + 1
      /\ \A t \in 1 .. threads :
           /\ cuts[t] <= cuts[t + 1]
           /\ sorted => \A i \in cuts[t] .. cuts[t + 1] - 1 :
                          fs[i].weight_index \div size = t - 1

\* setup_example gives every feature of a namespace to one thread, in whatever order
\* they are; if they are sorted, to the thread that owns its weight, so that no two
\* threads write to the same weight.  The threads are as many as partition_bits
\* number, each with the same number of weights.
THEOREM FeaturesSharedOut ==
  ASSUME NEW fs \in Seq(Feature), NEW partition_bits \in Nat, NEW stride \in Nat \ {0},
         NEW length, \E per \in Nat \ {0} : length = Pow2[partition_bits] * per,
         \A i \in 1 .. Len(fs) : fs[i].weight_index \in 0 .. length * stride - 1
  PROVE  SharedOut(fs, length, stride, partition_bits)
  <1> SUFFICES ASSUME NEW per \in Nat \ {0}, NEW threads \in Nat \ {0},
                      threads = Pow2[partition_bits], length = threads * per
               PROVE  SharedOut(fs, length, stride, partition_bits)
    BY Pow2Step
  <1> DEFINE cuts == Cut(fs, length, stride, partition_bits)
             size == ExpertSize(length, stride, partition_bits)
             all == length * stride
             limit == [t \in 0 .. threads |-> t * size]
             w(i) == fs[i].weight_index
  <1>1. size = stride * (length \div threads)
    BY DEF ExpertSize
  <1>2. length \in Nat /\ size \in Int
    <2>1. length \in Nat /\ length \div threads \in Int
      BY SMTT(40)
    <2> QED BY <1>1, <2>1
  <1>3. SharedEqually(threads, length * stride, size)
    <2> HIDE DEF size
    <2> QED BY <1>1, <1>2, EqualShares
  <1>4. size \in Nat \ {0} /\ threads = (length * stride) \div size /\ threads * size = all
    BY <1>3 DEF SharedEqually
  <1>5. CutInTurn(fs, cuts, threads, size)
    BY <1>2, <1>4, CutByCut
  <1>6. /\ cuts \in Seq(1 .. Len(fs) + 1) /\ Len(cuts) = threads + 1 /\ cuts[1] = 1
        /\ \A t \in 1 .. threads : cuts[t + 1] = Find(fs, cuts[t], t * size)
    <2> HIDE DEF cuts, size
    <2> QED BY <1>5 DEF CutInTurn
  <1>7. \A i \in 1 .. Len(fs) : w(i) \in 0 .. all - 1
    OBVIOUS
  <1> HIDE DEF cuts, size, w, all
  <1>8. limit \in [0 .. threads -> Nat] /\ \A t \in 0 .. threads : limit[t] = t * size
    <2>1. size \in Nat /\ threads \in Nat
      BY <1>4
    <2> QED BY <2>1, LimitFunction
  <1>9. limit[0] = 0 /\ limit[threads] = all
    BY <1>4, <1>8
  <1> HIDE DEF limit
  <1>10. /\ \A t \in 1 .. threads : cuts[t + 1] = Find(fs, cuts[t], limit[t])
         /\ \A i \in 1 .. Len(fs) : fs[i].weight_index \in 0 .. limit[threads] - 1
    BY <1>6, <1>7, <1>8, <1>9 DEF w
  <1>11. /\ cuts[threads + 1] = Len(fs) + 1
         /\ \A t \in 1 .. threads : cuts[t] <= cuts[t + 1]
         /\ (\A i, j \in 1 .. Len(fs) :
               i <= j => fs[i].weight_index <= fs[j].weight_index)
             => \A t \in 1 .. threads : \A i \in cuts[t] .. cuts[t + 1] - 1 :
                  fs[i].weight_index \in limit[t - 1] .. limit[t] - 1
    BY <1>6, <1>8, <1>9, <1>10, CutsAtLimits
  <1>12. ASSUME NEW t \in 1 .. threads, NEW a, a \in limit[t - 1] .. limit[t] - 1
        PROVE  a \div size = t - 1
    <2>1. /\ t - 1 \in Nat /\ t - 1 \in 0 .. threads /\ t \in 0 .. threads
      OBVIOUS
    <2>2. limit[t - 1] = (t - 1) * size /\ limit[t] = t * size
          /\ limit[t - 1] \in Nat /\ limit[t] \in Nat
      BY <1>8, <2>1
    <2>3. t * size = (t - 1) * size + size
      BY <1>4, <2>1
    <2>4. a \in Nat /\ (t - 1) * size <= a /\ a < (t - 1) * size + size
      BY <1>12, <2>2, <2>3
    <2> QED BY <1>4, <2>1, <2>4, DivRange
  <1>13. Last(cuts) = Len(fs) + 1
    BY <1>6, <1>11 DEF Last
  <1> DEFINE sorted == \A i, j \in 1 .. Len(fs) :
                         i <= j => fs[i].weight_index <= fs[j].weight_index
  <1>14. sorted => \A t \in 1 .. threads : \A i \in cuts[t] .. cuts[t + 1] - 1 :
                     fs[i].weight_index \in limit[t - 1] .. limit[t] - 1
    BY <1>11, Zenon
  <1> HIDE DEF sorted
  <1>15. ASSUME NEW t \in 1 .. threads
         PROVE  /\ cuts[t] <= cuts[t + 1]
                /\ sorted => \A i \in cuts[t] .. cuts[t + 1] - 1 :
                               fs[i].weight_index \div size = t - 1
    <2>1. cuts[t] <= cuts[t + 1]
      BY <1>11, Zenon
    <2>2. ASSUME sorted, NEW i \in cuts[t] .. cuts[t + 1] - 1
          PROVE  fs[i].weight_index \div size = t - 1
      <3>1. fs[i].weight_index \in limit[t - 1] .. limit[t] - 1
        BY <1>14, <2>2
      <3> DEFINE a == fs[i].weight_index
      <3>2. a \in limit[t - 1] .. limit[t] - 1
        BY <3>1
      <3> HIDE DEF a
      <3>3. a \div size = t - 1
        BY <1>12, <3>2, Zenon
      <3> QED BY <3>3 DEF a
    <2> QED BY <2>1, <2>2
  <1>16. /\ Len(cuts) = threads + 1 /\ cuts[1] = 1 /\ Last(cuts) = Len(fs) + 1
         /\ \A t \in 1 .. threads :
              /\ cuts[t] <= cuts[t + 1]
              /\ sorted => \A i \in cuts[t] .. cuts[t + 1] - 1 :
                             fs[i].weight_index \div size = t - 1
    BY <1>6, <1>13, <1>15, Zenon
  <1>17. LET c == Cut(fs, length, stride, partition_bits)
             z == ExpertSize(length, stride, partition_bits)
         IN  /\ Len(c) = threads + 1 /\ c[1] = 1 /\ Last(c) = Len(fs) + 1
             /\ \A t \in 1 .. threads :
                  /\ c[t] <= c[t + 1]
                  /\ sorted => \A i \in c[t] .. c[t + 1] - 1 :
                                 fs[i].weight_index \div z = t - 1
    BY <1>16, Zenon DEF cuts, size
  <1> QED BY <1>17, Zenon DEF SharedOut, sorted

-----------------------------------------------------------------------------
(* The features of a line                                                  *)

\* A feature of an index of that many bits, and what is left of features when
\* their indices are cut to that many.
Within(bits) == [x : Int, weight_index : 0 .. Pow2[bits] - 1]
Narrower(f, bits) == [x |-> f.x, weight_index |-> f.weight_index % Pow2[bits]]
Narrowed(fs, bits) == [i \in 1 .. Len(fs) |-> Narrower(fs[i], bits)]

\* An example as its reader makes it: a namespace is listed once, and only if it
\* has features.
Slots(bits) ==
  [label : Int, weight : Int, initial : Int, tag : Seq(Int), indices : Seq(Namespaces),
   atomics : [Namespaces -> Seq(Within(bits))], subsets : [Namespaces -> {<<>>}],
   sorted : BOOLEAN]
ListedOnce(indices) ==
  \A i, j \in 1 .. Len(indices) : indices[i] = indices[j] => i = j
Listed(indices, ns) == \E i \in 1 .. Len(indices) : indices[i] = ns
Filled(bits) ==
  {a \in Slots(bits) :
     /\ ListedOnce(a.indices)
     /\ \A ns \in Namespaces : Listed(a.indices, ns) <=> a.atomics[ns] # <<>>
     /\ a.atomics[ConstantNamespace] = <<>>}

\* The second is the first with fewer bits.  (initial is in no cache.)
Alike(a, b, bits) ==
  /\ a.label = b.label /\ a.weight = b.weight /\ a.tag = b.tag /\ a.indices = b.indices
  /\ \A ns \in Namespaces : b.atomics[ns] = Narrowed(a.atomics[ns], bits)

LEMMA Remainders ==
  ASSUME NEW h \in Int, NEW m \in Nat \ {0}, NEW k \in Nat \ {0}
  PROVE  (h % (k * m)) % m = h % m
  <1> DEFINE w == k * m
             q == h \div w
             r == h % w
             u == r \div m
             v == r % m
  <1>1. w \in Nat \ {0}
    OBVIOUS
  <1>2. q \in Int /\ r \in Int /\ h = w * q + r
    <2> HIDE DEF w
    <2> QED BY <1>1
  <1>3. u \in Int /\ v \in 0 .. m - 1 /\ r = m * u + v
    <2>1. r \in Int
      BY <1>2
    <2> HIDE DEF r
    <2> QED BY <2>1
  <1>4. h = m * (k * q + u) + v
    <2> HIDE DEF q, r, u, v
    <2>1. w * q = m * (k * q)
      BY <1>2
    <2>2. m * (k * q + u) = m * (k * q) + m * u
      BY <1>2, <1>3
    <2> HIDE DEF w
    <2> QED BY <1>2, <1>3, <2>1, <2>2
  <1>5. ASSUME NEW t \in Int, h = m * t + v PROVE h % m = v
    <2> HIDE DEF v
    <2>1. h \div m = t
      BY <1>3, <1>5
    <2> QED BY <1>3, <1>5, <2>1
  <1>6. k * q + u \in Int
    <2> HIDE DEF q, u
    <2> QED BY <1>2, <1>3
  <1> HIDE DEF u, q, v
  <1>7. h % m = v
    BY <1>4, <1>5, <1>6
  <1> QED BY <1>7 DEF v

LEMMA Masked ==
  ASSUME NEW bits \in Nat, NEW h \in Int
  PROVE  /\ (Pow2[bits] - 1) + 1 = Pow2[bits] /\ Pow2[bits] \in Nat \ {0}
         /\ h % Pow2[bits] \in 0 .. Pow2[bits] - 1
         /\ h \in 0 .. Pow2[bits] - 1 => h % Pow2[bits] = h
         /\ \A c \in Nat : bits <= c => (h % Pow2[c]) % Pow2[bits] = h % Pow2[bits]
  <1>1. Pow2[bits] \in Nat \ {0}
    BY Pow2Step
  <1>2. ASSUME NEW c \in Nat, bits <= c PROVE (h % Pow2[c]) % Pow2[bits] = h % Pow2[bits]
    <2>1. c - bits \in Nat
      BY <1>2
    <2>2. Pow2[c] = Pow2[c - bits] * Pow2[bits] /\ Pow2[c - bits] \in Nat \ {0}
      BY <1>2, <2>1, Pow2Grows, Pow2Step
    <2>3. (h % (Pow2[c - bits] * Pow2[bits])) % Pow2[bits] = h % Pow2[bits]
      BY <1>1, <2>2, Remainders
    <2> QED BY <2>2, <2>3
  <1> DEFINE p == Pow2[bits]
  <1>3. p \in Nat \ {0}
    BY <1>1
  <1> HIDE DEF p
  <1>4. (p - 1) + 1 = p /\ h % p \in 0 .. p - 1 /\ (h \in 0 .. p - 1 => h % p = h)
    BY <1>3
  <1> QED BY <1>1, <1>2, <1>4 DEF p

\* Fewer bits of a feature.
LEMMA OneNarrowed ==
  ASSUME NEW c \in Nat, NEW f \in Within(c), NEW bits \in Nat
  PROVE  /\ Narrower(f, bits) \in Within(bits)
         /\ c = bits => Narrower(f, bits) = f
         /\ \A b \in Nat : bits <= b => Narrower(Narrower(f, b), bits) = Narrower(f, bits)
  <1>1. Pow2[c] \in Nat
    BY Pow2Step
  <1>2. f.x \in Int /\ f.weight_index \in 0 .. Pow2[c] - 1 /\ f.weight_index \in Int
    BY <1>1 DEF Within
  <1>3. f = [x |-> f.x, weight_index |-> f.weight_index]
    BY DEF Within
  <1>4. f.weight_index % Pow2[bits] \in 0 .. Pow2[bits] - 1
    BY <1>2, Masked
  <1>5. c = bits => f.weight_index % Pow2[bits] = f.weight_index
    BY <1>2, Masked
  <1>6. \A b \in Nat : bits <= b =>
          (f.weight_index % Pow2[b]) % Pow2[bits] = f.weight_index % Pow2[bits]
    BY <1>2, Masked
  <1> QED BY <1>2, <1>3, <1>4, <1>5, <1>6 DEF Narrower, Within

LEMMA NarrowedProperties ==
  ASSUME NEW c \in Nat, NEW fs \in Seq(Within(c)), NEW bits \in Nat
  PROVE  /\ Narrowed(fs, bits) \in Seq(Within(bits)) /\ Len(Narrowed(fs, bits)) = Len(fs)
         /\ \A i \in 1 .. Len(fs) : Narrowed(fs, bits)[i] = Narrower(fs[i], bits)
         /\ Narrowed(fs, bits) = <<>> <=> fs = <<>>
         /\ c = bits => Narrowed(fs, bits) = fs
  <1> DEFINE N == Narrowed(fs, bits)
  <1>1. Len(fs) \in Nat /\ \A i \in 1 .. Len(fs) : fs[i] \in Within(c)
    OBVIOUS
  <1>2. \A i \in 1 .. Len(fs) : Narrower(fs[i], bits) \in Within(bits)
    BY <1>1, OneNarrowed
  <1>3. N = [i \in 1 .. Len(fs) |-> Narrower(fs[i], bits)]
    BY DEF Narrowed
  <1> HIDE DEF N
  <1>4. /\ N \in Seq(Within(bits)) /\ Len(N) = Len(fs)
        /\ \A i \in 1 .. Len(fs) : N[i] = Narrower(fs[i], bits)
    <2>1. /\ N \in [1 .. Len(fs) -> Within(bits)]
          /\ \A i \in 1 .. Len(fs) : N[i] = Narrower(fs[i], bits)
      BY <1>2, <1>3
    <2> QED BY <1>1, <2>1
  <1>5. N = <<>> <=> fs = <<>>
    BY <1>4
  <1>6. ASSUME c = bits PROVE N = fs
    <2>1. \A i \in 1 .. Len(fs) : N[i] = fs[i]
      BY <1>1, <1>4, <1>6, OneNarrowed
    <2> QED BY <1>4, <2>1, SeqEqual
  <1> QED BY <1>4, <1>5, <1>6 DEF N

\* Masking a second time takes the rest of the bits.
LEMMA NarrowedTwice ==
  ASSUME NEW c \in Nat, NEW bits \in Nat, bits <= c, NEW d \in Nat, NEW fs \in Seq(Within(d))
  PROVE  Narrowed(Narrowed(fs, c), bits) = Narrowed(fs, bits)
  <1> DEFINE M == Narrowed(fs, c)
             N == Narrowed(M, bits)
             O == Narrowed(fs, bits)
  <1>1. /\ M \in Seq(Within(c)) /\ Len(M) = Len(fs)
        /\ \A i \in 1 .. Len(fs) : M[i] = Narrower(fs[i], c)
    BY NarrowedProperties
  <1>2. /\ O \in Seq(Within(bits)) /\ Len(O) = Len(fs)
        /\ \A i \in 1 .. Len(fs) : O[i] = Narrower(fs[i], bits)
    BY NarrowedProperties
  <1> HIDE DEF M, O
  <1>3. /\ N \in Seq(Within(bits)) /\ Len(N) = Len(M)
        /\ \A i \in 1 .. Len(M) : N[i] = Narrower(M[i], bits)
    BY <1>1, NarrowedProperties
  <1> HIDE DEF N
  <1>4. \A i \in 1 .. Len(fs) : Narrower(Narrower(fs[i], c), bits) = Narrower(fs[i], bits)
    <2> SUFFICES ASSUME NEW i \in 1 .. Len(fs)
                 PROVE  Narrower(Narrower(fs[i], c), bits) = Narrower(fs[i], bits)
      OBVIOUS
    <2>1. fs[i] \in Within(d)
      OBVIOUS
    <2> QED BY <2>1, OneNarrowed
  <1>5. \A i \in 1 .. Len(fs) : N[i] = O[i]
    BY <1>1, <1>2, <1>3, <1>4
  <1>6. N = O
    BY <1>1, <1>2, <1>3, <1>5, SeqEqual
  <1> QED BY <1>6 DEF M, N, O

LEMMA NarrowedCat ==
  ASSUME NEW c \in Nat, NEW bits \in Nat, NEW fs \in Seq(Within(c)), NEW gs \in Seq(Within(c))
  PROVE  Narrowed(Cat(fs, gs), bits) = Cat(Narrowed(fs, bits), Narrowed(gs, bits))
  <1> DEFINE F == Narrowed(fs, bits)
             G == Narrowed(gs, bits)
             h == Cat(fs, gs)
             H == Narrowed(h, bits)
             K == Cat(F, G)
  <1>1. /\ h \in Seq(Within(c)) /\ Len(h) = Len(fs) + Len(gs)
        /\ \A i \in 1 .. Len(fs) + Len(gs) :
             h[i] = IF i <= Len(fs) THEN fs[i] ELSE gs[i - Len(fs)]
    BY ConcatProperties DEF Cat
  <1>2. /\ F \in Seq(Within(bits)) /\ Len(F) = Len(fs)
        /\ \A i \in 1 .. Len(fs) : F[i] = Narrower(fs[i], bits)
    BY NarrowedProperties
  <1>3. /\ G \in Seq(Within(bits)) /\ Len(G) = Len(gs)
        /\ \A i \in 1 .. Len(gs) : G[i] = Narrower(gs[i], bits)
    BY NarrowedProperties
  <1> HIDE DEF F, G, h
  <1>4. /\ H \in Seq(Within(bits)) /\ Len(H) = Len(h)
        /\ \A i \in 1 .. Len(h) : H[i] = Narrower(h[i], bits)
    BY <1>1, NarrowedProperties
  <1>5. /\ K \in Seq(Within(bits)) /\ Len(K) = Len(F) + Len(G)
        /\ \A i \in 1 .. Len(F) + Len(G) :
             K[i] = IF i <= Len(F) THEN F[i] ELSE G[i - Len(F)]
    <2>1. F \in Seq(Within(bits)) /\ G \in Seq(Within(bits))
      BY <1>2, <1>3
    <2> QED BY <2>1, ConcatProperties DEF Cat
  <1> HIDE DEF H, K
  <1>6. ASSUME NEW i \in 1 .. Len(H) PROVE H[i] = K[i]
    <2>1. i \in 1 .. Len(fs) + Len(gs) /\ Len(fs) \in Nat /\ Len(gs) \in Nat
      BY <1>1, <1>4
    <2>2. H[i] = Narrower(h[i], bits)
      BY <1>1, <1>4
    <2>3. CASE i <= Len(fs)
      <3>1. i \in 1 .. Len(fs) /\ h[i] = fs[i] /\ K[i] = F[i]
        BY <1>1, <1>2, <1>3, <1>5, <2>1, <2>3
      <3> QED BY <1>2, <2>2, <3>1
    <2>4. CASE i > Len(fs)
      <3>1. i - Len(fs) \in 1 .. Len(gs) /\ ~(i <= Len(fs))
        BY <2>1, <2>4
      <3>2. h[i] = gs[i - Len(fs)] /\ K[i] = G[i - Len(fs)]
        BY <1>1, <1>2, <1>3, <1>5, <2>1, <3>1
      <3> QED BY <1>3, <2>2, <3>1, <3>2
    <2> QED BY <2>1, <2>3, <2>4
  <1>7. H = K
    BY <1>1, <1>2, <1>3, <1>4, <1>5, <1>6, SeqEqual
  <1> QED BY <1>7 DEF H, K, F, G, h

LEMMA ChannelTyped ==
  ASSUME NEW channel \in Channel, NEW bits \in Nat
  PROVE  /\ ChannelFeatures(channel, Pow2[bits] - 1) \in Seq(Within(bits))
         /\ \A c \in Nat : bits <= c =>
              Narrowed(ChannelFeatures(channel, Pow2[c] - 1), bits) =
                ChannelFeatures(channel, Pow2[bits] - 1)
  <1> DEFINE words == channel.words
             n == Len(words)
             h == [i \in 1 .. n |-> HashString(words[i].name, ChannelHash(channel.ns))]
             x == [i \in 1 .. n |-> words[i].x * channel.scale]
             fs(b) == ChannelFeatures(channel, Pow2[b] - 1)
  <1>1. n \in Nat /\ h \in [1 .. n -> Int] /\ x \in [1 .. n -> Int]
    <2>1. words \in Seq([name : Int, x : Int]) /\ channel.scale \in Int
          /\ channel.ns \in Namespaces
      BY DEF Channel
    <2>2. ChannelHash(channel.ns) \in Int
      <3>1. NamespaceHash \in [Namespaces -> Int]
        BY LineAssumption
      <3> QED BY <2>1, <3>1 DEF ChannelHash
    <2>3. n \in Nat /\ \A i \in 1 .. n : words[i].name \in Int /\ words[i].x \in Int
      <3>1. n \in Nat /\ \A i \in 1 .. n : words[i] \in [name : Int, x : Int]
        <4> DEFINE W == [name : Int, x : Int]
        <4>1. words \in Seq(W)
          BY <2>1
        <4> HIDE DEF words, W
        <4>2. n \in Nat /\ \A i \in 1 .. n : words[i] \in W
          BY <4>1
        <4> QED BY <4>2 DEF W
      <3> HIDE DEF n, words
      <3> QED BY <3>1
    <2> HIDE DEF n, words
    <2>4. \A i \in 1 .. n : words[i].name + ChannelHash(channel.ns) \in Int
                            /\ words[i].x * channel.scale \in Int
      BY <2>1, <2>2, <2>3
    <2> QED BY <2>3, <2>4 DEF HashString
  <1>2. ASSUME NEW b \in Nat
        PROVE  /\ fs(b) \in Seq(Within(b)) /\ Len(fs(b)) = n
               /\ \A i \in 1 .. n : fs(b)[i] = [x |-> x[i], weight_index |-> h[i] % Pow2[b]]
    <2>1. (Pow2[b] - 1) + 1 = Pow2[b]
      BY Masked
    <2>2. fs(b) = [i \in 1 .. n |-> [x |-> x[i], weight_index |-> h[i] % Pow2[b]]]
      BY <2>1 DEF ChannelFeatures
    <2> HIDE DEF x, h, n
    <2>3. \A i \in 1 .. n : h[i] % Pow2[b] \in 0 .. Pow2[b] - 1
      BY <1>1, Masked
    <2>4. \A i \in 1 .. n : [x |-> x[i], weight_index |-> h[i] % Pow2[b]] \in Within(b)
      BY <1>1, <2>3 DEF Within
    <2> DEFINE g == fs(b)
    <2> HIDE DEF fs
    <2>5. g \in [1 .. n -> Within(b)]
      BY <2>2, <2>4
    <2>6. g \in Seq(Within(b)) /\ Len(g) = n
      <3> HIDE DEF g
      <3> QED BY <1>1, <2>5
    <2> QED BY <2>2, <2>6
  <1> HIDE DEF fs, x, h, n
  <1>3. ASSUME NEW c \in Nat, bits <= c PROVE Narrowed(fs(c), bits) = fs(bits)
    <2> DEFINE C == fs(c)
               B == fs(bits)
               N == Narrowed(C, bits)
    <2>1. C \in Seq(Within(c)) /\ Len(C) = n
          /\ \A i \in 1 .. n : C[i] = [x |-> x[i], weight_index |-> h[i] % Pow2[c]]
      BY <1>2
    <2>2. B \in Seq(Within(bits)) /\ Len(B) = n
          /\ \A i \in 1 .. n : B[i] = [x |-> x[i], weight_index |-> h[i] % Pow2[bits]]
      BY <1>2
    <2> HIDE DEF C, B
    <2>3. N \in Seq(Within(bits)) /\ Len(N) = n
          /\ \A i \in 1 .. n : N[i] = Narrower(C[i], bits)
      BY <2>1, NarrowedProperties
    <2>4. \A i \in 1 .. n : N[i] = B[i]
      <3> SUFFICES ASSUME NEW i \in 1 .. n PROVE N[i] = B[i]
        OBVIOUS
      <3>1. (h[i] % Pow2[c]) % Pow2[bits] = h[i] % Pow2[bits]
        BY <1>1, <1>3, Masked
      <3> QED BY <2>1, <2>2, <2>3, <3>1 DEF Narrower
    <2>5. N = B
      BY <2>2, <2>3, <2>4, SeqEqual
    <2> QED BY <2>5 DEF N, C, B
  <1> QED BY <1>2, <1>3 DEF fs

\* The features of a channel are added to those of its namespace.
Joins(r, a, ns, fs) ==
  /\ r.label = a.label /\ r.weight = a.weight /\ r.initial = a.initial
  /\ r.tag = a.tag /\ r.subsets = a.subsets /\ r.sorted = a.sorted
  /\ r.indices = IF a.atomics[ns] = <<>> /\ fs # <<>> THEN Append(a.indices, ns)
                                                      ELSE a.indices
  /\ \A m \in Namespaces :
       r.atomics[m] = IF m = ns THEN Cat(a.atomics[ns], fs) ELSE a.atomics[m]

LEMMA ListedMore ==
  ASSUME NEW s \in Seq(Namespaces), ListedOnce(s), NEW ns \in Namespaces, ~Listed(s, ns)
  PROVE  /\ ListedOnce(Append(s, ns))
         /\ \A m \in Namespaces : Listed(Append(s, ns), m) <=> Listed(s, m) \/ m = ns
  <1> DEFINE t == Append(s, ns)
  <1>1. /\ Len(s) \in Nat /\ Len(t) = Len(s) + 1
        /\ \A i \in 1 .. Len(s) : t[i] = s[i] 
        /\ t[Len(s) + 1] = ns
    BY AppendProperties
  <1> HIDE DEF t
  <1>2. ListedOnce(t)
    BY <1>1 DEF ListedOnce, Listed
  <1>3. ASSUME NEW m \in Namespaces, Listed(t, m) PROVE Listed(s, m) \/ m = ns
    BY <1>1, <1>3 DEF Listed
  <1>4. ASSUME NEW m \in Namespaces, Listed(s, m) \/ m = ns PROVE Listed(t, m)
    <2>1. CASE m = ns
      <3>1. Len(s) + 1 \in 1 .. Len(t)
        BY <1>1
      <3> QED BY <1>1, <2>1, <3>1 DEF Listed
    <2>2. CASE Listed(s, m)
      BY <1>1, <2>2 DEF Listed
    <2> QED BY <1>4, <2>1, <2>2
  <1> QED BY <1>2, <1>3, <1>4 DEF t

LEMMA ChannelAdded ==
  ASSUME NEW bits \in Nat, NEW a \in Filled(bits), NEW channel \in Channel
  PROVE  LET fs == ChannelFeatures(channel, Pow2[bits] - 1)
             r  == AddChannel(a, channel, Pow2[bits] - 1)
         IN  r \in Filled(bits) /\ Joins(r, a, channel.ns, fs)
  <1> DEFINE ns == channel.ns
             fs == ChannelFeatures(channel, Pow2[bits] - 1)
             r  == AddChannel(a, channel, Pow2[bits] - 1)
             A  == [a.atomics EXCEPT ![ns] = Cat(@, fs)]
             I  == IF a.atomics[ns] = <<>> /\ fs # <<>> THEN Append(a.indices, ns)
                                                        ELSE a.indices
  <1>1. /\ a \in Slots(bits) /\ ListedOnce(a.indices) /\ a.atomics[ConstantNamespace] = <<>>
        /\ \A m \in Namespaces : Listed(a.indices, m) <=> a.atomics[m] # <<>>
    BY DEF Filled
  <1>2. ns \in Namespaces /\ ns # ConstantNamespace /\ ConstantNamespace \in Namespaces
    BY LineAssumption DEF Channel
  <1>3. fs \in Seq(Within(bits))
    BY ChannelTyped
  <1>4. r = [a EXCEPT !.atomics[ns] = Cat(@, fs),
                      !.indices = IF a.atomics[ns] = <<>> /\ fs # <<>> THEN Append(@, ns)
                                                                       ELSE @]
    BY DEF AddChannel, Cat
  <1> HIDE DEF fs, r
  <1>5. r = [label |-> a.label, weight |-> a.weight, initial |-> a.initial, tag |-> a.tag,
             indices |-> I, atomics |-> A, subsets |-> a.subsets, sorted |-> a.sorted]
    BY <1>1, <1>4 DEF Slots
  <1>6. /\ a.atomics \in [Namespaces -> Seq(Within(bits))] /\ a.indices \in Seq(Namespaces)
        /\ a.atomics[ns] \in Seq(Within(bits))
    BY <1>1, <1>2 DEF Slots
  <1>7. Cat(a.atomics[ns], fs) \in Seq(Within(bits))
        /\ (Cat(a.atomics[ns], fs) = <<>> <=> a.atomics[ns] = <<>> /\ fs = <<>>)
    <2> DEFINE u == a.atomics[ns]
               v == Cat(u, fs)
    <2>1. v \in Seq(Within(bits)) /\ Len(v) = Len(u) + Len(fs)
      BY <1>3, <1>6, Grouped
    <2>2. u \in Seq(Within(bits))
      BY <1>6
    <2> HIDE DEF u, v
    <2>3. v = <<>> <=> u = <<>> /\ fs = <<>>
      <3>1. Len(u) \in Nat /\ Len(fs) \in Nat /\ Len(v) \in Nat
        BY <1>3, <2>1, <2>2
      <3>2. (v = <<>> <=> Len(v) = 0) /\ (u = <<>> <=> Len(u) = 0) /\ (fs = <<>> <=> Len(fs) = 0)
        BY <1>3, <2>1, <2>2
      <3> QED BY <2>1, <3>1, <3>2
    <2> QED BY <2>1, <2>3 DEF u, v
  <1>8. /\ A \in [Namespaces -> Seq(Within(bits))]
        /\ \A m \in Namespaces : A[m] = IF m = ns THEN Cat(a.atomics[ns], fs) ELSE a.atomics[m]
    BY <1>2, <1>6, <1>7
  <1>9. /\ I \in Seq(Namespaces) /\ ListedOnce(I)
        /\ \A m \in Namespaces : Listed(I, m) <=> A[m] # <<>>
    <2>1. CASE a.atomics[ns] = <<>> /\ fs # <<>>
      <3>1. ~Listed(a.indices, ns)
        BY <1>1, <1>2, <2>1
      <3>2. /\ ListedOnce(Append(a.indices, ns)) /\ Append(a.indices, ns) \in Seq(Namespaces)
            /\ \A m \in Namespaces :
                 Listed(Append(a.indices, ns), m) <=> Listed(a.indices, m) \/ m = ns
        BY <1>1, <1>2, <1>6, <3>1, ListedMore, AppendProperties
      <3> HIDE DEF A
      <3> QED BY <1>1, <1>2, <1>7, <1>8, <2>1, <3>2
    <2>2. CASE ~(a.atomics[ns] = <<>> /\ fs # <<>>)
      <3>1. a.atomics[ns] # <<>> <=> Cat(a.atomics[ns], fs) # <<>>
        BY <1>7, <2>2
      <3> HIDE DEF A
      <3> QED BY <1>1, <1>2, <1>6, <1>8, <2>2, <3>1
    <2> QED BY <2>1, <2>2
  <1>10. A[ConstantNamespace] = <<>>
    BY <1>1, <1>2, <1>8
  <1> HIDE DEF A, I
  <1>11. r \in Slots(bits)
    BY <1>1, <1>5, <1>8, <1>9 DEF Slots
  <1>12. r \in Filled(bits)
    BY <1>5, <1>9, <1>10, <1>11 DEF Filled
  <1>13. Joins(r, a, ns, fs)
    <2> HIDE DEF ns
    <2> QED BY <1>5, <1>8 DEF Joins, I
  <1> QED BY <1>12, <1>13 DEF r, fs

LEMMA ChannelAlike ==
  ASSUME NEW c \in Nat, NEW bits \in Nat, bits <= c, NEW a \in Filled(c),
         NEW b \in Filled(bits), Alike(a, b, bits), NEW channel \in Channel
  PROVE  Alike(AddChannel(a, channel, Pow2[c] - 1), AddChannel(b, channel, Pow2[bits] - 1),
               bits)
  <1> DEFINE ns == channel.ns
             fs == ChannelFeatures(channel, Pow2[c] - 1)
             gs == ChannelFeatures(channel, Pow2[bits] - 1)
             r  == AddChannel(a, channel, Pow2[c] - 1)
             s  == AddChannel(b, channel, Pow2[bits] - 1)
  <1>1. /\ fs \in Seq(Within(c)) /\ gs \in Seq(Within(bits)) /\ Narrowed(fs, bits) = gs
    BY ChannelTyped
  <1>2. ns \in Namespaces
    BY DEF Channel
  <1>3. Joins(r, a, ns, fs) /\ Joins(s, b, ns, gs)
    BY ChannelAdded
  <1> HIDE DEF ns, fs, gs, r, s
  <1>4. \A m \in Namespaces : a.atomics[m] \in Seq(Within(c))
    BY DEF Filled, Slots
  <1>5. \A m \in Namespaces : b.atomics[m] = Narrowed(a.atomics[m], bits)
    BY DEF Alike
  <1>6. \A m \in Namespaces : s.atomics[m] = Narrowed(r.atomics[m], bits)
    <2> SUFFICES ASSUME NEW m \in Namespaces PROVE s.atomics[m] = Narrowed(r.atomics[m], bits)
      OBVIOUS
    <2>1. CASE m # ns
      BY <1>3, <1>5, <2>1 DEF Joins
    <2>2. CASE m = ns
      <3>1. r.atomics[ns] = Cat(a.atomics[ns], fs) /\ s.atomics[ns] = Cat(b.atomics[ns], gs)
        BY <1>2, <1>3 DEF Joins
      <3>2. Narrowed(Cat(a.atomics[ns], fs), bits)
              = Cat(Narrowed(a.atomics[ns], bits), Narrowed(fs, bits))
        BY <1>1, <1>2, <1>4, NarrowedCat
      <3> QED BY <1>1, <1>2, <1>5, <2>2, <3>1, <3>2
    <2> QED BY <2>1, <2>2
  <1>7. (a.atomics[ns] = <<>> /\ fs # <<>>) <=> (b.atomics[ns] = <<>> /\ gs # <<>>)
    <2>1. Narrowed(fs, bits) = <<>> <=> fs = <<>>
      BY <1>1, NarrowedProperties
    <2>2. Narrowed(a.atomics[ns], bits) = <<>> <=> a.atomics[ns] = <<>>
      BY <1>2, <1>4, NarrowedProperties
    <2> QED BY <1>1, <1>2, <1>5, <2>1, <2>2
  <1>8. r.indices = s.indices
    BY <1>3, <1>7 DEF Joins, Alike
  <1>9. Alike(r, s, bits)
    BY <1>3, <1>6, <1>8 DEF Joins, Alike
  <1> QED BY <1>9 DEF r, s

\* read_features goes from channel to channel.
AllChannels(a, channels, mask) ==
  FoldLeft(LAMBDA x, channel : AddChannel(x, channel, mask), a, channels)
Slotwise(h, a, channels, mask) ==
  /\ h[0] = a
  /\ \A k \in 1 .. Len(channels) : h[k] = AddChannel(h[k - 1], channels[k], mask)

LEMMA ChannelByChannel ==
  ASSUME NEW bits \in Nat, NEW a \in Filled(bits), NEW channels \in Seq(Channel)
  PROVE  \E h \in [0 .. Len(channels) -> Filled(bits)] :
           /\ Slotwise(h, a, channels, Pow2[bits] - 1)
           /\ AllChannels(a, channels, Pow2[bits] - 1) = h[Len(channels)]
  <1> DEFINE n == Len(channels)
             V == Filled(bits)
             More(x, channel) == AddChannel(x, channel, Pow2[bits] - 1)
             G == [p \in (1 .. n) \X V |-> More(p[2], channels[p[1]])]
             Is(f) == f = [T \in SUBSET DOMAIN channels |->
                             IF T = {} THEN a ELSE More(f[T \ {Max(T)}], channels[Max(T)])]
             F == CHOOSE f : Is(f)
  <1>1. n \in Nat /\ DOMAIN channels = 1 .. n /\ \A i \in 1 .. n : channels[i] \in Channel
    <2> DEFINE C == Channel
    <2>1. channels \in Seq(C)
      OBVIOUS
    <2> HIDE DEF C
    <2>2. n \in Nat /\ DOMAIN channels = 1 .. n /\ \A i \in 1 .. n : channels[i] \in C
      BY <2>1
    <2> QED BY <2>2 DEF C
  <1>2. AllChannels(a, channels, Pow2[bits] - 1) = F[1 .. n]
    BY <1>1 DEF AllChannels, FoldLeft, MapThenFoldSet
  <1>3. \A i \in 1 .. n, x \in V : More(x, channels[i]) \in V
    <2> SUFFICES ASSUME NEW i \in 1 .. n, NEW x \in V PROVE More(x, channels[i]) \in V
      OBVIOUS
    <2>1. channels[i] \in Channel
      BY <1>1
    <2> QED BY <2>1, ChannelAdded
  <1> HIDE DEF n, V, More
  <1>4. /\ G \in [(1 .. n) \X V -> V]
        /\ \A i \in 1 .. n, x \in V : G[<<i, x>>] = More(x, channels[i])
    BY <1>3
  <1> HIDE DEF G
  <1>5. a \in V
    BY DEF V
  <1>6. PICK f \in [SUBSET (1 .. n) -> V] : SetBySet(f, n, a, G)
    BY <1>1, <1>4, <1>5, SetRecursion
  <1>7. ASSUME NEW T \in SUBSET (1 .. n)
        PROVE  f[T] = IF T = {} THEN a ELSE More(f[T \ {Max(T)}], channels[Max(T)])
    <2>1. CASE T = {}
      BY <1>6, <2>1 DEF SetBySet
    <2>2. CASE T # {}
      <3>1. Max(T) \in 1 .. n
        BY <1>1, <2>2, Largest
      <3>2. f[T \ {Max(T)}] \in V
        OBVIOUS
      <3>3. f[T] = G[<<Max(T), f[T \ {Max(T)}]>>]
        BY <1>6, <2>2 DEF SetBySet
      <3> QED BY <1>4, <2>2, <3>1, <3>2, <3>3
    <2> QED BY <2>1, <2>2
  <1>8. Is(f)
    BY <1>1, <1>7
  <1>9. Is(F)
    <2> HIDE DEF Is
    <2> QED BY <1>8
  <1> HIDE DEF F
  <1>10. \A T \in SUBSET (1 .. n) :
           F[T] = IF T = {} THEN a ELSE More(F[T \ {Max(T)}], channels[Max(T)])
    BY <1>1, <1>9
  <1>11. F[{}] = a
    BY <1>10
  <1>12. \A T \in SUBSET (1 .. n) : T # {} /\ F[T \ {Max(T)}] \in V =>
           F[T] = G[<<Max(T), F[T \ {Max(T)}]>>]
    <2> SUFFICES ASSUME NEW T \in SUBSET (1 .. n), T # {}, F[T \ {Max(T)}] \in V
                 PROVE  F[T] = G[<<Max(T), F[T \ {Max(T)}]>>]
      OBVIOUS
    <2>1. Max(T) \in 1 .. n
      BY <1>1, Largest
    <2> QED BY <1>4, <1>10, <2>1
  <1>13. PICK h \in [0 .. n -> V] : InTurn(h, F, n, a, G)
    <2>1. Follows(F, n, a, G, V)
      BY <1>11, <1>12 DEF Follows
    <2>2. n \in Nat /\ a \in V /\ G \in [(1 .. n) \X V -> V]
      BY <1>1, <1>4, <1>5
    <2> QED BY <2>1, <2>2, PlacesInTurn
  <1>14. h[0] = a /\ h[n] = F[1 .. n] /\ \A k \in 1 .. n : h[k] = More(h[k - 1], channels[k])
    <2> SUFFICES ASSUME NEW k \in 1 .. n PROVE h[k] = More(h[k - 1], channels[k])
      BY <1>13 DEF InTurn
    <2>1. k - 1 \in 0 .. n
      BY <1>1
    <2>2. h[k] = G[<<k, h[k - 1]>>]
      BY <1>13 DEF InTurn
    <2> QED BY <1>4, <2>1, <2>2
  <1>15. Slotwise(h, a, channels, Pow2[bits] - 1)
    BY <1>14 DEF Slotwise, More, n
  <1>16. h \in [0 .. Len(channels) -> Filled(bits)]
    BY DEF V, n
  <1> QED BY <1>2, <1>14, <1>15, <1>16 DEF n

\* All channels with fewer bits: the features with fewer bits.
LEMMA ChannelsAlike ==
  ASSUME NEW c \in Nat, NEW bits \in Nat, bits <= c, NEW a \in Filled(c),
         NEW b \in Filled(bits), Alike(a, b, bits), NEW channels \in Seq(Channel)
  PROVE  LET r == AllChannels(a, channels, Pow2[c] - 1)
             s == AllChannels(b, channels, Pow2[bits] - 1)
         IN  /\ r \in Filled(c) /\ s \in Filled(bits) /\ Alike(r, s, bits)
             /\ s.sorted = b.sorted
  <1> DEFINE n == Len(channels)
  <1>1. n \in Nat /\ \A i \in 1 .. n : channels[i] \in Channel
    <2> DEFINE C == Channel
    <2>1. channels \in Seq(C)
      OBVIOUS
    <2> HIDE DEF C
    <2>2. n \in Nat /\ \A i \in 1 .. n : channels[i] \in C
      BY <2>1
    <2> QED BY <2>2 DEF C
  <1>2. PICK f \in [0 .. n -> Filled(c)] :
          /\ Slotwise(f, a, channels, Pow2[c] - 1)
          /\ AllChannels(a, channels, Pow2[c] - 1) = f[n]
    BY ChannelByChannel
  <1>3. PICK g \in [0 .. n -> Filled(bits)] :
          /\ Slotwise(g, b, channels, Pow2[bits] - 1)
          /\ AllChannels(b, channels, Pow2[bits] - 1) = g[n]
    BY ChannelByChannel
  <1> DEFINE S == {k \in Nat : k <= n => Alike(f[k], g[k], bits) /\ g[k].sorted = b.sorted}
  <1>4. 0 \in S
    BY <1>2, <1>3 DEF Slotwise
  <1>5. ASSUME NEW k \in Nat, k \in S PROVE k + 1 \in S
    <2> SUFFICES ASSUME k + 1 <= n
                 PROVE  Alike(f[k + 1], g[k + 1], bits) /\ g[k + 1].sorted = b.sorted
      OBVIOUS
    <2>1. k \in 0 .. n /\ k + 1 \in 1 .. n /\ (k + 1) - 1 = k /\ k <= n
      BY <1>1
    <2>2. Alike(f[k], g[k], bits) /\ g[k].sorted = b.sorted
      BY <1>5, <2>1
    <2>3. f[k] \in Filled(c) /\ g[k] \in Filled(bits) /\ channels[k + 1] \in Channel
      BY <1>1, <2>1
    <2>4. /\ f[k + 1] = AddChannel(f[k], channels[k + 1], Pow2[c] - 1)
          /\ g[k + 1] = AddChannel(g[k], channels[k + 1], Pow2[bits] - 1)
      BY <1>2, <1>3, <2>1 DEF Slotwise
    <2>5. Alike(f[k + 1], g[k + 1], bits)
      BY <2>2, <2>3, <2>4, ChannelAlike
    <2>6. g[k + 1].sorted = g[k].sorted
      <3> DEFINE channel == channels[k + 1]
                 fs == ChannelFeatures(channel, Pow2[bits] - 1)
      <3>1. Joins(AddChannel(g[k], channel, Pow2[bits] - 1), g[k], channel.ns, fs)
        BY <2>3, ChannelAdded
      <3> QED BY <2>4, <3>1 DEF Joins
    <2> QED BY <2>2, <2>5, <2>6
  <1>6. n \in S
    <2> HIDE DEF S
    <2> QED BY <1>1, <1>4, <1>5, SetInduction
  <1>7. Alike(f[n], g[n], bits) /\ g[n].sorted = b.sorted
    BY <1>1, <1>6
  <1> QED BY <1>1, <1>2, <1>3, <1>7

\* A slot without features, and one that is cleared.
Labelled ==
  [label : Int, weight : Int, initial : Int, tag : Seq(Int), indices : {<<>>},
   atomics : [Namespaces -> {<<>>}], subsets : [Namespaces -> {<<>>}], sorted : BOOLEAN]
Blank == {a \in Labelled : a.tag = <<>>}
SameLabel(a, b) == a.label = b.label /\ a.weight = b.weight /\ a.tag = b.tag

LEMMA LabelledFilled ==
  ASSUME NEW bits \in Nat, NEW a \in Labelled
  PROVE  a \in Filled(bits) /\ \A b \in Labelled : SameLabel(a, b) => Alike(a, b, bits)
  <1>1. /\ a.indices = <<>> /\ ConstantNamespace \in Namespaces
        /\ \A ns \in Namespaces : a.atomics[ns] = <<>>
    BY LineAssumption DEF Labelled
  <1>2. a.atomics \in [Namespaces -> Seq(Within(bits))] /\ a.indices \in Seq(Namespaces)
    <2>1. a.atomics = [ns \in Namespaces |-> a.atomics[ns]]
      BY DEF Labelled
    <2>2. \A ns \in Namespaces : a.atomics[ns] \in Seq(Within(bits))
      <3>1. <<>> \in Seq(Within(bits))
        OBVIOUS
      <3> QED BY <1>1, <3>1
    <2> QED BY <1>1, <2>1, <2>2
  <1>3. a \in Slots(bits)
    BY <1>2 DEF Labelled, Slots
  <1>4. ListedOnce(a.indices) /\ \A ns \in Namespaces : ~Listed(a.indices, ns)
    BY <1>1 DEF ListedOnce, Listed
  <1>5. Narrowed(<<>>, bits) = <<>>
    BY DEF Narrowed
  <1>6. ASSUME NEW b \in Labelled, SameLabel(a, b) PROVE Alike(a, b, bits)
    <2>1. b.indices = <<>> /\ \A ns \in Namespaces : b.atomics[ns] = <<>>
      BY DEF Labelled
    <2> QED BY <1>1, <1>5, <1>6, <2>1 DEF SameLabel, Alike
  <1> QED BY <1>1, <1>3, <1>4, <1>6 DEF Filled

\* Another label in the same slot.
Relabelled(a, label, weight, initial, tag) ==
  [label |-> label, weight |-> weight, initial |-> initial, tag |-> tag,
   indices |-> a.indices, atomics |-> a.atomics, subsets |-> a.subsets, sorted |-> a.sorted]

LEMMA RelabelledType ==
  ASSUME NEW a \in Labelled
  PROVE  /\ a = Relabelled(a, a.label, a.weight, a.initial, a.tag)
         /\ a.label \in Int /\ a.weight \in Int /\ a.initial \in Int /\ a.tag \in Seq(Int)
         /\ \A l, w, i \in Int, t \in Seq(Int) : Relabelled(a, l, w, i, t) \in Labelled
  BY DEF Relabelled, Labelled

LEMMA LabelParsed ==
  ASSUME NEW a \in Labelled, NEW b \in Labelled, SameLabel(a, b), NEW words \in Seq(Int)
  PROVE  /\ ParseLabel(a, words) \in Labelled /\ ParseLabel(b, words) \in Labelled
         /\ SameLabel(ParseLabel(a, words), ParseLabel(b, words))
         /\ ParseLabel(b, words).sorted = b.sorted
  <1>1. \A n \in 1 .. 3 : n <= Len(words) => words[n] \in Int
    OBVIOUS
  <1> DEFINE l(x) == IF Len(words) \in 1 .. 3 THEN words[1] ELSE x.label
             w(x) == IF Len(words) \in 2 .. 3 THEN words[2] ELSE x.weight
             i(x) == IF Len(words) = 3 THEN words[3] ELSE x.initial
  <1>2. ASSUME NEW x \in Labelled
        PROVE  ParseLabel(x, words) = Relabelled(x, l(x), w(x), i(x), x.tag)
    <2> DEFINE r == ParseLabel(x, words)
    <2>1. x = Relabelled(x, x.label, x.weight, x.initial, x.tag)
      BY RelabelledType
    <2>2. CASE Len(words) = 1
      <3>1. r = [x EXCEPT !.label = words[1]]
        BY <2>2 DEF ParseLabel
      <3> HIDE DEF r
      <3>2. r = Relabelled(x, words[1], x.weight, x.initial, x.tag)
        BY <2>1, <3>1 DEF Relabelled
      <3> QED BY <2>2, <3>2 DEF r
    <2>3. CASE Len(words) = 2
      <3>1. r = [x EXCEPT !.label = words[1], !.weight = words[2]]
        BY <2>3 DEF ParseLabel
      <3> HIDE DEF r
      <3>2. r = Relabelled(x, words[1], words[2], x.initial, x.tag)
        BY <2>1, <3>1 DEF Relabelled
      <3> QED BY <2>3, <3>2 DEF r
    <2>4. CASE Len(words) = 3
      <3>1. r = [x EXCEPT !.label = words[1], !.weight = words[2], !.initial = words[3]]
        BY <2>4 DEF ParseLabel
      <3> HIDE DEF r
      <3>2. r = Relabelled(x, words[1], words[2], words[3], x.tag)
        BY <2>1, <3>1 DEF Relabelled
      <3> QED BY <2>4, <3>2 DEF r
    <2>5. CASE Len(words) \notin {1, 2, 3}
      <3>1. r = x
        BY <2>5 DEF ParseLabel
      <3> QED BY <2>1, <2>5, <3>1
    <2> QED BY <2>2, <2>3, <2>4, <2>5
  <1>3. ASSUME NEW x \in Labelled
        PROVE  ParseLabel(x, words) \in Labelled
    <2>1. l(x) \in Int /\ w(x) \in Int /\ i(x) \in Int /\ x.tag \in Seq(Int)
      BY <1>1, RelabelledType
    <2> HIDE DEF l, w, i
    <2> QED BY <1>2, <2>1, RelabelledType
  <1>4. l(a) = l(b) /\ w(a) = w(b) /\ a.tag = b.tag
    BY DEF SameLabel
  <1> HIDE DEF l, w, i
  <1> QED BY <1>2, <1>3, <1>4 DEF SameLabel, Relabelled

TextLine == [bar : BOOLEAN, words : Seq(Int), touching : BOOLEAN, channels : Seq(Channel)]

\* Nothing of the last example's label is in this one's (but `initial`).
LEMMA LabelRead ==
  ASSUME NEW a \in Blank, NEW b \in Blank, NEW line \in TextLine
  PROVE  LET r == LabelOf(DefaultLabel(a), line)
             s == LabelOf(DefaultLabel(b), line)
         IN  r \in Labelled /\ s \in Labelled /\ SameLabel(r, s) /\ s.sorted = b.sorted
  <1> DEFINE d == DefaultLabel(a)
             e == DefaultLabel(b)
             words == line.words
  <1>1. FltMax \in Int /\ words \in Seq(Int)
    BY LineAssumption DEF TextLine
  <1>2. d \in Labelled /\ e \in Labelled /\ SameLabel(d, e) /\ e.sorted = b.sorted
    <2>1. a \in Labelled /\ b \in Labelled /\ a.tag = <<>> /\ b.tag = <<>>
      BY DEF Blank
    <2>2. ASSUME NEW x \in Labelled
          PROVE  /\ DefaultLabel(x) = Relabelled(x, FltMax, 1, x.initial, x.tag)
                 /\ DefaultLabel(x) \in Labelled
      <3> DEFINE r == DefaultLabel(x)
      <3>1. r = [x EXCEPT !.label = FltMax, !.weight = 1]
        BY DEF DefaultLabel
      <3> HIDE DEF r
      <3>2. x = Relabelled(x, x.label, x.weight, x.initial, x.tag)
        BY RelabelledType
      <3>3. r = Relabelled(x, FltMax, 1, x.initial, x.tag)
        BY <3>1, <3>2 DEF Relabelled
      <3> QED BY <1>1, <3>3, RelabelledType DEF r
    <2> QED BY <2>1, <2>2 DEF Relabelled, SameLabel
  <1> HIDE DEF d, e, words
  <1>3. CASE line.bar
    BY <1>2, <1>3 DEF LabelOf, d, e
  <1>4. CASE ~line.bar /\ HasTag(line)
    <2> DEFINE t == <<Last(words)>>
               p == [d EXCEPT !.tag = t]
               q == [e EXCEPT !.tag = t]
               u == Front(words)
    <2>1. words # <<>>
      BY <1>4 DEF HasTag, words
    <2>2. t \in Seq(Int) /\ u \in Seq(Int)
      <3>1. Len(words) \in Nat \ {0} /\ words[Len(words)] \in Int
        BY <1>1, <2>1
      <3>2. SubSeq(words, 1, Len(words) - 1) \in Seq(Int)
        <4>1. \A i \in 1 .. Len(words) - 1 : words[i] \in Int
          BY <1>1
        <4> QED BY <3>1, <4>1, SubSeqProperties
      <3> QED BY <3>1, <3>2 DEF Last, Front
    <2> HIDE DEF t, u
    <2>3. p \in Labelled /\ q \in Labelled /\ SameLabel(p, q) /\ q.sorted = e.sorted
      <3>1. d.label \in Int /\ d.weight \in Int /\ d.initial \in Int
            /\ e.label \in Int /\ e.weight \in Int /\ e.initial \in Int
        BY <1>2 DEF Labelled
      <3>2. /\ p = Relabelled(d, d.label, d.weight, d.initial, t) /\ p \in Labelled
            /\ q = Relabelled(e, e.label, e.weight, e.initial, t) /\ q \in Labelled
        <4>1. ASSUME NEW x \in Labelled
              PROVE  [x EXCEPT !.tag = t] = Relabelled(x, x.label, x.weight, x.initial, t)
          <5> DEFINE r == [x EXCEPT !.tag = t]
          <5>1. r = [x EXCEPT !.tag = t]
            OBVIOUS
          <5>2. x = Relabelled(x, x.label, x.weight, x.initial, x.tag)
            BY RelabelledType
          <5> HIDE DEF r
          <5>3. r = Relabelled(x, x.label, x.weight, x.initial, t)
            BY <5>1, <5>2 DEF Relabelled
          <5> QED BY <5>3 DEF r
        <4>2. /\ p = Relabelled(d, d.label, d.weight, d.initial, t)
              /\ q = Relabelled(e, e.label, e.weight, e.initial, t)
          BY <1>2, <4>1
        <4> HIDE DEF p, q
        <4>3. /\ Relabelled(d, d.label, d.weight, d.initial, t) \in Labelled
              /\ Relabelled(e, e.label, e.weight, e.initial, t) \in Labelled
          BY <1>2, <2>2, <3>1, RelabelledType
        <4> QED BY <4>2, <4>3
      <3> HIDE DEF p, q
      <3> QED BY <1>2, <3>2 DEF Relabelled, SameLabel
    <2>4. LabelOf(d, line) = ParseLabel(p, u) /\ LabelOf(e, line) = ParseLabel(q, u)
      BY <1>4 DEF LabelOf, t, u, words
    <2> HIDE DEF p, q
    <2> QED BY <1>2, <2>2, <2>3, <2>4, LabelParsed DEF d, e
  <1>5. CASE ~line.bar /\ ~HasTag(line)
    <2>1. LabelOf(d, line) = ParseLabel(d, words) /\ LabelOf(e, line) = ParseLabel(e, words)
      BY <1>5 DEF LabelOf, words
    <2> QED BY <1>1, <1>2, <2>1, LabelParsed DEF d, e
  <1> QED BY <1>3, <1>4, <1>5

\* A line read into a cleared slot: its example does not depend on what the slot
\* held, and has the features of any more bits, cut to these.
LEMMA LineRead ==
  ASSUME NEW c \in Nat, NEW bits \in Nat, bits <= c, NEW a \in Blank, NEW b \in Blank,
         NEW line \in TextLine
  PROVE  LET r == ReadFeatures(a, line, Pow2[c] - 1)
             s == ReadFeatures(b, line, Pow2[bits] - 1)
         IN  /\ r \in Filled(c) /\ s \in Filled(bits) /\ Alike(r, s, bits)
             /\ s.sorted = b.sorted
  <1> DEFINE p == LabelOf(DefaultLabel(a), line)
             q == LabelOf(DefaultLabel(b), line)
  <1>1. p \in Labelled /\ q \in Labelled /\ SameLabel(p, q) /\ q.sorted = b.sorted
    BY LabelRead
  <1>2. /\ ReadFeatures(a, line, Pow2[c] - 1) = AllChannels(p, line.channels, Pow2[c] - 1)
        /\ ReadFeatures(b, line, Pow2[bits] - 1) = AllChannels(q, line.channels, Pow2[bits] - 1)
    BY DEF ReadFeatures, AllChannels
  <1> HIDE DEF p, q
  <1>3. p \in Filled(c) /\ q \in Filled(bits) /\ Alike(p, q, bits)
    BY <1>1, LabelledFilled
  <1>4. line.channels \in Seq(Channel)
    BY DEF TextLine
  <1> QED BY <1>1, <1>2, <1>3, <1>4, ChannelsAlike

-----------------------------------------------------------------------------
(* What sorting leaves of a line, with more and with fewer bits            *)

\* The two differ in `initial` and the claim to be sorted at most.
Agree(a, b) ==
  /\ a.label = b.label /\ a.weight = b.weight /\ a.tag = b.tag /\ a.indices = b.indices
  /\ a.atomics = b.atomics /\ a.subsets = b.subsets

LEMMA SubsetsEmpty ==
  ASSUME NEW b \in Nat, NEW c \in Nat, NEW x \in Filled(b), NEW y \in Filled(c)
  PROVE  x.subsets = y.subsets
  <1>1. /\ x.subsets = [ns \in Namespaces |-> x.subsets[ns]]
        /\ \A ns \in Namespaces : x.subsets[ns] = <<>>
    BY DEF Filled, Slots
  <1>2. /\ y.subsets = [ns \in Namespaces |-> y.subsets[ns]]
        /\ \A ns \in Namespaces : y.subsets[ns] = <<>>
    BY DEF Filled, Slots
  <1> QED BY <1>1, <1>2

LEMMA AlikeSame ==
  ASSUME NEW bits \in Nat, NEW a \in Filled(bits), NEW b \in Filled(bits), Alike(a, b, bits)
  PROVE  Agree(a, b)
  <1>1. \A ns \in Namespaces : a.atomics[ns] \in Seq(Within(bits))
    BY DEF Filled, Slots
  <1>2. \A ns \in Namespaces : a.atomics[ns] = b.atomics[ns]
    BY <1>1, NarrowedProperties DEF Alike
  <1>3. /\ a.atomics = [ns \in Namespaces |-> a.atomics[ns]]
        /\ b.atomics = [ns \in Namespaces |-> b.atomics[ns]]
    BY DEF Filled, Slots
  <1>4. a.atomics = b.atomics
    BY <1>2, <1>3
  <1> QED BY <1>4, SubsetsEmpty DEF Alike, Agree

LEMMA SortedOnce ==
  ASSUME NEW bits \in Nat, NEW fs \in Seq(Within(bits)), NEW s \in UniqueSorted(fs)
  PROVE  /\ s \in Seq(Within(bits)) /\ Increasing(s) /\ IndicesIn(s) = IndicesIn(fs)
         /\ s \in [1 .. Cardinality(IndicesIn(fs)) -> ToSet(fs)]
         /\ \A i \in 1 .. Len(s) : s[i] \in ToSet(fs)
         /\ s = <<>> <=> fs = <<>>
  <1>1. /\ Increasing(s) /\ IndicesIn(s) = IndicesIn(fs)
        /\ s \in [1 .. Cardinality(IndicesIn(fs)) -> ToSet(fs)]
    BY DEF UniqueSorted
  <1>2. ToSet(fs) \subseteq Within(bits)
    BY DEF ToSet
  <1>3. Cardinality(IndicesIn(fs)) \in Nat
    <2>1. Pow2[bits] \in Nat
      BY Pow2Step
    <2>2. IndicesIn(fs) \subseteq 0 .. Pow2[bits] - 1
      BY <1>2 DEF IndicesIn, Within
    <2>3. 0 \in Int /\ Pow2[bits] - 1 \in Int
      BY <2>1
    <2>4. IsFiniteSet(0 .. Pow2[bits] - 1)
      BY <2>3, FS_Interval
    <2>5. IsFiniteSet(IndicesIn(fs))
      BY <2>2, <2>4, FS_Subset
    <2> QED BY <2>5, FS_CardinalityType
  <1> DEFINE n == Cardinality(IndicesIn(fs))
             W == Within(bits)
  <1> HIDE DEF n, W
  <1>4. s \in [1 .. n -> W] /\ n \in Nat
    BY <1>1, <1>2, <1>3 DEF n, W
  <1>5. s \in Seq(W) /\ Len(s) = n
    BY <1>4
  <1>6. \A i \in 1 .. Len(s) : s[i] \in ToSet(fs)
    BY <1>1, <1>5 DEF n
  <1>7. ASSUME s = <<>> PROVE fs = <<>>
    <2>1. IndicesIn(s) = {}
      BY <1>7 DEF IndicesIn, ToSet
    <2>2. ASSUME fs # <<>> PROVE FALSE
      <3>1. 1 \in DOMAIN fs
        BY <2>2
      <3>2. fs[1].weight_index \in IndicesIn(fs)
        BY <3>1 DEF IndicesIn, ToSet
      <3> QED BY <1>1, <2>1, <3>2
    <2> QED BY <2>2
  <1>8. ASSUME fs = <<>> PROVE s = <<>>
    <2>1. ToSet(fs) = {}
      BY <1>8 DEF ToSet
    <2>2. ~(1 \in 1 .. Len(s))
      BY <1>6, <2>1
    <2> QED BY <1>5, <2>2
  <1> QED BY <1>1, <1>5, <1>6, <1>7, <1>8 DEF W

\* The indices that are left of those of features, and their values.
LEMMA NarrowedIndices ==
  ASSUME NEW c \in Nat, NEW bits \in Nat, NEW fs \in Seq(Within(c))
  PROVE  /\ IndicesIn(Narrowed(fs, bits)) = {w % Pow2[bits] : w \in IndicesIn(fs)}
         /\ ToSet(Narrowed(fs, bits)) = {Narrower(f, bits) : f \in ToSet(fs)}
  <1> DEFINE N == Narrowed(fs, bits)
  <1>1. /\ N \in Seq(Within(bits)) /\ Len(N) = Len(fs)
        /\ \A i \in 1 .. Len(fs) : N[i] = Narrower(fs[i], bits)
    BY NarrowedProperties
  <1> HIDE DEF N
  <1>2. DOMAIN N = DOMAIN fs /\ DOMAIN fs = 1 .. Len(fs)
    BY <1>1
  <1>3. ToSet(N) = {Narrower(f, bits) : f \in ToSet(fs)}
    BY <1>1, <1>2 DEF ToSet
  <1>4. \A f \in ToSet(fs) : Narrower(f, bits).weight_index = f.weight_index % Pow2[bits]
    BY DEF Narrower
  <1>5. IndicesIn(N) = {w % Pow2[bits] : w \in IndicesIn(fs)}
    BY <1>3, <1>4 DEF IndicesIn
  <1> QED BY <1>3, <1>5 DEF N

\* What was sorted, cut to fewer bits and sorted again may have been cut first.
LEMMA SortedAgain ==
  ASSUME NEW c \in Nat, NEW bits \in Nat, NEW fs \in Seq(Within(c)),
         NEW s \in UniqueSorted(fs), NEW t \in UniqueSorted(Narrowed(s, bits))
  PROVE  t \in UniqueSorted(Narrowed(fs, bits))
  <1>1. s \in Seq(Within(c)) /\ IndicesIn(s) = IndicesIn(fs) /\ ToSet(s) \subseteq ToSet(fs)
    <2>1. /\ s \in Seq(Within(c)) /\ IndicesIn(s) = IndicesIn(fs)
          /\ \A i \in 1 .. Len(s) : s[i] \in ToSet(fs)
      BY SortedOnce
    <2> QED BY <2>1 DEF ToSet
  <1>2. IndicesIn(Narrowed(s, bits)) = IndicesIn(Narrowed(fs, bits))
    BY <1>1, NarrowedIndices
  <1>3. ToSet(Narrowed(s, bits)) \subseteq ToSet(Narrowed(fs, bits))
    <2>1. ToSet(Narrowed(s, bits)) = {Narrower(f, bits) : f \in ToSet(s)}
      BY <1>1, NarrowedIndices
    <2>2. ToSet(Narrowed(fs, bits)) = {Narrower(f, bits) : f \in ToSet(fs)}
      BY NarrowedIndices
    <2> QED BY <1>1, <2>1, <2>2
  <1> DEFINE M == Narrowed(s, bits)
             N == Narrowed(fs, bits)
  <1>4. /\ t \in [1 .. Cardinality(IndicesIn(M)) -> ToSet(M)]
        /\ Increasing(t) /\ IndicesIn(t) = IndicesIn(M)
    BY DEF UniqueSorted
  <1>5. IndicesIn(M) = IndicesIn(N) /\ ToSet(M) \subseteq ToSet(N)
    BY <1>2, <1>3
  <1> HIDE DEF M, N
  <1>6. t \in UniqueSorted(N)
    BY <1>4, <1>5 DEF UniqueSorted
  <1> QED BY <1>6 DEF N

\* The slot with its features in order.
InTheirOrder(a, atomics) ==
  [label |-> a.label, weight |-> a.weight, initial |-> a.initial, tag |-> a.tag,
   indices |-> a.indices, atomics |-> atomics, subsets |-> a.subsets, sorted |-> TRUE]
Orders(a, f) == \A ns \in Namespaces : f[ns] \in UniqueSorted(a.atomics[ns])

LEMMA SlotsSorted ==
  ASSUME NEW bits \in Nat, NEW a \in Filled(bits)
  PROVE  /\ \A e \in UniqueSortFeatures(a) :
              \E f \in [Namespaces -> Seq(Within(bits))] : Orders(a, f) /\ e = InTheirOrder(a, f)
         /\ \A f \in [Namespaces -> Seq(Within(bits))] :
              Orders(a, f) => InTheirOrder(a, f) \in UniqueSortFeatures(a)
  <1> DEFINE A == a.atomics
             U == UNION {UniqueSorted(A[ns]) : ns \in Namespaces}
             S == Seq(Within(bits))
             O == {f \in [Namespaces -> U] : \A ns \in Namespaces : f[ns] \in UniqueSorted(A[ns])}
  <1>1. A \in [Namespaces -> S] /\ a \in Slots(bits)
    BY DEF Filled, Slots
  <1>2. DOMAIN A = Namespaces
    BY <1>1
  <1>3. UniqueSortFeatures(a) = {[a EXCEPT !.sorted = TRUE, !.atomics = f] : f \in O}
    BY <1>2 DEF UniqueSortFeatures
  <1>4. ASSUME NEW f \in O PROVE f \in [Namespaces -> S] /\ Orders(a, f)
    <2>1. f \in [Namespaces -> U] /\ \A ns \in Namespaces : f[ns] \in UniqueSorted(A[ns])
      OBVIOUS
    <2>2. ASSUME NEW ns \in Namespaces PROVE f[ns] \in S
      <3>1. A[ns] \in Seq(Within(bits)) /\ f[ns] \in UniqueSorted(A[ns])
        BY <1>1, <2>1
      <3> QED BY <3>1, SortedOnce
    <2>3. f = [ns \in Namespaces |-> f[ns]]
      BY <2>1
    <2> QED BY <2>1, <2>2, <2>3 DEF Orders
  <1>5. ASSUME NEW f \in [Namespaces -> S], Orders(a, f) PROVE f \in O
    BY <1>5 DEF Orders
  <1> HIDE DEF A, U, S, O
  <1>6. ASSUME NEW f PROVE [a EXCEPT !.sorted = TRUE, !.atomics = f] = InTheirOrder(a, f)
    <2> DEFINE e == [a EXCEPT !.sorted = TRUE, !.atomics = f]
    <2>1. e = [a EXCEPT !.sorted = TRUE, !.atomics = f]
      OBVIOUS
    <2> HIDE DEF e
    <2>2. a = [label |-> a.label, weight |-> a.weight, initial |-> a.initial, tag |-> a.tag,
               indices |-> a.indices, atomics |-> a.atomics, subsets |-> a.subsets,
               sorted |-> a.sorted]
      BY <1>1 DEF Slots
    <2>3. e = InTheirOrder(a, f)
      BY <2>1, <2>2 DEF InTheirOrder
    <2> QED BY <2>3 DEF e
  <1>7. UniqueSortFeatures(a) = {InTheirOrder(a, f) : f \in O}
    BY <1>3, <1>6
  <1> QED BY <1>4, <1>5, <1>7 DEF S

LEMMA SortedFilled ==
  ASSUME NEW bits \in Nat, NEW a \in Filled(bits), NEW e \in UniqueSortFeatures(a)
  PROVE  /\ e \in Filled(bits) /\ \A ns \in Namespaces : Increasing(e.atomics[ns])
         /\ e.sorted = TRUE
  <1>1. PICK f \in [Namespaces -> Seq(Within(bits))] : Orders(a, f) /\ e = InTheirOrder(a, f)
    BY SlotsSorted
  <1>2. \A ns \in Namespaces : /\ Increasing(f[ns])
                               /\ f[ns] = <<>> <=> a.atomics[ns] = <<>>
    <2> SUFFICES ASSUME NEW ns \in Namespaces
                 PROVE  Increasing(f[ns]) /\ (f[ns] = <<>> <=> a.atomics[ns] = <<>>)
      OBVIOUS
    <2>1. a.atomics[ns] \in Seq(Within(bits)) /\ f[ns] \in UniqueSorted(a.atomics[ns])
      BY <1>1 DEF Filled, Slots, Orders
    <2> QED BY <2>1, SortedOnce
  <1>3. ConstantNamespace \in Namespaces
    BY LineAssumption
  <1>4. /\ e.atomics = f /\ e.indices = a.indices /\ e.sorted = TRUE
    BY <1>1 DEF InTheirOrder
  <1>5. e \in Slots(bits)
    <2>1. a \in Slots(bits)
      BY DEF Filled
    <2> QED BY <1>1, <2>1 DEF Slots, InTheirOrder
  <1>6. e \in Filled(bits)
    BY <1>2, <1>3, <1>4, <1>5 DEF Filled
  <1> QED BY <1>2, <1>4, <1>6

LEMMA LineTyped ==
  ASSUME NEW l \in DOMAIN Line
  PROVE  Line[l] \in TextLine
  <1>1. \A k \in DOMAIN Line : Line[k] \in [bar : BOOLEAN, words : Seq(Int),
                                            touching : BOOLEAN, channels : Seq(Channel)]
    BY LineAssumption
  <1> QED BY <1>1 DEF TextLine

LEMMA EmptyBlank == EmptySlot \in Blank /\ EmptySlot.sorted = FALSE
  <1>1. FltMax \in Int
    BY LineAssumption
  <1>2. <<>> \in Seq(Int)
    OBVIOUS
  <1>3. EmptySlot \in Labelled
    BY <1>1, <1>2 DEF EmptySlot, Labelled
  <1> QED BY <1>3 DEF EmptySlot, Blank

\* A line of the text as an empty slot holds it, with more and with fewer bits.
LEMMA LineWithBits ==
  ASSUME NEW l \in DOMAIN Line, NEW c \in Nat, NEW bits \in Nat, bits <= c
  PROVE  LET r == ReadFeatures(EmptySlot, Line[l], Pow2[c] - 1)
             s == ReadFeatures(EmptySlot, Line[l], Pow2[bits] - 1)
         IN  r \in Filled(c) /\ s \in Filled(bits) /\ Alike(r, s, bits)
  BY LineTyped, EmptyBlank, LineRead

\* What may come of a line: with sorted features or as they are.
LEMMA FromTextCases ==
  ASSUME NEW l, NEW bits, NEW sort \in BOOLEAN, NEW e
  PROVE  LET r == ReadFeatures(EmptySlot, Line[l], Pow2[bits] - 1)
         IN  e \in FromText(l, bits, sort) <=>
               \/ sort /\ e \in UniqueSortFeatures(r)
               \/ ~sort /\ e = r
  BY DEF FromText

LEMMA FromTextFilled ==
  ASSUME NEW l \in DOMAIN Line, NEW bits \in Nat, NEW sort \in BOOLEAN,
         NEW e \in FromText(l, bits, sort)
  PROVE  /\ e \in Filled(bits)
         /\ sort => \A ns \in Namespaces : Increasing(e.atomics[ns])
  <1> DEFINE r == ReadFeatures(EmptySlot, Line[l], Pow2[bits] - 1)
  <1>1. r \in Filled(bits)
    BY LineWithBits
  <1>2. (sort /\ e \in UniqueSortFeatures(r)) \/ (~sort /\ e = r)
    BY FromTextCases
  <1> HIDE DEF r
  <1>3. CASE sort /\ e \in UniqueSortFeatures(r)
    BY <1>1, <1>3, SortedFilled
  <1>4. CASE ~sort /\ e = r
    BY <1>1, <1>4
  <1> QED BY <1>2, <1>3, <1>4

\* Slots that agree are sorted alike.
LEMMA SortedAlike ==
  ASSUME NEW bits \in Nat, NEW a \in Filled(bits), NEW b \in Filled(bits), Agree(a, b),
         NEW e \in UniqueSortFeatures(b)
  PROVE  \E f \in UniqueSortFeatures(a) : Agree(f, e)
  <1>1. PICK h \in [Namespaces -> Seq(Within(bits))] : Orders(b, h) /\ e = InTheirOrder(b, h)
    BY SlotsSorted
  <1>2. Orders(a, h)
    BY <1>1 DEF Orders, Agree
  <1>3. InTheirOrder(a, h) \in UniqueSortFeatures(a)
    BY <1>2, SlotsSorted
  <1>4. Agree(InTheirOrder(a, h), e)
    BY <1>1 DEF Agree, InTheirOrder
  <1> QED BY <1>3, <1>4

\* A slot into which a line was read, or that a cache of the line filled, delivers
\* what is expected of the line.
Delivers(l, bits, sort, a) ==
  \A e \in IF sort /\ ~a.sorted THEN UniqueSortFeatures(a) ELSE {a} :
    e \in Filled(bits) /\ \E f \in FromText(l, bits, sort) : Agree(f, e)

LEMMA TextDelivers ==
  ASSUME NEW l \in DOMAIN Line, NEW bits \in Nat, NEW sort \in BOOLEAN,
         NEW x \in Blank, ~x.sorted
  PROVE  /\ ReadFeatures(x, Line[l], Pow2[bits] - 1) \in Filled(bits)
         /\ ~ReadFeatures(x, Line[l], Pow2[bits] - 1).sorted
         /\ Delivers(l, bits, sort, ReadFeatures(x, Line[l], Pow2[bits] - 1))
  <1> DEFINE r == ReadFeatures(EmptySlot, Line[l], Pow2[bits] - 1)
             a == ReadFeatures(x, Line[l], Pow2[bits] - 1)
  <1>1. r \in Filled(bits) /\ a \in Filled(bits) /\ Alike(r, a, bits) /\ a.sorted = x.sorted
    <2>1. bits <= bits
      OBVIOUS
    <2> QED BY <2>1, LineTyped, EmptyBlank, LineRead
  <1>2. \A f : f \in FromText(l, bits, sort) <=>
               \/ sort /\ f \in UniqueSortFeatures(r)
               \/ ~sort /\ f = r
    BY FromTextCases
  <1> HIDE DEF r, a
  <1>3. Agree(r, a) /\ ~a.sorted
    BY <1>1, AlikeSame
  <1>4. ASSUME NEW e \in IF sort /\ ~a.sorted THEN UniqueSortFeatures(a) ELSE {a}
        PROVE  e \in Filled(bits) /\ \E f \in FromText(l, bits, sort) : Agree(f, e)
    <2>1. CASE sort
      <3>1. e \in UniqueSortFeatures(a)
        BY <1>3, <2>1
      <3>2. PICK f \in UniqueSortFeatures(r) : Agree(f, e)
        BY <1>1, <1>3, <3>1, SortedAlike
      <3>3. f \in FromText(l, bits, sort)
        BY <1>2, <2>1, <3>2
      <3>4. e \in Filled(bits)
        BY <1>1, <3>1, SortedFilled
      <3> QED BY <3>2, <3>3, <3>4
    <2>2. CASE ~sort
      <3>1. e = a /\ r \in FromText(l, bits, sort)
        BY <1>2, <2>2
      <3> QED BY <1>1, <1>3, <3>1
    <2> QED BY <2>1, <2>2
  <1>5. Delivers(l, bits, sort, a)
    BY <1>4 DEF Delivers
  <1> QED BY <1>1, <1>3, <1>5 DEF a

LEMMA CacheDelivers ==
  ASSUME NEW l \in DOMAIN Line, NEW c \in Nat, NEW bits \in Nat, bits <= c,
         NEW sort \in BOOLEAN, NEW E \in FromText(l, c, sort),
         NEW a \in Filled(bits), Alike(E, a, bits), a.sorted => c = bits
  PROVE  Delivers(l, bits, sort, a)
  <1> DEFINE r == ReadFeatures(EmptySlot, Line[l], Pow2[c] - 1)
             s == ReadFeatures(EmptySlot, Line[l], Pow2[bits] - 1)
  <1>1. r \in Filled(c) /\ s \in Filled(bits) /\ Alike(r, s, bits)
    BY LineWithBits
  <1>2. \A f : f \in FromText(l, bits, sort) <=>
               \/ sort /\ f \in UniqueSortFeatures(s)
               \/ ~sort /\ f = s
    BY FromTextCases
  <1>3. (sort /\ E \in UniqueSortFeatures(r)) \/ (~sort /\ E = r)
    BY FromTextCases
  <1>4. E \in Filled(c)
    BY FromTextFilled
  <1> HIDE DEF r, s
  <1> SUFFICES ASSUME NEW e \in IF sort /\ ~a.sorted THEN UniqueSortFeatures(a) ELSE {a}
               PROVE  e \in Filled(bits) /\ \E f \in FromText(l, bits, sort) : Agree(f, e)
    BY DEF Delivers
  <1>5. CASE ~sort
    <2>1. E = r /\ e = a /\ s \in FromText(l, bits, sort)
      BY <1>2, <1>3, <1>5
    <2>2. a.subsets = s.subsets
      BY <1>1, SubsetsEmpty
    <2>3. a.atomics = s.atomics
      <3>1. /\ a.atomics \in [Namespaces -> Seq(Within(bits))]
            /\ s.atomics \in [Namespaces -> Seq(Within(bits))]
        BY <1>1 DEF Filled, Slots
      <3>2. \A ns \in Namespaces : a.atomics[ns] = s.atomics[ns]
        BY <1>1, <2>1 DEF Alike
      <3> QED BY <3>1, <3>2
    <2>4. Agree(s, e)
      BY <1>1, <2>1, <2>2, <2>3 DEF Agree, Alike
    <2> QED BY <2>1, <2>4
  <1>6. CASE sort /\ a.sorted
    <2>1. c = bits /\ e = a
      BY <1>6
    <2>2. Agree(E, a)
      BY <1>4, <2>1, AlikeSame
    <2>3. E \in FromText(l, bits, sort)
      BY <2>1
    <2> QED BY <2>1, <2>2, <2>3
  <1>7. CASE sort /\ ~a.sorted
    <2>1. e \in UniqueSortFeatures(a) /\ E \in UniqueSortFeatures(r)
      BY <1>3, <1>7
    <2>2. PICK g \in [Namespaces -> Seq(Within(c))] : Orders(r, g) /\ E = InTheirOrder(r, g)
      BY <1>1, <2>1, SlotsSorted
    <2>3. PICK h \in [Namespaces -> Seq(Within(bits))] : Orders(a, h) /\ e = InTheirOrder(a, h)
      BY <2>1, SlotsSorted
    <2>4. ASSUME NEW ns \in Namespaces PROVE h[ns] \in UniqueSorted(s.atomics[ns])
      <3>1. g[ns] \in UniqueSorted(r.atomics[ns]) /\ E.atomics[ns] = g[ns]
        BY <2>2 DEF Orders, InTheirOrder
      <3>2. a.atomics[ns] = Narrowed(g[ns], bits)
        BY <3>1 DEF Alike
      <3>3. h[ns] \in UniqueSorted(Narrowed(g[ns], bits))
        BY <2>3, <3>2 DEF Orders
      <3>4. r.atomics[ns] \in Seq(Within(c))
        BY <1>1 DEF Filled, Slots
      <3>5. h[ns] \in UniqueSorted(Narrowed(r.atomics[ns], bits))
        BY <3>1, <3>3, <3>4, SortedAgain
      <3>6. s.atomics[ns] = Narrowed(r.atomics[ns], bits)
        BY <1>1 DEF Alike
      <3> QED BY <3>5, <3>6
    <2>5. Orders(s, h)
      BY <2>4 DEF Orders
    <2> DEFINE f == InTheirOrder(s, h)
    <2>6. f \in FromText(l, bits, sort)
      <3>1. f \in UniqueSortFeatures(s)
        BY <1>1, <2>5, SlotsSorted
      <3> QED BY <1>2, <1>7, <3>1
    <2>7. Agree(f, e)
      <3>1. a.subsets = s.subsets
        BY <1>1, SubsetsEmpty
      <3>2. E.label = r.label /\ E.weight = r.weight /\ E.tag = r.tag /\ E.indices = r.indices
        BY <2>2 DEF InTheirOrder
      <3>3. s.label = a.label /\ s.weight = a.weight /\ s.tag = a.tag /\ s.indices = a.indices
        BY <1>1, <3>2 DEF Alike
      <3> QED BY <2>3, <3>1, <3>3 DEF Agree, InTheirOrder
    <2>8. e \in Filled(bits)
      BY <2>1, SortedFilled
    <2> QED BY <2>6, <2>7, <2>8
  <1> QED BY <1>5, <1>6, <1>7

-----------------------------------------------------------------------------
(* generateGrams and setup_example, for slots that agree                   *)

LEMMA AppendToSet ==
  ASSUME NEW N, NEW s \in Seq(N), NEW x \in N
  PROVE  ToSet(Append(s, x)) = ToSet(s) \cup {x}
  <1>1. /\ Len(s) \in Nat /\ DOMAIN s = 1 .. Len(s) /\ DOMAIN Append(s, x) = 1 .. Len(s) + 1
        /\ Append(s, x)[Len(s) + 1] = x /\ \A i \in 1 .. Len(s) : Append(s, x)[i] = s[i]
    OBVIOUS
  <1>2. 1 .. Len(s) + 1 = (1 .. Len(s)) \cup {Len(s) + 1}
    BY <1>1
  <1> QED BY <1>1, <1>2 DEF ToSet

\* setup_example's list of what is left.
LEMMA NamespacesLeft ==
  ASSUME NEW N, NEW s \in Seq(N), NEW ignore
  PROVE  /\ NotIgnored(s, ignore) \in Seq(N)
         /\ ToSet(NotIgnored(s, ignore)) = ToSet(s) \ ignore
  <1> DEFINE base == <<>>
  <1> DEFINE n == Len(s)
             V == Seq(N)
             More(x, y) == IF y \in ignore THEN x ELSE Append(x, y)
             G == [p \in (1 .. n) \X V |-> More(p[2], s[p[1]])]
             Is(f) == f = [T \in SUBSET DOMAIN s |->
                             IF T = {} THEN base ELSE More(f[T \ {Max(T)}], s[Max(T)])]
             F == CHOOSE f : Is(f)
  <1>1. n \in Nat /\ DOMAIN s = 1 .. n /\ \A i \in 1 .. n : s[i] \in N
    OBVIOUS
  <1>2. NotIgnored(s, ignore) = F[1 .. n]
    BY <1>1 DEF NotIgnored, FoldLeft, MapThenFoldSet
  <1>3. \A i \in 1 .. n, x \in V : More(x, s[i]) \in V
    <2> SUFFICES ASSUME NEW i \in 1 .. n, NEW x \in Seq(N) PROVE More(x, s[i]) \in Seq(N)
      OBVIOUS
    <2>1. s[i] \in N
      BY <1>1
    <2>2. Append(x, s[i]) \in Seq(N)
      BY <2>1, AppendProperties
    <2> QED BY <2>2
  <1>4. base \in V
    OBVIOUS
  <1> HIDE DEF n, V, More
  <1>5. /\ G \in [(1 .. n) \X V -> V]
        /\ \A i \in 1 .. n, x \in V : G[<<i, x>>] = More(x, s[i])
    BY <1>3
  <1> HIDE DEF G
  <1>6. PICK f \in [SUBSET (1 .. n) -> V] : SetBySet(f, n, base, G)
    BY <1>1, <1>4, <1>5, SetRecursion
  <1>7. ASSUME NEW T \in SUBSET (1 .. n)
        PROVE  f[T] = IF T = {} THEN base ELSE More(f[T \ {Max(T)}], s[Max(T)])
    <2>1. CASE T = {}
      BY <1>6, <2>1 DEF SetBySet
    <2>2. CASE T # {}
      <3>1. Max(T) \in 1 .. n
        BY <1>1, <2>2, Largest
      <3>2. f[T \ {Max(T)}] \in V
        OBVIOUS
      <3>3. f[T] = G[<<Max(T), f[T \ {Max(T)}]>>]
        BY <1>6, <2>2 DEF SetBySet
      <3> QED BY <1>5, <2>2, <3>1, <3>2, <3>3
    <2> QED BY <2>1, <2>2
  <1>8. Is(f)
    BY <1>1, <1>7
  <1>9. Is(F)
    <2> HIDE DEF Is
    <2> QED BY <1>8
  <1> HIDE DEF F
  <1>10. \A T \in SUBSET (1 .. n) :
           F[T] = IF T = {} THEN base ELSE More(F[T \ {Max(T)}], s[Max(T)])
    BY <1>1, <1>9
  <1>11. Follows(F, n, base, G, V)
    <2>1. F[{}] = base
      BY <1>10
    <2>2. ASSUME NEW T \in SUBSET (1 .. n), T # {}, F[T \ {Max(T)}] \in V
          PROVE  F[T] = G[<<Max(T), F[T \ {Max(T)}]>>]
      <3>1. Max(T) \in 1 .. n
        BY <1>1, <2>2, Largest
      <3> QED BY <1>5, <1>10, <2>2, <3>1
    <2> QED BY <2>1, <2>2 DEF Follows
  <1>12. PICK h \in [0 .. n -> V] : InTurn(h, F, n, base, G)
    BY <1>1, <1>4, <1>5, <1>11, PlacesInTurn
  <1>13. /\ h[0] = base /\ h[n] = F[1 .. n]
         /\ \A k \in 1 .. n : h[k] = More(h[k - 1], s[k])
    <2> SUFFICES ASSUME NEW k \in 1 .. n PROVE h[k] = More(h[k - 1], s[k])
      BY <1>12 DEF InTurn
    <2>1. k - 1 \in 0 .. n
      BY <1>1
    <2>2. h[k] = G[<<k, h[k - 1]>>]
      BY <1>12 DEF InTurn
    <2> QED BY <1>5, <2>1, <2>2
  <1> DEFINE Upto(k) == {s[j] : j \in 1 .. k}
             S == {k \in Nat : k <= n => ToSet(h[k]) = Upto(k) \ ignore}
  <1>14. 0 \in S
    <2>1. h[0] = <<>> /\ ToSet(<<>>) = {} /\ Upto(0) = {}
      BY <1>13 DEF ToSet
    <2> QED BY <2>1
  <1>15. ASSUME NEW k \in Nat, k \in S PROVE k + 1 \in S
    <2> SUFFICES ASSUME k + 1 <= n PROVE ToSet(h[k + 1]) = Upto(k + 1) \ ignore
      OBVIOUS
    <2>1. k + 1 \in 1 .. n /\ (k + 1) - 1 = k /\ k \in 0 .. n
      BY <1>1
    <2>2. h[k + 1] = More(h[k], s[k + 1]) /\ s[k + 1] \in N /\ h[k] \in Seq(N)
      BY <1>1, <1>13, <2>1 DEF V
    <2>3. ToSet(h[k]) = Upto(k) \ ignore
      BY <1>15, <2>1
    <2>4. Upto(k + 1) = Upto(k) \cup {s[k + 1]}
      <3>1. 1 .. k + 1 = (1 .. k) \cup {k + 1}
        OBVIOUS
      <3> QED BY <3>1
    <2> HIDE DEF Upto
    <2>5. CASE s[k + 1] \in ignore
      <3>1. h[k + 1] = h[k]
        BY <2>2, <2>5 DEF More
      <3> QED BY <2>3, <2>4, <2>5, <3>1
    <2>6. CASE s[k + 1] \notin ignore
      <3>1. h[k + 1] = Append(h[k], s[k + 1])
        BY <2>2, <2>6 DEF More
      <3>2. ToSet(h[k + 1]) = ToSet(h[k]) \cup {s[k + 1]}
        BY <2>2, <3>1, AppendToSet
      <3> QED BY <2>3, <2>4, <2>6, <3>2
    <2> QED BY <2>5, <2>6
  <1>16. n \in S
    <2> HIDE DEF S
    <2> QED BY <1>1, <1>14, <1>15, SetInduction
  <1>17. Upto(n) = ToSet(s)
    BY <1>1 DEF ToSet
  <1> QED BY <1>1, <1>2, <1>13, <1>16, <1>17, SMTT(40) DEF V

\* A slot with other features in it.
With(a, indices, atomics, subsets) ==
  [label |-> a.label, weight |-> a.weight, initial |-> a.initial, tag |-> a.tag,
   indices |-> indices, atomics |-> atomics, subsets |-> subsets, sorted |-> a.sorted]
Kin(r, a) == r = With(a, r.indices, r.atomics, r.subsets)

LEMMA Changed ==
  ASSUME NEW a, Kin(a, a)
  PROVE  /\ \A x : [a EXCEPT !.atomics = x] = With(a, a.indices, x, a.subsets)
         /\ \A x : [a EXCEPT !.subsets = x] = With(a, a.indices, a.atomics, x)
         /\ \A x, y : [a EXCEPT !.atomics = x, !.indices = y] = With(a, y, x, a.subsets)
  <1>1. a = [label |-> a.label, weight |-> a.weight, initial |-> a.initial, tag |-> a.tag,
             indices |-> a.indices, atomics |-> a.atomics, subsets |-> a.subsets,
             sorted |-> a.sorted]
    BY DEF Kin, With
  <1>2. ASSUME NEW x PROVE [a EXCEPT !.atomics = x] = With(a, a.indices, x, a.subsets)
    <2> DEFINE e == [a EXCEPT !.atomics = x]
    <2>1. e = [a EXCEPT !.atomics = x]
      OBVIOUS
    <2> HIDE DEF e
    <2>2. e = With(a, a.indices, x, a.subsets)
      BY <1>1, <2>1 DEF With
    <2> QED BY <2>1, <2>2
  <1>3. ASSUME NEW x PROVE [a EXCEPT !.subsets = x] = With(a, a.indices, a.atomics, x)
    <2> DEFINE e == [a EXCEPT !.subsets = x]
    <2>1. e = [a EXCEPT !.subsets = x]
      OBVIOUS
    <2> HIDE DEF e
    <2>2. e = With(a, a.indices, a.atomics, x)
      BY <1>1, <2>1 DEF With
    <2> QED BY <2>1, <2>2
  <1>4. ASSUME NEW x, NEW y
        PROVE  [a EXCEPT !.atomics = x, !.indices = y] = With(a, y, x, a.subsets)
    <2> DEFINE e == [a EXCEPT !.atomics = x, !.indices = y]
    <2>1. e = [a EXCEPT !.atomics = x, !.indices = y]
      OBVIOUS
    <2> HIDE DEF e
    <2>2. e = With(a, y, x, a.subsets)
      BY <1>1, <2>1 DEF With
    <2> QED BY <2>1, <2>2
  <1> QED BY <1>2, <1>3, <1>4

\* What each of the parts of setup_example, and generateGrams, makes of the features.
GramList(fs, ngram, skips, mask) ==
  FlattenSeq([m \in DOMAIN MasksFor(ngram, skips) |->
                GramsOf(fs, MasksFor(ngram, skips)[m], mask)])
GramAtomics(a, ngram, skips, mask) ==
  [ns \in DOMAIN a.atomics |->
     IF ns \in ToSet(a.indices)
       THEN a.atomics[ns] \o GramList(a.atomics[ns], ngram, skips, mask) ELSE a.atomics[ns]]
LeftAtomics(a, ignore) ==
  [ns \in DOMAIN a.atomics |->
     IF ns \in ignore /\ ns \in ToSet(a.indices) THEN <<>> ELSE a.atomics[ns]]
ConstantAtomics(a, mask) ==
  [a.atomics EXCEPT ![ConstantNamespace] =
                       Append(@, [x |-> 1, weight_index |-> Constant % (mask + 1)])]
Spread(fs, stride) == [i \in DOMAIN fs |-> [fs[i] EXCEPT !.weight_index = @ * stride]]
SpreadAtomics(a, stride) ==
  [ns \in DOMAIN a.atomics |->
     IF ns \in ToSet(a.indices) THEN Spread(a.atomics[ns], stride) ELSE a.atomics[ns]]

LEMMA GramsMade ==
  ASSUME NEW a, Kin(a, a), NEW ngram, NEW skips, NEW mask
  PROVE  GenerateGrams(a, ngram, skips, mask) =
           With(a, a.indices, GramAtomics(a, ngram, skips, mask), a.subsets)
  <1>1. GenerateGrams(a, ngram, skips, mask) =
          [a EXCEPT !.atomics = [ns \in DOMAIN a.atomics |->
             IF ns \in ToSet(a.indices)
               THEN [m \in ToSet(a.indices) |->
                       a.atomics[m] \o GramList(a.atomics[m], ngram, skips, mask)][ns]
               ELSE a.atomics[ns]]]
    BY Zenon DEF GenerateGrams, WithAtomics, GramList
  <1>2. [ns \in DOMAIN a.atomics |->
             IF ns \in ToSet(a.indices)
               THEN [m \in ToSet(a.indices) |->
                       a.atomics[m] \o GramList(a.atomics[m], ngram, skips, mask)][ns]
               ELSE a.atomics[ns]] = GramAtomics(a, ngram, skips, mask)
    BY DEF GramAtomics
  <1> HIDE DEF GramAtomics
  <1> QED BY <1>1, <1>2, Changed

LEMMA LeftMade ==
  ASSUME NEW a, Kin(a, a), NEW ignore
  PROVE  DropIgnored(a, ignore) =
           With(a, NotIgnored(a.indices, ignore), LeftAtomics(a, ignore), a.subsets)
  <1>1. DropIgnored(a, ignore) =
          [a EXCEPT !.atomics = LeftAtomics(a, ignore),
                    !.indices = NotIgnored(a.indices, ignore)]
    BY DEF DropIgnored, LeftAtomics
  <1> DEFINE rest == LeftAtomics(a, ignore)
             ids == NotIgnored(a.indices, ignore)
  <1> HIDE DEF rest, ids
  <1>2. [a EXCEPT !.atomics = rest, !.indices = ids] = With(a, ids, rest, a.subsets)
    <2>1. \A x, y : [a EXCEPT !.atomics = x, !.indices = y] = With(a, y, x, a.subsets)
      BY Changed, Zenon
    <2> QED BY <2>1, ZenonT(40)
  <1> QED BY <1>1, <1>2 DEF rest, ids

LEMMA ConstantMade ==
  ASSUME NEW a, Kin(a, a), NEW mask
  PROVE  AddConstant(a, mask) =
           With(a, Append(a.indices, ConstantNamespace), ConstantAtomics(a, mask), a.subsets)
  <1> DEFINE x == ConstantAtomics(a, mask)
             y == Append(a.indices, ConstantNamespace)
             e == AddConstant(a, mask)
  <1>1. e = [a EXCEPT !.indices = y, !.atomics = x]
    BY DEF AddConstant, ConstantAtomics
  <1>2. a = [label |-> a.label, weight |-> a.weight, initial |-> a.initial, tag |-> a.tag,
             indices |-> a.indices, atomics |-> a.atomics, subsets |-> a.subsets,
             sorted |-> a.sorted]
    BY DEF Kin, With
  <1> HIDE DEF e, x, y
  <1>3. e = With(a, y, x, a.subsets)
    BY <1>1, <1>2 DEF With
  <1> QED BY <1>3 DEF e, x, y

LEMMA StrideMade ==
  ASSUME NEW a, Kin(a, a), NEW stride
  PROVE  Strided(a, stride) = With(a, a.indices, SpreadAtomics(a, stride), a.subsets)
  <1>1. Strided(a, stride) =
          [a EXCEPT !.atomics = [ns \in DOMAIN a.atomics |->
             IF ns \in ToSet(a.indices)
               THEN [m \in ToSet(a.indices) |-> Spread(a.atomics[m], stride)][ns]
               ELSE a.atomics[ns]]]
    BY DEF Strided, WithAtomics, Spread
  <1>2. [ns \in DOMAIN a.atomics |->
             IF ns \in ToSet(a.indices)
               THEN [m \in ToSet(a.indices) |-> Spread(a.atomics[m], stride)][ns]
               ELSE a.atomics[ns]] = SpreadAtomics(a, stride)
    BY DEF SpreadAtomics
  <1> HIDE DEF SpreadAtomics
  <1> QED BY <1>1, <1>2, Changed

LEMMA WithFields ==
  ASSUME NEW a, NEW i, NEW f, NEW s
  PROVE  /\ Kin(With(a, i, f, s), a) /\ Kin(With(a, i, f, s), With(a, i, f, s))
         /\ With(a, i, f, s).indices = i /\ With(a, i, f, s).atomics = f
         /\ With(a, i, f, s).subsets = s
         /\ \A b : a.label = b.label /\ a.weight = b.weight /\ a.tag = b.tag =>
              Agree(With(a, i, f, s), With(b, i, f, s))
  BY DEF Kin, With, Agree

LEMMA KinSelf ==
  ASSUME NEW a, NEW r, Kin(r, a)
  PROVE  Kin(r, r)
  <1>1. /\ r.label = a.label /\ r.weight = a.weight /\ r.initial = a.initial /\ r.tag = a.tag
        /\ r.sorted = a.sorted
    BY DEF Kin, With
  <1>2. With(r, r.indices, r.atomics, r.subsets) = With(a, r.indices, r.atomics, r.subsets)
    BY <1>1 DEF With
  <1> QED BY <1>2 DEF Kin

LEMMA KinOfKin ==
  ASSUME NEW a, NEW r, NEW q, Kin(r, a), Kin(q, r)
  PROVE  Kin(q, a)
  <1>1. /\ r.label = a.label /\ r.weight = a.weight /\ r.initial = a.initial /\ r.tag = a.tag
        /\ r.sorted = a.sorted
    BY DEF Kin, With
  <1>2. With(r, q.indices, q.atomics, q.subsets) = With(a, q.indices, q.atomics, q.subsets)
    BY <1>1 DEF With
  <1> QED BY <1>2 DEF Kin

\* generateGrams and setup_example, and the steps of the latter.
Grammed(e, o, mask) ==
  IF o.ngram > 1 THEN GenerateGrams(e, o.ngram, o.skips, mask) ELSE e
Whole(e, o, mask) ==
  IF o.add_constant THEN AddConstant(DropIgnored(e, o.ignore), mask)
                    ELSE DropIgnored(e, o.ignore)
Widened(e, o, mask) ==
  IF o.stride = 1 THEN Whole(e, o, mask) ELSE Strided(Whole(e, o, mask), o.stride)
Cuts(fs, o, mask) == Cut(fs, mask + 1, o.stride, o.partition_bits)
Subsets(e, x, o, mask) ==
  [ns \in DOMAIN e.atomics |->
     IF ns \in ToSet(x.indices) THEN Cuts(x.atomics[ns], o, mask) ELSE e.subsets[ns]]
Made(e, o, mask) == SetupExample(Grammed(e, o, mask), o, mask)

\* A step that depends on nothing but what slots that agree have in common.
LEMMA GrammedAgree ==
  ASSUME NEW a, NEW b, Kin(a, a), Kin(b, b), Agree(a, b), NEW o, NEW mask
  PROVE  /\ Kin(Grammed(a, o, mask), a) /\ Kin(Grammed(b, o, mask), b)
         /\ Agree(Grammed(a, o, mask), Grammed(b, o, mask))
  <1>1. CASE o.ngram > 1
    <2>1. GramAtomics(a, o.ngram, o.skips, mask) = GramAtomics(b, o.ngram, o.skips, mask)
      BY DEF GramAtomics, Agree
    <2>2. /\ Grammed(a, o, mask) =
               With(a, a.indices, GramAtomics(a, o.ngram, o.skips, mask), a.subsets)
          /\ Grammed(b, o, mask) =
               With(b, b.indices, GramAtomics(b, o.ngram, o.skips, mask), b.subsets)
      BY <1>1, GramsMade DEF Grammed
    <2> QED BY <2>1, <2>2, WithFields DEF Agree
  <1>2. CASE ~(o.ngram > 1)
    BY <1>2 DEF Grammed
  <1> QED BY <1>1, <1>2

LEMMA WholeAgree ==
  ASSUME NEW a, NEW b, Kin(a, a), Kin(b, b), Agree(a, b), NEW o, NEW mask
  PROVE  /\ Kin(Whole(a, o, mask), a) /\ Kin(Whole(b, o, mask), b)
         /\ Agree(Whole(a, o, mask), Whole(b, o, mask))
  <1> DEFINE r == DropIgnored(a, o.ignore)
             q == DropIgnored(b, o.ignore)
  <1>1. Kin(r, a) /\ Kin(q, b) /\ Kin(r, r) /\ Kin(q, q) /\ Agree(r, q)
    <2>1. LeftAtomics(a, o.ignore) = LeftAtomics(b, o.ignore)
      BY DEF LeftAtomics, Agree
    <2>2. /\ r = With(a, NotIgnored(a.indices, o.ignore), LeftAtomics(a, o.ignore), a.subsets)
          /\ q = With(b, NotIgnored(b.indices, o.ignore), LeftAtomics(b, o.ignore), b.subsets)
      BY LeftMade
    <2> QED BY <2>1, <2>2, WithFields DEF Agree
  <1>2. CASE o.add_constant
    <2>1. Whole(a, o, mask) = AddConstant(r, mask) /\ Whole(b, o, mask) = AddConstant(q, mask)
      BY <1>2 DEF Whole
    <2> HIDE DEF r, q
    <2>2. ConstantAtomics(r, mask) = ConstantAtomics(q, mask)
      BY <1>1 DEF ConstantAtomics, Agree
    <2>3. /\ Whole(a, o, mask) = With(r, Append(r.indices, ConstantNamespace),
                                       ConstantAtomics(r, mask), r.subsets)
          /\ Whole(b, o, mask) = With(q, Append(q.indices, ConstantNamespace),
                                       ConstantAtomics(q, mask), q.subsets)
      BY <1>1, <2>1, ConstantMade
    <2>4. /\ Kin(Whole(a, o, mask), r) /\ Kin(Whole(b, o, mask), q)
          /\ Agree(Whole(a, o, mask), Whole(b, o, mask))
      BY <1>1, <2>2, <2>3, WithFields DEF Agree
    <2> QED BY <1>1, <2>4, KinOfKin
  <1>3. CASE ~o.add_constant
    BY <1>1, <1>3 DEF Whole
  <1> QED BY <1>2, <1>3

LEMMA WidenedAgree ==
  ASSUME NEW a, NEW b, Kin(a, a), Kin(b, b), Agree(a, b), NEW o, NEW mask
  PROVE  /\ Kin(Widened(a, o, mask), a) /\ Kin(Widened(b, o, mask), b)
         /\ Agree(Widened(a, o, mask), Widened(b, o, mask))
  <1> DEFINE r == Whole(a, o, mask)
             q == Whole(b, o, mask)
  <1>1. Kin(r, a) /\ Kin(q, b) /\ Kin(r, r) /\ Kin(q, q) /\ Agree(r, q)
    BY WholeAgree, KinSelf
  <1>2. CASE o.stride # 1
    <2>1. Widened(a, o, mask) = Strided(r, o.stride) /\ Widened(b, o, mask) = Strided(q, o.stride)
      BY <1>2 DEF Widened
    <2> HIDE DEF r, q
    <2>2. SpreadAtomics(r, o.stride) = SpreadAtomics(q, o.stride)
      BY <1>1 DEF SpreadAtomics, Agree
    <2>3. /\ Widened(a, o, mask) = With(r, r.indices, SpreadAtomics(r, o.stride), r.subsets)
          /\ Widened(b, o, mask) = With(q, q.indices, SpreadAtomics(q, o.stride), q.subsets)
      BY <1>1, <2>1, StrideMade
    <2>4. /\ Kin(Widened(a, o, mask), r) /\ Kin(Widened(b, o, mask), q)
          /\ Agree(Widened(a, o, mask), Widened(b, o, mask))
      BY <1>1, <2>2, <2>3, WithFields DEF Agree
    <2> QED BY <1>1, <2>4, KinOfKin
  <1>3. CASE o.stride = 1
    BY <1>1, <1>3 DEF Widened
  <1> QED BY <1>2, <1>3

LEMMA SetUp ==
  ASSUME NEW e, Kin(e, e), NEW o, NEW mask
  PROVE  LET x == Widened(e, o, mask)
         IN  /\ Kin(x, e)
             /\ SetupExample(e, o, mask) =
                  With(x, x.indices, x.atomics, Subsets(e, x, o, mask))
  <1> DEFINE x == Widened(e, o, mask)
  <1>1. Kin(x, e) /\ Kin(x, x)
    BY WidenedAgree, KinSelf DEF Agree
  <1>2. SetupExample(e, o, mask) = [x EXCEPT !.subsets = Subsets(e, x, o, mask)]
    BY DEF SetupExample, Widened, Whole, Subsets, Cuts
  <1> HIDE DEF x
  <1>3. SetupExample(e, o, mask) = With(x, x.indices, x.atomics, Subsets(e, x, o, mask))
    BY <1>1, <1>2, Changed
  <1> QED BY <1>1, <1>3 DEF x

LEMMA MadeAgree ==
  ASSUME NEW a, NEW b, Kin(a, a), Kin(b, b), Agree(a, b), NEW o, NEW mask
  PROVE  /\ Kin(Made(a, o, mask), a) /\ Kin(Made(b, o, mask), b)
         /\ Agree(Made(a, o, mask), Made(b, o, mask))
  <1> DEFINE r == Grammed(a, o, mask)
             q == Grammed(b, o, mask)
             x == Widened(r, o, mask)
             y == Widened(q, o, mask)
  <1>1. Kin(r, a) /\ Kin(q, b) /\ Kin(r, r) /\ Kin(q, q) /\ Agree(r, q)
    BY GrammedAgree, KinSelf
  <1>2. Made(a, o, mask) = SetupExample(r, o, mask) /\ Made(b, o, mask) = SetupExample(q, o, mask)
    BY DEF Made
  <1> HIDE DEF r, q
  <1>3. Kin(x, r) /\ Kin(y, q) /\ Kin(x, x) /\ Kin(y, y) /\ Agree(x, y)
    BY <1>1, WidenedAgree, KinSelf
  <1>4. /\ Made(a, o, mask) = With(x, x.indices, x.atomics, Subsets(r, x, o, mask))
        /\ Made(b, o, mask) = With(y, y.indices, y.atomics, Subsets(q, y, o, mask))
    BY <1>1, <1>2, SetUp
  <1> HIDE DEF x, y
  <1>5. Subsets(r, x, o, mask) = Subsets(q, y, o, mask)
    BY <1>1, <1>3 DEF Subsets, Agree
  <1>6. /\ Kin(Made(a, o, mask), x) /\ Kin(Made(b, o, mask), y)
        /\ Agree(Made(a, o, mask), Made(b, o, mask))
    BY <1>3, <1>4, <1>5, WithFields DEF Agree
  <1>7. Kin(x, a) /\ Kin(y, b)
    BY <1>1, <1>3, KinOfKin
  <1> QED BY <1>6, <1>7, KinOfKin

\* What does not agree is put in.
LEMMA AgreeExcept ==
  ASSUME NEW a, NEW b, Kin(a, a), Kin(b, b), Agree(a, b)
  PROVE  [a EXCEPT !.initial = b.initial, !.sorted = b.sorted] = b
  <1> DEFINE e == [a EXCEPT !.initial = b.initial, !.sorted = b.sorted]
  <1>1. e = [a EXCEPT !.initial = b.initial, !.sorted = b.sorted]
    OBVIOUS
  <1>2. a = [label |-> a.label, weight |-> a.weight, initial |-> a.initial, tag |-> a.tag,
             indices |-> a.indices, atomics |-> a.atomics, subsets |-> a.subsets,
             sorted |-> a.sorted]
    BY DEF Kin, With
  <1>3. b = [label |-> b.label, weight |-> b.weight, initial |-> b.initial, tag |-> b.tag,
             indices |-> b.indices, atomics |-> b.atomics, subsets |-> b.subsets,
             sorted |-> b.sorted]
    BY DEF Kin, With
  <1> HIDE DEF e
  <1>4. e = [label |-> a.label, weight |-> a.weight, initial |-> b.initial, tag |-> a.tag,
             indices |-> a.indices, atomics |-> a.atomics, subsets |-> a.subsets,
             sorted |-> b.sorted]
    BY <1>1, <1>2
  <1>5. e = b
    BY <1>3, <1>4 DEF Agree
  <1> QED BY <1>5 DEF e

LEMMA FilledKin ==
  ASSUME NEW bits \in Nat, NEW a \in Filled(bits)
  PROVE  Kin(a, a)
  BY DEF Filled, Slots, Kin, With

-----------------------------------------------------------------------------
(* The types of n-grams                                                    *)

\* What a mask of an n-gram is: its offsets are up to the last one.
UpToLast == {t \in Seq(Nat) : t # <<>> /\ \A j \in 1 .. Len(t) : t[j] <= t[Len(t)]}

LEMMA MasksUpToLast ==
  ASSUME NEW ngram \in Nat \ {0}, NEW skips \in Nat
  PROVE  MasksFor(ngram, skips) \in Seq(UpToLast)
  <1> DEFINE U == UpToLast
             M == [n \in 1 .. ngram - 1 |-> GramMasks(n, skips, <<0>>, 0)]
  <1>1. ASSUME NEW n \in 1 .. ngram - 1 PROVE GramMasks(n, skips, <<0>>, 0) \in Seq(U)
    <2> DEFINE g == GramMasks(n, skips, <<0>>, 0)
    <2>1. n + 1 \in Nat /\ n + 1 >= 2 /\ (n + 1) - 1 = n
      OBVIOUS
    <2>2. g \in Seq(Seq(Nat)) /\ ToSet(g) = Offsets(n + 1, skips)
      <3>1. Lists(g, Offsets(n + 1, skips))
        BY <2>1, MasksOnce
      <3> HIDE DEF g
      <3>2. /\ g \in Seq(Seq(Nat))
            /\ Offsets(n + 1, skips) = {g[a] : a \in 1 .. Len(g)}
        BY <3>1 DEF Lists
      <3>3. ToSet(g) = {g[a] : a \in 1 .. Len(g)}
        BY <3>2 DEF ToSet
      <3> QED BY <3>2, <3>3
    <2> HIDE DEF g
    <2>3. ASSUME NEW t \in Seq(Nat), t \in Offsets(n + 1, skips) PROVE t \in U
      <3>1. t \in [1 .. n + 1 -> 0 .. n + skips]
        BY <2>3 DEF Offsets
      <3>2. Len(t) = n + 1 /\ t # <<>>
        BY <2>3, <3>1
      <3>3. \A j \in 1 .. n : t[j] < t[j + 1]
        BY <2>3 DEF Offsets
      <3>4. ASSUME NEW j \in 1 .. n + 1 PROVE t[j] <= t[n + 1]
        <4>1. \A k \in j .. Len(t) - 1 : t[k] < t[k + 1]
          BY <3>2, <3>3
        <4>2. \A b \in j .. Len(t) : t[b] >= t[j] + (b - j)
          BY <2>3, <3>2, <4>1, Grows
        <4>3. t[n + 1] >= t[j] + ((n + 1) - j)
          BY <3>2, <4>2
        <4>4. t[j] \in Nat /\ t[n + 1] \in Nat
          BY <3>2
        <4> QED BY <4>3, <4>4
      <3> QED BY <3>2, <3>4 DEF UpToLast
    <2>4. \A i \in 1 .. Len(g) : g[i] \in U
      <3> SUFFICES ASSUME NEW i \in 1 .. Len(g) PROVE g[i] \in U
        OBVIOUS
      <3>1. g[i] \in Seq(Nat) /\ g[i] \in ToSet(g)
        <4> DEFINE N == Seq(Nat)
        <4>1. g \in Seq(N)
          BY <2>2
        <4> HIDE DEF N
        <4>2. g[i] \in N /\ g[i] \in ToSet(g)
          BY <4>1 DEF ToSet
        <4> QED BY <4>2 DEF N
      <3> QED BY <2>2, <2>3, <3>1
    <2>5. Len(g) \in Nat /\ g = [i \in 1 .. Len(g) |-> g[i]]
      <3> DEFINE N == Seq(Nat)
      <3>1. g \in Seq(N)
        BY <2>2
      <3> HIDE DEF N
      <3> QED BY <3>1
    <2> HIDE DEF U
    <2>6. g \in [1 .. Len(g) -> U]
      BY <2>4, <2>5
    <2>7. g \in Seq(U)
      BY <2>5, <2>6
    <2> QED BY <2>7 DEF g
  <1>2. M \in Seq(Seq(U))
    <2> DEFINE W == Seq(U)
    <2>1. M \in [1 .. ngram - 1 -> W]
      BY <1>1
    <2> HIDE DEF M, W
    <2>2. M \in Seq(W)
      BY <2>1
    <2> QED BY <2>2 DEF W
  <1> HIDE DEF U
  <1>3. FlattenSeq(M) \in Seq(U)
    <2> HIDE DEF M
    <2> QED BY <1>2, FlattenType
  <1> QED BY <1>3 DEF MasksFor, U

\* The index of an n-gram.
LEMMA JoinedTyped ==
  ASSUME NEW bits \in Nat, NEW fs \in Seq(Within(bits)), NEW t \in UpToLast,
         NEW start \in 1 .. Len(fs) - t[Len(t)]
  PROVE  Joined(fs, t, start) \in Int
  <1> DEFINE offsets == Tail(t)
             base == fs[start].weight_index
             O == {o \in Nat : o <= t[Len(t)]}
  <1> DEFINE n == Len(offsets)
             V == Int
             More(x, y) == (x * (1 + QuadraticConstant)) + fs[start + y].weight_index
             G == [p \in (1 .. n) \X V |-> More(p[2], offsets[p[1]])]
             Is(f) == f = [T \in SUBSET DOMAIN offsets |->
                             IF T = {} THEN base ELSE More(f[T \ {Max(T)}], offsets[Max(T)])]
             F == CHOOSE f : Is(f)
  <1>1. n \in Nat /\ DOMAIN offsets = 1 .. n /\ \A i \in 1 .. n : offsets[i] \in O
    <2>1. t \in Seq(Nat) /\ t # <<>> /\ \A j \in 1 .. Len(t) : t[j] <= t[Len(t)]
      BY DEF UpToLast
    <2>2. /\ offsets \in Seq(Nat) /\ Len(offsets) = Len(t) - 1
          /\ \A j \in 1 .. Len(offsets) : offsets[j] = t[j + 1]
      BY <2>1
    <2>3. \A j \in 1 .. Len(offsets) : offsets[j] \in O
      BY <2>1, <2>2
    <2> HIDE DEF offsets
    <2>4. Len(offsets) \in Nat /\ DOMAIN offsets = 1 .. Len(offsets)
      BY <2>2
    <2> QED BY <2>3, <2>4
  <1>2. Joined(fs, t, start) = F[1 .. n]
    BY <1>1 DEF Joined, FoldLeft, MapThenFoldSet
  <1>3. \A i \in 1 .. n, x \in V : More(x, offsets[i]) \in V
    <2> SUFFICES ASSUME NEW k \in 1 .. n, NEW x \in Int PROVE More(x, offsets[k]) \in Int
      OBVIOUS
    <2>1. offsets[k] \in Nat /\ offsets[k] <= t[Len(t)]
      BY <1>1
    <2>2. t[Len(t)] \in Nat
      <3>1. t \in Seq(Nat) /\ t # <<>>
        BY DEF UpToLast
      <3> QED BY <3>1
    <2> HIDE DEF offsets
    <2> DEFINE place == start + offsets[k]
    <2>3. place \in 1 .. Len(fs)
      BY <2>1, <2>2
    <2> HIDE DEF place
    <2>4. fs[place].weight_index \in Int
      <3> DEFINE W == Within(bits)
      <3>1. fs \in Seq(W)
        OBVIOUS
      <3> HIDE DEF W
      <3>2. fs[place] \in W
        BY <2>3, <3>1
      <3>3. 0 .. Pow2[bits] - 1 \subseteq Int
        OBVIOUS
      <3> QED BY <3>2, <3>3 DEF W, Within
    <2>5. QuadraticConstant \in Int
      BY LineAssumption
    <2>6. x * (1 + QuadraticConstant) \in Int
      BY <2>5
    <2> HIDE DEF O
    <2>7. (x * (1 + QuadraticConstant)) + fs[place].weight_index \in Int
      BY <2>4, <2>6
    <2> QED BY <2>7 DEF place
  <1>4. base \in V
    <2>1. t[Len(t)] \in Nat
      <3>1. t \in Seq(Nat) /\ t # <<>>
        BY DEF UpToLast
      <3> QED BY <3>1
    <2>2. start \in 1 .. Len(fs)
      BY <2>1
    <2> DEFINE W == Within(bits)
    <2>3. fs \in Seq(W)
      OBVIOUS
    <2> HIDE DEF W
    <2>4. fs[start] \in W
      BY <2>2, <2>3
    <2>5. 0 .. Pow2[bits] - 1 \subseteq Int
      OBVIOUS
    <2> QED BY <2>4, <2>5 DEF W, Within
  <1> HIDE DEF n, V, More
  <1>5. /\ G \in [(1 .. n) \X V -> V]
        /\ \A i \in 1 .. n, x \in V : G[<<i, x>>] = More(x, offsets[i])
    BY <1>3
  <1> HIDE DEF G
  <1>6. PICK f \in [SUBSET (1 .. n) -> V] : SetBySet(f, n, base, G)
    BY <1>1, <1>4, <1>5, SetRecursion
  <1>7. ASSUME NEW T \in SUBSET (1 .. n)
        PROVE  f[T] = IF T = {} THEN base ELSE More(f[T \ {Max(T)}], offsets[Max(T)])
    <2>1. CASE T = {}
      BY <1>6, <2>1 DEF SetBySet
    <2>2. CASE T # {}
      <3>1. Max(T) \in 1 .. n
        BY <1>1, <2>2, Largest
      <3>2. f[T \ {Max(T)}] \in V
        OBVIOUS
      <3>3. f[T] = G[<<Max(T), f[T \ {Max(T)}]>>]
        BY <1>6, <2>2 DEF SetBySet
      <3> QED BY <1>5, <2>2, <3>1, <3>2, <3>3
    <2> QED BY <2>1, <2>2
  <1>8. Is(f)
    BY <1>1, <1>7
  <1>9. Is(F)
    <2> HIDE DEF Is
    <2> QED BY <1>8
  <1> HIDE DEF F
  <1>10. \A T \in SUBSET (1 .. n) :
           F[T] = IF T = {} THEN base ELSE More(F[T \ {Max(T)}], offsets[Max(T)])
    BY <1>1, <1>9
  <1>11. Follows(F, n, base, G, V)
    <2>1. F[{}] = base
      BY <1>10
    <2>2. ASSUME NEW T \in SUBSET (1 .. n), T # {}, F[T \ {Max(T)}] \in V
          PROVE  F[T] = G[<<Max(T), F[T \ {Max(T)}]>>]
      <3>1. Max(T) \in 1 .. n
        BY <1>1, <2>2, Largest
      <3> QED BY <1>5, <1>10, <2>2, <3>1
    <2> QED BY <2>1, <2>2 DEF Follows
  <1>12. PICK h \in [0 .. n -> V] : InTurn(h, F, n, base, G)
    BY <1>1, <1>4, <1>5, <1>11, PlacesInTurn
  <1>13. /\ h[0] = base /\ h[n] = F[1 .. n]
         /\ \A k \in 1 .. n : h[k] = More(h[k - 1], offsets[k])
    <2> SUFFICES ASSUME NEW k \in 1 .. n PROVE h[k] = More(h[k - 1], offsets[k])
      BY <1>12 DEF InTurn
    <2>1. k - 1 \in 0 .. n
      BY <1>1
    <2>2. h[k] = G[<<k, h[k - 1]>>]
      BY <1>12 DEF InTurn
    <2> QED BY <1>5, <2>1, <2>2
  <1>14. n \in 0 .. n
    BY <1>1
  <1> QED BY <1>2, <1>13, <1>14 DEF V

LEMMA GramsTyped ==
  ASSUME NEW bits \in Nat, NEW fs \in Seq(Within(bits)), NEW t \in UpToLast
  PROVE  GramsOf(fs, t, Pow2[bits] - 1) \in Seq(Within(bits))
  <1> DEFINE last == t[Len(t)]
             n == IF last < Len(fs) THEN Len(fs) - last ELSE 0
             g == GramsOf(fs, t, Pow2[bits] - 1)
             Gram(i) == [x |-> 1, weight_index |-> Joined(fs, t, i) % Pow2[bits]]
  <1>1. last \in Nat /\ Last(t) = last
    <2>1. t \in Seq(Nat) /\ t # <<>>
      BY DEF UpToLast
    <2> QED BY <2>1 DEF Last
  <1>2. (Pow2[bits] - 1) + 1 = Pow2[bits]
    BY Masked, 0 \in Int
  <1>3. g = [i \in 1 .. n |-> Gram(i)]
    BY <1>1, <1>2 DEF GramsOf
  <1>4. n \in Nat
    BY <1>1
  <1>5. ASSUME NEW i \in 1 .. n PROVE Gram(i) \in Within(bits)
    <2>1. i \in 1 .. Len(fs) - last
      BY <1>1, <1>4
    <2>2. Joined(fs, t, i) \in Int
      BY <2>1, JoinedTyped
    <2>3. Joined(fs, t, i) % Pow2[bits] \in 0 .. Pow2[bits] - 1
      BY <2>2, Masked
    <2> QED BY <2>3 DEF Within
  <1> DEFINE W == Within(bits)
  <1> HIDE DEF n, g, Gram, W
  <1>6. g \in [1 .. n -> W]
    BY <1>3, <1>5 DEF W
  <1>7. g \in Seq(W)
    BY <1>4, <1>6
  <1> QED BY <1>7 DEF g, W

LEMMA GramListTyped ==
  ASSUME NEW bits \in Nat, NEW fs \in Seq(Within(bits)), NEW ngram \in Nat \ {0}, NEW skips \in Nat
  PROVE  GramList(fs, ngram, skips, Pow2[bits] - 1) \in Seq(Within(bits))
  <1> DEFINE M == MasksFor(ngram, skips)
             W == Within(bits)
             S == Seq(W)
             g == [m \in DOMAIN M |-> GramsOf(fs, M[m], Pow2[bits] - 1)]
  <1>1. M \in Seq(UpToLast)
    BY MasksUpToLast
  <1> HIDE DEF M
  <1>2. Len(M) \in Nat /\ DOMAIN M = 1 .. Len(M) /\ \A m \in 1 .. Len(M) : M[m] \in UpToLast
    <2> DEFINE U == UpToLast
    <2>1. M \in Seq(U)
      BY <1>1
    <2> HIDE DEF U
    <2>2. Len(M) \in Nat /\ DOMAIN M = 1 .. Len(M) /\ \A m \in 1 .. Len(M) : M[m] \in U
      BY <2>1
    <2> QED BY <2>2 DEF U
  <1>3. g \in [1 .. Len(M) -> S]
    BY <1>2, GramsTyped
  <1>4. g \in Seq(S)
    <2> HIDE DEF g, S
    <2> QED BY <1>2, <1>3
  <1>5. FlattenSeq(g) \in Seq(W)
    <2> HIDE DEF g, W
    <2> QED BY <1>4, FlattenType
  <1>6. GramList(fs, ngram, skips, Pow2[bits] - 1) = FlattenSeq(g)
    BY DEF GramList, M
  <1> QED BY <1>5, <1>6

-----------------------------------------------------------------------------
(* Features in order, and what the learner leaves in a slot                *)

\* A slot with features of a kind, all of them in namespaces that it lists.
Arranged(x, W) ==
  /\ Kin(x, x) /\ x.indices \in Seq(Namespaces) /\ x.atomics \in [Namespaces -> Seq(W)]
  /\ \A ns \in Namespaces : ns \notin ToSet(x.indices) => x.atomics[ns] = <<>>

\* No index is below the one before it.
Rising(fs) == \A i \in 1 .. Len(fs) - 1 : fs[i].weight_index <= fs[i + 1].weight_index
AllRising(x) == \A ns \in Namespaces : Rising(x.atomics[ns])

\* The indices of features that are spread by a stride.
Far(bits, stride) == [x : Int, weight_index : 0 .. (Pow2[bits] * stride) - 1]

LEMMA GrammedArranged ==
  ASSUME NEW bits \in Nat, NEW e \in Filled(bits), NEW o \in Session
  PROVE  LET r == Grammed(e, o, Pow2[bits] - 1)
         IN  /\ Arranged(r, Within(bits)) /\ r.atomics[ConstantNamespace] = <<>>
             /\ r.subsets = e.subsets /\ Kin(r, e) /\ (o.ngram = 1 => r = e)
  <1> DEFINE W == Within(bits)
             mask == Pow2[bits] - 1
             r == Grammed(e, o, mask)
  <1>1. /\ e.indices \in Seq(Namespaces) /\ e.atomics \in [Namespaces -> Seq(W)]
        /\ e.atomics[ConstantNamespace] = <<>>
        /\ \A ns \in Namespaces : Listed(e.indices, ns) <=> e.atomics[ns] # <<>>
    BY DEF Filled, Slots
  <1>2. \A ns \in Namespaces : ns \in ToSet(e.indices) <=> e.atomics[ns] # <<>>
    <2>1. \A ns : ns \in ToSet(e.indices) <=> Listed(e.indices, ns)
      BY <1>1 DEF ToSet, Listed
    <2> QED BY <1>1, <2>1
  <1>3. Kin(e, e)
    BY FilledKin
  <1>4. o.ngram \in Nat \ {0} /\ o.skips \in Nat
    BY DEF Session
  <1>5. ConstantNamespace \in Namespaces
    BY LineAssumption
  <1>6. CASE ~(o.ngram > 1)
    <2>1. r = e
      BY <1>6 DEF Grammed
    <2> HIDE DEF r
    <2> QED BY <1>1, <1>2, <1>3, <2>1 DEF Arranged, r
  <1>7. CASE o.ngram > 1
    <2> DEFINE f == GramAtomics(e, o.ngram, o.skips, mask)
    <2>1. r = With(e, e.indices, f, e.subsets)
      BY <1>3, <1>7, GramsMade DEF Grammed
    <2>2. \A ns \in Namespaces :
            f[ns] = IF ns \in ToSet(e.indices)
                      THEN Cat(e.atomics[ns], GramList(e.atomics[ns], o.ngram, o.skips, mask))
                      ELSE e.atomics[ns]
      BY <1>1 DEF GramAtomics, Cat
    <2>3. f = [ns \in Namespaces |-> f[ns]]
      BY <1>1 DEF GramAtomics
    <2> HIDE DEF f
    <2>4. ASSUME NEW ns \in Namespaces PROVE f[ns] \in Seq(W)
      <3>1. e.atomics[ns] \in Seq(W)
        BY <1>1
      <3> DEFINE g == GramList(e.atomics[ns], o.ngram, o.skips, mask)
      <3>2. g \in Seq(W)
        BY <1>4, <3>1, GramListTyped
      <3> HIDE DEF g, W
      <3>3. Cat(e.atomics[ns], g) \in Seq(W)
        BY <3>1, <3>2, Grouped
      <3> QED BY <2>2, <3>1, <3>3 DEF g
    <2>5. f \in [Namespaces -> Seq(W)]
      BY <2>3, <2>4
    <2>6. \A ns \in Namespaces : ns \notin ToSet(e.indices) => f[ns] = <<>>
      BY <1>2, <2>2
    <2>7. f[ConstantNamespace] = <<>>
      BY <1>1, <1>2, <1>5, <2>2
    <2> HIDE DEF r, W
    <2>8. /\ Kin(r, r) /\ r.indices = e.indices /\ r.atomics = f /\ r.subsets = e.subsets
          /\ Kin(r, e)
      BY <2>1, WithFields
    <2>9. Arranged(r, W)
      BY <1>1, <2>5, <2>6, <2>8 DEF Arranged
    <2> QED BY <1>7, <2>7, <2>8, <2>9 DEF r, W
  <1> QED BY <1>6, <1>7

LEMMA EmptyRises == Rising(<<>>) /\ \A f : Rising(<<f>>)
  BY DEF Rising

LEMMA LeftArranged ==
  ASSUME NEW W, NEW x, Arranged(x, W), NEW ignore
  PROVE  LET r == DropIgnored(x, ignore)
         IN  /\ Arranged(r, W) /\ r.subsets = x.subsets
             /\ x.atomics[ConstantNamespace] = <<>> => r.atomics[ConstantNamespace] = <<>>
             /\ AllRising(x) => AllRising(r)
  <1> DEFINE r == DropIgnored(x, ignore)
             f == LeftAtomics(x, ignore)
             stays == NotIgnored(x.indices, ignore)
  <1>1. /\ Kin(x, x) /\ x.indices \in Seq(Namespaces) /\ x.atomics \in [Namespaces -> Seq(W)]
        /\ \A ns \in Namespaces : ns \notin ToSet(x.indices) => x.atomics[ns] = <<>>
    BY DEF Arranged
  <1>2. r = With(x, stays, f, x.subsets)
    BY <1>1, LeftMade
  <1>3. stays \in Seq(Namespaces) /\ ToSet(stays) = ToSet(x.indices) \ ignore
    BY <1>1, NamespacesLeft
  <1>4. /\ f = [ns \in Namespaces |-> f[ns]]
        /\ \A ns \in Namespaces :
             f[ns] = IF ns \in ignore /\ ns \in ToSet(x.indices) THEN <<>> ELSE x.atomics[ns]
    BY <1>1 DEF LeftAtomics
  <1> HIDE DEF r, f, stays
  <1>5. \A ns \in Namespaces : f[ns] \in Seq(W)
    <2>1. <<>> \in Seq(W)
      OBVIOUS
    <2> QED BY <1>1, <1>4, <2>1
  <1>6. f \in [Namespaces -> Seq(W)]
    BY <1>4, <1>5
  <1>7. Kin(r, r) /\ r.indices = stays /\ r.atomics = f /\ r.subsets = x.subsets
    BY <1>2, WithFields
  <1>8. \A ns \in Namespaces : ns \notin ToSet(stays) => f[ns] = <<>>
    BY <1>1, <1>3, <1>4
  <1>9. Arranged(r, W)
    BY <1>3, <1>6, <1>7, <1>8 DEF Arranged
  <1>10. ASSUME x.atomics[ConstantNamespace] = <<>> PROVE r.atomics[ConstantNamespace] = <<>>
    <2>1. ConstantNamespace \in Namespaces
      BY LineAssumption
    <2> QED BY <1>4, <1>7, <1>10, <2>1
  <1>11. ASSUME AllRising(x) PROVE AllRising(r)
    BY <1>4, <1>7, <1>11, EmptyRises DEF AllRising
  <1> QED BY <1>7, <1>9, <1>10, <1>11 DEF r

LEMMA ConstantArranged ==
  ASSUME NEW bits \in Nat, NEW x, Arranged(x, Within(bits)),
         x.atomics[ConstantNamespace] = <<>>
  PROVE  LET r == AddConstant(x, Pow2[bits] - 1)
         IN  /\ Arranged(r, Within(bits)) /\ r.subsets = x.subsets
             /\ AllRising(x) => AllRising(r)
  <1> DEFINE W == Within(bits)
             mask == Pow2[bits] - 1
             r == AddConstant(x, mask)
             f == ConstantAtomics(x, mask)
             C == ConstantNamespace
             more == Append(x.indices, C)
             feature == [x |-> 1, weight_index |-> Constant % (mask + 1)]
  <1>1. /\ Kin(x, x) /\ x.indices \in Seq(Namespaces) /\ x.atomics \in [Namespaces -> Seq(W)]
        /\ \A ns \in Namespaces : ns \notin ToSet(x.indices) => x.atomics[ns] = <<>>
    BY DEF Arranged
  <1>2. C \in Namespaces /\ Constant \in Int
    BY LineAssumption
  <1>3. feature \in W
    <2>1. mask + 1 = Pow2[bits] /\ Constant % Pow2[bits] \in 0 .. Pow2[bits] - 1
      BY <1>2, Masked
    <2> QED BY <2>1 DEF Within
  <1>4. r = With(x, more, f, x.subsets)
    BY <1>1, ConstantMade
  <1>5. more \in Seq(Namespaces) /\ ToSet(more) = ToSet(x.indices) \cup {C}
    <2>1. more \in Seq(Namespaces)
      BY <1>1, <1>2, AppendProperties
    <2> QED BY <1>1, <1>2, <2>1, AppendToSet
  <1>6. /\ f = [ns \in Namespaces |-> f[ns]]
        /\ \A ns \in Namespaces :
             f[ns] = IF ns = C THEN <<feature>> ELSE x.atomics[ns]
    <2>1. Append(<<>>, feature) = <<feature>>
      OBVIOUS
    <2> HIDE DEF feature
    <2> QED BY <1>1, <1>2, <2>1 DEF ConstantAtomics, feature
  <1> HIDE DEF r, f, more, feature, W
  <1>7. \A ns \in Namespaces : f[ns] \in Seq(W)
    <2>1. <<feature>> \in Seq(W)
      BY <1>3
    <2> QED BY <1>1, <1>6, <2>1
  <1>8. f \in [Namespaces -> Seq(W)]
    BY <1>6, <1>7
  <1>9. Kin(r, r) /\ r.indices = more /\ r.atomics = f /\ r.subsets = x.subsets
    BY <1>4, WithFields
  <1>10. \A ns \in Namespaces : ns \notin ToSet(more) => f[ns] = <<>>
    BY <1>1, <1>5, <1>6
  <1>11. Arranged(r, W)
    BY <1>5, <1>8, <1>9, <1>10 DEF Arranged
  <1>12. ASSUME AllRising(x) PROVE AllRising(r)
    BY <1>6, <1>9, <1>12, EmptyRises DEF AllRising
  <1> QED BY <1>9, <1>11, <1>12 DEF r, W

LEMMA WholeArranged ==
  ASSUME NEW bits \in Nat, NEW x, Arranged(x, Within(bits)),
         x.atomics[ConstantNamespace] = <<>>, NEW o
  PROVE  LET r == Whole(x, o, Pow2[bits] - 1)
         IN  /\ Arranged(r, Within(bits)) /\ r.subsets = x.subsets
             /\ AllRising(x) => AllRising(r)
  <1> DEFINE l == DropIgnored(x, o.ignore)
  <1>1. /\ Arranged(l, Within(bits)) /\ l.subsets = x.subsets
        /\ l.atomics[ConstantNamespace] = <<>>
        /\ AllRising(x) => AllRising(l)
    BY LeftArranged
  <1> HIDE DEF l
  <1>2. LET r == AddConstant(l, Pow2[bits] - 1)
        IN  /\ Arranged(r, Within(bits)) /\ r.subsets = l.subsets
            /\ AllRising(l) => AllRising(r)
    BY <1>1, ConstantArranged
  <1> QED BY <1>1, <1>2 DEF Whole, l

LEMMA Times ==
  ASSUME NEW a \in Nat, NEW b \in Nat, a <= b, NEW s \in Nat
  PROVE  a * s \in Nat /\ a * s <= b * s
  <1> DEFINE d == b - a
  <1>1. d \in Nat /\ b = a + d
    OBVIOUS
  <1> HIDE DEF d
  <1>2. a * s \in Nat /\ d * s \in Nat
    BY <1>1
  <1>3. b * s = a * s + d * s
    BY <1>1
  <1> QED BY <1>2, <1>3

LEMMA SpreadTyped ==
  ASSUME NEW bits \in Nat, NEW fs \in Seq(Within(bits)), NEW stride \in Nat \ {0}
  PROVE  /\ Spread(fs, stride) \in Seq(Far(bits, stride))
         /\ fs = <<>> => Spread(fs, stride) = <<>>
         /\ Rising(fs) => Rising(Spread(fs, stride))
  <1> DEFINE W == Within(bits)
             V == Far(bits, stride)
             s == Spread(fs, stride)
             One(i) == [fs[i] EXCEPT !.weight_index = @ * stride]
             P == Pow2[bits]
  <1>1. P \in Nat \ {0}
    BY Pow2Step
  <1>2. Len(fs) \in Nat /\ DOMAIN fs = 1 .. Len(fs) /\ \A i \in 1 .. Len(fs) : fs[i] \in W
    <2>1. fs \in Seq(W)
      OBVIOUS
    <2> HIDE DEF W
    <2> QED BY <2>1
  <1>3. ASSUME NEW i \in 1 .. Len(fs)
        PROVE  One(i) \in V /\ One(i).weight_index = fs[i].weight_index * stride
    <2> DEFINE f == fs[i]
               w == f.weight_index
    <2>1. f = [x |-> f.x, weight_index |-> w] /\ f.x \in Int /\ w \in 0 .. P - 1
      BY <1>2 DEF Within
    <2>2. w \in Nat /\ P - 1 \in Nat /\ w <= P - 1
      BY <1>1, <2>1
    <2> HIDE DEF P, w
    <2>3. w * stride \in Nat /\ w * stride <= (P - 1) * stride
      BY <2>2, Times
    <2>4. (P - 1) * stride <= (P * stride) - 1
      BY <1>1
    <2>5. (P - 1) * stride \in Int /\ P * stride \in Int
      BY <1>1
    <2>6. w * stride \in 0 .. (P * stride) - 1
      BY <2>3, <2>4, <2>5
    <2>7. One(i) = [x |-> f.x, weight_index |-> w * stride]
      <3> HIDE DEF f
      <3> QED BY <2>1 DEF f, w
    <2> HIDE DEF One
    <2> QED BY <2>1, <2>6, <2>7 DEF Far, P, w
  <1>4. s = [i \in 1 .. Len(fs) |-> One(i)]
    BY <1>2 DEF Spread
  <1> HIDE DEF One, V, s, W
  <1>5. s \in Seq(V) /\ Len(s) = Len(fs)
    <2>1. s \in [1 .. Len(fs) -> V]
      BY <1>3, <1>4
    <2> QED BY <1>2, <2>1
  <1>6. fs = <<>> => s = <<>>
    BY <1>5
  <1>7. ASSUME Rising(fs), NEW i \in 1 .. Len(s) - 1
        PROVE  s[i].weight_index <= s[i + 1].weight_index
    <2>1. i \in 1 .. Len(fs) /\ i + 1 \in 1 .. Len(fs) /\ i \in 1 .. Len(fs) - 1
      BY <1>2, <1>5
    <2>2. /\ s[i].weight_index = fs[i].weight_index * stride
          /\ s[i + 1].weight_index = fs[i + 1].weight_index * stride
      BY <1>3, <1>4, <2>1
    <2>3. fs[i].weight_index <= fs[i + 1].weight_index
      BY <1>7, <2>1 DEF Rising
    <2>4. fs[i].weight_index \in Nat /\ fs[i + 1].weight_index \in Nat
      BY <1>1, <1>2, <2>1, SMTT(40) DEF W, Within
    <2> QED BY <2>2, <2>3, <2>4, Times
  <1>8. Rising(fs) => Rising(s)
    BY <1>7 DEF Rising
  <1> QED BY <1>5, <1>6, <1>8 DEF V, s

LEMMA WidenedArranged ==
  ASSUME NEW bits \in Nat, NEW x, Arranged(x, Within(bits)),
         x.atomics[ConstantNamespace] = <<>>, NEW o, o.stride \in Nat \ {0}
  PROVE  LET r == Widened(x, o, Pow2[bits] - 1)
         IN  /\ Arranged(r, Far(bits, o.stride)) /\ r.subsets = x.subsets
             /\ AllRising(x) => AllRising(r)
  <1> DEFINE w == Whole(x, o, Pow2[bits] - 1)
             r == Widened(x, o, Pow2[bits] - 1)
             W == Within(bits)
             V == Far(bits, o.stride)
  <1>1. Arranged(w, W) /\ w.subsets = x.subsets /\ (AllRising(x) => AllRising(w))
    BY WholeArranged
  <1>2. r = IF o.stride = 1 THEN w ELSE Strided(w, o.stride)
    BY DEF Widened
  <1>3. /\ Kin(w, w) /\ w.indices \in Seq(Namespaces) /\ w.atomics \in [Namespaces -> Seq(W)]
        /\ \A ns \in Namespaces : ns \notin ToSet(w.indices) => w.atomics[ns] = <<>>
    BY <1>1 DEF Arranged
  <1> HIDE DEF w, r
  <1>4. CASE o.stride = 1
    <2>1. W = V
      <3>1. Pow2[bits] * 1 = Pow2[bits]
        BY Pow2Step
      <3> QED BY <1>4, <3>1 DEF Within, Far
    <2> HIDE DEF W, V
    <2> QED BY <1>1, <1>2, <1>4, <2>1 DEF W, V, r
  <1>5. CASE o.stride # 1
    <2> DEFINE f == SpreadAtomics(w, o.stride)
    <2>1. r = With(w, w.indices, f, w.subsets)
      BY <1>2, <1>3, <1>5, StrideMade
    <2>2. /\ f = [ns \in Namespaces |-> f[ns]]
          /\ \A ns \in Namespaces :
               f[ns] = IF ns \in ToSet(w.indices) THEN Spread(w.atomics[ns], o.stride)
                                                  ELSE w.atomics[ns]
      BY <1>3 DEF SpreadAtomics
    <2> HIDE DEF f
    <2>3. ASSUME NEW ns \in Namespaces
          PROVE  /\ f[ns] \in Seq(V)
                 /\ Rising(w.atomics[ns]) => Rising(f[ns])
                 /\ ns \notin ToSet(w.indices) => f[ns] = <<>>
      <3>1. w.atomics[ns] \in Seq(W)
        BY <1>3
      <3>2. /\ Spread(w.atomics[ns], o.stride) \in Seq(V)
            /\ Rising(w.atomics[ns]) => Rising(Spread(w.atomics[ns], o.stride))
        BY <3>1, SpreadTyped
      <3>3. <<>> \in Seq(V)
        OBVIOUS
      <3> HIDE DEF V, W
      <3> QED BY <1>3, <2>2, <3>2, <3>3
    <2> HIDE DEF V
    <2>4. f \in [Namespaces -> Seq(V)]
      BY <2>2, <2>3
    <2>5. Kin(r, r) /\ r.indices = w.indices /\ r.atomics = f /\ r.subsets = w.subsets
      BY <2>1, WithFields
    <2>6. Arranged(r, V)
      BY <1>3, <2>3, <2>4, <2>5 DEF Arranged
    <2>7. AllRising(w) => AllRising(r)
      BY <2>3, <2>5 DEF AllRising
    <2> QED BY <1>1, <2>5, <2>6, <2>7 DEF V, r
  <1> QED BY <1>4, <1>5

\* A slot whose unlisted namespaces are empty, and so is what is left when the listed
\* ones are cleared.
Tidy(a) ==
  /\ Kin(a, a) /\ a.label \in Int /\ a.weight \in Int /\ a.initial \in Int
  /\ a.indices \in Seq(Namespaces)
  /\ a.atomics = [ns \in Namespaces |-> a.atomics[ns]]
  /\ a.subsets = [ns \in Namespaces |-> a.subsets[ns]]
  /\ \A ns \in Namespaces :
       ns \notin ToSet(a.indices) => a.atomics[ns] = <<>> /\ a.subsets[ns] = <<>>

LEMMA MadeArranged ==
  ASSUME NEW bits \in Nat, NEW e \in Filled(bits), NEW o \in Session
  PROVE  LET r == Made(e, o, Pow2[bits] - 1)
         IN  /\ Tidy(r) /\ Arranged(r, Far(bits, o.stride))
             /\ \A ns \in ToSet(r.indices) : r.subsets[ns] = Cuts(r.atomics[ns], o, Pow2[bits] - 1)
             /\ o.ngram = 1 /\ AllRising(e) => AllRising(r)
  <1> DEFINE mask == Pow2[bits] - 1
             g == Grammed(e, o, mask)
             x == Widened(g, o, mask)
             r == Made(e, o, mask)
             u == Subsets(g, x, o, mask)
             W == Within(bits)
             V == Far(bits, o.stride)
  <1>1. o.stride \in Nat \ {0}
    BY DEF Session
  <1>2. /\ Arranged(g, W) /\ g.atomics[ConstantNamespace] = <<>>
        /\ g.subsets = e.subsets /\ Kin(g, e) /\ (o.ngram = 1 => g = e)
    BY GrammedArranged
  <1>3. r = SetupExample(g, o, mask)
    BY DEF Made
  <1> HIDE DEF g, r
  <1>4. Arranged(x, V) /\ x.subsets = g.subsets /\ (AllRising(g) => AllRising(x))
    BY <1>1, <1>2, WidenedArranged
  <1>5. Kin(g, g) /\ Kin(x, g) /\ r = With(x, x.indices, x.atomics, u)
    <2>1. Kin(g, g)
      BY <1>2 DEF Arranged
    <2> QED BY <1>3, <2>1, SetUp
  <1>6. /\ u = [ns \in Namespaces |-> u[ns]]
        /\ \A ns \in Namespaces :
             u[ns] = IF ns \in ToSet(x.indices) THEN Cuts(x.atomics[ns], o, mask)
                                                ELSE g.subsets[ns]
    <2>1. DOMAIN g.atomics = Namespaces
      BY <1>2 DEF Arranged
    <2> QED BY <2>1 DEF Subsets
  <1> HIDE DEF x, u, mask, V, W
  <1>7. /\ Kin(r, r) /\ Kin(r, x) /\ r.indices = x.indices /\ r.atomics = x.atomics
        /\ r.subsets = u
    BY <1>5, WithFields
  <1>8. Arranged(r, V)
    BY <1>4, <1>7 DEF Arranged
  <1>9. /\ x.indices \in Seq(Namespaces) /\ x.atomics \in [Namespaces -> Seq(V)]
        /\ \A ns \in Namespaces : ns \notin ToSet(x.indices) => x.atomics[ns] = <<>>
    BY <1>4 DEF Arranged
  <1>10. \A ns \in ToSet(x.indices) : ns \in Namespaces
    BY <1>9 DEF ToSet
  <1>11. \A ns \in Namespaces : g.subsets[ns] = <<>>
    BY <1>2 DEF Filled, Slots
  <1>12. r.label \in Int /\ r.weight \in Int /\ r.initial \in Int
    <2>1. Kin(r, e)
      BY <1>2, <1>5, <1>7, KinOfKin
    <2>2. r.label = e.label /\ r.weight = e.weight /\ r.initial = e.initial
      BY <2>1 DEF Kin, With
    <2> QED BY <2>2 DEF Filled, Slots
  <1>13. Tidy(r)
    <2>1. r.atomics = [ns \in Namespaces |-> r.atomics[ns]]
      BY <1>7, <1>9
    <2>2. r.subsets = [ns \in Namespaces |-> r.subsets[ns]]
      BY <1>6, <1>7
    <2>3. ASSUME NEW ns \in Namespaces, ns \notin ToSet(r.indices)
          PROVE  r.atomics[ns] = <<>> /\ r.subsets[ns] = <<>>
      BY <1>6, <1>7, <1>9, <1>11, <2>3
    <2>4. r.indices \in Seq(Namespaces)
      BY <1>7, <1>9
    <2> QED BY <1>7, <1>12, <2>1, <2>2, <2>3, <2>4 DEF Tidy
  <1>14. \A ns \in ToSet(r.indices) : r.subsets[ns] = Cuts(r.atomics[ns], o, mask)
    BY <1>6, <1>7, <1>10
  <1>15. ASSUME o.ngram = 1, AllRising(e) PROVE AllRising(r)
    BY <1>2, <1>4, <1>7, <1>15 DEF AllRising
  <1> QED BY <1>8, <1>13, <1>14, <1>15 DEF V, mask, r

-----------------------------------------------------------------------------
(* The n-grams of a namespace                                              *)

\* What addgrams may skip in n-grams of up to `ngram` words.
GramOffsets(ngram, skips) == UNION {Offsets(n, skips) : n \in 2 .. ngram}

\* All masks of addgrams, each once.
LEMMA MasksForListed ==
  ASSUME NEW ngram \in Nat \ {0}, NEW skips \in Nat
  PROVE  Lists(MasksFor(ngram, skips), GramOffsets(ngram, skips))
  <1> DEFINE N == Seq(Nat)
             W == Seq(N)
             M == [n \in 1 .. ngram - 1 |-> GramMasks(n, skips, <<0>>, 0)]
             Q(k) == SubSeq(M, 1, k)
             C(k) == GramOffsets(k + 1, skips)
             T == {k \in Nat : k <= ngram - 1 => Lists(FlattenSeq(Q(k)), C(k))}
  <1>1. ASSUME NEW n \in 1 .. ngram - 1 PROVE Lists(M[n], Offsets(n + 1, skips))
    <2>1. n + 1 \in Nat /\ n + 1 >= 2 /\ (n + 1) - 1 = n
      OBVIOUS
    <2>2. Lists(GramMasks(n, skips, <<0>>, 0), Offsets(n + 1, skips))
      BY <2>1, MasksOnce
    <2> QED BY <2>2
  <1>2. M \in Seq(W) /\ Len(M) = ngram - 1 /\ ngram - 1 \in Nat
    <2>1. \A n \in 1 .. ngram - 1 : M[n] \in W
      BY <1>1 DEF Lists
    <2>2. M = [n \in 1 .. ngram - 1 |-> M[n]]
      OBVIOUS
    <2> HIDE DEF M, W
    <2>3. M \in [1 .. ngram - 1 -> W]
      BY <2>1, <2>2
    <2> QED BY <2>3
  <1> HIDE DEF M
  <1>3. 0 \in T
    <2>1. Q(0) = <<>>
      BY <1>2, SubSeqEmpty
    <2>2. C(0) = {}
      <3>1. 2 .. 0 + 1 = {}
        OBVIOUS
      <3> QED BY <3>1 DEF GramOffsets
    <2>3. Lists(<<>>, {})
      BY DEF Lists
    <2> QED BY <2>1, <2>2, <2>3, FlattenNone
  <1>4. ASSUME NEW k \in Nat, k \in T PROVE k + 1 \in T
    <2> SUFFICES ASSUME k + 1 <= ngram - 1
                 PROVE  Lists(FlattenSeq(Q(k + 1)), C(k + 1))
      OBVIOUS
    <2> DEFINE q == Q(k)
               x == M[k + 1]
               new == Offsets((k + 1) + 1, skips)
    <2>1. q \in Seq(W) /\ x \in W /\ Q(k + 1) = Append(q, x)
      BY <1>2, PrefixStep
    <2>2. FlattenSeq(Q(k + 1)) = Cat(FlattenSeq(q), x)
      <3> HIDE DEF q, x
      <3> QED BY <2>1, FlattenLast DEF W
    <2>3. Lists(FlattenSeq(q), C(k)) /\ Lists(x, new)
      <3>1. k <= ngram - 1 /\ k + 1 \in 1 .. ngram - 1
        BY <1>2
      <3> QED BY <1>1, <1>4, <3>1
    <2>4. C(k + 1) = C(k) \cup new
      <3>1. 2 .. ((k + 1) + 1) = (2 .. (k + 1)) \cup {(k + 1) + 1}
        OBVIOUS
      <3> QED BY <3>1 DEF GramOffsets
    <2>5. C(k) \cap new = {}
      <3>1. ASSUME NEW t \in C(k), t \in new PROVE FALSE
        <4>1. PICK n \in 2 .. k + 1 : t \in Offsets(n, skips)
          BY DEF GramOffsets
        <4>2. DOMAIN t = 1 .. n /\ DOMAIN t = 1 .. (k + 1) + 1
          BY <3>1, <4>1 DEF Offsets
        <4>3. (k + 1) + 1 \in 1 .. (k + 1) + 1 /\ (k + 1) + 1 \notin 1 .. n
          BY <4>1
        <4> QED BY <4>2, <4>3
      <3> QED BY <3>1
    <2> HIDE DEF q, x, new, C, Q
    <2>6. Lists(FlattenSeq(q) \o x, C(k) \cup new)
      BY <2>3, <2>5, ListsBoth
    <2> QED BY <2>2, <2>4, <2>6 DEF Cat
  <1>5. ngram - 1 \in T
    <2> HIDE DEF T
    <2> QED BY <1>2, <1>3, <1>4, SetInduction
  <1>6. Q(ngram - 1) = M
    BY <1>2, SubSeqFull
  <1>7. Lists(FlattenSeq(M), GramOffsets((ngram - 1) + 1, skips))
    <2> HIDE DEF Q
    <2> QED BY <1>2, <1>5, <1>6
  <1>8. (ngram - 1) + 1 = ngram
    OBVIOUS
  <1> QED BY <1>7, <1>8 DEF MasksFor, M

\* A gram, by the place of its first word and its offsets; and a sequence of them:
\* one for each choice, and no other.
Gram(fs, c, mask) ==
  [x |-> 1, weight_index |-> Joined(fs, c[2], c[1]) % (mask + 1)]
Makes(q, chosen, fs, mask) ==
  \E h \in Bijection(1 .. Len(q), chosen) :
    \A i \in 1 .. Len(q) : q[i] = Gram(fs, h[i], mask)

LEMMA NoGrams ==
  ASSUME NEW fs, NEW mask
  PROVE  Makes(<<>>, {}, fs, mask)
  <1> DEFINE h == [i \in 1 .. 0 |-> 0]
  <1>1. h \in [1 .. 0 -> {}] /\ \A i \in 1 .. 0 : FALSE
    OBVIOUS
  <1>2. h \in Bijection(1 .. 0, {})
    BY <1>1 DEF Bijection, Injection, IsInjective, Surjection
  <1>3. Len(<<>>) = 0
    OBVIOUS
  <1> HIDE DEF h
  <1> QED BY <1>1, <1>2, <1>3 DEF Makes

LEMMA OneMaskMade ==
  ASSUME NEW bits \in Nat, NEW fs \in Seq(Within(bits)), NEW t \in UpToLast
  PROVE  Makes(GramsOf(fs, t, Pow2[bits] - 1), GramsOver(fs, {t}), fs, Pow2[bits] - 1)
  <1> DEFINE last == Last(t)
             mask == Pow2[bits] - 1
             l == Len(fs)
             n == IF last < l THEN l - last ELSE 0
             q == GramsOf(fs, t, mask)
             h == [i \in 1 .. n |-> <<i, t>>]
             C == GramsOver(fs, {t})
  <1>1. last \in Nat /\ l \in Nat /\ DOMAIN fs = 1 .. l
    <2>1. t \in Seq(Nat) /\ t # <<>>
      BY DEF UpToLast
    <2>2. last \in Nat
      BY <2>1 DEF Last
    <2> DEFINE W == Within(bits)
    <2>3. fs \in Seq(W)
      OBVIOUS
    <2> HIDE DEF W, last
    <2> QED BY <2>2, <2>3
  <1> HIDE DEF last
  <1>2. /\ Len(q) = n /\ n \in Nat
        /\ \A i \in 1 .. n : q[i] = [x |-> 1, weight_index |-> Joined(fs, t, i) % (mask + 1)]
    BY <1>1 DEF GramsOf, last
  <1>3. C = {<<i, t>> : i \in 1 .. n}
    <2>1. ASSUME NEW c \in C PROVE \E i \in 1 .. n : c = <<i, t>>
      <3>1. c \in (1 .. l) \X {t} /\ c[1] + Last(c[2]) <= l
        BY <1>1 DEF GramsOver
      <3>2. PICK i \in 1 .. l : c = <<i, t>>
        BY <3>1
      <3>3. i + last <= l
        BY <3>1, <3>2 DEF last
      <3>4. i \in 1 .. n
        BY <1>1, <3>3
      <3> QED BY <3>2, <3>4
    <2>2. ASSUME NEW i \in 1 .. n PROVE <<i, t>> \in C
      <3>1. i \in 1 .. l /\ i + last <= l
        BY <1>1
      <3> QED BY <1>1, <3>1 DEF GramsOver, last
    <2> QED BY <2>1, <2>2
  <1>4. h \in Bijection(1 .. n, C)
    <2> HIDE DEF n, C
    <2>1. h \in [1 .. n -> C] /\ \A i \in 1 .. n : h[i] = <<i, t>>
      BY <1>3
    <2>2. \A i, j \in 1 .. n : h[i] = h[j] => i = j
      BY <2>1
    <2>3. \A c \in C : \E i \in 1 .. n : h[i] = c
      BY <1>3, <2>1
    <2> QED BY <2>1, <2>2, <2>3 DEF Bijection, Injection, IsInjective, Surjection
  <1>5. \A i \in 1 .. n : q[i] = Gram(fs, h[i], mask)
    BY <1>2 DEF Gram
  <1> HIDE DEF q, h, n, C, mask
  <1>6. Makes(q, C, fs, mask)
    BY <1>2, <1>4, <1>5 DEF Makes
  <1> QED BY <1>6 DEF q, C, mask

LEMMA MakesBoth ==
  ASSUME NEW W, NEW q \in Seq(W), NEW r \in Seq(W), NEW C, NEW D, C \cap D = {},
         NEW fs, NEW mask, Makes(q, C, fs, mask), Makes(r, D, fs, mask)
  PROVE  Makes(Cat(q, r), C \cup D, fs, mask)
  <1> DEFINE n == Len(q)
             m == Len(r)
             z == Cat(q, r)
  <1>1. /\ n \in Nat /\ m \in Nat /\ Len(z) = n + m
        /\ \A i \in 1 .. n + m : z[i] = IF i <= n THEN q[i] ELSE r[i - n]
    <2>1. n \in Nat /\ m \in Nat
      OBVIOUS
    <2> QED BY <2>1, CatProperties
  <1>2. PICK g \in Bijection(1 .. n, C) : \A i \in 1 .. n : q[i] = Gram(fs, g[i], mask)
    BY DEF Makes
  <1>3. PICK h \in Bijection(1 .. m, D) : \A i \in 1 .. m : r[i] = Gram(fs, h[i], mask)
    BY DEF Makes
  <1> HIDE DEF n, m, z
  <1> DEFINE f == [i \in 1 .. n + m |-> IF i <= n THEN g[i] ELSE h[i - n]]
  <1>4. /\ g \in [1 .. n -> C] /\ h \in [1 .. m -> D]
        /\ \A i, j \in 1 .. n : g[i] = g[j] => i = j
        /\ \A i, j \in 1 .. m : h[i] = h[j] => i = j
        /\ \A c \in C : \E i \in 1 .. n : g[i] = c
        /\ \A d \in D : \E i \in 1 .. m : h[i] = d
    BY <1>2, <1>3 DEF Bijection, Injection, IsInjective, Surjection
  <1>5. ASSUME NEW i \in 1 .. n + m
        PROVE  IF i <= n THEN i \in 1 .. n /\ f[i] = g[i] /\ f[i] \in C
                         ELSE i - n \in 1 .. m /\ f[i] = h[i - n] /\ f[i] \in D
    <2>1. i <= n => i \in 1 .. n
      BY <1>1
    <2>2. ~(i <= n) => i - n \in 1 .. m
      BY <1>1
    <2> QED BY <1>4, <2>1, <2>2
  <1>6. f \in [1 .. n + m -> C \cup D]
    BY <1>5
  <1>7. ASSUME NEW i \in 1 .. n + m, NEW j \in 1 .. n + m, f[i] = f[j]
        PROVE  i = j
    <2> HIDE DEF f
    <2>1. CASE i <= n /\ j <= n
      BY <1>4, <1>5, <1>7, <2>1
    <2>2. CASE ~(i <= n) /\ ~(j <= n)
      <3>1. i - n = j - n
        BY <1>4, <1>5, <1>7, <2>2
      <3> QED BY <1>1, <3>1
    <2>3. CASE (i <= n /\ ~(j <= n)) \/ (~(i <= n) /\ j <= n)
      BY <1>5, <1>7, <2>3
    <2> QED BY <2>1, <2>2, <2>3
  <1>8. ASSUME NEW c \in C \cup D PROVE \E i \in 1 .. n + m : f[i] = c
    <2>1. CASE c \in C
      <3>1. PICK i \in 1 .. n : g[i] = c
        BY <1>4, <2>1
      <3>2. i \in 1 .. n + m /\ i <= n
        BY <1>1
      <3> QED BY <3>1, <3>2
    <2>2. CASE c \in D
      <3>1. PICK i \in 1 .. m : h[i] = c
        BY <1>4, <2>2
      <3>2. n + i \in 1 .. n + m /\ ~(n + i <= n) /\ (n + i) - n = i
        BY <1>1
      <3>3. f[n + i] = c
        BY <3>1, <3>2
      <3> QED BY <3>2, <3>3
    <2> QED BY <2>1, <2>2
  <1>9. ASSUME NEW i \in 1 .. n + m PROVE z[i] = Gram(fs, f[i], mask)
    <2> HIDE DEF f
    <2> QED BY <1>1, <1>2, <1>3, <1>5
  <1> HIDE DEF f
  <1>10. f \in Bijection(1 .. n + m, C \cup D)
    BY <1>6, <1>7, <1>8 DEF Bijection, Injection, IsInjective, Surjection
  <1>11. Makes(z, C \cup D, fs, mask)
    BY <1>1, <1>9, <1>10 DEF Makes
  <1> QED BY <1>11 DEF z

\* What generateGrams adds to a namespace.
LEMMA GramListMade ==
  ASSUME NEW bits \in Nat, NEW fs \in Seq(Within(bits)), NEW ngram \in Nat \ {0},
         NEW skips \in Nat
  PROVE  Makes(GramList(fs, ngram, skips, Pow2[bits] - 1),
               GramsOver(fs, GramOffsets(ngram, skips)), fs, Pow2[bits] - 1)
  <1> DEFINE M == MasksFor(ngram, skips)
             mask == Pow2[bits] - 1
             W == Within(bits)
             S == Seq(W)
             n == Len(M)
             g == [m \in DOMAIN M |-> GramsOf(fs, M[m], mask)]
             Q(k) == SubSeq(g, 1, k)
             O(k) == {M[m] : m \in 1 .. k}
             T == {k \in Nat : k <= n =>
                     Makes(FlattenSeq(Q(k)), GramsOver(fs, O(k)), fs, mask)}
  <1>1. /\ n \in Nat /\ DOMAIN M = 1 .. n
        /\ \A a, b \in 1 .. n : M[a] = M[b] => a = b
        /\ GramOffsets(ngram, skips) = {M[m] : m \in 1 .. n}
    <2>1. Lists(M, GramOffsets(ngram, skips))
      BY MasksForListed
    <2> HIDE DEF M
    <2> QED BY <2>1 DEF Lists
  <1>2. \A m \in 1 .. n : M[m] \in UpToLast
    <2> DEFINE U == UpToLast
    <2>1. M \in Seq(U)
      BY MasksUpToLast
    <2> HIDE DEF U, M
    <2>2. \A m \in 1 .. n : M[m] \in U
      BY <2>1
    <2> QED BY <2>2 DEF U
  <1> HIDE DEF M, n
  <1>3. ASSUME NEW m \in 1 .. n
        PROVE  /\ g[m] \in S
               /\ Makes(g[m], GramsOver(fs, {M[m]}), fs, mask)
    <2>1. GramsOf(fs, M[m], mask) \in S
      BY <1>2, GramsTyped
    <2>2. Makes(GramsOf(fs, M[m], mask), GramsOver(fs, {M[m]}), fs, mask)
      BY <1>2, OneMaskMade
    <2> QED BY <1>1, <2>1, <2>2
  <1>4. g \in Seq(S) /\ Len(g) = n
    <2>1. g = [m \in 1 .. n |-> g[m]]
      BY <1>1
    <2> HIDE DEF g, S
    <2>2. g \in [1 .. n -> S]
      BY <1>3, <2>1
    <2> QED BY <1>1, <2>2
  <1> HIDE DEF g, mask, W
  <1>5. 0 \in T
    <2>1. Q(0) = <<>>
      BY <1>4, SubSeqEmpty
    <2>2. O(0) = {} /\ GramsOver(fs, {}) = {}
      BY DEF GramsOver
    <2>3. Makes(<<>>, {}, fs, mask)
      BY NoGrams
    <2> QED BY <2>1, <2>2, <2>3, FlattenNone
  <1>6. ASSUME NEW k \in Nat, k \in T PROVE k + 1 \in T
    <2> SUFFICES ASSUME k + 1 <= n
                 PROVE  Makes(FlattenSeq(Q(k + 1)), GramsOver(fs, O(k + 1)), fs, mask)
      OBVIOUS
    <2> DEFINE q == Q(k)
               x == g[k + 1]
               C == GramsOver(fs, O(k))
               D == GramsOver(fs, {M[k + 1]})
    <2>1. q \in Seq(S) /\ x \in S /\ Q(k + 1) = Append(q, x)
      <3> HIDE DEF S
      <3> QED BY <1>4, PrefixStep
    <2>2. FlattenSeq(Q(k + 1)) = Cat(FlattenSeq(q), x) /\ FlattenSeq(q) \in S
      <3> HIDE DEF q, x
      <3> QED BY <2>1, FlattenLast, FlattenType
    <2>3. k <= n /\ k + 1 \in 1 .. n
      BY <1>1
    <2>4. Makes(FlattenSeq(q), C, fs, mask) /\ Makes(x, D, fs, mask)
      BY <1>3, <1>6, <2>3
    <2>5. O(k + 1) = O(k) \cup {M[k + 1]} /\ M[k + 1] \notin O(k)
      <3>1. 1 .. k + 1 = (1 .. k) \cup {k + 1}
        OBVIOUS
      <3>2. \A m \in 1 .. k : m \in 1 .. n /\ m # k + 1
        BY <1>1, <2>3
      <3> QED BY <1>1, <2>3, <3>1, <3>2
    <2>6. GramsOver(fs, O(k + 1)) = C \cup D /\ C \cap D = {}
      <3> DEFINE A == O(k)
                 t == M[k + 1]
                 B == O(k + 1)
      <3>1. B = A \cup {t} /\ t \notin A
        BY <2>5
      <3> HIDE DEF A, t, B
      <3>2. /\ GramsOver(fs, B) = GramsOver(fs, A) \cup GramsOver(fs, {t})
            /\ GramsOver(fs, A) \cap GramsOver(fs, {t}) = {}
        BY <3>1 DEF GramsOver
      <3> QED BY <3>2 DEF A, t, B
    <2> HIDE DEF q, x, C, D, O, Q
    <2>7. Makes(Cat(FlattenSeq(q), x), C \cup D, fs, mask)
      BY <2>1, <2>2, <2>4, <2>6, MakesBoth DEF S
    <2> QED BY <2>2, <2>6, <2>7
  <1>7. n \in T
    <2> HIDE DEF T
    <2> QED BY <1>1, <1>5, <1>6, SetInduction
  <1>8. Q(n) = g
    BY <1>4, SubSeqFull
  <1>9. Makes(FlattenSeq(g), GramsOver(fs, O(n)), fs, mask)
    <2> HIDE DEF Q, O
    <2> QED BY <1>1, <1>7, <1>8
  <1>10. GramList(fs, ngram, skips, mask) = FlattenSeq(g)
    BY DEF GramList, M, g
  <1> QED BY <1>1, <1>9, <1>10 DEF mask

\* How many grams there are, and how many of each index.
LEMMA Counted ==
  ASSUME NEW bits \in Nat, NEW fs \in Seq(Within(bits)), NEW q \in Seq(Within(bits)),
         NEW offsets, Makes(q, GramsOver(fs, offsets), fs, Pow2[bits] - 1),
         Mask = Pow2[bits] - 1
  PROVE  Followed(Spread(Cat(fs, q), opt.stride), fs, offsets)
  <1> DEFINE W == Within(bits)
             stride == opt.stride
             chosen == GramsOver(fs, offsets)
             index(c) == (Joined(fs, c[2], c[1]) % (Mask + 1)) * stride
             l == Len(fs)
             n == Len(q)
             all == Cat(fs, q)
             features == Spread(all, stride)
             grams == l + 1 .. Len(features)
  <1>1. PICK m : m = Mask
    OBVIOUS
  <1>2. PICK h \in Bijection(1 .. n, chosen) : \A i \in 1 .. n : q[i] = Gram(fs, h[i], m)
    BY <1>1 DEF Makes
  <1>3. /\ h \in [1 .. n -> chosen] /\ \A i, j \in 1 .. n : h[i] = h[j] => i = j
        /\ \A c \in chosen : \E i \in 1 .. n : h[i] = c
    BY <1>2 DEF Bijection, Injection, IsInjective, Surjection
  <1>4. /\ l \in Nat /\ n \in Nat /\ all \in Seq(W) /\ Len(all) = l + n
        /\ \A i \in 1 .. l + n : all[i] = IF i <= l THEN fs[i] ELSE q[i - l]
        /\ DOMAIN fs = 1 .. l
    <2>1. fs \in Seq(W) /\ q \in Seq(W)
      OBVIOUS
    <2> HIDE DEF W
    <2>2. l \in Nat /\ n \in Nat /\ DOMAIN fs = 1 .. l
      BY <2>1
    <2> QED BY <2>1, <2>2, CatProperties
  <1>5. /\ Len(features) = l + n
        /\ \A i \in 1 .. l + n : features[i] = [all[i] EXCEPT !.weight_index = @ * stride]
    <2> HIDE DEF all, W, stride
    <2>1. DOMAIN all = 1 .. l + n
      BY <1>4
    <2> QED BY <1>4, <2>1 DEF Spread
  <1>6. \A i \in DOMAIN fs : features[i] = [fs[i] EXCEPT !.weight_index = @ * stride]
    <2> SUFFICES ASSUME NEW i \in 1 .. l
                 PROVE  features[i] = [fs[i] EXCEPT !.weight_index = @ * stride]
      BY <1>4
    <2> HIDE DEF features, all, l, n, stride
    <2>1. i \in 1 .. l + n /\ i <= l
      BY <1>4
    <2>2. all[i] = fs[i]
      BY <1>4, <2>1
    <2> QED BY <1>5, <2>1, <2>2
  <1>7. ASSUME NEW i \in grams
        PROVE  /\ i - l \in 1 .. n /\ features[i].x = 1
               /\ features[i].weight_index = index(h[i - l])
    <2>1. i \in 1 .. l + n /\ ~(i <= l) /\ i - l \in 1 .. n
      <3> HIDE DEF features, l, n
      <3> QED BY <1>4, <1>5
    <2>2. all[i] = Gram(fs, h[i - l], m)
      <3> HIDE DEF all, l, n
      <3> QED BY <1>2, <1>4, <2>1
    <2> DEFINE v == Joined(fs, h[i - l][2], h[i - l][1]) % (m + 1)
    <2>3. all[i] = [x |-> 1, weight_index |-> v]
      BY <2>2 DEF Gram
    <2>4. index(h[i - l]) = v * stride
      BY <1>1
    <2> HIDE DEF v, all, features, l, n, stride, index
    <2>5. features[i] = [x |-> 1, weight_index |-> v * stride]
      BY <1>5, <2>1, <2>3
    <2> QED BY <2>1, <2>4, <2>5
  <1> HIDE DEF index, features, all, l, n, chosen, stride
  <1>8. Cardinality(chosen) = n
    <2>1. ExistsBijection(1 .. n, chosen)
      BY <1>2 DEF ExistsBijection
    <2> QED BY <1>4, <2>1, FS_CountingElements
  <1>9. Len(features) = l + Cardinality(chosen)
    BY <1>5, <1>8
  <1>10. ASSUME NEW c \in chosen
         PROVE  Cardinality({i \in grams : features[i].weight_index = index(c)})
                  = Cardinality({d \in chosen : index(d) = index(c)})
    <2> DEFINE A == {i \in grams : features[i].weight_index = index(c)}
               B == {d \in chosen : index(d) = index(c)}
               b == [i \in A |-> h[i - l]]
    <2>1. b \in [A -> B]
      BY <1>3, <1>7
    <2>2. \A i, j \in A : b[i] = b[j] => i = j
      <3> SUFFICES ASSUME NEW i \in A, NEW j \in A, h[i - l] = h[j - l] PROVE i = j
        OBVIOUS
      <3>1. i - l \in 1 .. n /\ j - l \in 1 .. n /\ i \in Int /\ j \in Int
        BY <1>7
      <3>2. i - l = j - l
        BY <1>3, <3>1
      <3> QED BY <1>4, <3>1, <3>2
    <2>3. ASSUME NEW d \in B PROVE \E i \in A : b[i] = d
      <3>1. PICK k \in 1 .. n : h[k] = d
        BY <1>3
      <3>2. l + k \in grams /\ (l + k) - l = k
        BY <1>4, <1>5
      <3>3. features[l + k].weight_index = index(d)
        BY <1>7, <3>1, <3>2
      <3>4. l + k \in A
        BY <3>2, <3>3
      <3> QED BY <3>1, <3>2, <3>4
    <2>4. IsFiniteSet(A)
      <3>1. IsFiniteSet(grams)
        <4>1. l + 1 \in Int /\ Len(features) \in Int
          BY <1>4, <1>5
        <4> QED BY <4>1, FS_Interval
      <3> QED BY <3>1, FS_Subset
    <2> HIDE DEF A, B, b
    <2>5. b \in Bijection(A, B)
      BY <2>1, <2>2, <2>3 DEF Bijection, Injection, IsInjective, Surjection
    <2>6. ExistsBijection(A, B)
      BY <2>5 DEF ExistsBijection
    <2>7. Cardinality(A) = Cardinality(B)
      BY <2>4, <2>6, FS_Bijection
    <2> QED BY <2>7 DEF A, B
  <1> QED BY <1>6, <1>7, <1>9, <1>10
          DEF Followed, index, chosen, stride, l, features, all

\* Features spread by a stride of 1.
LEMMA NotSpread ==
  ASSUME NEW bits \in Nat, NEW fs \in Seq(Within(bits))
  PROVE  Spread(fs, 1) = fs
  <1> DEFINE W == Within(bits)
  <1>1. fs \in Seq(W)
    OBVIOUS
  <1>2. \A f \in W : [f EXCEPT !.weight_index = @ * 1] = f
    <2> SUFFICES ASSUME NEW f \in W PROVE [f EXCEPT !.weight_index = @ * 1] = f
      OBVIOUS
    <2>1. Pow2[bits] - 1 \in Int
      BY Pow2Step
    <2>2. f = [x |-> f.x, weight_index |-> f.weight_index] /\ f.weight_index \in Int
      BY <2>1 DEF Within
    <2>3. f.weight_index * 1 = f.weight_index
      BY <2>2
    <2> HIDE DEF W
    <2> QED BY <2>2, <2>3
  <1> HIDE DEF W
  <1>3. fs = [i \in DOMAIN fs |-> fs[i]] /\ \A i \in DOMAIN fs : fs[i] \in W
    BY <1>1
  <1>4. \A i \in DOMAIN fs : [fs[i] EXCEPT !.weight_index = @ * 1] = fs[i]
    BY <1>2, <1>3
  <1> QED BY <1>3, <1>4 DEF Spread

\* What a namespace that is not ignored holds in the end: its words and their grams.
LEMMA GramsDelivered ==
  ASSUME NEW bits \in Nat, NEW e \in Filled(bits), NEW o \in Session,
         NEW ns \in ToSet(Made(e, o, Pow2[bits] - 1).indices), ns # ConstantNamespace
  PROVE  LET fs == e.atomics[ns]
             q  == GramList(fs, o.ngram, o.skips, Pow2[bits] - 1)
         IN  /\ fs \in Seq(Within(bits)) /\ q \in Seq(Within(bits))
             /\ Made(e, o, Pow2[bits] - 1).atomics[ns] = Spread(Cat(fs, q), o.stride)
  <1> DEFINE mask == Pow2[bits] - 1
             W == Within(bits)
             g == Grammed(e, o, mask)
             d == DropIgnored(g, o.ignore)
             w == Whole(g, o, mask)
             x == Widened(g, o, mask)
             r == Made(e, o, mask)
             fs == e.atomics[ns]
             q == GramList(fs, o.ngram, o.skips, mask)
  <1>1. o.stride \in Nat \ {0} /\ o.ngram \in Nat \ {0} /\ o.skips \in Nat
    BY DEF Session
  <1>2. Arranged(g, W) /\ g.atomics[ConstantNamespace] = <<>> /\ Kin(g, e)
    BY GrammedArranged
  <1>3. r.indices = x.indices /\ r.atomics = x.atomics
    <2>1. Kin(g, g)
      BY <1>2 DEF Arranged
    <2>2. r = With(x, x.indices, x.atomics, Subsets(g, x, o, mask))
      BY <2>1, SetUp DEF Made
    <2> HIDE DEF r, x
    <2> QED BY <2>2, WithFields
  <1>4. ns \in ToSet(x.indices)
    BY <1>3
  <1>5. Arranged(d, W) /\ d.atomics[ConstantNamespace] = <<>>
    <2> HIDE DEF g, W
    <2> QED BY <1>2, LeftArranged
  <1>6. Arranged(w, W)
    <2> HIDE DEF g
    <2> QED BY <1>2, WholeArranged DEF W
  <1>7. /\ ns \in ToSet(w.indices) /\ w.atomics[ns] \in Seq(W)
        /\ x.atomics[ns] = Spread(w.atomics[ns], o.stride)
    <2>1. /\ Kin(w, w) /\ w.indices \in Seq(Namespaces) /\ w.atomics \in [Namespaces -> Seq(W)]
      BY <1>6 DEF Arranged
    <2>2. x = IF o.stride = 1 THEN w ELSE Strided(w, o.stride)
      BY DEF Widened
    <2> HIDE DEF w, x, W
    <2>3. x.indices = w.indices
          /\ (o.stride # 1 => x.atomics = SpreadAtomics(w, o.stride))
          /\ (o.stride = 1 => x.atomics = w.atomics)
      BY <2>1, <2>2, StrideMade, WithFields
    <2>4. ns \in Namespaces
      BY <1>4, <2>1, <2>3 DEF ToSet
    <2>5. w.atomics[ns] \in Seq(W) /\ DOMAIN w.atomics = Namespaces
      BY <2>1, <2>4
    <2>6. Spread(w.atomics[ns], 1) = w.atomics[ns]
      BY <2>5, NotSpread DEF W
    <2> QED BY <1>4, <2>3, <2>4, <2>5, <2>6 DEF SpreadAtomics
  <1>8. ns \in ToSet(d.indices) /\ w.atomics[ns] = d.atomics[ns]
    <2>1. w = IF o.add_constant THEN AddConstant(d, mask) ELSE d
      BY DEF Whole
    <2>2. Kin(d, d) /\ d.indices \in Seq(Namespaces) /\ d.atomics \in [Namespaces -> Seq(W)]
      BY <1>5 DEF Arranged
    <2> HIDE DEF w, d, mask, W
    <2>3. CASE ~o.add_constant
      BY <1>7, <2>1, <2>3
    <2>4. CASE o.add_constant
      <3>1. /\ w.indices = Append(d.indices, ConstantNamespace)
            /\ w.atomics = ConstantAtomics(d, mask)
        <4> DEFINE more == Append(d.indices, ConstantNamespace)
                   f == ConstantAtomics(d, mask)
        <4>1. w = With(d, more, f, d.subsets)
          BY <2>1, <2>2, <2>4, ConstantMade
        <4> HIDE DEF more, f
        <4>2. w.indices = more /\ w.atomics = f
          BY <4>1, WithFields
        <4> QED BY <4>2 DEF more, f
      <3>2. ToSet(w.indices) = ToSet(d.indices) \cup {ConstantNamespace}
        BY <2>2, <3>1, AppendToSet, LineAssumption
      <3> QED BY <1>7, <3>1, <3>2 DEF ConstantAtomics
    <2> QED BY <2>3, <2>4
  <1>9. ns \in ToSet(g.indices) /\ d.atomics[ns] = g.atomics[ns]
    <2>1. Kin(g, g) /\ g.indices \in Seq(Namespaces) /\ DOMAIN g.atomics = Namespaces
      BY <1>2 DEF Arranged
    <2> HIDE DEF g
    <2>2. /\ d.indices = NotIgnored(g.indices, o.ignore)
          /\ d.atomics = LeftAtomics(g, o.ignore)
      BY <2>1, LeftMade, WithFields
    <2>3. ToSet(d.indices) = ToSet(g.indices) \ o.ignore
      BY <2>1, <2>2, NamespacesLeft
    <2>4. ns \in Namespaces /\ ns \in ToSet(g.indices) /\ ns \notin o.ignore
      <3> HIDE DEF d
      <3> QED BY <1>8, <2>1, <2>3 DEF ToSet
    <2> QED BY <2>1, <2>2, <2>4 DEF LeftAtomics
  <1>10. e.indices \in Seq(Namespaces) /\ e.atomics \in [Namespaces -> Seq(W)]
    BY DEF Filled, Slots
  <1>11. ns \in ToSet(e.indices) /\ g.atomics[ns] = Cat(fs, q)
    <2>1. CASE o.ngram > 1
      <3>1. g.indices = e.indices /\ g.atomics = GramAtomics(e, o.ngram, o.skips, mask)
        BY <2>1, FilledKin, GramsMade, WithFields DEF Grammed
      <3> HIDE DEF g, W
      <3>2. ns \in Namespaces /\ ns \in ToSet(e.indices)
        BY <1>9, <1>10, <3>1 DEF ToSet
      <3> QED BY <1>10, <3>1, <3>2 DEF GramAtomics, Cat
    <2>2. CASE ~(o.ngram > 1)
      <3>1. g = e
        BY <2>2 DEF Grammed
      <3>2. q = <<>>
        <4>1. o.ngram = 1
          BY <1>1, <2>2
        <4>2. [n \in 1 .. 1 - 1 |-> GramMasks(n, o.skips, <<0>>, 0)] = <<>>
          OBVIOUS
        <4>3. MasksFor(1, o.skips) = <<>>
          BY <4>2, FlattenNone DEF MasksFor
        <4>4. [m \in DOMAIN <<>> |-> GramsOf(fs, (<<>>)[m], mask)] = <<>>
          OBVIOUS
        <4> QED BY <4>1, <4>3, <4>4, FlattenNone DEF GramList
      <3>3. ns \in ToSet(e.indices) /\ ns \in Namespaces
        <4> HIDE DEF g, W
        <4> QED BY <1>9, <1>10, <3>1 DEF ToSet
      <3>4. fs \in Seq(W)
        BY <1>10, <3>3
      <3>5. Cat(fs, <<>>) = fs
        <4> HIDE DEF fs, W
        <4> QED BY <3>4, ConcatEmptySeq DEF Cat
      <3> QED BY <3>1, <3>2, <3>3, <3>5
    <2> QED BY <2>1, <2>2
  <1>12. fs \in Seq(W) /\ q \in Seq(W)
    <2>1. ns \in Namespaces
      BY <1>10, <1>11 DEF ToSet
    <2>2. fs \in Seq(W)
      BY <1>10, <2>1
    <2> HIDE DEF fs
    <2> QED BY <1>1, <2>2, GramListTyped DEF W
  <1>13. r.atomics[ns] = Spread(Cat(fs, q), o.stride)
    <2> HIDE DEF g, d, w, x, r, fs, q
    <2> QED BY <1>3, <1>7, <1>8, <1>9, <1>11
  <1> QED BY <1>12, <1>13

-----------------------------------------------------------------------------
(* What the learner leaves in a slot                                       *)

LEMMA ClearedBlank ==
  ASSUME NEW a, Tidy(a)
  PROVE  /\ Clear(a) \in Blank /\ ~Clear(a).sorted
         /\ \A s \in BOOLEAN : /\ [Clear(a) EXCEPT !.sorted = s] \in Blank
                               /\ [Clear(a) EXCEPT !.sorted = s].sorted = s
  <1> DEFINE c == Clear(a)
             f == [ns \in DOMAIN a.atomics |->
                     IF ns \in ToSet(a.indices) THEN <<>> ELSE a.atomics[ns]]
             u == [ns \in DOMAIN a.subsets |->
                     IF ns \in ToSet(a.indices) THEN <<>> ELSE a.subsets[ns]]
  <1>1. c = [a EXCEPT !.atomics = f, !.subsets = u, !.indices = <<>>, !.tag = <<>>,
                      !.sorted = FALSE]
    BY DEF Clear
  <1>2. a = [label |-> a.label, weight |-> a.weight, initial |-> a.initial, tag |-> a.tag,
             indices |-> a.indices, atomics |-> a.atomics, subsets |-> a.subsets,
             sorted |-> a.sorted]
    BY DEF Tidy, Kin, With
  <1>3. f = [ns \in Namespaces |-> <<>>] /\ u = [ns \in Namespaces |-> <<>>]
    <2>1. DOMAIN a.atomics = Namespaces /\ DOMAIN a.subsets = Namespaces
      BY DEF Tidy
    <2>2. \A ns \in Namespaces : f[ns] = <<>> /\ u[ns] = <<>>
      BY <2>1 DEF Tidy
    <2> QED BY <2>1, <2>2
  <1> HIDE DEF c, f, u
  <1>4. c = [label |-> a.label, weight |-> a.weight, initial |-> a.initial, tag |-> <<>>,
             indices |-> <<>>, atomics |-> f, subsets |-> u, sorted |-> FALSE]
    BY <1>1, <1>2
  <1>5. /\ <<>> \in Seq(Int) /\ f \in [Namespaces -> {<<>>}] /\ u \in [Namespaces -> {<<>>}]
        /\ a.label \in Int /\ a.weight \in Int /\ a.initial \in Int
    BY <1>3 DEF Tidy
  <1>6. c \in Blank /\ ~c.sorted
    <2>1. c \in Labelled
      BY <1>4, <1>5 DEF Labelled
    <2> QED BY <1>4, <2>1 DEF Blank
  <1>7. ASSUME NEW s \in BOOLEAN
        PROVE  [c EXCEPT !.sorted = s] \in Blank /\ [c EXCEPT !.sorted = s].sorted = s
    <2> DEFINE d == [c EXCEPT !.sorted = s]
    <2>1. d = [c EXCEPT !.sorted = s]
      OBVIOUS
    <2> HIDE DEF d
    <2>2. d = [label |-> a.label, weight |-> a.weight, initial |-> a.initial, tag |-> <<>>,
               indices |-> <<>>, atomics |-> f, subsets |-> u, sorted |-> s]
      BY <1>4, <2>1
    <2>3. d \in Labelled
      BY <1>5, <2>2 DEF Labelled
    <2>4. d \in Blank /\ d.sorted = s
      BY <2>2, <2>3 DEF Blank
    <2> QED BY <2>1, <2>4
  <1> QED BY <1>6, <1>7 DEF c

LEMMA EmptyTidy == Tidy(EmptySlot)
  <1>1. FltMax \in Int
    BY LineAssumption
  <1>2. Kin(EmptySlot, EmptySlot)
    BY DEF EmptySlot, Kin, With
  <1> QED BY <1>1, <1>2 DEF EmptySlot, Tidy

-----------------------------------------------------------------------------
(* The cells of an example in a cache                                      *)

\* An example as it is written, and what there is for its namespaces.
Enc(e) == FlattenSeq([i \in DOMAIN CacheExample(e) |-> CacheExample(e)[i].cells])
NsCells(e) ==
  [j \in 1 .. Len(e.indices) |-> OutputFeatures(e.indices[j], e.atomics[e.indices[j]]).cells]
NsFrom(e, j) == FlatFrom(NsCells(e), j)

\* The features of an example can be cached.
LEMMA Cacheable ==
  ASSUME NEW c \in 0 .. MaxBits, NEW e \in Filled(c), NEW ns \in Namespaces
  PROVE  e.atomics[ns] \in Seq(CachedFeature)
  <1> DEFINE P == Pow2[c]
             Q == Pow2[MaxBits]
  <1>1. MaxBits \in Nat /\ c \in Nat
    BY WidthAssumption
  <1>2. P \in Nat /\ Q \in Nat /\ P <= Q
    <2>1. c <= MaxBits
      BY <1>1
    <2>2. Pow2[c] \in Nat /\ Pow2[MaxBits] \in Nat
      BY <1>1, Pow2Step
    <2> QED BY <1>1, <2>1, <2>2, Pow2Grows
  <1>3. 0 .. P - 1 \subseteq 0 .. Q - 1
    <2> HIDE DEF P, Q
    <2> QED BY <1>2
  <1>4. Within(c) \subseteq CachedFeature
    BY <1>3 DEF Within, CachedFeature, Indices
  <1>5. e.atomics[ns] \in Seq(Within(c))
    BY DEF Filled, Slots
  <1> HIDE DEF P, Q
  <1>6. Seq(Within(c)) \subseteq Seq(CachedFeature)
    BY <1>4, SeqMonotonic
  <1> QED BY <1>5, <1>6

\* What a slot has for the cache, in the types of the cells.
LEMMA FilledFields ==
  ASSUME NEW c \in Nat, NEW e \in Filled(c)
  PROVE  /\ e.label \in Int /\ e.weight \in Int /\ e.tag \in Seq(Int)
         /\ e.indices \in Seq(Namespaces) /\ Len(e.indices) \in Nat
         /\ \A j \in 1 .. Len(e.indices) : e.indices[j] \in Namespaces /\ e.indices[j] \in Int
  <1>1. /\ e.label \in Int /\ e.weight \in Int /\ e.tag \in Seq(Int)
        /\ e.indices \in Seq(Namespaces)
    BY DEF Filled, Slots
  <1>2. Namespaces \subseteq Int
    BY LineAssumption
  <1>3. Len(e.indices) \in Nat /\ \A j \in 1 .. Len(e.indices) : e.indices[j] \in Namespaces
    BY <1>1
  <1> QED BY <1>1, <1>2, <1>3

\* A namespace is written as its index, the length of its body, and the body.
LEMMA NamespaceCells ==
  ASSUME NEW c \in 0 .. MaxBits, NEW e \in Filled(c)
  PROVE  /\ NsCells(e) \in Seq(Seq(Int)) /\ Len(NsCells(e)) = Len(e.indices)
         /\ \A j \in 1 .. Len(e.indices) :
              LET body == Body(e.atomics[e.indices[j]])
              IN  /\ body \in Seq(Int) /\ <<e.indices[j], Len(body)>> \in Seq(Int)
                  /\ NsCells(e)[j] = Cat(<<e.indices[j], Len(body)>>, body)
  <1> DEFINE n == Len(e.indices)
             B(j) == Body(e.atomics[e.indices[j]])
             N == NsCells(e)
             H(j) == <<e.indices[j], Len(B(j))>>
  <1>1. n \in Nat /\ \A j \in 1 .. n : e.indices[j] \in Namespaces /\ e.indices[j] \in Int
    <2>1. c \in Nat
      BY WidthAssumption
    <2> QED BY <2>1, FilledFields
  <1>2. ASSUME NEW j \in 1 .. n PROVE B(j) \in Seq(Int)
    <2> DEFINE ns == e.indices[j]
    <2>1. ns \in Namespaces
      BY <1>1
    <2> HIDE DEF ns
    <2>2. e.atomics[ns] \in Seq(CachedFeature)
      BY <2>1, Cacheable
    <2> QED BY <2>2, BodyFits DEF ns
  <1>3. \A j \in 1 .. n : N[j] = Cat(H(j), B(j))
    BY DEF NsCells, OutputFeatures, Cat
  <1>4. N = [j \in 1 .. n |-> N[j]]
    BY DEF NsCells
  <1> HIDE DEF B, N, n
  <1>5. ASSUME NEW j \in 1 .. n PROVE H(j) \in Seq(Int) /\ Cat(H(j), B(j)) \in Seq(Int)
    <2>1. H(j) \in Seq(Int) /\ B(j) \in Seq(Int)
      BY <1>1, <1>2
    <2> HIDE DEF H
    <2> QED BY <2>1, Grouped
  <1> HIDE DEF H
  <1>6. N \in [1 .. n -> Seq(Int)]
    BY <1>3, <1>4, <1>5
  <1>7. N \in Seq(Seq(Int)) /\ Len(N) = n
    BY <1>1, <1>6
  <1> QED BY <1>2, <1>3, <1>5, <1>7 DEF N, n, B, H

\* So the cells from a namespace on begin with it.
LEMMA NamespacesFrom ==
  ASSUME NEW c \in 0 .. MaxBits, NEW e \in Filled(c)
  PROVE  /\ NsFrom(e, Len(e.indices) + 1) = <<>>
         /\ \A j \in 1 .. Len(e.indices) + 1 : NsFrom(e, j) \in Seq(Int)
         /\ \A j \in 1 .. Len(e.indices) : \A later \in Seq(Int) :
              LET body == Body(e.atomics[e.indices[j]])
              IN  Cat(NsFrom(e, j), later) =
                    Cat(<<e.indices[j], Len(body)>>, Cat(body, Cat(NsFrom(e, j + 1), later)))
  <1> DEFINE n == Len(e.indices)
             B(j) == Body(e.atomics[e.indices[j]])
             H(j) == <<e.indices[j], Len(B(j))>>
             N == NsCells(e)
  <1>1. /\ N \in Seq(Seq(Int)) /\ Len(N) = n
        /\ \A j \in 1 .. n : B(j) \in Seq(Int) /\ H(j) \in Seq(Int) /\ N[j] = Cat(H(j), B(j))
    BY NamespaceCells
  <1>2. n \in Nat
    BY <1>1
  <1> HIDE DEF N, B, H, n
  <1>3. FlatFrom(N, n + 1) = <<>> /\ \A j \in 1 .. n + 1 : FlatFrom(N, j) \in Seq(Int)
    BY <1>1, FlatFromEnd, FlatFromType
  <1>4. ASSUME NEW j \in 1 .. n, NEW later \in Seq(Int)
        PROVE  Cat(FlatFrom(N, j), later) = Cat(H(j), Cat(B(j), Cat(FlatFrom(N, j + 1), later)))
    <2> DEFINE r == FlatFrom(N, j + 1)
               a == H(j)
               b == B(j)
    <2>1. r \in Seq(Int) /\ a \in Seq(Int) /\ b \in Seq(Int)
      <3>1. j + 1 \in 1 .. n + 1
        BY <1>2
      <3> QED BY <1>1, <1>3, <3>1
    <2>2. FlatFrom(N, j) = Cat(N[j], r)
      BY <1>1, FlatFromFirst DEF Cat
    <2>3. N[j] = Cat(a, b)
      BY <1>1
    <2> HIDE DEF r, a, b
    <2>4. Cat(Cat(Cat(a, b), r), later) = Cat(a, Cat(b, Cat(r, later)))
      <3>1. Cat(Cat(Cat(a, b), r), later) = Cat(Cat(a, b), Cat(r, later))
        BY <2>1, CatAssociative
      <3>2. Cat(r, later) \in Seq(Int)
        BY <2>1, CatAssociative
      <3> QED BY <2>1, <3>1, <3>2, CatAssociative
    <2> QED BY <2>2, <2>3, <2>4 DEF r, a, b
  <1> QED BY <1>3, <1>4 DEF NsFrom, N, n, B, H

\* The pieces of an example.
LEMMA Pieces ==
  ASSUME NEW c \in 0 .. MaxBits, NEW e \in Filled(c)
  PROVE  LET n == Len(e.indices)
             P == CacheExample(e)
         IN  /\ n \in Nat /\ DOMAIN P = 1 .. n + 3 /\ Len(P) = n + 3
             /\ P = [i \in 1 .. n + 3 |-> P[i]]
             /\ P[1].cells = <<e.label, e.weight>>
             /\ P[2].cells = Cat(<<Len(e.tag)>>, e.tag) /\ P[3].cells = <<n>>
             /\ P[1] = CacheLabel(e) /\ P[2] = CacheTag(e) /\ P[3] = OutputByte(n)
             /\ \A j \in 1 .. n :
                  P[j + 3] = OutputFeatures(e.indices[j], e.atomics[e.indices[j]])
  <1> DEFINE n == Len(e.indices)
             O(j) == OutputFeatures(e.indices[j], e.atomics[e.indices[j]])
             T == [i \in 1 .. n |-> O(i)]
             D == <<CacheTag(e), OutputByte(n)>>
             A == <<CacheLabel(e)>>
             U == {CacheLabel(e), CacheTag(e), OutputByte(n)} \cup {O(j) : j \in 1 .. n}
             P == CacheExample(e)
  <1>1. n \in Nat
    <2>1. c \in Nat
      BY WidthAssumption
    <2> QED BY <2>1, FilledFields
  <1> DEFINE E == Cat(D, T)
  <1>2. P = Cat(A, E)
    BY DEF CacheExample, CacheFeatures, Cat
  <1>3. /\ A \in Seq(U) /\ Len(A) = 1 /\ A[1] = CacheLabel(e)
        /\ D \in Seq(U) /\ Len(D) = 2 /\ D[1] = CacheTag(e) /\ D[2] = OutputByte(n)
    <2> DEFINE a == CacheLabel(e)
               d == CacheTag(e)
               f == OutputByte(n)
    <2>1. a \in U /\ d \in U /\ f \in U
      OBVIOUS
    <2> HIDE DEF a, d, f, U
    <2> QED BY <2>1 DEF a, d, f
  <1>4. T \in Seq(U) /\ Len(T) = n /\ \A j \in 1 .. n : T[j] = O(j)
    <2>1. T \in [1 .. n -> U] /\ \A j \in 1 .. n : T[j] = O(j)
      OBVIOUS
    <2> HIDE DEF U, O, T, n
    <2> QED BY <1>1, <2>1
  <1> HIDE DEF U, T, D, A, P, O, n
  <1>6. /\ E \in Seq(U) /\ Len(E) = 2 + n
        /\ \A i \in 1 .. 2 + n : E[i] = IF i <= 2 THEN D[i] ELSE T[i - 2]
    <2>1. /\ E \in Seq(U) /\ Len(E) = Len(D) + Len(T)
          /\ \A i \in 1 .. Len(D) + Len(T) :
               E[i] = IF i <= Len(D) THEN D[i] ELSE T[i - Len(D)]
      BY <1>3, <1>4, CatProperties
    <2> HIDE DEF E
    <2> QED BY <1>3, <1>4, <2>1
  <1> HIDE DEF E
  <1>8. /\ Len(P) = n + 3
        /\ \A i \in 1 .. n + 3 : P[i] = IF i <= 1 THEN A[i] ELSE E[i - 1]
    <2> DEFINE Q == Cat(A, E)
    <2>1. /\ Q \in Seq(U) /\ Len(Q) = Len(A) + Len(E)
          /\ \A i \in 1 .. Len(A) + Len(E) :
               Q[i] = IF i <= Len(A) THEN A[i] ELSE E[i - Len(A)]
      BY <1>3, <1>6, CatProperties
    <2> HIDE DEF Q
    <2>2. Len(A) + Len(E) = n + 3 /\ Len(A) = 1
      BY <1>1, <1>3, <1>6
    <2>3. /\ Len(Q) = n + 3
          /\ \A i \in 1 .. n + 3 : Q[i] = IF i <= 1 THEN A[i] ELSE E[i - 1]
      BY <2>1, <2>2
    <2> QED BY <1>2, <2>3 DEF Q
  <1>12. DOMAIN P = 1 .. n + 3 /\ P = [i \in 1 .. n + 3 |-> P[i]]
    <2>1. Cat(A, E) \in Seq(U)
      BY <1>3, <1>6, CatProperties
    <2>2. P \in Seq(U)
      BY <1>2, <2>1
    <2>3. P \in [1 .. Len(P) -> U]
      BY <2>2
    <2> QED BY <1>8, <2>3
  <1>9. P[1] = CacheLabel(e) /\ P[2] = CacheTag(e) /\ P[3] = OutputByte(n)
    <2>1. 1 \in 1 .. n + 3 /\ 2 \in 1 .. n + 3 /\ 3 \in 1 .. n + 3
          /\ 1 \in 1 .. 2 + n /\ 2 \in 1 .. 2 + n
      BY <1>1
    <2>2. P[1] = A[1] /\ P[2] = E[1] /\ P[3] = E[2]
      BY <1>8, <2>1
    <2>3. E[1] = D[1] /\ E[2] = D[2]
      BY <1>6, <2>1
    <2> QED BY <1>3, <2>2, <2>3
  <1>10. ASSUME NEW j \in 1 .. n PROVE P[j + 3] = O(j)
    <2>1. j + 3 \in 1 .. n + 3 /\ ~(j + 3 <= 1) /\ (j + 3) - 1 = j + 2
          /\ j + 2 \in 1 .. 2 + n /\ ~(j + 2 <= 2) /\ (j + 2) - 2 = j
      BY <1>1
    <2>2. P[j + 3] = E[j + 2]
      BY <1>8, <2>1
    <2>3. E[j + 2] = T[j]
      BY <1>6, <2>1
    <2> QED BY <1>4, <2>2, <2>3
  <1>13. /\ P[1].cells = <<e.label, e.weight>>
         /\ P[2].cells = Cat(<<Len(e.tag)>>, e.tag) /\ P[3].cells = <<n>>
    BY <1>9 DEF CacheLabel, CacheTag, OutputByte, Cat
  <1> QED BY <1>1, <1>8, <1>9, <1>10, <1>12, <1>13 DEF P, n, O

\* The pieces of an example are its label, its tag behind the length of it, the
\* number of its namespaces, and those.
LEMMA EncParts ==
  ASSUME NEW c \in 0 .. MaxBits, NEW e \in Filled(c)
  PROVE  /\ Enc(e) \in Seq(Int)
         /\ Enc(e) = Cat(<<e.label, e.weight>>,
                         Cat(<<Len(e.tag)>>,
                             Cat(e.tag, Cat(<<Len(e.indices)>>, NsFrom(e, 1)))))
  <1> DEFINE n == Len(e.indices)
             P == CacheExample(e)
             C == [i \in DOMAIN P |-> P[i].cells]
             a == <<e.label, e.weight>>
             t == e.tag
             l == <<Len(t)>>
             m == <<n>>
             N == NsCells(e)
  <1>1. /\ n \in Nat /\ DOMAIN P = 1 .. n + 3
        /\ P[1].cells = a /\ P[2].cells = Cat(l, t) /\ P[3].cells = m
        /\ \A j \in 1 .. n : P[j + 3] = OutputFeatures(e.indices[j], e.atomics[e.indices[j]])
    BY Pieces
  <1>2. N \in Seq(Seq(Int)) /\ Len(N) = n /\ \A j \in 1 .. n : N[j] = P[j + 3].cells
    <2>1. N \in Seq(Seq(Int)) /\ Len(N) = n
      BY NamespaceCells
    <2>2. ASSUME NEW j \in 1 .. n PROVE N[j] = P[j + 3].cells
      BY <1>1 DEF NsCells
    <2> QED BY <2>1, <2>2
  <1>3. a \in Seq(Int) /\ t \in Seq(Int) /\ l \in Seq(Int) /\ m \in Seq(Int)
    <2>1. c \in Nat
      BY WidthAssumption
    <2>2. e.label \in Int /\ e.weight \in Int /\ e.tag \in Seq(Int)
      BY <2>1, FilledFields
    <2> QED BY <1>1, <2>2
  <1> HIDE DEF P, n, a, t, l, m, N
  <1>4. /\ DOMAIN C = 1 .. n + 3 /\ C = [i \in 1 .. n + 3 |-> C[i]]
        /\ C[1] = a /\ C[2] = Cat(l, t) /\ C[3] = m /\ \A j \in 1 .. n : C[j + 3] = N[j]
    <2>1. C = [i \in 1 .. n + 3 |-> P[i].cells]
      BY <1>1
    <2>2. 1 \in 1 .. n + 3 /\ 2 \in 1 .. n + 3 /\ 3 \in 1 .. n + 3
          /\ \A j \in 1 .. n : j + 3 \in 1 .. n + 3
      BY <1>1
    <2> QED BY <1>1, <1>2, <2>1, <2>2
  <1> HIDE DEF C
  <1>5. Cat(l, t) \in Seq(Int)
    BY <1>3, CatProperties
  <1>6. ASSUME NEW i \in 1 .. n + 3 PROVE C[i] \in Seq(Int)
    <2>1. CASE i <= 3
      <3>1. i = 1 \/ i = 2 \/ i = 3
        BY <1>1, <2>1
      <3> QED BY <1>3, <1>4, <1>5, <3>1
    <2>2. CASE i > 3
      <3>1. i - 3 \in 1 .. n /\ (i - 3) + 3 = i
        BY <1>1, <2>2
      <3>2. C[(i - 3) + 3] = N[i - 3]
        BY <1>4, <3>1
      <3>3. N[i - 3] \in Seq(Int)
        BY <1>2, <3>1
      <3> QED BY <3>1, <3>2, <3>3
    <2> QED BY <2>1, <2>2
  <1>7. C \in Seq(Seq(Int)) /\ Len(C) = n + 3
    <2> DEFINE W == Seq(Int)
    <2>1. C \in [1 .. n + 3 -> W] /\ n + 3 \in Nat
      BY <1>1, <1>4, <1>6
    <2> HIDE DEF W
    <2>2. C \in Seq(W) /\ Len(C) = n + 3
      BY <2>1
    <2> QED BY <2>2 DEF W
  <1>8. FlatFrom(C, 1) = FlattenSeq(C)
    <2>1. SubSeq(C, 1, Len(C)) = C
      BY <1>7, SubSeqFull
    <2> QED BY <2>1 DEF FlatFrom
  <1>9. FlatFrom(C, 4) = FlatFrom(N, 1)
    <2> DEFINE S == SubSeq(C, 4, Len(C))
    <2>1. S \in Seq(Seq(Int)) /\ Len(S) = n /\ \A j \in 1 .. n : S[j] = C[j + 3]
      <3>1. 3 \in 0 .. Len(C)
        BY <1>1, <1>7
      <3>2. /\ SubSeq(C, 3 + 1, Len(C)) \in Seq(Seq(Int))
            /\ Len(SubSeq(C, 3 + 1, Len(C))) = Len(C) - 3
            /\ \A j \in 1 .. Len(C) - 3 : SubSeq(C, 3 + 1, Len(C))[j] = C[3 + j]
        BY <1>7, <3>1, SuffixProperties
      <3>3. Len(C) - 3 = n /\ 3 + 1 = 4
        BY <1>1, <1>7
      <3>4. \A j \in 1 .. n : 3 + j = j + 3
        OBVIOUS
      <3> HIDE DEF S
      <3>5. SubSeq(C, 3 + 1, Len(C)) = S
        BY <3>3 DEF S
      <3> QED BY <3>2, <3>3, <3>4, <3>5
    <2> HIDE DEF S
    <2>2. S = N
      BY <1>2, <1>4, <2>1, SeqEqual
    <2>3. SubSeq(N, 1, Len(N)) = N
      BY <1>2, SubSeqFull
    <2> QED BY <2>2, <2>3 DEF FlatFrom, S
  <1>10. /\ FlatFrom(C, 1) = Cat(C[1], FlatFrom(C, 2)) /\ FlatFrom(C, 2) = Cat(C[2], FlatFrom(C, 3))
         /\ FlatFrom(C, 3) = Cat(C[3], FlatFrom(C, 4))
    <2>1. 1 \in 1 .. Len(C) /\ 2 \in 1 .. Len(C) /\ 3 \in 1 .. Len(C)
      BY <1>1, <1>7
    <2>2. \A i \in 1 .. Len(C) : FlatFrom(C, i) = Cat(C[i], FlatFrom(C, i + 1))
      BY <1>7, FlatFromFirst DEF Cat
    <2> QED BY <2>1, <2>2
  <1> DEFINE r == FlatFrom(N, 1)
  <1>11. r \in Seq(Int)
    <2>1. 1 \in 1 .. Len(N) + 1
      BY <1>1, <1>2
    <2> QED BY <1>2, <2>1, FlatFromType
  <1> HIDE DEF r
  <1>12. FlattenSeq(C) = Cat(a, Cat(Cat(l, t), Cat(m, r)))
    BY <1>4, <1>8, <1>9, <1>10 DEF r
  <1>13. Cat(m, r) \in Seq(Int)
    BY <1>3, <1>11, CatProperties
  <1>14. Cat(Cat(l, t), Cat(m, r)) = Cat(l, Cat(t, Cat(m, r)))
    BY <1>3, <1>13, CatAssociative
  <1>15. Cat(a, Cat(l, Cat(t, Cat(m, r)))) \in Seq(Int)
    BY <1>3, <1>13, CatProperties
  <1>16. Enc(e) = Cat(a, Cat(l, Cat(t, Cat(m, r))))
    BY <1>12, <1>14 DEF Enc, C, P
  <1> QED BY <1>15, <1>16 DEF a, l, t, m, r, n, N, NsFrom

\* Slots that agree are written alike.
LEMMA EncAgree ==
  ASSUME NEW a, NEW b, Agree(a, b)
  PROVE  CacheExample(a) = CacheExample(b) /\ Enc(a) = Enc(b)
  <1>1. CacheExample(a) = CacheExample(b)
    BY DEF Agree, CacheExample, CacheFeatures, CacheLabel, CacheTag
  <1> QED BY <1>1 DEF Enc
=============================================================================
