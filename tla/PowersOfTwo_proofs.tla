------------------------- MODULE PowersOfTwo_proofs -------------------------
(***************************************************************************)
(* What the proofs about numbers of a given width rest on: induction over  *)
(* the natural numbers, definitions by recursion over them, the powers of  *)
(* two, and division with remainder.                                       *)
(*                                                                         *)
(* The library's induction theorems take an operator; here a set or a      *)
(* function stands for it.                                                 *)
(***************************************************************************)
EXTENDS PowersOfTwo, Sequences, WellFoundedInduction, TLAPS

LEMMA LeastNumber ==
  ASSUME NEW T, T \subseteq Nat, T # {}
  PROVE  \E x \in T : \A y \in T : x <= y
<1>1. IsWellFoundedOn(OpToRel(<, Nat), Nat)
  BY NatLessThanWellFounded
<1>2. PICK x \in T : \A y \in T : ~(<<y, x>> \in OpToRel(<, Nat))
  BY <1>1, WFMin
<1>3. OpToRel(<, Nat) = {ss \in Nat \X Nat : ss[1] < ss[2]}
  BY DEF OpToRel
<1>4. \A y \in T : ~(<<y, x>> \in {ss \in Nat \X Nat : ss[1] < ss[2]})
  BY <1>2, <1>3, Zenon
<1>5. ASSUME NEW y \in T PROVE ~(y < x)
  <2>1. <<y, x>> \in Nat \X Nat /\ <<y, x>>[1] = y /\ <<y, x>>[2] = x
    BY SMT
  <2> DEFINE q == <<y, x>>
  <2> HIDE DEF q
  <2>2. q \in Nat \X Nat /\ q[1] = y /\ q[2] = x /\ ~(q \in {ss \in Nat \X Nat : ss[1] < ss[2]})
    BY <1>4, <2>1, Zenon DEF q
  <2> QED
    BY <2>2
<1> QED
  BY <1>5, SMT

\* Induction, for the numbers that are in a set.
LEMMA Induction ==
  ASSUME NEW S, 0 \in S, \A n \in Nat : n \in S => n + 1 \in S
  PROVE  \A n \in Nat : n \in S
<1> SUFFICES ASSUME Nat \ S # {} PROVE FALSE
  OBVIOUS
<1>1. PICK x \in Nat \ S : \A y \in Nat \ S : x <= y
  BY LeastNumber
<1>2. x - 1 \in Nat /\ x - 1 \notin Nat \ S
  BY <1>1
<1> QED
  BY <1>1, <1>2

\* The same up to a bound.
LEMMA InductionUpTo ==
  ASSUME NEW m \in Nat, NEW S, 0 \in S, \A n \in 0..(m - 1) : n \in S => n + 1 \in S
  PROVE  \A n \in 0..m : n \in S
<1> DEFINE T == {n \in Nat : n <= m => n \in S}
<1>1. 0 \in T
  OBVIOUS
<1>2. ASSUME NEW n \in Nat, n \in T PROVE n + 1 \in T
  BY <1>2
<1> HIDE DEF T
<1>3. \A n \in Nat : n \in T
  BY <1>1, <1>2, Induction
<1> QED
  BY <1>3 DEF T

-----------------------------------------------------------------------------
\* f is defined on D by recursion: f[0] is a, and f[i] is h of i and f[i - 1].
Recursive(f, D, a, h) == f = [i \in D |-> IF i = 0 THEN a ELSE h[<<i, f[i - 1]>>]]

LEMMA RecursionTyped ==
  ASSUME NEW V, NEW a \in V, NEW h \in [Nat \X V -> V], NEW m \in Nat,
         NEW D, 0..m \subseteq D, NEW f, Recursive(f, D, a, h)
  PROVE  \A i \in 0..m : f[i] \in V
<1> DEFINE S == {i \in Nat : f[i] \in V}
<1>1. \A i \in 0..m : f[i] = IF i = 0 THEN a ELSE h[<<i, f[i - 1]>>]
  <2>1. f = [i \in D |-> IF i = 0 THEN a ELSE h[<<i, f[i - 1]>>]]
    BY DEF Recursive
  <2> QED
    BY <2>1, Zenon
<1>2. 0 \in S
  <2>1. f[0] = a
    <3>1. 0 \in 0..m
      OBVIOUS
    <3> QED
      BY <1>1, <3>1, Zenon
  <2> QED
    BY <2>1
<1>3. ASSUME NEW n \in 0..(m - 1), n \in S PROVE n + 1 \in S
  <2>1. n + 1 \in 0..m /\ n + 1 # 0 /\ (n + 1) - 1 = n /\ n + 1 \in Nat
    OBVIOUS
  <2>2. f[n + 1] = h[<<n + 1, f[n]>>]
    BY <1>1, <2>1
  <2>3. <<n + 1, f[n]>> \in Nat \X V
    BY <1>3, <2>1
  <2> QED
    BY <2>1, <2>2, <2>3
<1> HIDE DEF S
<1>4. \A n \in 0..m : n \in S
  BY <1>2, <1>3, InductionUpTo
<1> QED
  BY <1>4 DEF S

LEMMA RecursionUnique ==
  ASSUME NEW a, NEW h, NEW m \in Nat, NEW D, 0..m \subseteq D, NEW E, 0..m \subseteq E,
         NEW f, Recursive(f, D, a, h), NEW g, Recursive(g, E, a, h)
  PROVE  \A i \in 0..m : f[i] = g[i]
<1> DEFINE S == {i \in Nat : f[i] = g[i]}
<1>1. /\ \A i \in 0..m : f[i] = IF i = 0 THEN a ELSE h[<<i, f[i - 1]>>]
      /\ \A i \in 0..m : g[i] = IF i = 0 THEN a ELSE h[<<i, g[i - 1]>>]
  <2>1. /\ f = [i \in D |-> IF i = 0 THEN a ELSE h[<<i, f[i - 1]>>]]
        /\ g = [i \in E |-> IF i = 0 THEN a ELSE h[<<i, g[i - 1]>>]]
    BY DEF Recursive
  <2> QED
    BY <2>1, Zenon
<1>2. 0 \in S
  <2>1. f[0] = a /\ g[0] = a
    <3>1. 0 \in 0..m
      OBVIOUS
    <3> QED
      BY <1>1, <3>1, Zenon
  <2> QED
    BY <2>1
<1>3. ASSUME NEW n \in 0..(m - 1), n \in S PROVE n + 1 \in S
  <2>1. n + 1 \in 0..m /\ n + 1 # 0 /\ (n + 1) - 1 = n /\ n + 1 \in Nat
    OBVIOUS
  <2>2. f[n + 1] = h[<<n + 1, f[n]>>] /\ g[n + 1] = h[<<n + 1, g[n]>>]
    BY <1>1, <2>1
  <2> QED
    BY <1>3, <2>1, <2>2
<1> HIDE DEF S
<1>4. \A n \in 0..m : n \in S
  BY <1>2, <1>3, InductionUpTo
<1> QED
  BY <1>4 DEF S

LEMMA RecursionUpTo ==
  ASSUME NEW a, NEW h, NEW m \in Nat
  PROVE  \E f : Recursive(f, 0..m, a, h)
<1> DEFINE S == {n \in Nat : \E f : Recursive(f, 0..n, a, h)}
<1>1. 0 \in S
  <2> DEFINE f == [i \in 0..0 |-> a]
  <2>1. f = [i \in 0..0 |-> IF i = 0 THEN a ELSE h[<<i, f[i - 1]>>]]
    OBVIOUS
  <2> QED
    BY <2>1 DEF Recursive
<1>2. ASSUME NEW n \in Nat, n \in S PROVE n + 1 \in S
  <2>1. PICK f : Recursive(f, 0..n, a, h)
    BY <1>2
  <2> DEFINE g == [i \in 0..(n + 1) |-> IF i = n + 1 THEN h[<<n + 1, f[n]>>] ELSE f[i]]
  <2>2. \A i \in 0..n : f[i] = IF i = 0 THEN a ELSE h[<<i, f[i - 1]>>]
    <3>1. f = [i \in 0..n |-> IF i = 0 THEN a ELSE h[<<i, f[i - 1]>>]]
      BY <2>1 DEF Recursive
    <3> QED
      BY <3>1, Zenon
  <2>3. /\ g[n + 1] = h[<<n + 1, f[n]>>] /\ \A i \in 0..n : g[i] = f[i]
        /\ g = [i \in 0..(n + 1) |-> g[i]]
    OBVIOUS
  <2> HIDE DEF g
  <2>4. ASSUME NEW i \in 0..(n + 1) PROVE g[i] = IF i = 0 THEN a ELSE h[<<i, g[i - 1]>>]
    <3>1. CASE i = n + 1
      <4>1. n \in 0..n /\ i # 0 /\ i - 1 = n
        BY <3>1
      <4> QED
        BY <2>3, <3>1, <4>1
    <3>2. CASE i = 0
      <4>1. 0 \in 0..n
        OBVIOUS
      <4>2. f[0] = a
        BY <2>2, <4>1, Zenon
      <4>3. g[0] = f[0]
        BY <2>3, <4>1, Zenon
      <4> QED
        BY <3>2, <4>2, <4>3, Zenon
    <3>3. CASE i # n + 1 /\ i # 0
      <4>1. i \in 0..n /\ i - 1 \in 0..n
        BY <3>3
      <4>2. f[i] = h[<<i, f[i - 1]>>]
        BY <2>2, <3>3, <4>1
      <4> QED
        BY <2>3, <3>3, <4>1, <4>2
    <3> QED
      BY <3>1, <3>2, <3>3
  <2>5. g = [i \in 0..(n + 1) |-> IF i = 0 THEN a ELSE h[<<i, g[i - 1]>>]]
    BY <2>3, <2>4, Zenon
  <2> QED
    BY <2>5 DEF Recursive
<1> HIDE DEF S
<1>3. m \in S
  BY <1>1, <1>2, Induction
<1> QED
  BY <1>3 DEF S

LEMMA RecursionOverNat ==
  ASSUME NEW a, NEW h
  PROVE  \E f : Recursive(f, Nat, a, h)
<1> DEFINE F(n) == CHOOSE f : Recursive(f, 0..n, a, h)
           g == [n \in Nat |-> F(n)[n]]
<1>1. \A n \in Nat : Recursive(F(n), 0..n, a, h)
  BY RecursionUpTo, Zenon
<1> HIDE DEF F
<1>2. ASSUME NEW n \in Nat PROVE g[n] = IF n = 0 THEN a ELSE h[<<n, g[n - 1]>>]
  <2>1. F(n)[n] = IF n = 0 THEN a ELSE h[<<n, F(n)[n - 1]>>]
    <3>1. F(n) = [i \in 0..n |-> IF i = 0 THEN a ELSE h[<<i, F(n)[i - 1]>>]]
      BY <1>1 DEF Recursive
    <3>2. n \in 0..n
      OBVIOUS
    <3> QED
      BY <3>1, <3>2, Zenon
  <2>2. CASE n = 0
    BY <2>1, <2>2
  <2>3. CASE n # 0
    <3>1. n - 1 \in Nat /\ n - 1 \in 0..(n - 1) /\ 0..(n - 1) \subseteq 0..n
      BY <2>3
    <3>2. Recursive(F(n), 0..n, a, h) /\ Recursive(F(n - 1), 0..(n - 1), a, h)
      BY <1>1, <3>1
    <3>3. F(n)[n - 1] = F(n - 1)[n - 1]
      <4>1. 0..(n - 1) \subseteq 0..(n - 1)
        OBVIOUS
      <4> DEFINE k == n - 1
                 D == 0..n
                 E == 0..k
                 e == F(n)
                 f == F(k)
      <4>0. k \in Nat /\ 0..k \subseteq D /\ 0..k \subseteq E
        BY <3>1, <4>1
      <4> HIDE DEF e, f, D, E, k
      <4>2. Recursive(e, D, a, h) /\ Recursive(f, E, a, h)
        BY <3>2, Zenon DEF e, f, D, E, k
      <4>3. \A i \in 0..k : e[i] = f[i]
        BY <4>0, <4>2, RecursionUnique
      <4>4. e[n - 1] = f[n - 1]
        BY <3>1, <4>3, Zenon DEF k
      <4> QED
        BY <4>4 DEF e, f, k
    <3> QED
      BY <2>1, <2>3, <3>1, <3>3
  <2> QED
    BY <2>2, <2>3
<1>3. g = [n \in Nat |-> g[n]]
  OBVIOUS
<1> HIDE DEF g
<1>4. g = [n \in Nat |-> IF n = 0 THEN a ELSE h[<<n, g[n - 1]>>]]
  BY <1>2, <1>3, Zenon
<1> QED
  BY <1>4 DEF Recursive
LEMMA RecursionExists ==
  ASSUME NEW V, NEW a \in V, NEW h \in [Nat \X V -> V], NEW m \in Nat
  PROVE  \E f : Recursive(f, 0..m, a, h) /\ \A i \in 0..m : f[i] \in V
<1>1. PICK f : Recursive(f, 0..m, a, h)
  BY RecursionUpTo, Zenon
<1>2. 0..m \subseteq 0..m
  OBVIOUS
<1>3. \A i \in 0..m : f[i] \in V
  BY <1>1, <1>2, RecursionTyped
<1> QED
  BY <1>1, <1>3, Zenon

\* What satisfies the equations for the values of V has its values there.
LEMMA EquationsTyped ==
  ASSUME NEW V, NEW a \in V, NEW h \in [Nat \X V -> V], NEW m \in Nat, NEW c, c[0] = a,
         \A i \in 1..m : c[i - 1] \in V => c[i] = h[<<i, c[i - 1]>>]
  PROVE  \A i \in 0..m : c[i] \in V
<1> DEFINE S == {i \in Nat : c[i] \in V}
<1>1. 0 \in S
  OBVIOUS
<1>2. ASSUME NEW i \in 0..(m - 1), i \in S PROVE i + 1 \in S
  <2>1. i + 1 \in 1..m /\ (i + 1) - 1 = i /\ i + 1 \in Nat /\ c[i] \in V
    BY <1>2
  <2>2. c[i + 1] = h[<<i + 1, c[i]>>]
    BY <2>1
  <2> QED
    BY <2>1, <2>2
<1> HIDE DEF S
<1>3. \A i \in 0..m : i \in S
  BY <1>1, <1>2, InductionUpTo
<1> QED
  BY <1>3 DEF S
-----------------------------------------------------------------------------
LEMMA PowDefines ==
  \A n \in Nat : Pow2[n] = IF n = 0 THEN 1 ELSE 2 * Pow2[n - 1]
<1> DEFINE h == [p \in Nat \X Nat |-> 2 * p[2]]
           Twice(f) == f = [n \in Nat |-> IF n = 0 THEN 1 ELSE 2 * f[n - 1]]
<1>1. PICK f : Recursive(f, Nat, 1, h)
  BY RecursionOverNat, Zenon
<1>2. f = [n \in Nat |-> IF n = 0 THEN 1 ELSE h[<<n, f[n - 1]>>]]
  BY <1>1 DEF Recursive
<1>3. ASSUME NEW n \in Nat PROVE f[n] \in Nat
  <2>1. 1 \in Nat /\ h \in [Nat \X Nat -> Nat] /\ 0..n \subseteq Nat /\ n \in 0..n
    OBVIOUS
  <2> HIDE DEF h
  <2>2. \A i \in 0..n : f[i] \in Nat
    BY <1>1, <2>1, RecursionTyped
  <2> QED
    BY <2>1, <2>2
<1>4. ASSUME NEW n \in Nat, n # 0 PROVE h[<<n, f[n - 1]>>] = 2 * f[n - 1]
  <2>1. n - 1 \in Nat
    BY <1>4
  <2>2. <<n, f[n - 1]>> \in Nat \X Nat
    BY <1>3, <2>1
  <2> QED
    BY <2>2
<1> HIDE DEF h
<1>5. Twice(f)
  BY <1>2, <1>4
<1>6. Pow2 = CHOOSE g : Twice(g)
  BY DEF Pow2
<1> HIDE DEF Twice
<1>7. Twice(Pow2)
  BY <1>5, <1>6
<1> QED
  BY <1>7, Zenon DEF Twice

LEMMA PowZero == Pow2[0] = 1
BY PowDefines

LEMMA PowNat == \A n \in Nat : Pow2[n] \in Nat \ {0}
<1> DEFINE S == {n \in Nat : Pow2[n] \in Nat \ {0}}
<1>1. 0 \in S
  BY PowZero
<1>2. ASSUME NEW n \in Nat, n \in S PROVE n + 1 \in S
  <2>1. n + 1 \in Nat /\ n + 1 # 0 /\ (n + 1) - 1 = n
    OBVIOUS
  <2>2. Pow2[n + 1] = 2 * Pow2[n]
    BY <2>1, PowDefines
  <2> QED
    BY <1>2, <2>1, <2>2
<1> HIDE DEF S
<1>3. \A n \in Nat : n \in S
  BY <1>1, <1>2, Induction
<1> QED
  BY <1>3 DEF S

LEMMA PowNext == \A n \in Nat : Pow2[n + 1] = 2 * Pow2[n]
<1> TAKE n \in Nat
<1>1. n + 1 \in Nat /\ n + 1 # 0 /\ (n + 1) - 1 = n
  OBVIOUS
<1> QED
  BY <1>1, PowDefines

LEMMA PowSum == \A m, n \in Nat : Pow2[m + n] = Pow2[m] * Pow2[n]
<1> TAKE m \in Nat
<1> DEFINE S == {n \in Nat : Pow2[m + n] = Pow2[m] * Pow2[n]}
<1>1. 0 \in S
  BY PowZero, PowNat
<1>2. ASSUME NEW n \in Nat, n \in S PROVE n + 1 \in S
  <2>1. Pow2[m + (n + 1)] = 2 * Pow2[m + n] /\ Pow2[n + 1] = 2 * Pow2[n]
    <3>1. m + n \in Nat /\ (m + n) + 1 = m + (n + 1)
      OBVIOUS
    <3> QED
      BY <3>1, PowNext
  <2>2. Pow2[m] \in Nat /\ Pow2[n] \in Nat /\ Pow2[m + n] = Pow2[m] * Pow2[n]
    BY <1>2, PowNat
  <2> QED
    BY <2>1, <2>2
<1> HIDE DEF S
<1>3. \A n \in Nat : n \in S
  BY <1>1, <1>2, Induction
<1> QED
  BY <1>3 DEF S

LEMMA PowGrows == \A m, n \in Nat : m <= n => Pow2[m] <= Pow2[n]
<1> SUFFICES ASSUME NEW m \in Nat, NEW n \in Nat, m <= n PROVE Pow2[m] <= Pow2[n]
  OBVIOUS
<1> DEFINE d == n - m
<1>1. d \in Nat /\ m + d = n
  OBVIOUS
<1> HIDE DEF d
<1>2. Pow2[n] = Pow2[m] * Pow2[d]
  BY <1>1, PowSum
<1>3. Pow2[m] \in Nat /\ Pow2[d] \in Nat /\ Pow2[d] >= 1
  BY <1>1, PowNat
<1> DEFINE p == Pow2[m]
           q == Pow2[d]
<1> HIDE DEF p, q
<1>4. p \in Nat /\ q \in Nat /\ q >= 1 => p <= p * q
  OBVIOUS
<1> QED
  BY <1>2, <1>3, <1>4 DEF p, q
-----------------------------------------------------------------------------
\* Division with remainder, by a divisor that is not a literal.
LEMMA QuotientOf ==
  ASSUME NEW m \in Nat \ {0}, NEW q \in Int, NEW r \in 0..(m - 1)
  PROVE  (m * q + r) \div m = q /\ (m * q + r) % m = r
OBVIOUS

LEMMA DivisionLaw ==
  ASSUME NEW m \in Nat \ {0}, NEW a \in Nat
  PROVE  /\ a \div m \in Nat /\ a % m \in 0..(m - 1)
         /\ a = m * (a \div m) + (a % m)
<1> DEFINE S == {n \in Nat : \E q \in Nat, r \in 0..(m - 1) : n = m * q + r}
<1>1. 0 \in S
  <2>1. 0 \in 0..(m - 1) /\ 0 = m * 0 + 0
    OBVIOUS
  <2> QED
    BY <2>1
<1>2. ASSUME NEW n \in Nat, n \in S PROVE n + 1 \in S
  <2>1. PICK q \in Nat, r \in 0..(m - 1) : n = m * q + r
    BY <1>2
  <2>2. CASE r = m - 1
    <3>1. n + 1 = m * (q + 1) + 0 /\ 0 \in 0..(m - 1) /\ q + 1 \in Nat /\ n + 1 \in Nat
      BY <2>1, <2>2
    <3> QED
      BY <3>1, Zenon DEF S
  <2>3. CASE r # m - 1
    <3>1. n + 1 = m * q + (r + 1) /\ r + 1 \in 0..(m - 1)
      BY <2>1, <2>3
    <3> QED
      BY <3>1
  <2> QED
    BY <2>2, <2>3
<1> HIDE DEF S
<1>3. \A n \in Nat : n \in S
  BY <1>1, <1>2, Induction
<1>4. PICK q \in Nat, r \in 0..(m - 1) : a = m * q + r
  BY <1>3 DEF S
<1>5. a \div m = q /\ a % m = r
  BY <1>4, QuotientOf
<1> QED
  BY <1>4, <1>5

\* Division of any integer.
LEMMA DivisionOfInteger ==
  ASSUME NEW m \in Nat \ {0}, NEW a \in Int
  PROVE  /\ a \div m \in Int /\ a % m \in 0..(m - 1)
         /\ a = m * (a \div m) + (a % m)
<1>1. CASE a \in Nat
  <2>1. /\ a \div m \in Nat /\ a % m \in 0..(m - 1) /\ a = m * (a \div m) + (a % m)
    BY <1>1, DivisionLaw
  <2> QED
    BY <2>1
<1>2. CASE a \notin Nat
  <2> DEFINE b == a - m * a
             q == b \div m
             r == b % m
  <2>1. b \in Nat
    <3>1. -a \in Nat /\ m - 1 \in Nat
      BY <1>2
    <3>2. (m - 1) * (-a) \in Nat
      BY <3>1
    <3>3. b = (m - 1) * (-a)
      OBVIOUS
    <3> QED
      BY <3>2, <3>3
  <2> HIDE DEF b
  <2>2. q \in Nat /\ r \in 0..(m - 1) /\ b = m * q + r
    BY <2>1, DivisionLaw
  <2> HIDE DEF q, r
  <2>3. a = m * (q + a) + r
    <3>1. m * (q + a) = m * q + m * a /\ m * q \in Int /\ m * a \in Int
      BY <2>2
    <3>2. b = a - m * a
      BY DEF b
    <3> QED
      BY <2>2, <3>1, <3>2
  <2>4. q + a \in Int
    BY <2>2
  <2> DEFINE s == q + a
  <2> HIDE DEF s
  <2>5. (m * s + r) \div m = s /\ (m * s + r) % m = r
    BY <2>2, <2>4, QuotientOf DEF s
  <2>6. a = m * s + r /\ s \in Int
    BY <2>3, <2>4 DEF s
  <2> QED
    BY <2>2, <2>5, <2>6
<1> QED
  BY <1>1, <1>2

\* A multiple of the divisor makes no difference to the remainder.
LEMMA ModShift ==
  ASSUME NEW m \in Nat \ {0}, NEW a \in Int, NEW b \in Int
  PROVE  (a + m * b) % m = a % m
<1> DEFINE q == a \div m
           r == a % m
           s == q + b
<1>1. q \in Int /\ r \in 0..(m - 1) /\ a = m * q + r
  BY DivisionOfInteger
<1> HIDE DEF q, r
<1>2. s \in Int /\ m * s = m * q + m * b
  BY <1>1
<1> HIDE DEF s
<1>3. m * q \in Int /\ m * b \in Int /\ m * s \in Int
  BY <1>1, <1>2
<1>4. a + m * b = m * s + r
  BY <1>1, <1>2, <1>3
<1>5. (m * s + r) % m = r
  BY <1>1, <1>2, QuotientOf
<1> QED
  BY <1>4, <1>5 DEF r

LEMMA SmallMod == ASSUME NEW m \in Nat \ {0}, NEW r \in 0..(m - 1) PROVE r % m = r /\ r \div m = 0
<1>1. 0 \in Int /\ m * 0 + r = r
  OBVIOUS
<1>2. (m * 0 + r) \div m = 0 /\ (m * 0 + r) % m = r
  BY <1>1, QuotientOf, Zenon
<1> QED
  BY <1>1, <1>2

\* Digits: the remainder by a product.
LEMMA ModSplit ==
  ASSUME NEW a \in Nat \ {0}, NEW b \in Nat \ {0}, NEW v \in Nat
  PROVE  v % (a * b) = (v % a) + a * ((v \div a) % b)
<1> DEFINE q == v \div a
           r == v % a
           s == q \div b
           t == q % b
<1>1. q \in Nat /\ r \in 0..(a - 1) /\ v = a * q + r
  BY DivisionLaw
<1> HIDE DEF q, r
<1>2. s \in Nat /\ t \in 0..(b - 1) /\ q = b * s + t
  BY <1>1, DivisionLaw
<1> HIDE DEF s, t
<1> DEFINE c == a * b
           d == a * t + r
<1>3. c \in Nat \ {0}
  OBVIOUS
<1>4. d \in 0..(c - 1)
  <2>1. a * t <= a * (b - 1) /\ a * (b - 1) = a * b - a /\ a * t \in Nat /\ a * b \in Nat
    BY <1>2
  <2> QED
    BY <1>1, <2>1
<1>5. v = c * s + d
  <2>1. a * (b * s + t) = (a * b) * s + a * t
    BY <1>2
  <2>2. (a * b) * s \in Int /\ a * t \in Int
    BY <1>2
  <2> QED
    BY <1>1, <1>2, <2>1, <2>2
<1> HIDE DEF c, d
<1>6. (c * s + d) % c = d
  BY <1>2, <1>3, <1>4, QuotientOf
<1> QED
  BY <1>5, <1>6 DEF c, d, q, r, t
=============================================================================
