---------------------- MODULE FunctionRefinement_proofs ----------------------
(***************************************************************************)
(* The code emitted for a function refines WasmFunction: for every list of *)
(* parameters, any number of locals, any width of the numbers and any code *)
(* each step of FunctionBody is a step of the function as Wasm describes   *)
(* it, or is invisible to the program.                                     *)
(***************************************************************************)
EXTENDS FunctionBody_proofs, FiniteSetTheorems

-----------------------------------------------------------------------------
(***************************************************************************)
(* Arithmetic of i32 and i64: what the instructions compute is what Wasm says.*)
(***************************************************************************)
\* The names of WasmFunction that do not depend on the variables.
LEMMA WasmPowers == Wasm!Pow2 = Pow2
  BY DEF Wasm!Pow2, Pow2

LEMMA WasmSets ==
  /\ Wasm!Types = Types /\ Wasm!Divisions = Divisions /\ Wasm!Comparisons = Comparisons
  /\ Wasm!Binary = Binary /\ Wasm!Unary = Unary
  BY Zenon DEF Wasm!Types, Types, Wasm!Divisions, Divisions, Wasm!Comparisons, Comparisons,
               Condition, Wasm!Binary, Binary, Wasm!Unary, Unary

LEMMA WasmWidth ==
  ASSUME NEW t \in Types
  PROVE  Wasm!Width(t) = Width(t) /\ Wasm!Number(t) = Values(t)
<1>1. Wasm!Width(t) = Width(t)
  BY BitsTyped DEF Wasm!Width, Types
<1> QED
  BY <1>1, WasmPowers, Zenon DEF Wasm!Number, Values

\* The sign is the newest bit.
LEMMA Halved ==
  ASSUME NEW n \in Nat \ {0}
  PROVE  /\ n - 1 \in Nat /\ Pow2[n - 1] \in Nat \ {0} /\ Pow2[n] \in Nat \ {0}
         /\ Pow2[n] = 2 * Pow2[n - 1]
<1>1. n - 1 \in Nat /\ (n - 1) + 1 = n
  OBVIOUS
<1> QED
  BY <1>1, PowNat, PowNext

\* The sign of a number is its highest bit.
LEMMA TopBit ==
  ASSUME NEW n \in Nat \ {0}, NEW v \in 0..(Pow2[n] - 1)
  PROVE  /\ Bit(v, n - 1) = 1 <=> v >= Pow2[n - 1]
         /\ Bit(v, n - 1) \in {0, 1}
<1> DEFINE h == Pow2[n - 1]
<1>1. h \in Nat \ {0} /\ v \in 0..(2 * h - 1) /\ n - 1 \in Nat /\ v \in Int
  BY Halved
<1>2. Bit(v, n - 1) = (v \div h) % 2
  BY DEF Bit
<1>3. Bit(v, n - 1) \in {0, 1}
  BY <1>1, BitIs
<1> HIDE DEF h
<1>4. CASE v < h
  <2>1. v \div h = 0
    BY <1>1, <1>4, SmallMod
  <2> QED
    BY <1>1, <1>2, <1>3, <1>4, <2>1 DEF h
<1>5. CASE v >= h
  <2>1. v - h \in 0..(h - 1) /\ h * 1 + (v - h) = v /\ 1 \in Int
    BY <1>1, <1>5
  <2>2. (h * 1 + (v - h)) \div h = 1
    BY <1>1, <2>1, QuotientOf, Zenon
  <2> QED
    BY <1>1, <1>2, <1>3, <1>5, <2>1, <2>2 DEF h
<1> QED
  BY <1>1, <1>4, <1>5

\* A number read as a signed one, its magnitude and its sign.
LEMMA SignedIs ==
  ASSUME NEW n \in Nat \ {0}, NEW v \in 0..(Pow2[n] - 1)
  PROVE  /\ Wasm!Signed(v, n) = IF v < Pow2[n - 1] THEN v ELSE v - 2 * Pow2[n - 1]
         /\ Wasm!Magnitude(Wasm!Signed(v, n)) = Absolute(v, n)
         /\ Wasm!Signed(v, n) < 0 <=> Bit(v, n - 1) = 1
<1> DEFINE h == Pow2[n - 1]
           s == Wasm!Signed(v, n)
<1>1. h \in Nat \ {0} /\ Pow2[n] = 2 * h /\ v \in 0..(2 * h - 1)
  BY Halved
<1>2. s = IF v < h THEN v ELSE v - 2 * h
  BY <1>1, WasmPowers DEF Wasm!Signed
<1>3. Absolute(v, n) = IF Bit(v, n - 1) = 1 THEN (IF v = 0 THEN 0 ELSE 2 * h - v) ELSE v
  BY <1>1, AbsoluteTyped DEF Absolute
<1>4. Bit(v, n - 1) = 1 <=> v >= h
  BY TopBit
<1>5. Wasm!Magnitude(s) = IF s < 0 THEN -s ELSE s
  BY DEF Wasm!Magnitude
<1> HIDE DEF h, s
<1>6. s < 0 <=> v >= h
  BY <1>1, <1>2
<1>7. Wasm!Magnitude(s) = Absolute(v, n)
  BY <1>1, <1>2, <1>3, <1>4, <1>5
<1> QED
  BY <1>2, <1>4, <1>6, <1>7 DEF h, s

\* SDIV divides the magnitudes and negates, as the truncated quotient asks.
LEMMA QuotientIs ==
  ASSUME NEW n \in Nat \ {0}, NEW l \in 0..(Pow2[n] - 1), NEW r \in 1..(Pow2[n] - 1)
  PROVE  Quotient(l, r, n) = Wasm!Wrapped(Wasm!Truncated(Wasm!Signed(l, n), Wasm!Signed(r, n)), n)
<1> DEFINE a == Absolute(l, n)
           b == Absolute(r, n)
           q == a \div b
           p == Pow2[n]
           x == Wasm!Signed(l, n)
           y == Wasm!Signed(r, n)
<1>1. p \in Nat \ {0} /\ r \in 0..(p - 1) /\ r # 0
  BY PowNat
<1>2. a \in 0..(p - 1) /\ b \in 0..(p - 1) /\ b # 0
  BY <1>1, AbsoluteTyped
<1>3. q \in Int
  <2>1. a \in Nat /\ b \in Nat \ {0}
    BY <1>1, <1>2
  <2> HIDE DEF a, b
  <2> QED
    BY <2>1
<1>4. /\ Wasm!Magnitude(x) = a /\ Wasm!Magnitude(y) = b
      /\ x < 0 <=> Bit(l, n - 1) = 1
      /\ y < 0 <=> Bit(r, n - 1) = 1
  BY <1>1, SignedIs
<1>5. Bit(l, n - 1) \in {0, 1} /\ Bit(r, n - 1) \in {0, 1}
  BY <1>1, TopBit
<1> HIDE DEF x, y, a, b, q, p
<1>6. Wasm!Truncated(x, y) = IF x < 0 <=> y < 0 THEN q ELSE -q
  BY <1>4 DEF Wasm!Truncated, q
<1>7. Quotient(l, r, n) = IF Bit(l, n - 1) = Bit(r, n - 1) THEN q % p ELSE (p - q) % p
  BY DEF Quotient, Negated, a, b, q, p
<1>8. (p - q) % p = (-q) % p
  <2>1. -q \in Int /\ 1 \in Int /\ p * 1 = p /\ -q + p * 1 = p - q
    BY <1>1, <1>3
  <2>2. (-q + p * 1) % p = (-q) % p
    BY <1>1, <2>1, ModShift, Zenon
  <2> QED
    BY <2>1, <2>2, Zenon
<1>9. (x < 0 <=> y < 0) <=> Bit(l, n - 1) = Bit(r, n - 1)
  BY <1>4, <1>5
<1>10. \A z : Wasm!Wrapped(z, n) = z % p
  BY WasmPowers, Zenon DEF Wasm!Wrapped, p
<1>11. CASE x < 0 <=> y < 0
  BY <1>6, <1>7, <1>9, <1>10, <1>11, Zenon DEF x, y
<1>12. CASE ~(x < 0 <=> y < 0)
  BY <1>6, <1>7, <1>8, <1>9, <1>10, <1>12, Zenon DEF x, y
<1> QED
  BY <1>11, <1>12

\* ADD, SUB, MUL, UDIV and SDIV.
LEMMA AluIs ==
  ASSUME NEW n \in Nat \ {0}, NEW l \in 0..(Pow2[n] - 1), NEW r \in 0..(Pow2[n] - 1),
         NEW op \in Binary \ Comparisons, op \in Divisions => r # 0
  PROVE  Alu(op, l, r, n) = Wasm!Compute(op, l, r, n) /\ Alu(op, l, r, n) \in 0..(Pow2[n] - 1)
<1> DEFINE p == Pow2[n]
<1>1. p \in Nat \ {0} /\ l \in Nat /\ r \in Nat /\ l \in 0..(p - 1)
  BY PowNat
<1>2. op \in {"ADD", "SUB", "MUL", "DIV_U", "DIV_S"}
  BY DEF Binary, Divisions
<1>3. \A z : Wasm!Wrapped(z, n) = z % p
  BY WasmPowers, Zenon DEF Wasm!Wrapped
<1>4. \A z \in Int : z % p \in 0..(p - 1)
  BY <1>1
<1>5. CASE op = "ADD"
  <2>1. l + r \in Int
    BY <1>1
  <2>2. Alu(op, l, r, n) = (l + r) % p /\ Wasm!Compute(op, l, r, n) = Wasm!Wrapped(l + r, n)
    BY <1>5 DEF Alu, Wasm!Compute
  <2> HIDE DEF p
  <2> QED
    BY <1>3, <1>4, <2>1, <2>2, Zenon DEF p
<1>6. CASE op = "SUB"
  <2>1. Negated(r, n) = IF r = 0 THEN 0 ELSE p - r
    BY AbsoluteTyped
  <2>2. /\ Alu(op, l, r, n) = (l + Negated(r, n)) % p
        /\ Wasm!Compute(op, l, r, n) = Wasm!Wrapped(l - r, n)
    BY <1>6 DEF Alu, Wasm!Compute
  <2> HIDE DEF p
  <2>3. (l + Negated(r, n)) % p = (l - r) % p
    <3>1. CASE r = 0
      <4>1. l + Negated(r, n) = l - r
        BY <1>1, <2>1, <3>1
      <4> QED
        BY <4>1, Zenon
    <3>2. CASE r # 0
      <4>1. l - r \in Int /\ 1 \in Int /\ (l - r) + p * 1 = l + Negated(r, n)
        BY <1>1, <2>1, <3>2
      <4>2. ((l - r) + p * 1) % p = (l - r) % p
        BY <1>1, <4>1, ModShift, Zenon
      <4> QED
        BY <4>1, <4>2, Zenon
    <3> QED
      BY <3>1, <3>2
  <2>4. l - r \in Int
    BY <1>1
  <2> QED
    BY <1>3, <1>4, <2>2, <2>3, <2>4, Zenon DEF p
<1>7. CASE op = "MUL"
  <2>1. l * r \in Int
    BY <1>1
  <2>2. Alu(op, l, r, n) = (l * r) % p /\ Wasm!Compute(op, l, r, n) = Wasm!Wrapped(l * r, n)
    BY <1>7 DEF Alu, Wasm!Compute
  <2> HIDE DEF p
  <2> QED
    BY <1>3, <1>4, <2>1, <2>2, Zenon DEF p
<1>8. CASE op = "DIV_U"
  <2>1. r \in Nat \ {0}
    BY <1>1, <1>8 DEF Divisions
  <2>2. l \div r \in Nat /\ l % r \in 0..(r - 1) /\ l = r * (l \div r) + (l % r)
    BY <1>1, <2>1, DivisionLaw
  <2> DEFINE q == l \div r
             m == l % r
  <2> HIDE DEF q, m, p
  <2>3. q \in Nat /\ m \in Nat /\ l = r * q + m
    BY <2>1, <2>2 DEF q, m
  <2>4. r * q >= q
    BY <2>1, <2>3
  <2>5. q <= l
    <3> DEFINE s == r * q
    <3>1. s \in Int
      BY <2>1, <2>3
    <3> HIDE DEF s
    <3> QED
      BY <1>1, <2>3, <2>4, <3>1 DEF s
  <2>6. q \in 0..(p - 1)
    BY <1>1, <2>3, <2>5
  <2>7. Alu(op, l, r, n) = q /\ Wasm!Compute(op, l, r, n) = q
    BY <1>8 DEF Alu, Wasm!Compute, q
  <2> QED
    BY <2>6, <2>7 DEF p
<1>9. CASE op = "DIV_S"
  <2>1. r \in 1..(Pow2[n] - 1)
    BY <1>1, <1>9 DEF Divisions
  <2> DEFINE z == Wasm!Truncated(Wasm!Signed(l, n), Wasm!Signed(r, n))
  <2>2. Alu(op, l, r, n) = Quotient(l, r, n) /\ Wasm!Compute(op, l, r, n) = Wasm!Wrapped(z, n)
    BY <1>9 DEF Alu, Wasm!Compute
  <2>3. Quotient(l, r, n) = Wasm!Wrapped(z, n)
    BY <2>1, QuotientIs
  <2>4. Quotient(l, r, n) \in 0..(p - 1)
    <3>1. Absolute(l, n) \in Nat /\ Absolute(r, n) \in Nat \ {0}
      BY <1>1, <2>1, AbsoluteTyped
    <3> DEFINE q == Absolute(l, n) \div Absolute(r, n)
    <3>2. q \in Int
      BY <3>1
    <3> HIDE DEF q
    <3>3. q % p \in 0..(p - 1) /\ (p - q) % p \in 0..(p - 1)
      BY <1>1, <3>2
    <3> QED
      BY <3>3 DEF Quotient, Negated, q
  <2> QED
    BY <2>2, <2>3, <2>4, Zenon
<1> QED
  BY <1>2, <1>5, <1>6, <1>7, <1>8, <1>9

\* CMP and the condition codes.
LEMMA ComparesIs ==
  ASSUME NEW n \in Nat \ {0}, NEW l \in 0..(Pow2[n] - 1), NEW r \in 0..(Pow2[n] - 1),
         NEW op \in Comparisons
  PROVE  Condition[op] \in Satisfied(Flags(l, r, n)) <=> Wasm!Compare(op, l, r, n)
<1> DEFINE h == Pow2[n - 1]
           p == Pow2[n]
           d == (l + p - r) % p
           f == Flags(l, r, n)
           x == Wasm!Signed(l, n)
           y == Wasm!Signed(r, n)
<1>1. h \in Nat \ {0} /\ p = 2 * h /\ l \in 0..(p - 1) /\ r \in 0..(p - 1) /\ p \in Nat \ {0}
  BY Halved
<1>2. /\ x = (IF l < h THEN l ELSE l - 2 * h)
      /\ y = (IF r < h THEN r ELSE r - 2 * h)
  BY SignedIs
<1>3. d = (IF l >= r THEN l - r ELSE l + p - r)
  <2> HIDE DEF h, p
  <2>1. CASE l >= r
    <3>1. l - r \in 0..(p - 1) /\ p * 1 + (l - r) = l + p - r /\ 1 \in Int
      BY <1>1, <2>1
    <3>2. (p * 1 + (l - r)) % p = l - r
      BY <1>1, <3>1, QuotientOf, Zenon
    <3> QED
      BY <2>1, <3>1, <3>2
  <2>2. CASE ~(l >= r)
    <3>1. l + p - r \in 0..(p - 1)
      BY <1>1, <2>2
    <3>2. (l + p - r) % p = l + p - r
      BY <1>1, <3>1, SmallMod
    <3> QED
      BY <2>2, <3>2
  <2> QED
    BY <2>1, <2>2
<1>4. d \in 0..(p - 1)
  <2> HIDE DEF h, p, d
  <2> QED
    BY <1>1, <1>3
<1>5. /\ Bit(l, n - 1) = 1 <=> l >= h
      /\ Bit(r, n - 1) = 1 <=> r >= h
      /\ Bit(d, n - 1) = 1 <=> d >= h
      /\ Bit(l, n - 1) \in {0, 1} /\ Bit(r, n - 1) \in {0, 1} /\ Bit(d, n - 1) \in {0, 1}
  BY <1>4, TopBit
<1>6. f = [negative |-> Bit(d, n - 1) = 1, zero |-> d = 0,
           carry |-> l + (p - 1 - r) + 1 >= p,
           overflow |-> Bit(l, n - 1) # Bit(r, n - 1) /\ Bit(d, n - 1) # Bit(l, n - 1)]
  BY DEF Flags
<1> HIDE DEF h, p, d, f, x, y
<1>7. /\ f.negative <=> d >= h
      /\ f.zero <=> d = 0
      /\ f.carry <=> l + (p - 1 - r) + 1 >= p
      /\ f.overflow <=> (Bit(l, n - 1) # Bit(r, n - 1) /\ Bit(d, n - 1) # Bit(l, n - 1))
      /\ f.negative \in BOOLEAN /\ f.overflow \in BOOLEAN
  BY <1>5, <1>6, Zenon
<1>8. /\ f.zero <=> l = r
      /\ f.carry <=> l >= r
  BY <1>1, <1>3, <1>7
<1>9. f.overflow <=> (~(l >= h <=> r >= h) /\ ~(d >= h <=> l >= h))
  BY <1>5, <1>7
<1>10. (~(d >= h <=> f.overflow) \/ d = 0) <=> x <= y
  BY <1>1, <1>2, <1>3, <1>4, <1>9
<1>11. (f.zero \/ f.negative # f.overflow) <=> x <= y
  BY <1>7, <1>10, Zenon
<1>12. \A cc : cc \in Satisfied(f) <=>
          /\ cc \in {"EQ", "NE", "HS", "HI", "LS", "LE"}
          /\ \/ cc = "EQ" /\ f.zero
             \/ cc = "NE" /\ ~f.zero
             \/ cc = "HS" /\ f.carry
             \/ cc = "HI" /\ f.carry /\ ~f.zero
             \/ cc = "LS" /\ ~(f.carry /\ ~f.zero)
             \/ cc = "LE" /\ (f.zero \/ f.negative # f.overflow)
  BY Zenon DEF Satisfied
<1>13. op \in {"EQ", "NE", "LE_S", "LE_U", "GT_U", "GE_U"}
  BY DEF Comparisons, Condition
<1>14. /\ "EQ" \in Satisfied(f) <=> l = r
       /\ "NE" \in Satisfied(f) <=> l # r
       /\ "HS" \in Satisfied(f) <=> l >= r
  BY <1>8, <1>12
<1>15. /\ "HI" \in Satisfied(f) <=> (f.carry /\ ~f.zero)
       /\ "LS" \in Satisfied(f) <=> ~(f.carry /\ ~f.zero)
       /\ "LE" \in Satisfied(f) <=> x <= y
  BY <1>11, <1>12
<1>16. /\ "HI" \in Satisfied(f) <=> l > r
       /\ "LS" \in Satisfied(f) <=> l <= r
  BY <1>1, <1>8, <1>15
<1>17. /\ Wasm!Compare("EQ", l, r, n) <=> l = r
       /\ Wasm!Compare("NE", l, r, n) <=> l # r
       /\ Wasm!Compare("LE_S", l, r, n) <=> x <= y
       /\ Wasm!Compare("LE_U", l, r, n) <=> l <= r
       /\ Wasm!Compare("GT_U", l, r, n) <=> l > r
       /\ Wasm!Compare("GE_U", l, r, n) <=> l >= r
  BY DEF Wasm!Compare, x, y
<1>18. /\ Condition["EQ"] = "EQ" /\ Condition["NE"] = "NE" /\ Condition["LE_S"] = "LE"
       /\ Condition["LE_U"] = "LS" /\ Condition["GT_U"] = "HI" /\ Condition["GE_U"] = "HS"
  BY DEF Condition
<1> QED
  BY <1>13, <1>14, <1>15, <1>16, <1>17, <1>18 DEF f

\* The trap of DIV_S.
LEMMA TrapsIs ==
  ASSUME NEW t \in Types, NEW l \in Values(t), NEW r \in Values(t), NEW op
  PROVE  TrapsOverflow(op, t, l, r) <=> Wasm!Overflows(op, t, l, r)
<1> DEFINE n == Width(t)
           h == Pow2[n - 1]
           p == Pow2[n]
           x == Wasm!Signed(l, n)
           y == Wasm!Signed(r, n)
<1>1. n \in Nat \ {0} /\ Wasm!Width(t) = n /\ l \in 0..(p - 1) /\ r \in 0..(p - 1)
  BY WidthTyped, WasmWidth DEF Values
<1>2. TrapsOverflow(op, t, l, r) <=> op = "DIV_S" /\ l = h /\ r = p - 1
  BY DEF TrapsOverflow, SmallestInt, MinusOne
<1>3. Wasm!Overflows(op, t, l, r) <=> op = "DIV_S" /\ x = -h /\ y = -1
  <2> HIDE DEF n
  <2> QED
    BY <1>1, WasmPowers, Zenon DEF Wasm!Overflows
<1> HIDE DEF n
<1>4. /\ h \in Nat \ {0} /\ p = 2 * h
      /\ x = (IF l < h THEN l ELSE l - 2 * h)
      /\ y = (IF r < h THEN r ELSE r - 2 * h)
  BY <1>1, Halved, SignedIs
<1> HIDE DEF h, p, x, y
<1>5. (l = h /\ r = p - 1) <=> (x = -h /\ y = -1)
  BY <1>1, <1>4
<1> QED
  BY <1>2, <1>3, <1>5

-----------------------------------------------------------------------------
(***************************************************************************)
(* Counting zeros.                                                         *)
(***************************************************************************)
\* CLZ: what a number has that many leading zeros means, and that only one
\* number of zeros does.
LeadingIs(v, n, k) == v < Pow2[n - k] /\ (k = n \/ v >= Pow2[n - k - 1])

\* How many zeros lead is told by two powers of two.
LEMMA LeadingUnique ==
  ASSUME NEW n \in Nat, NEW v \in Nat, NEW j \in 0..n, NEW k \in 0..n, j < k
  PROVE  ~(LeadingIs(v, n, j) /\ LeadingIs(v, n, k))
<1>1. n - k \in Nat /\ n - j - 1 \in Nat /\ n - k <= n - j - 1 /\ j # n /\ n - j \in Nat
  OBVIOUS
<1>2. Pow2[n - k] <= Pow2[n - j - 1] /\ Pow2[n - k] \in Nat /\ Pow2[n - j - 1] \in Nat
  BY <1>1, PowGrows, PowNat
<1> QED
  BY <1>1, <1>2 DEF LeadingIs

LEMMA LeadingChosen ==
  ASSUME NEW n \in Nat, NEW v \in Nat, NEW k \in 0..n, LeadingIs(v, n, k)
  PROVE  Wasm!Leading(v, n) = k
<1>1. Wasm!Leading(v, n) = CHOOSE j \in 0..n : LeadingIs(v, n, j)
  BY WasmPowers, Zenon DEF Wasm!Leading, LeadingIs
<1>2. ASSUME NEW j \in 0..n, LeadingIs(v, n, j) PROVE j = k
  <2>1. ~(j < k) /\ ~(k < j)
    BY <1>2, LeadingUnique
  <2> QED
    BY <2>1
<1> QED
  BY <1>1, <1>2

\* The lower digits of a number and the next one.
LEMMA NextDigit ==
  ASSUME NEW v \in Nat, NEW i \in Nat
  PROVE  /\ v % Pow2[i + 1] = (v % Pow2[i]) + Pow2[i] * Bit(v, i)
         /\ v % Pow2[i] \in 0..(Pow2[i] - 1) /\ Pow2[i] \in Nat \ {0}
         /\ Bit(v, i) \in {0, 1} /\ Pow2[i + 1] = 2 * Pow2[i]
<1>1. Pow2[i] \in Nat \ {0} /\ Pow2[i + 1] = 2 * Pow2[i] /\ 2 \in Nat \ {0}
  BY PowNat, PowNext
<1>2. v % (Pow2[i] * 2) = (v % Pow2[i]) + Pow2[i] * ((v \div Pow2[i]) % 2)
  BY <1>1, ModSplit, Zenon
<1>3. Pow2[i] * 2 = 2 * Pow2[i]
  BY <1>1
<1>4. v % Pow2[i] \in 0..(Pow2[i] - 1)
  BY <1>1
<1>5. Bit(v, i) \in {0, 1} /\ Bit(v, i) = (v \div Pow2[i]) % 2
  BY BitIs DEF Bit
<1> QED
  BY <1>1, <1>2, <1>3, <1>4, <1>5, Zenon

\* CLZ stops at the highest digit that is one.
LEMMA LeadingZerosIs ==
  ASSUME NEW n \in Nat, NEW v \in 0..(Pow2[n] - 1)
  PROVE  LeadingZeros(v, n) \in 0..n /\ LeadingIs(v, n, LeadingZeros(v, n))
<1> DEFINE z == ZerosUpTo(v, n)
           Good(i) == /\ z[i] \in (n - i)..n /\ v % Pow2[i] < Pow2[n - z[i]]
                      /\ z[i] = n \/ v % Pow2[i] >= Pow2[n - z[i] - 1]
           S == {i \in Nat : Good(i)}
<1>1. /\ z[0] = n
      /\ \A i \in 1..n : z[i] = IF Bit(v, i - 1) = 1 THEN n - i ELSE z[i - 1]
  BY ZerosRecursion
<1>2. v \in Nat
  BY PowNat
<1> HIDE DEF z
<1>3. 0 \in S
  <2>1. v % Pow2[0] = 0 /\ Pow2[n - n] = 1 /\ n - n = 0
    BY <1>2, PowZero
  <2>2. z[0] \in (n - 0)..n
    BY <1>1
  <2> QED
    BY <1>1, <2>1, <2>2
<1>4. ASSUME NEW i \in 0..(n - 1), i \in S PROVE i + 1 \in S
  <2> DEFINE w == v % Pow2[i]
             b == Bit(v, i)
             q == Pow2[i]
             u == v % Pow2[i + 1]
             c == z[i]
             d == z[i + 1]
  <2>1. i \in Nat /\ i + 1 \in 1..n /\ (i + 1) - 1 = i /\ i + 1 \in Nat
    OBVIOUS
  <2>2. u = w + q * b /\ w \in 0..(q - 1) /\ q \in Nat \ {0} /\ b \in {0, 1} /\ Pow2[i + 1] = 2 * q
    BY <1>2, <2>1, NextDigit
  <2>3. d = IF b = 1 THEN n - (i + 1) ELSE c
    BY <1>1, <2>1
  <2>4. c \in (n - i)..n /\ w < Pow2[n - c] /\ (c = n \/ w >= Pow2[n - c - 1])
    BY <1>4
  <2> HIDE DEF w, b, u, c, d
  <2>5. CASE b = 1
    <3>1. d = n - (i + 1) /\ n - d = i + 1 /\ n - d - 1 = i /\ d \in (n - (i + 1))..n
      BY <2>1, <2>3, <2>5
    <3>2. u = w + q
      BY <2>2, <2>5
    <3>3. u < Pow2[n - d] /\ u >= Pow2[n - d - 1]
      BY <2>2, <3>1, <3>2
    <3> QED
      BY <2>1, <3>1, <3>3 DEF u, d
  <2>6. CASE b = 0
    <3>1. d = c /\ u = w
      BY <2>2, <2>3, <2>6
    <3>2. d \in (n - (i + 1))..n
      BY <2>1, <2>4, <3>1
    <3> QED
      BY <2>1, <2>4, <3>1, <3>2 DEF u, d
  <2> QED
    BY <2>2, <2>5, <2>6
<1> HIDE DEF S
<1>5. n \in S
  <2>1. \A i \in 0..n : i \in S
    BY <1>3, <1>4, InductionUpTo
  <2> QED
    BY <2>1
<1>6. Good(n)
  BY <1>5 DEF S
<1>7. v % Pow2[n] = v
  BY PowNat, SmallMod
<1>8. LeadingZeros(v, n) = z[n]
  BY DEF LeadingZeros, ZerosUpTo, z
<1>9. z[n] \in 0..n
  <2>1. n - n = 0
    OBVIOUS
  <2> QED
    BY <1>6, <2>1
<1> QED
  BY <1>6, <1>7, <1>8, <1>9 DEF LeadingIs

\* CTZ: the zeros at the end are those at the beginning of the reversed number.
TrailingIs(v, n, k) == v % Pow2[k] = 0 /\ (k = n \/ v % Pow2[k + 1] # 0)

\* Zeros at the end of a number.
LEMMA FewerDigits ==
  ASSUME NEW v \in Nat, NEW j \in Nat, NEW k \in Nat, j <= k, v % Pow2[k] = 0
  PROVE  v % Pow2[j] = 0
<1> DEFINE d == k - j
           a == Pow2[j]
           b == Pow2[d]
           c == Pow2[k]
           q == v \div c
<1>1. d \in Nat /\ j + d = k
  OBVIOUS
<1> HIDE DEF d
<1>2. a \in Nat \ {0} /\ b \in Nat \ {0} /\ c \in Nat \ {0} /\ c = a * b
  BY <1>1, PowNat, PowSum
<1>3. v % c = 0
  OBVIOUS
<1> HIDE DEF a, b, c
<1>4. q \in Nat /\ v = c * q + (v % c)
  BY <1>2, DivisionLaw
<1> HIDE DEF q
<1>5. v = c * q
  BY <1>2, <1>3, <1>4
<1>6. (a * b) * q = a * (b * q) + 0 /\ b * q \in Int /\ 0 \in 0..(a - 1)
  BY <1>2, <1>4
<1>7. v = a * (b * q) + 0
  BY <1>2, <1>5, <1>6, Zenon
<1>8. (a * (b * q) + 0) % a = 0
  BY <1>2, <1>6, QuotientOf, Zenon
<1> QED
  BY <1>7, <1>8, Zenon DEF a

LEMMA TrailingChosen ==
  ASSUME NEW n \in Nat, NEW v \in Nat, NEW k \in 0..n, TrailingIs(v, n, k)
  PROVE  Wasm!Trailing(v, n) = k
<1>1. Wasm!Trailing(v, n) = CHOOSE j \in 0..n : TrailingIs(v, n, j)
  BY WasmPowers, Zenon DEF Wasm!Trailing, TrailingIs
<1>2. ASSUME NEW i \in 0..n, NEW j \in 0..n, TrailingIs(v, n, i), TrailingIs(v, n, j), i < j
      PROVE  FALSE
  <2>1. i + 1 \in Nat /\ j \in Nat /\ i + 1 <= j /\ i # n
    BY <1>2
  <2>2. v % Pow2[j] = 0 /\ v % Pow2[i + 1] # 0
    BY <1>2, <2>1 DEF TrailingIs
  <2> QED
    BY <2>1, <2>2, FewerDigits
<1>3. ASSUME NEW j \in 0..n, TrailingIs(v, n, j) PROVE j = k
  <2>1. ~(j < k) /\ ~(k < j)
    BY <1>2, <1>3
  <2> QED
    BY <2>1
<1> QED
  BY <1>1, <1>3

\* RBIT turns the zeros at the end into leading ones.
LEMMA ReversedIs ==
  ASSUME NEW n \in Nat, NEW v \in 0..(Pow2[n] - 1)
  PROVE  /\ Reversed(v, n) \in 0..(Pow2[n] - 1)
         /\ \E k \in 0..n : TrailingIs(v, n, k) /\ LeadingIs(Reversed(v, n), n, k)
<1> DEFINE x == ReversedUpTo(v, n)
           Found(i, k) == /\ v % Pow2[k] = 0 /\ v % Pow2[k + 1] # 0
                          /\ x[i] \in Pow2[n - k - 1]..(Pow2[n - k] - Pow2[n - i])
           Good(i) == \/ v % Pow2[i] = 0 /\ x[i] = 0
                      \/ \E k \in 0..(i - 1) : Found(i, k)
           S == {i \in Nat : Good(i)}
<1>1. /\ x[0] = 0
      /\ \A i \in 1..n : x[i] = x[i - 1] + Bit(v, i - 1) * Pow2[n - i]
  BY PowNat, ReversedRecursion
<1>2. v \in Nat
  BY PowNat
<1> HIDE DEF x
<1>3. 0 \in S
  <2>1. v % Pow2[0] = 0
    BY <1>2, PowZero
  <2> QED
    BY <1>1, <2>1
<1>4. ASSUME NEW i \in 0..(n - 1), i \in S PROVE i + 1 \in S
  <2> DEFINE w == v % Pow2[i]
             b == Bit(v, i)
             q == Pow2[i]
             u == v % Pow2[i + 1]
             e == Pow2[n - (i + 1)]
             c == x[i]
             d == x[i + 1]
  <2>1. /\ i \in Nat /\ i + 1 \in 1..n /\ (i + 1) - 1 = i /\ i + 1 \in Nat
        /\ n - (i + 1) \in Nat /\ (n - (i + 1)) + 1 = n - i /\ n - i - 1 = n - (i + 1)
    OBVIOUS
  <2>2. u = w + q * b /\ w \in 0..(q - 1) /\ q \in Nat \ {0} /\ b \in {0, 1} /\ Pow2[i + 1] = 2 * q
    BY <1>2, <2>1, NextDigit
  <2>3. d = c + b * e
    BY <1>1, <2>1
  <2>4. e \in Nat \ {0} /\ Pow2[n - i] = 2 * e
    BY <2>1, PowNat, PowNext
  <2>5. CASE w = 0 /\ c = 0
    <3>1. CASE b = 0
      <4>1. u = 0 /\ d = 0
        <5> HIDE DEF w, b, q, u, e, c, d
        <5>1. q * b = 0 /\ b * e = 0
          BY <2>2, <2>4, <3>1
        <5> QED
          BY <2>2, <2>3, <2>5, <5>1
      <4> QED
        BY <2>1, <4>1
    <3>2. CASE b = 1
      <4>1. u = q /\ d = e
        BY <2>2, <2>3, <2>4, <2>5, <3>2
      <4>2. u # 0 /\ i \in 0..((i + 1) - 1)
        BY <2>1, <2>2, <4>1
      <4>3. d \in Pow2[n - i - 1]..(Pow2[n - i] - Pow2[n - (i + 1)])
        BY <2>1, <2>4, <4>1
      <4>4. Found(i + 1, i)
        BY <2>5, <4>2, <4>3
      <4> HIDE DEF Found
      <4> QED
        BY <2>1, <4>2, <4>4
    <3> QED
      BY <2>2, <3>1, <3>2
  <2>6. ASSUME NEW k \in 0..(i - 1), Found(i, k) PROVE Good(i + 1)
    <3>1. k \in 0..((i + 1) - 1) /\ n - k - 1 \in Nat /\ n - k \in Nat
      BY <2>1
    <3> DEFINE lo == Pow2[n - k - 1]
               hi == Pow2[n - k]
    <3>2. lo \in Nat /\ hi \in Nat
      BY <3>1, PowNat
    <3>3. c \in lo..(hi - 2 * e)
      BY <2>4, <2>6
    <3> HIDE DEF lo, hi, c, d, b, e
    <3>4. d \in lo..(hi - e)
      <4>1. b * e = 0 \/ b * e = e
        BY <2>2, <2>4
      <4> QED
        BY <2>3, <2>4, <3>2, <3>3, <4>1
    <3>5. Found(i + 1, k)
      BY <2>6, <3>4 DEF lo, hi, d, e
    <3> HIDE DEF Found
    <3> QED
      BY <3>1, <3>5
  <2>7. Good(i)
    BY <1>4
  <2>8. Good(i + 1)
    <3> HIDE DEF Found
    <3>1. CASE \E k \in 0..(i - 1) : Found(i, k)
      <4> HIDE DEF Good
      <4> QED
        BY <2>6, <3>1
    <3>2. CASE v % Pow2[i] = 0 /\ x[i] = 0
      <4>1. i + 1 \in S
        BY <2>5, <3>2
      <4> QED
        BY <4>1
    <3> QED
      BY <2>7, <3>1, <3>2
  <2> HIDE DEF Good
  <2> QED
    BY <2>1, <2>8
<1> HIDE DEF S
<1>5. n \in S
  <2>1. \A i \in 0..n : i \in S
    BY <1>3, <1>4, InductionUpTo
  <2> QED
    BY <2>1
<1>6. Good(n)
  BY <1>5 DEF S
<1>7. Reversed(v, n) = x[n] /\ n - n = 0
  BY DEF Reversed, ReversedUpTo, x
<1>8. Pow2[n] \in Nat \ {0} /\ Pow2[0] = 1
  BY PowNat, PowZero
<1>9. CASE v % Pow2[n] = 0 /\ x[n] = 0
  <2>1. n \in 0..n /\ TrailingIs(v, n, n)
    BY <1>9 DEF TrailingIs
  <2>2. LeadingIs(x[n], n, n)
    BY <1>7, <1>8, <1>9 DEF LeadingIs
  <2>3. x[n] \in 0..(Pow2[n] - 1)
    BY <1>8, <1>9
  <2> QED
    BY <1>7, <2>1, <2>2, <2>3
<1>10. ASSUME NEW k \in 0..(n - 1), Found(n, k)
       PROVE  /\ x[n] \in 0..(Pow2[n] - 1) /\ k \in 0..n
              /\ TrailingIs(v, n, k) /\ LeadingIs(x[n], n, k)
  <2>1. k \in 0..n /\ n - k \in Nat /\ n - k <= n /\ n - k - 1 \in Nat
    OBVIOUS
  <2>2. Pow2[n - k] <= Pow2[n] /\ Pow2[n - k] \in Nat /\ Pow2[n - k - 1] \in Nat
    BY <2>1, PowGrows, PowNat
  <2>3. x[n] \in Pow2[n - k - 1]..(Pow2[n - k] - 1)
    BY <1>7, <1>8, <1>10
  <2>4. x[n] \in 0..(Pow2[n] - 1)
    BY <1>8, <2>2, <2>3
  <2>5. TrailingIs(v, n, k)
    BY <1>10 DEF TrailingIs
  <2>6. LeadingIs(x[n], n, k)
    BY <2>2, <2>3 DEF LeadingIs
  <2> QED
    BY <2>1, <2>4, <2>5, <2>6
<1> HIDE DEF Found
<1> QED
  BY <1>6, <1>7, <1>9, <1>10, Zenon

\* EQZ, CTZ and CLZ.
LEMMA CountsAre ==
  ASSUME NEW n \in Nat, NEW v \in 0..(Pow2[n] - 1)
  PROVE  /\ LeadingZeros(v, n) = Wasm!Leading(v, n)
         /\ LeadingZeros(Reversed(v, n), n) = Wasm!Trailing(v, n)
         /\ LeadingZeros(v, n) \in 0..n /\ LeadingZeros(Reversed(v, n), n) \in 0..n
<1> DEFINE r == Reversed(v, n)
<1>1. v \in Nat /\ r \in 0..(Pow2[n] - 1) /\ r \in Nat
  BY ReversedIs, PowNat
<1>2. PICK k \in 0..n : TrailingIs(v, n, k) /\ LeadingIs(r, n, k)
  BY ReversedIs
<1> HIDE DEF r
<1>3. Wasm!Trailing(v, n) = k /\ Wasm!Leading(r, n) = k
  BY <1>1, <1>2, TrailingChosen, LeadingChosen
<1>4. /\ LeadingZeros(v, n) \in 0..n /\ Wasm!Leading(v, n) = LeadingZeros(v, n)
      /\ LeadingZeros(r, n) \in 0..n /\ Wasm!Leading(r, n) = LeadingZeros(r, n)
  BY <1>1, LeadingZerosIs, LeadingChosen
<1> QED
  BY <1>3, <1>4 DEF r

\* A count fits: 2^n > n.
LEMMA CountFits ==
  ASSUME NEW n \in Nat
  PROVE  0..n \subseteq 0..(Pow2[n] - 1)
<1> DEFINE S == {i \in Nat : Pow2[i] > i}
<1>1. 0 \in S
  BY PowZero
<1>2. ASSUME NEW i \in Nat, i \in S PROVE i + 1 \in S
  BY <1>2, PowNext, PowNat
<1> HIDE DEF S
<1>3. n \in S
  BY <1>1, <1>2, Induction
<1>4. Pow2[n] > n /\ Pow2[n] \in Nat
  BY <1>3, PowNat DEF S
<1> QED
  BY <1>4

-----------------------------------------------------------------------------
(***************************************************************************)
(* The operands below ROP, as a sequence of typed values.                  *)
(***************************************************************************)
Pair(t, v) == [type |-> t, val |-> v]
Pairs == {p \in [type : Types, val : Values("I64")] : p.val \in Values(p.type)}

LEMMA PairTyped == ASSUME NEW t \in Types, NEW v \in Values(t) PROVE Pair(t, v) \in Pairs
<1>1. v \in Values("I64")
  BY WiderTyped
<1> QED
  BY <1>1 DEF Pair, Pairs

\* An operand lies below those above it.
LEMMA CellsGrow ==
  ASSUME NEW ts \in Seq(Types), NEW n \in 1..Len(ts)
  PROVE  /\ CellsUpTo(ts)[n - 1] \in Nat
         /\ CellsUpTo(ts)[n - 1] + CellsOf(ts[n]) <= CellsUpTo(ts)[Len(ts)]
<1> DEFINE c == CellsUpTo(ts)
           m == Len(ts)
           S == {k \in Nat : \A j \in 0..k : c[j] <= c[k]}
<1>1. /\ m \in Nat /\ \A k \in 0..m : c[k] \in Nat
      /\ \A k \in 1..m : c[k] = c[k - 1] + CellsOf(ts[k])
  BY CellsRecursion
<1>2. \A k \in 1..m : CellsOf(ts[k]) \in {1, 2}
  BY CellsOfType
<1> HIDE DEF c, m
<1>3. 0 \in S
  <2>1. 0 \in 0..m
    BY <1>1
  <2>2. c[0] <= c[0]
    BY <1>1, <2>1
  <2>3. \A j \in 0..0 : j = 0
    OBVIOUS
  <2> QED
    BY <2>2, <2>3
<1>4. ASSUME NEW k \in 0..(m - 1), k \in S PROVE k + 1 \in S
  <2>1. k + 1 \in 1..m /\ (k + 1) - 1 = k /\ k \in 0..m /\ k + 1 \in Nat /\ k \in Nat
    BY <1>1
  <2>2. c[k] \in Nat /\ c[k + 1] > c[k] /\ c[k + 1] \in Nat
    BY <1>1, <1>2, <2>1
  <2>3. ASSUME NEW j \in 0..(k + 1) PROVE c[j] <= c[k + 1]
    <3>1. CASE j = k + 1
      BY <2>2, <3>1
    <3>2. CASE j # k + 1
      <4>1. j \in 0..k /\ j \in 0..m
        <5>1. m \in Nat /\ k \in Nat /\ k <= m
          BY <1>1, <2>1
        <5> HIDE <1>4
        <5> QED
          BY <3>2, <5>1
      <4> QED
        BY <1>1, <1>4, <2>2, <4>1
    <3> QED
      BY <3>1, <3>2
  <2> QED
    BY <2>1, <2>3
<1> HIDE DEF S
<1>5. m \in S
  <2>1. \A k \in 0..m : k \in S
    BY <1>1, <1>3, <1>4, InductionUpTo
  <2> QED
    BY <1>1, <2>1
<1>6. n \in 1..m
  BY DEF m
<1>7. n - 1 \in 0..m /\ n \in 0..m
  BY <1>1, <1>6
<1>8. c[n] <= c[m] /\ c[n] = c[n - 1] + CellsOf(ts[n]) /\ c[n - 1] \in Nat
  BY <1>1, <1>5, <1>6, <1>7 DEF S
<1> QED
  BY <1>8 DEF c, m

LEMMA SameLoaded ==
  ASSUME NEW a, NEW b, NEW at, NEW t \in Types, a[at] = b[at], t = "I64" => a[at + 1] = b[at + 1]
  PROVE  LoadedFrom(a, at, t) = LoadedFrom(b, at, t)
  BY DEF LoadedFrom

\* Every operand is a value of its type.
LEMMA OperandsAre ==
  ASSUME NEW ts, NEW mem, Operands(ts, mem)
  PROVE  /\ OperandsOf(ts, mem) \in Seq(Pairs) /\ Len(OperandsOf(ts, mem)) = Len(ts)
         /\ \A n \in 1..Len(ts) :
              OperandsOf(ts, mem)[n] = Pair(ts[n], LoadedFrom(mem, CellsUpTo(ts)[n - 1] + 1, ts[n]))
<1> DEFINE P(n) == Pair(ts[n], LoadedFrom(mem, CellsUpTo(ts)[n - 1] + 1, ts[n]))
<1>1. /\ ts \in Seq(Types) /\ mem \in Seq(Cell) /\ Len(mem) = CellsUpTo(ts)[Len(ts)]
      /\ Len(ts) \in Nat /\ DOMAIN ts = 1..Len(ts)
  BY DEF Operands
<1>2. ASSUME NEW n \in 1..Len(ts) PROVE P(n) \in Pairs
  <2> DEFINE c == CellsUpTo(ts)[n - 1]
             t == ts[n]
  <2>1. t \in Types /\ CellsOf(t) \in {1, 2} /\ (t = "I64" => CellsOf(t) = 2)
    BY <1>1, CellsOfType DEF CellsOf
  <2>2. c \in Nat /\ c + CellsOf(t) <= Len(mem)
    BY <1>1, CellsGrow
  <2> HIDE DEF c, t
  <2>3. c + 1 \in 1..Len(mem) /\ c + 1 \in Int /\ (t = "I64" => (c + 1) + 1 \in 1..Len(mem))
    BY <1>1, <2>1, <2>2
  <2>4. mem[c + 1] \in Cell /\ (t = "I64" => mem[(c + 1) + 1] \in Cell)
    BY <1>1, <2>3
  <2>5. LoadedFrom(mem, c + 1, t) \in Values(t)
    BY <2>1, <2>3, <2>4, LoadedTyped
  <2> QED
    BY <2>1, <2>5, PairTyped DEF c, t
<1>3. OperandsOf(ts, mem) = [n \in 1..Len(ts) |-> P(n)]
  BY <1>1 DEF OperandsOf, Pair
<1> HIDE DEF P
<1>4. [n \in 1..Len(ts) |-> P(n)] \in [1..Len(ts) -> Pairs]
  BY <1>2
<1>5. OperandsOf(ts, mem) \in [1..Len(ts) -> Pairs]
  BY <1>3, <1>4
<1>6. \A n \in 1..Len(ts) : OperandsOf(ts, mem)[n] = P(n)
  BY <1>3
<1> DEFINE o == OperandsOf(ts, mem)
<1> HIDE DEF o
<1>7. o \in [1..Len(ts) -> Pairs]
  BY <1>5 DEF o
<1>8. o \in Seq(Pairs) /\ Len(o) = Len(ts)
  BY <1>1, <1>7
<1> QED
  BY <1>6, <1>8 DEF o, P

\* Sequences are equal when their elements are.
LEMMA SameSequences ==
  ASSUME NEW S, NEW a \in Seq(S), NEW b \in Seq(S), Len(a) = Len(b),
         \A n \in 1..Len(a) : a[n] = b[n]
  PROVE  a = b
  OBVIOUS

LEMMA Appended ==
  ASSUME NEW S, NEW s \in Seq(S), NEW x \in S
  PROVE  /\ Append(s, x) \in Seq(S) /\ Len(Append(s, x)) = Len(s) + 1 /\ Len(s) \in Nat
         /\ Append(s, x)[Len(s) + 1] = x
         /\ \A n \in 1..Len(s) : Append(s, x)[n] = s[n]
  OBVIOUS

\* The newest operand, and those below it.
LEMMA TopOperand ==
  ASSUME NEW ts \in Seq(Types), NEW t \in Types, NEW mem, Operands(Append(ts, t), mem)
  PROVE  /\ OperandsOf(Append(ts, t), mem) =
              Append(OperandsOf(ts, Popped(mem, t)), Pair(t, Operand(mem, t)))
         /\ OperandsOf(ts, Popped(mem, t)) \in Seq(Pairs)
         /\ Pair(t, Operand(mem, t)) \in Pairs
         /\ Operands(ts, Popped(mem, t))
<1> DEFINE us == Append(ts, t)
           m == Len(ts)
           below == Popped(mem, t)
           x == Pair(t, Operand(mem, t))
           o == OperandsOf(us, mem)
           r == OperandsOf(ts, below)
<1>1. /\ us \in Seq(Types) /\ Len(us) = m + 1 /\ us[m + 1] = t /\ m \in Nat
      /\ \A n \in 1..m : us[n] = ts[n]
      /\ SubSeq(us, 1, Len(us) - 1) = ts
  <2>1. /\ us \in Seq(Types) /\ Len(us) = m + 1 /\ us[m + 1] = t /\ m \in Nat
        /\ \A n \in 1..m : us[n] = ts[n]
    BY Appended
  <2> HIDE DEF us
  <2> DEFINE cut == SubSeq(us, 1, Len(us) - 1)
  <2>2. 1 \in Nat /\ 1 <= Len(us) /\ Len(us) - 1 = m
    BY <2>1
  <2>3. cut \in Seq(Types) /\ Len(cut) = Len(us) - 1 /\ \A i \in 1..(Len(us) - 1) : cut[i] = us[i]
    BY <2>1, <2>2, Shortened, Zenon
  <2> HIDE DEF cut
  <2>4. \A i \in 1..Len(cut) : cut[i] = ts[i]
    BY <2>1, <2>2, <2>3
  <2>5. cut = ts
    BY <2>1, <2>2, <2>3, <2>4, SameSequences
  <2> QED
    BY <2>1, <2>5 DEF cut
<1> HIDE DEF us
<1>2. Operands(us, mem) /\ mem \in Seq(Cell)
  BY DEF us, Operands
<1>3. /\ Len(mem) >= CellsOf(t) /\ CellsOf(t) \in {1, 2}
      /\ Len(mem) - CellsOf(t) = CellsUpTo(us)[m]
      /\ Operands(ts, below)
  <2>1. t = us[Len(us)] /\ Len(us) >= 1 /\ Len(us) - 1 = m
    BY <1>1
  <2>2. /\ Len(mem) >= CellsOf(t) /\ CellsOf(t) \in {1, 2}
        /\ Len(mem) - CellsOf(t) = CellsUpTo(us)[Len(us) - 1]
        /\ Operands(SubSeq(us, 1, Len(us) - 1), Popped(mem, t))
    BY <1>2, <2>1, PoppedTyped
  <2> QED
    BY <1>1, <2>1, <2>2
<1>4. x \in Pairs
  <2>1. Operand(mem, t) \in Values(t)
    BY <1>2, <1>3, OperandTyped
  <2> QED
    BY <2>1, PairTyped
<1>5. /\ r \in Seq(Pairs) /\ Len(r) = m
      /\ \A n \in 1..m : r[n] = Pair(ts[n], LoadedFrom(below, CellsUpTo(ts)[n - 1] + 1, ts[n]))
  BY <1>3, OperandsAre
<1>6. /\ o \in Seq(Pairs) /\ Len(o) = m + 1
      /\ \A n \in 1..(m + 1) : o[n] = Pair(us[n], LoadedFrom(mem, CellsUpTo(us)[n - 1] + 1, us[n]))
  <2>1. /\ o \in Seq(Pairs) /\ Len(o) = Len(us)
        /\ \A n \in 1..Len(us) : o[n] = Pair(us[n], LoadedFrom(mem, CellsUpTo(us)[n - 1] + 1, us[n]))
    BY <1>2, OperandsAre
  <2> HIDE DEF o
  <2> QED
    BY <1>1, <2>1
<1>7. Len(below) = CellsUpTo(ts)[m] /\ Len(below) \in Nat /\ \A n \in 1..Len(below) : below[n] = mem[n]
  <2>1. Len(below) = CellsUpTo(ts)[m] /\ below \in Seq(Cell)
    BY <1>3 DEF Operands
  <2>2. CellsOf(t) \in Nat /\ CellsOf(t) <= Len(mem)
    BY <1>3
  <2>3. /\ Len(below) = Len(mem) - CellsOf(t)
        /\ \A i \in 1..(Len(mem) - CellsOf(t)) : below[i] = mem[i]
    BY <1>2, <2>2, Shortened, Zenon DEF Popped
  <2> HIDE DEF below
  <2> QED
    BY <2>1, <2>3
<1>8. \A n \in 0..m : CellsUpTo(us)[n] = CellsUpTo(ts)[n]
  BY CellsAppend DEF us
<1> HIDE DEF below
<1>9. ASSUME NEW n \in 1..m PROVE o[n] = r[n]
  <2> DEFINE c == CellsUpTo(ts)[n - 1]
             u == ts[n]
  <2>1. u \in Types /\ CellsOf(u) \in {1, 2} /\ (u = "I64" => CellsOf(u) = 2) /\ n - 1 \in 0..m
    BY <1>1, CellsOfType DEF CellsOf
  <2>2. c \in Nat /\ c + CellsOf(u) <= Len(below)
    BY <1>7, CellsGrow
  <2>3. o[n] = Pair(u, LoadedFrom(mem, c + 1, u)) /\ r[n] = Pair(u, LoadedFrom(below, c + 1, u))
    <3>1. n \in 1..(m + 1) /\ us[n] = ts[n] /\ CellsUpTo(us)[n - 1] = CellsUpTo(ts)[n - 1]
      BY <1>1, <1>8, <2>1
    <3> HIDE DEF o, r
    <3> QED
      BY <1>5, <1>6, <3>1
  <2> HIDE DEF c, u
  <2>4. c + 1 \in 1..Len(below) /\ (u = "I64" => (c + 1) + 1 \in 1..Len(below))
    BY <1>7, <2>1, <2>2
  <2>5. LoadedFrom(mem, c + 1, u) = LoadedFrom(below, c + 1, u)
    BY <1>7, <2>1, <2>4, SameLoaded
  <2> HIDE DEF o, r
  <2> QED
    BY <2>3, <2>5
<1>10. o[m + 1] = x
  <2>1. (m + 1) - 1 = m /\ m + 1 \in 1..(m + 1)
    BY <1>1
  <2>2. o[m + 1] = Pair(t, LoadedFrom(mem, CellsUpTo(us)[m] + 1, t))
    <3> HIDE DEF o
    <3> QED
      BY <1>1, <1>6, <2>1
  <2>3. Operand(mem, t) = LoadedFrom(mem, Len(mem) - CellsOf(t) + 1, t)
    BY DEF Operand
  <2> QED
    BY <1>3, <2>2, <2>3, Zenon
<1> DEFINE a == Append(r, x)
<1>11. a \in Seq(Pairs) /\ Len(a) = m + 1 /\ a[m + 1] = x /\ \A n \in 1..m : a[n] = r[n]
  <2> HIDE DEF r, x
  <2>1. /\ a \in Seq(Pairs) /\ Len(a) = Len(r) + 1 /\ a[Len(r) + 1] = x
        /\ \A n \in 1..Len(r) : a[n] = r[n]
    BY <1>4, <1>5, Appended
  <2> HIDE DEF a
  <2> QED
    BY <1>5, <2>1
<1> HIDE DEF a, o, r, x
<1>12. \A n \in 1..(m + 1) : o[n] = a[n]
  <2> TAKE n \in 1..(m + 1)
  <2>1. n \in 1..m \/ n = m + 1
    BY <1>1
  <2> QED
    BY <1>9, <1>10, <1>11, <2>1
<1>13. o = a
  BY <1>6, <1>11, <1>12, SameSequences
<1> QED
  BY <1>3, <1>4, <1>5, <1>13 DEF a, o, r, x, us, below

\* Pushing a value appends an operand.
LEMMA PushedOperand ==
  ASSUME NEW ts, NEW mem, Operands(ts, mem), NEW t \in Types, NEW x \in Values(t)
  PROVE  /\ OperandsOf(Append(ts, t), Pushed(mem, t, x)) = Append(OperandsOf(ts, mem), Pair(t, x))
         /\ OperandsOf(ts, mem) \in Seq(Pairs) /\ Pair(t, x) \in Pairs
<1>1. ts \in Seq(Types) /\ mem \in Seq(Cell)
  BY DEF Operands
<1>2. x \in Int
  BY WidthTyped DEF Values
<1>3. Operands(Append(ts, t), Pushed(mem, t, x))
  BY <1>2, PushedTyped
<1>4. Operand(Pushed(mem, t, x), t) = x /\ Popped(Pushed(mem, t, x), t) = mem
  BY <1>1, OperandOfPushed
<1> DEFINE all == Pushed(mem, t, x)
<1> HIDE DEF all
<1>5. /\ OperandsOf(Append(ts, t), all) =
           Append(OperandsOf(ts, Popped(all, t)), Pair(t, Operand(all, t)))
      /\ OperandsOf(ts, Popped(all, t)) \in Seq(Pairs)
      /\ Pair(t, Operand(all, t)) \in Pairs
  BY <1>1, <1>3, TopOperand DEF all
<1> QED
  BY <1>4, <1>5 DEF all

\* Wasm's view of a stack with one or two more operands on it.
LEMMA OneOnTop ==
  ASSUME NEW S, NEW s \in Seq(S), NEW a \in S, NEW w, w = Append(s, a)
  PROVE  /\ w \in Seq(S) /\ Len(w) >= 1 /\ w[Len(w)] = a /\ SubSeq(w, 1, Len(w) - 1) = s
<1>1. /\ w \in Seq(S) /\ Len(w) = Len(s) + 1 /\ Len(s) \in Nat /\ w[Len(s) + 1] = a
      /\ \A n \in 1..Len(s) : w[n] = s[n]
  BY Appended
<1> DEFINE cut == SubSeq(w, 1, Len(w) - 1)
<1>2. 1 \in Nat /\ 1 <= Len(w) /\ Len(w) - 1 = Len(s)
  BY <1>1
<1>3. cut \in Seq(S) /\ Len(cut) = Len(w) - 1 /\ \A i \in 1..(Len(w) - 1) : cut[i] = w[i]
  BY <1>1, <1>2, Shortened, Zenon
<1> HIDE DEF cut
<1>4. \A i \in 1..Len(cut) : cut[i] = s[i]
  BY <1>1, <1>2, <1>3
<1>5. cut = s
  BY <1>2, <1>3, <1>4, SameSequences
<1> QED
  BY <1>1, <1>5 DEF cut

LEMMA TwoOnTop ==
  ASSUME NEW S, NEW s \in Seq(S), NEW a \in S, NEW b \in S, NEW w, w = Append(Append(s, a), b)
  PROVE  /\ w \in Seq(S) /\ Len(w) >= 2 /\ w[Len(w)] = b /\ w[Len(w) - 1] = a
         /\ SubSeq(w, 1, Len(w) - 2) = s
<1> DEFINE r == Append(s, a)
<1>1. /\ r \in Seq(S) /\ Len(r) = Len(s) + 1 /\ Len(s) \in Nat /\ r[Len(s) + 1] = a
      /\ \A n \in 1..Len(s) : r[n] = s[n]
  BY Appended
<1> HIDE DEF r
<1>2. /\ w \in Seq(S) /\ Len(w) = Len(r) + 1 /\ w[Len(r) + 1] = b
      /\ \A n \in 1..Len(r) : w[n] = r[n]
  BY <1>1, Appended DEF r
<1> DEFINE cut == SubSeq(w, 1, Len(w) - 2)
<1>3. 2 \in Nat /\ 2 <= Len(w) /\ Len(w) - 2 = Len(s) /\ Len(w) - 1 = Len(s) + 1
  BY <1>1, <1>2
<1>4. cut \in Seq(S) /\ Len(cut) = Len(w) - 2 /\ \A i \in 1..(Len(w) - 2) : cut[i] = w[i]
  BY <1>2, <1>3, Shortened, Zenon
<1> HIDE DEF cut
<1>5. \A i \in 1..Len(cut) : cut[i] = s[i]
  BY <1>1, <1>2, <1>3, <1>4
<1>6. cut = s
  BY <1>3, <1>4, <1>5, SameSequences
<1>7. w[Len(w) - 1] = a /\ w[Len(w)] = b
  BY <1>1, <1>2, <1>3
<1> QED
  BY <1>2, <1>3, <1>6, <1>7 DEF cut

-----------------------------------------------------------------------------
(***************************************************************************)
(* What an instruction takes and what it leaves.                           *)
(***************************************************************************)
Runs == phase \in {"running", "reading"}

\* Wasm's view of a function that runs.
LEMMA RunningIs ==
  ASSUME MInv, Runs
  PROVE  /\ WasmPhase = "running" /\ WasmOutcome = outcome
         /\ WasmOperands = OperandsOf(types, opmem) /\ WasmOperands \in Seq(Pairs)
         /\ Len(WasmOperands) = Len(types) /\ Len(WasmOperands) \in Nat
         /\ Operands(types, opmem) /\ Wasm!Has(0)
<1>1. Operands(types, opmem)
  BY DEF MInv, Machine, Stacks, Runs
<1>2. WasmPhase = "running" /\ WasmOutcome = outcome /\ WasmOperands = OperandsOf(types, opmem)
  BY DEF WasmPhase, WasmOutcome, WasmOperands, Live, Runs
<1>3. WasmOperands \in Seq(Pairs) /\ Len(WasmOperands) = Len(types)
  BY <1>1, <1>2, OperandsAre
<1>4. Len(WasmOperands) \in Nat
  BY <1>3
<1> QED
  BY <1>1, <1>2, <1>3, <1>4 DEF Wasm!Has

\* Locals stay the same when slots, registers and frame do.
LEMMA LocalsKept ==
  ASSUME Runs, Runs', UNCHANGED slots, UNCHANGED reg, UNCHANGED frame
  PROVE  WasmLocals' = WasmLocals /\ NParams' = NParams
  BY DEF WasmLocals, LocalValue, Register, LoadedFrom, NParams, Live, Runs

\* An instruction that changes the operand stack only.
LEMMA ExecutedBecomes ==
  ASSUME MInv, Runs, NEW ts, NEW mem, Executed(ts, mem)
  PROVE  Wasm!Becomes(OperandsOf(ts, mem)) /\ WasmOperands' = OperandsOf(ts, mem)
<1>1. /\ phase' = "running" /\ types' = ts /\ opmem' = mem
      /\ UNCHANGED slots /\ UNCHANGED reg /\ UNCHANGED frame /\ UNCHANGED outcome
  BY DEF Executed
<1>2. Runs' /\ WasmPhase' = "running" /\ WasmOutcome' = outcome /\ WasmOperands' = OperandsOf(ts, mem)
  BY <1>1 DEF WasmPhase, WasmOutcome, WasmOperands, Live, Runs, OperandsOf, LoadedFrom
<1>3. WasmLocals' = WasmLocals /\ NParams' = NParams
  BY <1>1, <1>2, LocalsKept
<1> QED
  BY <1>2, <1>3, RunningIs DEF Wasm!Becomes

LEMMA TypedPair ==
  ASSUME NEW p \in Pairs
  PROVE  Wasm!IsTyped(p)
<1>1. p.type \in Types /\ p.val \in Values(p.type)
  BY DEF Pairs
<1> QED
  BY <1>1, WasmWidth, WasmSets DEF Wasm!IsTyped

\* A constant, the value of a local or the result of a call is pushed.
LEMMA PushIs ==
  ASSUME MInv, Runs, NEW t \in Types, NEW x \in Values(t), NEW op,
         WasmOperands' = Append(WasmOperands, Pair(t, x)), Wasm!Becomes(WasmOperands'),
         done' = <<op>>, op = "I32_CONST" => t = "I32", op = "I64_CONST" => t = "I64"
  PROVE  Wasm!Push(op)
<1>1. WasmOperands \in Seq(Pairs) /\ Wasm!Has(0)
  BY RunningIs
<1>2. Pair(t, x) \in Pairs /\ Pair(t, x).type = t
  BY PairTyped DEF Pair
<1> DEFINE p == Pair(t, x)
           w == WasmOperands'
<1> HIDE DEF p, w
<1>3. Len(w) = Len(WasmOperands) + 1 /\ w[Len(w)] = p
  <2>1. w = Append(WasmOperands, p) /\ p \in Pairs
    BY <1>2 DEF w, p
  <2>2. /\ Len(Append(WasmOperands, p)) = Len(WasmOperands) + 1
        /\ Append(WasmOperands, p)[Len(WasmOperands) + 1] = p
    BY <1>1, <2>1, Appended
  <2> QED
    BY <2>1, <2>2
<1>4. Wasm!IsTyped(p)
  BY <1>2, TypedPair DEF p
<1>5. /\ Len(WasmOperands') = Len(WasmOperands) + 1
      /\ WasmOperands'[Len(WasmOperands')] = p
  BY <1>3 DEF w
<1>6. Wasm!Becomes(Append(WasmOperands, p)) /\ p.type = t
  BY <1>2 DEF p
<1> QED
  BY <1>1, <1>4, <1>5, <1>6, Zenon DEF Wasm!Push

LEMMA TypesSplit ==
  ASSUME types \in Seq(Types), Len(types) >= 1
  PROVE  types = Append(TypesBelow(1), Newest) /\ TypesBelow(1) \in Seq(Types) /\ Newest \in Types
  BY DEF TypesBelow, Newest

\* An instruction that takes one operand, and one that takes two.
LEMMA TakesOne ==
  ASSUME MInv, Runs, Len(types) >= 1
  PROVE  LET t == Newest
             rest == Popped(opmem, t)
             x == Pair(t, Operand(opmem, t))
         IN  /\ Wasm!Has(1) /\ Wasm!Newest = x /\ Wasm!Below(1) = OperandsOf(TypesBelow(1), rest)
             /\ t \in Types /\ Operands(TypesBelow(1), rest) /\ x \in Pairs
             /\ types = Append(TypesBelow(1), t)
<1> DEFINE t == Newest
           rest == Popped(opmem, t)
           x == Pair(t, Operand(opmem, t))
           ts == TypesBelow(1)
           s == OperandsOf(ts, rest)
           w == WasmOperands
<1>1. w = OperandsOf(types, opmem) /\ Operands(types, opmem) /\ types \in Seq(Types)
      /\ WasmPhase = "running"
  BY RunningIs DEF Operands
<1>2. types = Append(ts, t) /\ ts \in Seq(Types) /\ t \in Types
  BY <1>1, TypesSplit
<1> HIDE DEF t, ts, w
<1>3. w = Append(s, x) /\ s \in Seq(Pairs) /\ x \in Pairs /\ Operands(ts, rest)
  BY <1>1, <1>2, TopOperand
<1> HIDE DEF s, x, rest
<1>4. Len(w) >= 1 /\ w[Len(w)] = x /\ SubSeq(w, 1, Len(w) - 1) = s
  BY <1>3, OneOnTop
<1>5. Wasm!Has(1) /\ Wasm!Newest = x /\ Wasm!Below(1) = s
  BY <1>1, <1>4 DEF Wasm!Has, Wasm!Newest, Wasm!Below, w
<1> QED
  BY <1>2, <1>3, <1>5 DEF t, rest, x, ts, s

LEMMA TakesBoth ==
  ASSUME MInv, HasTwo
  PROVE  LET t == Newest
             rest == Popped(opmem, t)
             left == Popped(rest, t)
         IN  /\ Wasm!Has(2) /\ Wasm!Newest = Pair(t, Operand(opmem, t))
             /\ Wasm!Second = Pair(t, Operand(rest, t))
             /\ Wasm!Below(2) = OperandsOf(TypesBelow(2), left)
<1> DEFINE t == Newest
           rest == Popped(opmem, t)
           left == Popped(rest, t)
           a == Pair(t, Operand(rest, t))
           b == Pair(t, Operand(opmem, t))
           ts == TypesBelow(2)
           us == TypesBelow(1)
           s == OperandsOf(ts, left)
           w == WasmOperands
<1>1. Runs /\ Len(types) >= 1
  BY DEF HasTwo, Has, Runs
<1>2. w = OperandsOf(types, opmem) /\ Operands(types, opmem) /\ types \in Seq(Types)
      /\ WasmPhase = "running"
  BY <1>1, RunningIs DEF Operands
<1>3. types = Append(us, t) /\ us \in Seq(Types) /\ t \in Types
  BY <1>1, <1>2, TypesSplit
<1>4. us = Append(ts, t) /\ Operands(ts, left)
  BY TakesTwo
<1>5. ts \in Seq(Types)
  BY <1>4 DEF Operands
<1> HIDE DEF t, ts, us, w
<1>6. w = Append(OperandsOf(us, rest), b) /\ b \in Pairs /\ Operands(us, rest)
  BY <1>2, <1>3, TopOperand
<1> HIDE DEF rest
<1>7. OperandsOf(us, rest) = Append(s, a) /\ s \in Seq(Pairs) /\ a \in Pairs
  BY <1>3, <1>4, <1>5, <1>6, TopOperand
<1>8. w = Append(Append(s, a), b)
  BY <1>6, <1>7
<1> HIDE DEF s, a, b, left
<1>9. Len(w) >= 2 /\ w[Len(w)] = b /\ w[Len(w) - 1] = a /\ SubSeq(w, 1, Len(w) - 2) = s
  BY <1>6, <1>7, <1>8, TwoOnTop
<1>10. Wasm!Has(2) /\ Wasm!Newest = b /\ Wasm!Second = a /\ Wasm!Below(2) = s
  BY <1>2, <1>9 DEF Wasm!Has, Wasm!Newest, Wasm!Second, Wasm!Below, w
<1> QED
  BY <1>10 DEF t, rest, left, a, b, ts, s

\* The ways a function ends.
LEMMA EndsIs ==
  ASSUME NEW result, phase' = "ended", outcome' = result, UNCHANGED slots
  PROVE  Wasm!Ends(result)
<1>1. WasmPhase' = "ended" /\ WasmLocals' = <<>> /\ WasmOperands' = <<>> /\ WasmOutcome' = result
  BY DEF WasmPhase, WasmLocals, WasmOperands, WasmOutcome, Live
<1>2. NParams' = NParams
  BY DEF NParams
<1> QED
  BY <1>1, <1>2 DEF Wasm!Ends

\* A function may be refused in any phase before it ends.
LEMMA RefuseIs ==
  ASSUME phase \in {"params", "running", "reading"}, NEW why, Refused(why), UNCHANGED done
  PROVE  Wasm!Refuse
<1>1. phase' = "refused" /\ UNCHANGED slots
  BY DEF Refused
<1>2. /\ WasmPhase' = "ended" /\ WasmLocals' = <<>> /\ WasmOperands' = <<>>
      /\ WasmOutcome' = Wasm!End("refused")
  BY <1>1 DEF WasmPhase, WasmLocals, WasmOperands, WasmOutcome, Live, End, Wasm!End
<1>3. NParams' = NParams
  BY <1>1 DEF NParams
<1>4. WasmPhase # "ended"
  BY DEF WasmPhase, Live
<1> QED
  BY <1>2, <1>3, <1>4 DEF Wasm!Refuse, Wasm!Ends

-----------------------------------------------------------------------------
(***************************************************************************)
(* The instructions without an immediate.                                  *)
(***************************************************************************)
\* What is pushed in the place of operands.
LEMMA ReplacedIs ==
  ASSUME MInv, Runs, NEW ts, NEW mem, Operands(ts, mem), NEW t \in Types, NEW x \in Values(t),
         Executed(Append(ts, t), Pushed(mem, t, x))
  PROVE  /\ Wasm!Becomes(Append(OperandsOf(ts, mem), Pair(t, x)))
         /\ WasmOperands' = Append(OperandsOf(ts, mem), Pair(t, x))
<1> DEFINE us  == Append(ts, t)
           all == Pushed(mem, t, x)
<1>1. OperandsOf(us, all) = Append(OperandsOf(ts, mem), Pair(t, x))
  BY PushedOperand
<1> HIDE DEF us, all
<1>2. Wasm!Becomes(OperandsOf(us, all)) /\ WasmOperands' = OperandsOf(us, all)
  BY ExecutedBecomes DEF us, all
<1> QED
  BY <1>1, <1>2, Zenon

LEMMA OfPair == \A t, v : Wasm!Of(t, v) = Pair(t, v) /\ Pair(t, v).type = t /\ Pair(t, v).val = v
  BY DEF Wasm!Of, Pair

\* A truth value is an i32.
LEMMA TruthIs ==
  /\ \A p \in BOOLEAN : (IF p THEN 1 ELSE 0) \in Values("I32")
  /\ \A p : Wasm!Truth(p) = Pair("I32", IF p THEN 1 ELSE 0)
<1>1. Pow2[Width("I32")] \in Nat /\ Pow2[Width("I32")] >= 2
  <2>1. Width("I32") \in Nat \ {0} /\ "I32" \in Types
    BY WidthTyped DEF Types
  <2> DEFINE n == Width("I32")
  <2> HIDE DEF n
  <2>2. Pow2[n] = 2 * Pow2[n - 1] /\ Pow2[n - 1] \in Nat \ {0}
    BY <2>1, Halved DEF n
  <2>3. Pow2[n] \in Nat /\ Pow2[n] >= 2
    BY <2>2
  <2> QED
    BY <2>3 DEF n
<1> DEFINE p == Pow2[Width("I32")]
<1>2. p \in Nat /\ p >= 2
  BY <1>1
<1> HIDE DEF p
<1>3. 0 \in 0..(p - 1) /\ 1 \in 0..(p - 1)
  BY <1>2
<1> QED
  BY <1>3, OfPair DEF Values, Wasm!Truth, p

\* ADD, SUB, MUL and the divisions, with their traps.
LEMMA ArithmeticIs ==
  ASSUME MInv, NEW op \in Binary \ Comparisons, Arithmetic(op)
  PROVE  Wasm!Operate(op)
<1> DEFINE t    == Newest
           r    == Operand(opmem, t)
           rest == Popped(opmem, t)
           l    == Operand(rest, t)
           left == Popped(rest, t)
           n    == Width(t)
           s    == OperandsOf(TypesBelow(2), left)
<1>1. HasTwo /\ Step(op) /\ Runs
  BY DEF Arithmetic, HasTwo, Has, Runs
<1>2. /\ t \in Types /\ r \in Values(t) /\ l \in Values(t)
      /\ TypesBelow(1) = Append(TypesBelow(2), t) /\ Operands(TypesBelow(2), left)
  BY <1>1, TakesTwo
<1>3. /\ Wasm!Has(2) /\ Wasm!Newest = Pair(t, r) /\ Wasm!Second = Pair(t, l)
      /\ Wasm!Below(2) = s
  BY <1>1, TakesBoth
<1>4. done' = <<op>>
  BY <1>1 DEF Step
<1>5. \/ op \in Divisions /\ r = 0 /\ Ended(End("DIV_0"))
      \/ /\ op \in Divisions => r # 0
         /\ TrapsOverflow(op, t, l, r) /\ Ended(End("Integer_overflow"))
      \/ /\ op \in Divisions => r # 0
         /\ ~TrapsOverflow(op, t, l, r)
         /\ Executed(TypesBelow(1), Pushed(left, t, Alu(op, l, r, n)))
  BY DEF Arithmetic
<1> HIDE DEF t, r, rest, l, left, s
<1>6. /\ Wasm!Newest.type = t /\ Wasm!Second.type = t
      /\ Wasm!Newest.val = r /\ Wasm!Second.val = l
  BY <1>3, OfPair
<1>7. TrapsOverflow(op, t, l, r) <=> Wasm!Overflows(op, t, l, r)
  BY <1>2, TrapsIs
<1>8. Wasm!Divisions = Divisions
  BY WasmSets
<1>9. CASE op \in Divisions /\ r = 0 /\ Ended(End("DIV_0"))
  <2>1. phase' = "ended" /\ outcome' = Wasm!End("DIV_0") /\ UNCHANGED slots
    BY <1>9 DEF Ended, End, Wasm!End
  <2>2. Wasm!Ends(Wasm!End("DIV_0"))
    BY <2>1, EndsIs
  <2> QED
    BY <1>3, <1>4, <1>6, <1>8, <1>9, <2>2 DEF Wasm!Operate
<1>10. CASE (op \in Divisions => r # 0) /\ TrapsOverflow(op, t, l, r) /\ Ended(End("Integer_overflow"))
  <2>1. phase' = "ended" /\ outcome' = Wasm!End("Integer_overflow") /\ UNCHANGED slots
    BY <1>10 DEF Ended, End, Wasm!End
  <2>2. Wasm!Ends(Wasm!End("Integer_overflow"))
    BY <2>1, EndsIs
  <2> QED
    BY <1>3, <1>4, <1>6, <1>7, <1>8, <1>10, <2>2 DEF Wasm!Operate
<1>11. CASE /\ op \in Divisions => r # 0
            /\ ~TrapsOverflow(op, t, l, r)
            /\ Executed(TypesBelow(1), Pushed(left, t, Alu(op, l, r, n)))
  <2> DEFINE x == Alu(op, l, r, n)
  <2>1. n \in Nat \ {0} /\ l \in 0..(Pow2[n] - 1) /\ r \in 0..(Pow2[n] - 1)
    BY <1>2, WidthTyped DEF Values
  <2>2. x = Wasm!Compute(op, l, r, n) /\ x \in Values(t)
    BY <1>11, <2>1, AluIs DEF Values
  <2>3. Wasm!Applied(op, t, l, r) = Pair(t, x)
    <3>1. op \notin Wasm!Comparisons /\ Wasm!Width(t) = n
      BY <1>2, WasmSets, WasmWidth
    <3> HIDE DEF x, n
    <3> QED
      BY <2>2, <3>1, OfPair DEF Wasm!Applied
  <2> HIDE DEF x
  <2>4. Wasm!Becomes(Append(s, Pair(t, x)))
    <3>1. Executed(Append(TypesBelow(2), t), Pushed(left, t, x))
      BY <1>2, <1>11 DEF x
    <3> QED
      BY <1>1, <1>2, <2>2, <3>1, ReplacedIs DEF s
  <2> HIDE DEF n
  <2>5. Wasm!Becomes(Append(Wasm!Below(2), Wasm!Applied(op, t, l, r)))
    BY <1>3, <2>3, <2>4, Zenon
  <2> QED
    BY <1>3, <1>4, <1>6, <1>7, <1>8, <1>11, <2>5, Zenon DEF Wasm!Operate
<1> QED
  BY <1>5, <1>9, <1>10, <1>11

\* CMP, and the MOV that the condition skips.
LEMMA ComparisonIs ==
  ASSUME MInv, NEW op \in Comparisons, Comparison(op)
  PROVE  Wasm!Operate(op)
<1> DEFINE t    == Newest
           r    == Operand(opmem, t)
           rest == Popped(opmem, t)
           l    == Operand(rest, t)
           left == Popped(rest, t)
           n    == Width(t)
           s    == OperandsOf(TypesBelow(2), left)
           p    == Condition[op] \in Satisfied(Flags(l, r, n))
           x    == IF p THEN 1 ELSE 0
<1>1. HasTwo /\ Step(op) /\ Runs
  BY DEF Comparison, HasTwo, Has, Runs
<1>2. t \in Types /\ r \in Values(t) /\ l \in Values(t) /\ Operands(TypesBelow(2), left)
  BY <1>1, TakesTwo
<1>3. /\ Wasm!Has(2) /\ Wasm!Newest = Pair(t, r) /\ Wasm!Second = Pair(t, l)
      /\ Wasm!Below(2) = s
  BY <1>1, TakesBoth
<1>4. done' = <<op>>
  BY <1>1 DEF Step
<1>5. Executed(Append(TypesBelow(2), "I32"), Pushed(left, "I32", x))
  BY DEF Comparison
<1> HIDE DEF t, r, rest, l, left, s
<1>6. /\ Wasm!Newest.type = t /\ Wasm!Second.type = t
      /\ Wasm!Newest.val = r /\ Wasm!Second.val = l
  BY <1>3, OfPair
<1>7. n \in Nat \ {0} /\ l \in 0..(Pow2[n] - 1) /\ r \in 0..(Pow2[n] - 1) /\ Wasm!Width(t) = n
  BY <1>2, WidthTyped, WasmWidth DEF Values
<1> HIDE DEF n
<1>8. p <=> Wasm!Compare(op, l, r, n)
  BY <1>7, ComparesIs
<1> HIDE DEF p
<1>9. x \in Values("I32") /\ "I32" \in Types
  <2>1. x \in {0, 1}
    OBVIOUS
  <2>2. 0 \in Values("I32") /\ 1 \in Values("I32")
    BY TruthIs
  <2> QED
    BY <2>1, <2>2 DEF Types
<1>10. Wasm!Applied(op, t, l, r) = Pair("I32", x)
  <2>1. op \in Wasm!Comparisons
    BY WasmSets
  <2>2. Wasm!Applied(op, t, l, r) = Wasm!Truth(Wasm!Compare(op, l, r, n))
    BY <1>7, <2>1 DEF Wasm!Applied
  <2>3. (IF Wasm!Compare(op, l, r, n) THEN 1 ELSE 0) = x
    BY <1>8
  <2> HIDE DEF x
  <2> QED
    BY <2>2, <2>3, TruthIs
<1> HIDE DEF x
<1>11. Wasm!Becomes(Append(s, Pair("I32", x)))
  BY <1>1, <1>2, <1>5, <1>9, ReplacedIs DEF s
<1>12. Wasm!Becomes(Append(Wasm!Below(2), Wasm!Applied(op, t, l, r)))
  BY <1>3, <1>10, <1>11, Zenon
<1>13. op \notin Wasm!Divisions /\ ~Wasm!Overflows(op, t, l, r)
  BY DEF Wasm!Divisions, Wasm!Overflows, Comparisons, Condition
<1> QED
  BY <1>3, <1>4, <1>6, <1>12, <1>13, Zenon DEF Wasm!Operate

\* EQZ, CLZ and CTZ.
LEMMA UnaryIs ==
  ASSUME MInv, NEW op \in Unary, UnaryOp(op)
  PROVE  Wasm!Change(op)
<1> DEFINE t    == Newest
           v    == Operand(opmem, t)
           rest == Popped(opmem, t)
           n    == Width(t)
           ts   == TypesBelow(1)
           s    == OperandsOf(ts, rest)
<1>1. Has(1) /\ Step(op) /\ Runs /\ Len(types) >= 1
  BY DEF UnaryOp, Has, Runs
<1>2. /\ Wasm!Has(1) /\ Wasm!Newest = Pair(t, v) /\ Wasm!Below(1) = s
      /\ t \in Types /\ Operands(ts, rest) /\ types = Append(ts, t)
  BY <1>1, TakesOne
<1>3. v \in Values(t)
  BY <1>1, Takes
<1>4. done' = <<op>>
  BY <1>1 DEF Step
<1>5. \/ /\ op = "EQZ"
         /\ Executed(Append(ts, "I32"), Pushed(rest, "I32", IF v = 0 THEN 1 ELSE 0))
      \/ /\ op = "CLZ"
         /\ Executed(types, Pushed(rest, t, LeadingZeros(v, n)))
      \/ /\ op = "CTZ"
         /\ Executed(types, Pushed(rest, t, LeadingZeros(Reversed(v, n), n)))
  BY DEF UnaryOp
<1> HIDE DEF t, v, rest, s, ts
<1>6. Wasm!Newest.type = t /\ Wasm!Newest.val = v
  BY <1>2, OfPair
<1>7. n \in Nat /\ v \in 0..(Pow2[n] - 1) /\ Wasm!Width(t) = n
  BY <1>2, <1>3, WidthTyped, WasmWidth DEF Values
<1>8. ASSUME NEW u \in Types, NEW x \in Values(u), Executed(Append(ts, u), Pushed(rest, u, x)),
             Wasm!Changed(op, t, v) = Pair(u, x)
      PROVE  Wasm!Change(op)
  <2>1. Wasm!Becomes(Append(s, Pair(u, x)))
    BY <1>1, <1>2, <1>8, ReplacedIs DEF s
  <2> QED
    BY <1>2, <1>4, <1>6, <1>8, <2>1, Zenon DEF Wasm!Change
<1>9. CASE op = "EQZ"
  <2> DEFINE p == v = 0
             x == IF p THEN 1 ELSE 0
  <2>1. Executed(Append(ts, "I32"), Pushed(rest, "I32", x))
    BY <1>5, <1>9
  <2>2. x \in Values("I32") /\ "I32" \in Types
    BY TruthIs DEF Types
  <2>3. Wasm!Changed(op, t, v) = Pair("I32", x)
    BY <1>9, TruthIs DEF Wasm!Changed
  <2> HIDE DEF x
  <2> QED
    BY <1>8, <2>1, <2>2, <2>3, Zenon
<1>10. CASE op = "CLZ"
  <2> DEFINE x == LeadingZeros(v, n)
  <2>1. Executed(Append(ts, t), Pushed(rest, t, x))
    BY <1>2, <1>5, <1>10
  <2>2. x = Wasm!Leading(v, n) /\ x \in 0..n
    BY <1>7, CountsAre
  <2>3. x \in Values(t)
    BY <1>7, <2>2, CountFits DEF Values
  <2> HIDE DEF x, n
  <2>4. Wasm!Changed(op, t, v) = Pair(t, x)
    BY <1>7, <1>10, <2>2, OfPair DEF Wasm!Changed
  <2> QED
    BY <1>2, <1>8, <2>1, <2>3, <2>4, Zenon
<1>11. CASE op = "CTZ"
  <2> DEFINE x == LeadingZeros(Reversed(v, n), n)
  <2>1. Executed(Append(ts, t), Pushed(rest, t, x))
    BY <1>2, <1>5, <1>11
  <2>2. x = Wasm!Trailing(v, n) /\ x \in 0..n
    BY <1>7, CountsAre
  <2>3. x \in Values(t)
    BY <1>7, <2>2, CountFits DEF Values
  <2> HIDE DEF x, n
  <2>4. Wasm!Changed(op, t, v) = Pair(t, x)
    BY <1>7, <1>11, <2>2, OfPair DEF Wasm!Changed
  <2> QED
    BY <1>2, <1>8, <2>1, <2>3, <2>4, Zenon
<1> QED
  BY <1>9, <1>10, <1>11 DEF Unary

LEMMA DropIs == ASSUME MInv, Drop PROVE Wasm!Drop
<1>1. Has(1) /\ Step("DROP") /\ Executed(TypesBelow(1), Popped(opmem, Newest)) /\ Runs
      /\ Len(types) >= 1
  BY DEF Drop, Has, Runs
<1>2. Wasm!Has(1) /\ Wasm!Below(1) = OperandsOf(TypesBelow(1), Popped(opmem, Newest))
  BY <1>1, TakesOne
<1>3. Wasm!Becomes(OperandsOf(TypesBelow(1), Popped(opmem, Newest)))
  BY <1>1, ExecutedBecomes
<1>4. done' = <<"DROP">>
  BY <1>1 DEF Step
<1> QED
  BY <1>2, <1>3, <1>4, Zenon DEF Wasm!Drop

LEMMA ReturnIs == ASSUME MInv, NEW hasResult, Return(hasResult) PROVE Wasm!Return
<1>1. Step("RETURN") /\ Runs /\ (hasResult => Len(types) >= 1)
  BY DEF Return, Has, Runs
<1>2. done' = <<"RETURN">>
  BY <1>1 DEF Step
<1>3. CASE hasResult
  <2> DEFINE x == Pair(Newest, Operand(opmem, Newest))
  <2>1. Wasm!Has(1) /\ Wasm!Newest = x
    BY <1>1, <1>3, TakesOne
  <2>2. phase' = "ended" /\ UNCHANGED slots /\ outcome' = Returned(Newest, Operand(opmem, Newest))
    BY <1>3 DEF Return, Ended
  <2>3. Returned(Newest, Operand(opmem, Newest)) = Wasm!Returned(x)
    BY DEF Returned, Wasm!Returned, Pair
  <2> HIDE DEF x
  <2>4. Wasm!Ends(Wasm!Returned(x))
    BY <2>2, <2>3, EndsIs
  <2> QED
    BY <1>2, <2>1, <2>4, Zenon DEF Wasm!Return
<1>4. CASE ~hasResult
  <2>1. phase' = "ended" /\ UNCHANGED slots /\ outcome' = Wasm!End("returned")
    BY <1>4 DEF Return, Ended, End, Wasm!End
  <2>2. Wasm!Ends(Wasm!End("returned"))
    BY <2>1, EndsIs
  <2>3. Wasm!Has(0)
    BY <1>1, RunningIs
  <2> QED
    BY <1>2, <2>2, <2>3, Zenon DEF Wasm!Return
<1> QED
  BY <1>3, <1>4

-----------------------------------------------------------------------------
(***************************************************************************)
(* Locals: registers of the parameters and cells of the frame.             *)
(***************************************************************************)
\* The value of a local of a running function.
LEMMA LocalsAre ==
  ASSUME MInv, Runs
  PROVE  /\ DOMAIN WasmLocals = DOMAIN slots
         /\ \A k \in DOMAIN slots :
              /\ WasmLocals[k] = Pair(slots[k].type, LocalValue(k))
              /\ LocalValue(k) \in Values(slots[k].type)
              /\ LocalValue(k) = IF slots[k].isParam THEN Register(k, slots[k].type)
                                 ELSE LoadedFrom(frame, slots[k].offset, slots[k].type)
              /\ slots[k].type \in Types /\ slots[k].isParam \in BOOLEAN
<1>1. phase # "params" /\ Live
  BY DEF Runs, Live
<1>2. WasmLocals = [k \in DOMAIN slots |-> Pair(slots[k].type, LocalValue(k))]
  BY <1>1 DEF WasmLocals, Pair
<1>3. ASSUME NEW k \in DOMAIN slots
      PROVE  /\ LocalValue(k) = IF slots[k].isParam THEN Register(k, slots[k].type)
                                ELSE LoadedFrom(frame, slots[k].offset, slots[k].type)
             /\ slots[k].type \in Types /\ slots[k].isParam \in BOOLEAN
  <2>1. LocalValue(k) = IF slots[k].isParam THEN Register(k, slots[k].type)
                        ELSE LoadedFrom(frame, slots[k].offset, slots[k].type)
    BY <1>1 DEF LocalValue
  <2>2. slots[k] \in Slot
    BY LayoutOfSlot DEF MInv, IInv
  <2> QED
    BY <2>1, <2>2 DEF Slot
<1>4. ASSUME NEW k \in DOMAIN slots PROVE LocalValue(k) \in Values(slots[k].type)
  BY <1>1, <1>3, LocalTyped, Zenon
<1>5. DOMAIN WasmLocals = DOMAIN slots
      /\ \A k \in DOMAIN slots : WasmLocals[k] = Pair(slots[k].type, LocalValue(k))
  BY <1>2
<1> QED
  BY <1>3, <1>4, <1>5, Zenon

LEMMA LocalsUntouched ==
  ASSUME MInv, Runs, Runs', UNCHANGED slots, \A j \in DOMAIN slots : LocalValue(j)' = LocalValue(j)
  PROVE  WasmLocals' = WasmLocals /\ NParams' = NParams
  BY DEF WasmLocals, NParams, Live, Runs

\* One local changes.
LEMMA LocalBecomes ==
  ASSUME MInv, Runs, Runs', UNCHANGED slots, NEW k \in DOMAIN slots, NEW x,
         \A j \in DOMAIN slots : LocalValue(j)' = IF j = k THEN x ELSE LocalValue(j)
  PROVE  WasmLocals' = [WasmLocals EXCEPT ![k] = Pair(slots[k].type, x)] /\ NParams' = NParams
<1>1. NParams' = NParams
  BY DEF NParams
<1>2. WasmLocals = [j \in DOMAIN slots |-> Pair(slots[j].type, LocalValue(j))]
  BY DEF WasmLocals, Pair, Live, Runs
<1>3. WasmLocals' = [j \in DOMAIN slots |-> Pair(slots[j].type, IF j = k THEN x ELSE LocalValue(j))]
  BY DEF WasmLocals, Pair, Live, Runs
<1> DEFINE a(j) == Pair(slots[j].type, LocalValue(j))
           b(j) == Pair(slots[j].type, IF j = k THEN x ELSE LocalValue(j))
<1>4. \A j \in DOMAIN slots : b(j) = IF j = k THEN Pair(slots[k].type, x) ELSE a(j)
  OBVIOUS
<1>5. WasmLocals = [j \in DOMAIN slots |-> a(j)] /\ WasmLocals' = [j \in DOMAIN slots |-> b(j)]
  BY <1>2, <1>3
<1> HIDE DEF a, b
<1> QED
  BY <1>1, <1>4, <1>5

\* What is stored is what is loaded, and no other local changes.
LEMMA CellsStored ==
  ASSUME NEW mem, NEW at \in Nat, NEW t \in Types, NEW x \in Int, NEW c \in DOMAIN mem, c \in Int
  PROVE  /\ (c < at \/ c >= at + CellsOf(t)) => StoredAt(mem, at, t, x)[c] = mem[c]
         /\ c = at => StoredAt(mem, at, t, x)[c] = Words(t, x)[1]
         /\ (t = "I64" /\ c = at + 1) => StoredAt(mem, at, t, x)[c] = Words(t, x)[2]
<1> DEFINE w == Words(t, x)
           s == StoredAt(mem, at, t, x)
<1>1. DOMAIN w = 1..CellsOf(t) /\ CellsOf(t) \in {1, 2} /\ (t = "I64" => CellsOf(t) = 2)
  <2>1. w \in Seq(Cell) /\ Len(w) = CellsOf(t)
    BY WordsTyped
  <2>2. CellsOf(t) \in {1, 2} /\ (t = "I64" => CellsOf(t) = 2)
    BY CellsOfType DEF CellsOf
  <2> HIDE DEF w
  <2> QED
    BY <2>1, <2>2
<1>2. s[c] = IF c - at + 1 \in DOMAIN w THEN w[c - at + 1] ELSE mem[c]
  BY DEF StoredAt
<1> HIDE DEF w, s
<1>3. ASSUME c < at \/ c >= at + CellsOf(t) PROVE s[c] = mem[c]
  <2>1. c - at + 1 \notin DOMAIN w
    BY <1>1, <1>3
  <2> QED
    BY <1>2, <2>1
<1>4. ASSUME c = at PROVE s[c] = w[1]
  <2>1. c - at + 1 = 1 /\ 1 \in DOMAIN w
    BY <1>1, <1>4
  <2> QED
    BY <1>2, <2>1
<1>5. ASSUME t = "I64", c = at + 1 PROVE s[c] = w[2]
  <2>1. c - at + 1 = 2 /\ 2 \in DOMAIN w
    BY <1>1, <1>5
  <2> QED
    BY <1>2, <2>1
<1> QED
  BY <1>3, <1>4, <1>5 DEF w, s

LEMMA StoredThere ==
  ASSUME NEW mem, NEW at \in Nat, NEW t \in Types, NEW x \in Values(t),
         at \in DOMAIN mem, t = "I64" => at + 1 \in DOMAIN mem
  PROVE  LoadedFrom(StoredAt(mem, at, t, x), at, t) = x
<1> DEFINE s == StoredAt(mem, at, t, x)
           w == Words(t, x)
<1>1. x \in Int /\ at \in Int /\ at + 1 \in Int
  BY WidthTyped DEF Values
<1>2. s[at] = w[1]
  BY <1>1, CellsStored
<1>3. t = "I64" => s[at + 1] = w[2]
  BY <1>1, CellsStored
<1>4. x = IF t = "I64" THEN w[1] + w[2] * Pow2[Bits] ELSE w[1]
  BY WordsHold
<1> HIDE DEF s, w
<1>5. LoadedFrom(s, at, t) = IF t = "I64" THEN s[at] + s[at + 1] * Pow2[Bits] ELSE s[at]
  BY DEF LoadedFrom
<1>6. CASE t = "I64"
  BY <1>2, <1>3, <1>4, <1>5, <1>6 DEF s
<1>7. CASE t # "I64"
  BY <1>2, <1>4, <1>5, <1>7 DEF s
<1> QED
  BY <1>6, <1>7

LEMMA StoredApart ==
  ASSUME NEW mem, NEW at \in Nat, NEW t \in Types, NEW x \in Int, NEW to \in Nat, NEW u \in Types,
         to \in DOMAIN mem, u = "I64" => to + 1 \in DOMAIN mem,
         to + CellsOf(u) <= at \/ at + CellsOf(t) <= to
  PROVE  LoadedFrom(StoredAt(mem, at, t, x), to, u) = LoadedFrom(mem, to, u)
<1> DEFINE s == StoredAt(mem, at, t, x)
<1>1. CellsOf(t) \in {1, 2} /\ CellsOf(u) \in {1, 2} /\ (u = "I64" => CellsOf(u) = 2)
  BY CellsOfType DEF CellsOf
<1>2. /\ to < at \/ to >= at + CellsOf(t)
      /\ u = "I64" => to + 1 < at \/ to + 1 >= at + CellsOf(t)
      /\ to \in Int /\ to + 1 \in Int
  BY <1>1
<1>3. s[to] = mem[to] /\ (u = "I64" => s[to + 1] = mem[to + 1])
  <2>1. s[to] = mem[to]
    BY <1>2, CellsStored
  <2>2. ASSUME u = "I64" PROVE s[to + 1] = mem[to + 1]
    <3> DEFINE next == to + 1
    <3>1. next \in DOMAIN mem /\ next \in Int /\ (next < at \/ next >= at + CellsOf(t))
      BY <1>2, <2>2
    <3> HIDE DEF next, s
    <3>2. s[next] = mem[next]
      BY <3>1, CellsStored DEF s
    <3> QED
      BY <3>2 DEF next
  <2> QED
    BY <2>1, <2>2
<1> HIDE DEF s
<1>4. LoadedFrom(s, to, u) = LoadedFrom(mem, to, u)
  BY <1>3, SameLoaded
<1> QED
  BY <1>4 DEF s

\* Two locals share no cell.
LEMMA SlotsApart ==
  ASSUME MInv, NEW j \in DOMAIN slots, NEW k \in DOMAIN slots, j # k
  PROVE  \/ slots[j].offset + CellsOf(slots[j].type) <= slots[k].offset
         \/ slots[k].offset + CellsOf(slots[k].type) <= slots[j].offset
<1>1. j \in Nat /\ k \in Nat
  BY DEF MInv, IInv, LayoutTyped
<1>2. \A a, b \in DOMAIN slots : a < b => EndOf(slots[a]) <= slots[b].offset
  BY DEF MInv, IInv, SlotsDisjoint
<1>3. j < k \/ k < j
  BY <1>1
<1> QED
  BY <1>2, <1>3 DEF EndOf
\* LOCAL_GET reads the register of a parameter, the frame otherwise.
LEMMA GetIs ==
  ASSUME MInv, phase = "reading", NEW k \in DOMAIN slots, GetLocal(k), ~Refused("offset"),
         done' = <<"LOCAL_GET", k>>
  PROVE  Wasm!Get(k) /\ k \in DOMAIN WasmLocals
<1> DEFINE t == slots[k].type
           x == LocalValue(k)
<1>1. Runs /\ Operands(types, opmem) /\ Wasm!Has(0) /\ WasmOperands = OperandsOf(types, opmem)
  BY RunningIs DEF Runs
<1>2. /\ DOMAIN WasmLocals = DOMAIN slots /\ WasmLocals[k] = Pair(t, x) /\ x \in Values(t)
      /\ t \in Types /\ slots[k].isParam \in BOOLEAN
      /\ x = IF slots[k].isParam THEN Register(k, t) ELSE LoadedFrom(frame, slots[k].offset, t)
  BY <1>1, LocalsAre
<1>3. Executed(Append(types, t), Pushed(opmem, t, x))
  <2>1. \/ slots[k].isParam /\ Executed(Append(types, t), Pushed(opmem, t, Register(k, t)))
        \/ ~slots[k].isParam
           /\ Executed(Append(types, t), Pushed(opmem, t, LoadedFrom(frame, slots[k].offset, t)))
    BY DEF GetLocal
  <2> HIDE DEF x
  <2> QED
    BY <1>2, <2>1
<1> HIDE DEF t, x
<1>4. Wasm!Becomes(Append(WasmOperands, Pair(t, x)))
  BY <1>1, <1>2, <1>3, ReplacedIs
<1> QED
  BY <1>1, <1>2, <1>4, Zenon DEF Wasm!Get

\* LOCAL_SET and LOCAL_TEE change one local and no other.
LEMMA SetIs ==
  ASSUME MInv, phase = "reading", NEW k \in DOMAIN slots, NEW tee \in BOOLEAN, SetLocal(k, tee),
         ~Refused("offset"), NEW op, tee <=> op = "LOCAL_TEE", done' = <<op, k>>
  PROVE  Wasm!Set(k, op) /\ k \in DOMAIN WasmLocals
<1> DEFINE t  == slots[k].type
           x  == Operand(opmem, t)
           at == slots[k].offset
<1>1. Runs /\ Operands(types, opmem) /\ WasmOperands = OperandsOf(types, opmem) /\ types \in Seq(Types)
      /\ WasmPhase = "running" /\ WasmOutcome = outcome
  BY RunningIs DEF Runs, Operands
<1>2. /\ types # <<>> /\ Newest = t /\ phase' = "running" /\ UNCHANGED slots /\ UNCHANGED outcome
      /\ types' = IF tee THEN types ELSE TypesBelow(1)
      /\ opmem' = IF tee THEN opmem ELSE Popped(opmem, t)
      /\ \/ slots[k].isParam /\ reg' = [reg EXCEPT ![k] = x] /\ UNCHANGED frame
         \/ ~slots[k].isParam /\ frame' = StoredAt(frame, at, t, x) /\ UNCHANGED reg
  BY DEF SetLocal
<1>3. Len(types) >= 1 /\ Runs'
  BY <1>1, <1>2 DEF Runs
<1>4. /\ Wasm!Has(1) /\ Wasm!Newest = Pair(t, x)
      /\ Wasm!Below(1) = OperandsOf(TypesBelow(1), Popped(opmem, t)) /\ t \in Types
      /\ Pair(t, x) \in Pairs
  BY <1>1, <1>2, <1>3, TakesOne
<1>5. x \in Values(t) /\ x \in Int
  <2>1. Pair(t, x).val \in Values(Pair(t, x).type)
    BY <1>4 DEF Pairs
  <2> HIDE DEF t, x
  <2> QED
    BY <1>4, <2>1, OfPair, WidthTyped DEF Values
<1>6. /\ DOMAIN WasmLocals = DOMAIN slots
      /\ \A j \in DOMAIN slots :
           /\ WasmLocals[j] = Pair(slots[j].type, LocalValue(j))
           /\ LocalValue(j) = IF slots[j].isParam THEN Register(j, slots[j].type)
                              ELSE LoadedFrom(frame, slots[j].offset, slots[j].type)
           /\ slots[j].isParam \in BOOLEAN
  BY <1>1, LocalsAre
<1>7. \A j \in DOMAIN slots :
        LocalValue(j)' = IF slots[j].isParam
                           THEN IF slots[j].type = "I64" THEN reg'[j] ELSE reg'[j] % Pow2[Bits]
                           ELSE LoadedFrom(frame', slots[j].offset, slots[j].type)
  BY <1>2 DEF LocalValue, Register, LoadedFrom
<1>8. \A j \in DOMAIN slots : LocalValue(j)' = IF j = k THEN x ELSE LocalValue(j)
  <2> TAKE j \in DOMAIN slots
  <2> DEFINE u == slots[j].type
  <2>1. /\ u \in Types /\ slots[j].offset \in Nat /\ slots[j].offset \in DOMAIN frame
        /\ u = "I64" => slots[j].offset + 1 \in DOMAIN frame
        /\ at \in Nat
        /\ slots[k].isParam => k \in DOMAIN reg
        /\ slots[j].isParam => j \in DOMAIN reg
    BY SlotTyped
  <2>2. CASE slots[k].isParam /\ reg' = [reg EXCEPT ![k] = x] /\ UNCHANGED frame
    <3>1. CASE j = k
      <4>1. reg'[k] = x
        BY <2>1, <2>2
      <4>2. t = "I64" \/ x % Pow2[Bits] = x
        <5>1. t # "I64" => x \in 0..(Pow2[Bits] - 1) /\ Pow2[Bits] \in Nat \ {0}
          BY <1>4, <1>5, BitsTyped DEF Values, Types
        <5> HIDE DEF t, x
        <5> QED
          BY <5>1, SmallMod
      <4> HIDE DEF x
      <4> QED
        BY <1>7, <2>2, <3>1, <4>1, <4>2
    <3>2. CASE j # k
      <4>1. slots[j].isParam => reg'[j] = reg[j]
        BY <2>1, <2>2, <3>2
      <4>2. LocalValue(j) = IF slots[j].isParam
                              THEN IF u = "I64" THEN reg[j] ELSE reg[j] % Pow2[Bits]
                              ELSE LoadedFrom(frame, slots[j].offset, u)
        BY <1>6 DEF Register
      <4>3. frame' = frame
        BY <2>2
      <4> HIDE DEF x
      <4> QED
        BY <1>7, <3>2, <4>1, <4>2, <4>3, Zenon
    <3> QED
      BY <3>1, <3>2
  <2>3. CASE ~slots[k].isParam /\ frame' = StoredAt(frame, at, t, x) /\ UNCHANGED reg
    <3>1. CASE j = k
      <4>1. LoadedFrom(StoredAt(frame, at, t, x), at, t) = x
        BY <1>4, <1>5, <2>1, <3>1, StoredThere
      <4> HIDE DEF x
      <4> QED
        BY <1>7, <2>3, <3>1, <4>1
    <3>2. CASE j # k
      <4>1. \/ slots[j].offset + CellsOf(u) <= at
            \/ at + CellsOf(t) <= slots[j].offset
        BY <3>2, SlotsApart
      <4>2. LoadedFrom(StoredAt(frame, at, t, x), slots[j].offset, u) = LoadedFrom(frame, slots[j].offset, u)
        <5> HIDE DEF x, t, at, u
        <5> QED
          BY <1>4, <1>5, <2>1, <4>1, StoredApart
      <4>3. LocalValue(j) = IF slots[j].isParam
                              THEN IF u = "I64" THEN reg[j] ELSE reg[j] % Pow2[Bits]
                              ELSE LoadedFrom(frame, slots[j].offset, u)
        BY <1>6 DEF Register
      <4>4. reg' = reg
        BY <2>3
      <4> HIDE DEF x
      <4> QED
        BY <1>7, <2>3, <3>2, <4>2, <4>3, <4>4, Zenon
    <3> QED
      BY <3>1, <3>2
  <2> QED
    BY <1>2, <2>2, <2>3
<1>9. WasmLocals' = [WasmLocals EXCEPT ![k] = Pair(t, x)] /\ NParams' = NParams
  <2> HIDE DEF x
  <2> QED
    BY <1>1, <1>2, <1>3, <1>8, LocalBecomes
<1>10. WasmOperands' = IF op = "LOCAL_TEE" THEN WasmOperands ELSE Wasm!Below(1)
  <2>1. WasmOperands' = OperandsOf(types', opmem')
    BY <1>2 DEF WasmOperands, OperandsOf, Live, LoadedFrom
  <2> HIDE DEF t, x
  <2> QED
    BY <1>1, <1>2, <1>4, <2>1
<1>11. WasmPhase' = WasmPhase /\ WasmOutcome' = WasmOutcome
  BY <1>1, <1>2 DEF WasmPhase, WasmOutcome, Live
<1>12. WasmLocals[k].type = Wasm!Newest.type
  BY <1>4, <1>6, OfPair
<1> HIDE DEF t, x
<1> QED
  BY <1>4, <1>6, <1>9, <1>10, <1>11, <1>12, Zenon DEF Wasm!Set

-----------------------------------------------------------------------------
(***************************************************************************)
(* The instructions with an immediate, and calls.                          *)
(***************************************************************************)
\* An instruction with an immediate.
LEMMA PerformIs ==
  ASSUME MInv, phase = "reading", NEW op, NEW v \in Int,
         Immediate(op) = "index" => v + 1 \in DOMAIN slots,
         Immediate(op) \in Types => v \in Values(Immediate(op)), Perform(op, v)
  PROVE  Wasm!Next
<1>1. CASE phase' = "refused"
  <2>1. Refused("offset")
    BY <1>1 DEF Perform, MoveConst, Executed, GetLocal, SetLocal
  <2>2. UNCHANGED done
    BY <1>1 DEF Perform
  <2>3. Wasm!Refuse
    BY <2>1, <2>2, RefuseIs
  <2> QED
    BY <2>3 DEF Wasm!Next
<1>2. CASE phase' # "refused"
  <2>1. ~Refused("offset")
    BY <1>2 DEF Refused
  <2>2. done' = IF Immediate(op) = "index" THEN <<op, v + 1>> ELSE <<op>>
    BY <1>2 DEF Perform
  <2>3. CASE op \in {"I32_CONST", "I64_CONST"} /\ MoveConst(Immediate(op), v)
    <3> DEFINE t == Immediate(op)
    <3>1. t \in Types /\ done' = <<op>> /\ (op = "I32_CONST" => t = "I32") /\ (op = "I64_CONST" => t = "I64")
      BY <2>2, <2>3 DEF Immediate, Types
    <3>2. v \in Values(t)
      BY <3>1
    <3>3. Executed(Append(types, t), Pushed(opmem, t, Moved(t, v)))
      BY <2>3 DEF MoveConst
    <3> HIDE DEF t
    <3>4. Moved(t, v) = v
      BY <3>1, <3>2, MovedIsValue
    <3>5. Executed(Append(types, t), Pushed(opmem, t, v))
      BY <3>3, <3>4
    <3>6. Runs /\ Operands(types, opmem) /\ WasmOperands = OperandsOf(types, opmem)
      BY RunningIs DEF Runs
    <3>7. Wasm!Becomes(Append(WasmOperands, Pair(t, v)))
          /\ WasmOperands' = Append(WasmOperands, Pair(t, v))
      BY <3>1, <3>2, <3>5, <3>6, ReplacedIs
    <3>8. Wasm!Becomes(WasmOperands')
      BY <3>7 DEF Wasm!Becomes
    <3>9. Wasm!Push(op)
      BY <3>1, <3>2, <3>6, <3>7, <3>8, PushIs
    <3> QED
      BY <2>3, <3>9 DEF Wasm!Next
  <2>4. CASE op = "LOCAL_GET" /\ GetLocal(v + 1)
    <3> DEFINE k == v + 1
    <3>1. k \in DOMAIN slots /\ done' = <<"LOCAL_GET", k>>
      BY <2>2, <2>4 DEF Immediate
    <3> HIDE DEF k
    <3>2. Wasm!Get(k) /\ k \in DOMAIN WasmLocals
      BY <2>1, <2>4, <3>1, GetIs DEF k
    <3> QED
      BY <3>2 DEF Wasm!Next
  <2>5. ASSUME NEW tee \in BOOLEAN, SetLocal(v + 1, tee), op \in {"LOCAL_SET", "LOCAL_TEE"},
               tee <=> op = "LOCAL_TEE"
        PROVE  Wasm!Next
    <3> DEFINE k == v + 1
    <3>1. k \in DOMAIN slots /\ done' = <<op, k>>
      BY <2>2, <2>5 DEF Immediate
    <3>2. SetLocal(k, tee)
      BY <2>5
    <3> HIDE DEF k
    <3>3. Wasm!Set(k, op) /\ k \in DOMAIN WasmLocals
      BY <2>1, <2>5, <3>1, <3>2, SetIs
    <3> QED
      BY <2>5, <3>3 DEF Wasm!Next
  <2> QED
    BY <2>3, <2>4, <2>5 DEF Perform
<1> QED
  BY <1>1, <1>2

\* While an immediate is fetched and read, Wasm sees nothing.
LEMMA NothingSeen ==
  ASSUME Runs, Runs', UNCHANGED slots, UNCHANGED types, UNCHANGED reg, UNCHANGED frame,
         UNCHANGED opmem, UNCHANGED outcome, UNCHANGED done
  PROVE  UNCHANGED Wasm!vars
<1>1. WasmLocals' = WasmLocals /\ NParams' = NParams
  BY LocalsKept
<1>2. WasmPhase' = WasmPhase /\ WasmOutcome' = WasmOutcome /\ WasmOperands' = WasmOperands
  BY DEF WasmPhase, WasmOutcome, WasmOperands, OperandsOf, LoadedFrom, Live, Runs
<1> QED
  BY <1>1, <1>2 DEF Wasm!vars

LEMMA FetchIs == ASSUME MInv, NEW op, Fetch(op) PROVE UNCHANGED Wasm!vars
<1>1. /\ Runs /\ Runs' /\ UNCHANGED slots /\ UNCHANGED types /\ UNCHANGED reg /\ UNCHANGED frame
      /\ UNCHANGED opmem /\ UNCHANGED outcome /\ UNCHANGED done
  BY DEF Fetch, Has, Runs
<1> QED
  BY <1>1, NothingSeen

LEMMA ReadGroupIs ==
  ASSUME MInv, NEW byte \in Byte \cup {EndOfFile}, ReadGroup(byte)
  PROVE  Wasm!Next \/ UNCHANGED Wasm!vars
<1> DEFINE kind == Immediate(opcode)
           refuses == Refuses(read, byte, IsSigned(kind), MaxBits(kind))
           v == Decoded(read, byte, IsSigned(kind), MaxBits(kind))
<1>1. phase = "reading"
  BY DEF ReadGroup
<1>2. CASE Refused("malformed") /\ UNCHANGED <<opcode, read, done, count>>
  <2>1. UNCHANGED done
    BY <1>2
  <2>2. Wasm!Refuse
    BY <1>1, <1>2, <2>1, RefuseIs
  <2> QED
    BY <2>2 DEF Wasm!Next
<1>3. CASE UNCHANGED <<phase, params, slots, size, types, reg, frame, opmem, opcode, outcome, done,
                       count>>
  <2>1. /\ Runs /\ Runs' /\ UNCHANGED slots /\ UNCHANGED types /\ UNCHANGED reg /\ UNCHANGED frame
        /\ UNCHANGED opmem /\ UNCHANGED outcome /\ UNCHANGED done
    BY <1>1, <1>3 DEF Runs
  <2> QED
    BY <2>1, NothingSeen
<1>4. CASE /\ ~refuses /\ ~byte.more
           /\ kind = "index" => v + 1 \in DOMAIN slots
           /\ Perform(opcode, v)
  <2>1. byte \in Byte
    BY <1>4 DEF Refuses
  <2>2. read.result \in Nat /\ read.written \in Nat
    BY GroupTyped DEF MInv, Reader
  <2>3. v \in 0..(Pow2[MaxBits(kind)] - 1) /\ MaxBits(kind) \in Nat
    <3>1. MaxBits(kind) \in Nat
      BY MaxBitsTyped
    <3> QED
      BY <2>1, <2>2, <3>1, DecodedTyped
  <2>4. v \in Int
    BY <2>3, PowNat
  <2>5. kind \in Types => v \in Values(kind)
    BY <2>3, MaxBitsTyped DEF Values
  <2>6. Perform(opcode, v) /\ (kind = "index" => v + 1 \in DOMAIN slots)
    BY <1>4
  <2> HIDE DEF v
  <2>7. Wasm!Next
    BY <1>1, <2>4, <2>5, <2>6, PerformIs
  <2> QED
    BY <2>7
<1> QED
  BY <1>2, <1>3, <1>4 DEF ReadGroup

LEMMA UnsupportedIs == ASSUME Unsupported PROVE Wasm!Next
<1>1. phase = "running" /\ Refused("unsupported") /\ UNCHANGED done
  BY DEF Unsupported, Has
<1>2. Wasm!Refuse
  BY <1>1, RefuseIs
<1> QED
  BY <1>2 DEF Wasm!Next
\* A call saves the parameters where no other local is, and finds them there.
LEMMA SavedParam ==
  ASSUME MInv, phase = "running", NEW k \in DOMAIN params
  PROVE  /\ k \in DOMAIN slots /\ slots[k].isParam /\ params[k] = slots[k].type
         /\ LoadedFrom(ParamsStored, slots[k].offset, params[k]) = Register(k, params[k])
<1> DEFINE t  == params[k]
           at == slots[k].offset
           w  == Words(t, reg[k])
<1>1. k \in DOMAIN slots
  BY DEF MInv, IInv, ParamsFirst
<1>2. slots[k].isParam
  BY <1>1 DEF MInv, Declared, IInv, LayoutTyped
<1>3. /\ t \in Types /\ at \in Nat /\ at \in DOMAIN frame /\ t = slots[k].type
      /\ t = "I64" => at + 1 \in DOMAIN frame
      /\ k \in DOMAIN reg
  BY <1>1, <1>2, SlotTyped
<1>4. reg[k] \in Values("I64") /\ reg[k] \in Int
  <2>1. reg[k] \in Values("I64") /\ "I64" \in Types
    BY <1>3 DEF MInv, Machine, Registers, Types
  <2> QED
    BY <2>1, WidthTyped DEF Values
<1>5. w \in Seq(Cell) /\ Len(w) = CellsOf(t) /\ w[1] = reg[k] % Pow2[Bits]
  BY <1>3, <1>4, WordsTyped
<1>6. CellsOf(t) \in {1, 2} /\ (t = "I64" => CellsOf(t) = 2)
  BY <1>3, CellsOfType DEF CellsOf
<1>7. ASSUME NEW c \in DOMAIN frame, c \in Int, c - at + 1 \in DOMAIN w
      PROVE  ParamsStored[c] = w[c - at + 1]
  <2>1. k \in Covering(c)
    BY <1>7 DEF Covering
  <2> QED
    BY <2>1, ParamsStoredIs
<1>8. ParamsStored[at] = w[1]
  <2>1. at \in Int /\ at - at + 1 = 1 /\ 1 \in DOMAIN w
    <3> HIDE DEF w
    <3> QED
      BY <1>3, <1>5, <1>6
  <2> HIDE DEF w
  <2> QED
    BY <1>3, <1>7, <2>1
<1>9. ASSUME t = "I64" PROVE ParamsStored[at + 1] = w[2]
  <2> DEFINE c == at + 1
  <2>1. c \in Int /\ c - at + 1 = 2 /\ 2 \in DOMAIN w /\ c \in DOMAIN frame
    <3> HIDE DEF w
    <3> QED
      BY <1>3, <1>5, <1>6, <1>9
  <2> HIDE DEF w, c
  <2>2. ParamsStored[c] = w[2]
    BY <1>7, <2>1
  <2> QED
    BY <2>2 DEF c
<1>10. LoadedFrom(ParamsStored, at, t) = Register(k, t)
  <2>1. CASE t = "I64"
    <3>1. reg[k] = w[1] + w[2] * Pow2[Bits]
      BY <1>3, <1>4, <2>1, WordsHold
    <3>2. LoadedFrom(ParamsStored, at, t) = ParamsStored[at] + ParamsStored[at + 1] * Pow2[Bits]
      BY <2>1 DEF LoadedFrom
    <3>3. Register(k, t) = reg[k]
      BY <2>1 DEF Register
    <3> HIDE DEF w, t, at
    <3> QED
      BY <1>8, <1>9, <2>1, <3>1, <3>2, <3>3
  <2>2. CASE t # "I64"
    <3>1. LoadedFrom(ParamsStored, at, t) = ParamsStored[at] /\ Register(k, t) = reg[k] % Pow2[Bits]
      BY <2>2 DEF LoadedFrom, Register
    <3> HIDE DEF w, t, at
    <3> QED
      BY <1>5, <1>8, <3>1
  <2> QED
    BY <2>1, <2>2
<1> QED
  BY <1>1, <1>2, <1>3, <1>10

\* No parameter is saved in the cells of a local that is none.
LEMMA UncoveredLocal ==
  ASSUME MInv, phase = "running", NEW k \in DOMAIN slots, ~slots[k].isParam,
         NEW c \in DOMAIN frame, slots[k].offset <= c, c < slots[k].offset + CellsOf(slots[k].type)
  PROVE  ParamsStored[c] = frame[c]
<1>1. ASSUME NEW j \in Covering(c) PROVE FALSE
  <2>1. /\ j \in DOMAIN params /\ j \in DOMAIN slots /\ slots[j].offset \in Nat /\ c \in Nat
        /\ slots[j].offset <= c /\ c < EndOf(slots[j]) /\ EndOf(slots[j]) \in Nat
    BY CoveringTyped
  <2>2. slots[j].isParam
    BY <2>1, SavedParam
  <2>3. j # k
    BY <2>2
  <2>4. \/ EndOf(slots[j]) <= slots[k].offset
        \/ slots[k].offset + CellsOf(slots[k].type) <= slots[j].offset
    BY <2>1, <2>3, SlotsApart DEF EndOf
  <2>5. slots[k].offset \in Nat /\ CellsOf(slots[k].type) \in {1, 2}
    BY SlotTyped, CellsOfType
  <2> QED
    BY <2>1, <2>4, <2>5
<1>2. Covering(c) = {}
  BY <1>1
<1> QED
  BY <1>2, ParamsStoredIs

\* The parameters come back, the other locals were never touched.
LEMMA CallKeepsLocals ==
  ASSUME MInv, phase = "running", phase' = "running", UNCHANGED slots,
         frame' = Spilled, reg' = Reloaded(frame')
  PROVE  WasmLocals' = WasmLocals /\ NParams' = NParams
<1>1. Runs /\ Runs'
  BY DEF Runs
<1>2. \A k \in DOMAIN slots :
        /\ LocalValue(k) = IF slots[k].isParam THEN Register(k, slots[k].type)
                           ELSE LoadedFrom(frame, slots[k].offset, slots[k].type)
        /\ LocalValue(k) \in Values(slots[k].type)
        /\ slots[k].isParam \in BOOLEAN
  BY <1>1, LocalsAre
<1>3. \A k \in DOMAIN slots :
        LocalValue(k)' = IF slots[k].isParam
                           THEN IF slots[k].type = "I64" THEN reg'[k] ELSE reg'[k] % Pow2[Bits]
                           ELSE LoadedFrom(frame', slots[k].offset, slots[k].type)
  BY DEF LocalValue, Register, LoadedFrom
<1>4. ASSUME NEW k \in DOMAIN slots
      PROVE  LoadedFrom(frame', slots[k].offset, slots[k].type) =
               LoadedFrom(ParamsStored, slots[k].offset, slots[k].type)
  <2>1. /\ slots[k].type \in Types /\ slots[k].offset \in Nat /\ slots[k].offset \in DOMAIN frame
        /\ slots[k].type = "I64" => slots[k].offset + 1 \in DOMAIN frame
    BY SlotTyped
  <2>2. slots[k].offset >= 2
    BY DEF MInv, IInv, SlotsDisjoint
  <2>3. DOMAIN ParamsStored = DOMAIN frame
    BY DEF ParamsStored
  <2>4. ReturnAddress \in Int /\ "I64" \in Types /\ 0 \in Nat
    BY PowNat, BitsTyped DEF ReturnAddress, Types
  <2> DEFINE to == slots[k].offset
             u  == slots[k].type
  <2>5. 0 + CellsOf("I64") <= to /\ to \in Nat /\ u \in Types
    BY <2>1, <2>2 DEF CellsOf
  <2>6. to \in DOMAIN ParamsStored /\ (u = "I64" => to + 1 \in DOMAIN ParamsStored)
    BY <2>1, <2>3
  <2>7. frame' = StoredAt(ParamsStored, 0, "I64", ReturnAddress)
    BY DEF Spilled
  <2> HIDE DEF to, u
  <2>8. LoadedFrom(StoredAt(ParamsStored, 0, "I64", ReturnAddress), to, u) = LoadedFrom(ParamsStored, to, u)
    BY <2>4, <2>5, <2>6, StoredApart
  <2> QED
    BY <2>7, <2>8 DEF to, u
<1>5. ASSUME NEW k \in DOMAIN slots PROVE LocalValue(k)' = LocalValue(k)
  <2> DEFINE u == slots[k].type
             to == slots[k].offset
  <2>1. CASE slots[k].isParam
    <3>1. k \in DOMAIN params /\ params[k] = u /\ u \in Types
      BY <2>1, SlotTyped
    <3>2. LoadedFrom(ParamsStored, to, u) = Register(k, u)
      BY <3>1, SavedParam
    <3>3. reg'[k] = LoadedFrom(frame', to, u)
      BY <3>1 DEF Reloaded
    <3>4. reg'[k] = LocalValue(k) /\ LocalValue(k) \in Values(u)
      BY <1>2, <1>4, <2>1, <3>2, <3>3
    <3>5. u # "I64" => LocalValue(k) \in 0..(Pow2[Bits] - 1) /\ Pow2[Bits] \in Nat \ {0}
      BY <3>1, <3>4, BitsTyped DEF Values, Types
    <3> DEFINE x == LocalValue(k)
    <3> HIDE DEF x
    <3>6. u # "I64" => x % Pow2[Bits] = x
      BY <3>5, SmallMod DEF x
    <3>7. LocalValue(k)' = IF u = "I64" THEN x ELSE x % Pow2[Bits]
      BY <1>3, <2>1, <3>4 DEF x
    <3> QED
      BY <3>6, <3>7 DEF x
  <2>2. CASE ~slots[k].isParam
    <3>1. /\ u \in Types /\ to \in Nat /\ to \in DOMAIN frame
          /\ u = "I64" => to + 1 \in DOMAIN frame
      BY SlotTyped
    <3>2. CellsOf(u) \in {1, 2} /\ (u = "I64" => CellsOf(u) = 2)
      BY <3>1, CellsOfType DEF CellsOf
    <3>3. ParamsStored[to] = frame[to]
      <4>1. to <= to /\ to < to + CellsOf(u)
        BY <3>1, <3>2
      <4> QED
        BY <2>2, <3>1, <4>1, UncoveredLocal
    <3>4. ASSUME u = "I64" PROVE ParamsStored[to + 1] = frame[to + 1]
      <4> DEFINE c == to + 1
      <4>1. to <= c /\ c < to + CellsOf(u) /\ c \in DOMAIN frame
        BY <3>1, <3>2, <3>4
      <4> HIDE DEF c
      <4>2. ParamsStored[c] = frame[c]
        BY <2>2, <4>1, UncoveredLocal
      <4> QED
        BY <4>2 DEF c
    <3>5. LoadedFrom(ParamsStored, to, u) = LoadedFrom(frame, to, u)
      BY <3>1, <3>3, <3>4, SameLoaded
    <3> QED
      BY <1>2, <1>3, <1>4, <2>2, <3>5
  <2> QED
    BY <1>2, <2>1, <2>2
<1> QED
  BY <1>1, <1>5, LocalsUntouched

LEMMA CallIs == ASSUME MInv, NEW result \in Results \cup {<<>>}, Call(result) PROVE Wasm!Next
<1>1. phase = "running" /\ Runs
  BY DEF Call, Has, Runs
<1>2. CASE Refused("offset") /\ UNCHANGED <<opcode, bytes, read, done, count>>
  <2>1. UNCHANGED done
    BY <1>2
  <2>2. Wasm!Refuse
    BY <1>1, <1>2, <2>1, RefuseIs
  <2> QED
    BY <2>2 DEF Wasm!Next
<1>3. CASE ~(Refused("offset") /\ UNCHANGED <<opcode, bytes, read, done, count>>)
  <2>1. /\ Step("CALL") /\ frame' = Spilled /\ reg' = Reloaded(frame')
        /\ types' = IF result = <<>> THEN types ELSE Append(types, result[1])
        /\ opmem' = IF result = <<>> THEN opmem ELSE Pushed(opmem, result[1], result[2])
        /\ UNCHANGED phase /\ UNCHANGED slots /\ UNCHANGED outcome
    BY <1>3 DEF Call
  <2>2. WasmLocals' = WasmLocals /\ NParams' = NParams
    BY <1>1, <2>1, CallKeepsLocals
  <2>3. done' = <<"CALL">>
    BY <2>1 DEF Step
  <2>4. /\ WasmPhase' = WasmPhase /\ WasmOutcome' = WasmOutcome
        /\ WasmOperands' = OperandsOf(types', opmem')
    BY <1>1, <2>1 DEF WasmPhase, WasmOutcome, WasmOperands, OperandsOf, LoadedFrom, Live
  <2>5. /\ WasmOperands = OperandsOf(types, opmem) /\ Operands(types, opmem) /\ Wasm!Has(0)
    BY <1>1, RunningIs
  <2>6. Wasm!Becomes(WasmOperands')
    BY <2>2, <2>4 DEF Wasm!Becomes
  <2>7. CASE result = <<>>
    <3>1. Wasm!Becomes(WasmOperands)
      BY <2>1, <2>4, <2>5, <2>6, <2>7
    <3>2. Wasm!CallVoid
      BY <2>3, <2>5, <3>1 DEF Wasm!CallVoid
    <3> QED
      BY <3>2 DEF Wasm!Next
  <2>8. CASE result # <<>>
    <3>1. PICK t \in Types : \E v \in Args[t] : result = <<t, v>>
      BY <2>8 DEF Results
    <3>2. PICK v \in Args[t] : result = <<t, v>>
      BY <3>1
    <3>3. v \in Values(t)
      BY FunctionAssumption DEF Values
    <3>4. types' = Append(types, t) /\ opmem' = Pushed(opmem, t, v)
      BY <2>1, <2>8, <3>2
    <3>5. WasmOperands' = Append(WasmOperands, Pair(t, v))
      BY <2>4, <2>5, <3>3, <3>4, PushedOperand
    <3> DEFINE op == "CALL"
    <3>6. done' = <<op>> /\ (op = "I32_CONST" => t = "I32") /\ (op = "I64_CONST" => t = "I64")
      BY <2>3
    <3> HIDE DEF op
    <3>7. Wasm!Push(op)
      BY <1>1, <2>6, <3>3, <3>5, <3>6, PushIs
    <3> QED
      BY <3>7 DEF Wasm!Next, op
  <2> QED
    BY <2>7, <2>8
<1> QED
  BY <1>2, <1>3

-----------------------------------------------------------------------------
(***************************************************************************)
(* Declaring the locals, and the way into the function.                    *)
(***************************************************************************)
\* How many of the locals are parameters.
LEMMA ParamsCounted ==
  ASSUME NEW s \in Seq(Slot), NEW n \in Nat, \A k \in DOMAIN s : s[k].isParam <=> k <= n
  PROVE  Cardinality({k \in DOMAIN s : s[k].isParam}) = IF Len(s) <= n THEN Len(s) ELSE n
<1> DEFINE m == IF Len(s) <= n THEN Len(s) ELSE n
<1>1. m \in Nat /\ Len(s) \in Nat /\ DOMAIN s = 1..Len(s)
  OBVIOUS
<1>2. {k \in DOMAIN s : s[k].isParam} = {k \in DOMAIN s : k <= n}
  OBVIOUS
<1>3. {k \in DOMAIN s : k <= n} = 1..m
  BY <1>1
<1> HIDE DEF m
<1>4. Cardinality(1..m) = m
  <2>1. Cardinality(1..m) = IF 1 > m THEN 0 ELSE m - 1 + 1
    BY <1>1, FS_Interval
  <2> QED
    BY <1>1, <2>1
<1> QED
  BY <1>2, <1>3, <1>4 DEF m

LEMMA NParamsIs ==
  ASSUME MInv
  PROVE  NParams = IF Len(slots) <= Len(params) THEN Len(slots) ELSE Len(params)
<1>1. slots \in Seq(Slot) /\ params \in Seq(Types)
  BY DEF MInv, IInv, LayoutTyped
<1>2. Len(params) \in Nat
  BY <1>1
<1>3. \A k \in DOMAIN slots : slots[k].isParam <=> k <= Len(params)
  BY DEF MInv, Declared
<1> QED
  BY <1>1, <1>2, <1>3, ParamsCounted DEF NParams

Unset(s) == [k \in DOMAIN s |-> Pair(s[k].type, 0)]

LEMMA ZeroTyped == ASSUME NEW t \in Types PROVE 0 \in Values(t) /\ Pair(t, 0) \in Pairs
<1>1. 0 \in Values(t)
  BY WidthTyped DEF Values
<1> QED
  BY <1>1, PairTyped

\* A local has no value before the function is entered.
LEMMA UnsetTyped ==
  ASSUME NEW s \in Seq(Slot)
  PROVE  /\ Unset(s) \in Seq(Pairs) /\ Len(Unset(s)) = Len(s)
         /\ \A k \in 1..Len(s) : Unset(s)[k] = Pair(s[k].type, 0)
<1> DEFINE v(k) == Pair(s[k].type, 0)
<1>1. \A k \in 1..Len(s) : v(k) \in Pairs
  <2> TAKE k \in 1..Len(s)
  <2>1. s[k] \in Slot
    OBVIOUS
  <2>2. s[k].type \in Types
    BY <2>1 DEF Slot
  <2> QED
    BY <2>2, ZeroTyped
<1>2. Unset(s) = [k \in 1..Len(s) |-> v(k)] /\ Len(s) \in Nat
  BY DEF Unset
<1> DEFINE u == Unset(s)
<1> HIDE DEF u, v
<1>3. u = [k \in 1..Len(s) |-> v(k)]
  BY <1>2 DEF u
<1>4. u \in [1..Len(s) -> Pairs]
  BY <1>1, <1>3
<1>5. u \in Seq(Pairs) /\ Len(u) = Len(s)
  BY <1>2, <1>4
<1>6. \A k \in 1..Len(s) : u[k] = v(k)
  BY <1>3
<1> QED
  BY <1>5, <1>6 DEF u, v

LEMMA UnsetAppend ==
  ASSUME NEW s \in Seq(Slot), NEW a \in Slot
  PROVE  Unset(Append(s, a)) = Append(Unset(s), Pair(a.type, 0))
<1> DEFINE t == Append(s, a)
           x == Pair(a.type, 0)
           u == Unset(s)
           w == Append(u, x)
           v == Unset(t)
           m == Len(s)
<1>1. t \in Seq(Slot) /\ Len(t) = m + 1 /\ m \in Nat /\ t[m + 1] = a /\ \A k \in 1..m : t[k] = s[k]
  BY Appended
<1> HIDE DEF t
<1>2. u \in Seq(Pairs) /\ Len(u) = m /\ \A k \in 1..m : u[k] = Pair(s[k].type, 0)
  BY UnsetTyped
<1>3. /\ v \in Seq(Pairs) /\ Len(v) = Len(t)
      /\ \A k \in 1..Len(t) : v[k] = Pair(t[k].type, 0)
  BY <1>1, UnsetTyped
<1>4. x \in Pairs
  BY ZeroTyped DEF Slot
<1> HIDE DEF u, v, x
<1>5. w \in Seq(Pairs) /\ Len(w) = m + 1 /\ w[m + 1] = x /\ \A k \in 1..m : w[k] = u[k]
  <2>1. w \in Seq(Pairs) /\ Len(w) = Len(u) + 1 /\ w[Len(u) + 1] = x /\ \A k \in 1..Len(u) : w[k] = u[k]
    BY <1>2, <1>4, Appended
  <2> HIDE DEF w
  <2> QED
    BY <1>2, <2>1
<1> HIDE DEF w
<1>6. ASSUME NEW k \in 1..(m + 1) PROVE v[k] = w[k]
  <2>1. k = m + 1 \/ k \in 1..m
    BY <1>1
  <2>2. v[k] = Pair(t[k].type, 0)
    BY <1>1, <1>3
  <2>3. CASE k = m + 1
    BY <1>1, <1>5, <2>2, <2>3 DEF x
  <2>4. CASE k \in 1..m
    BY <1>1, <1>2, <1>5, <2>2, <2>4
  <2> QED
    BY <2>1, <2>3, <2>4
<1>7. v = w
  BY <1>1, <1>3, <1>5, <1>6, SameSequences
<1> QED
  BY <1>7 DEF v, w, t, u, x

LEMMA DeclaringIs ==
  ASSUME phase = "params"
  PROVE  /\ WasmPhase = "declaring" /\ WasmLocals = Unset(slots) /\ WasmOperands = <<>>
         /\ WasmOutcome = outcome
  BY DEF WasmPhase, WasmLocals, WasmOperands, WasmOutcome, LocalValue, Live, Unset, Pair

\* OP::add declares a local.
LEMMA AddedIs ==
  ASSUME MInv, MInv', phase = "params", NEW isParam \in BOOLEAN, NEW t \in Types,
         Added(isParam, t), isParam <=> Len(slots) < Len(params),
         UNCHANGED phase, UNCHANGED params, UNCHANGED outcome, UNCHANGED done
  PROVE  Wasm!Declare(t, isParam)
<1> DEFINE new == [isParam |-> isParam, offset |-> size, type |-> t]
           n == Len(params)
           m == Len(slots)
<1>1. slots \in Seq(Slot) /\ new \in Slot /\ slots' = Append(slots, new) /\ params \in Seq(Types)
  BY DEF MInv, IInv, LayoutTyped, Slot, Added
<1>2. new.type = t
  OBVIOUS
<1> HIDE DEF new
<1>3. n \in Nat /\ m \in Nat /\ Len(slots') = m + 1 /\ slots' \in Seq(Slot) /\ UNCHANGED n
  BY <1>1
<1>4. NParams = IF m <= n THEN m ELSE n
  BY NParamsIs
<1>5. NParams' = IF m + 1 <= n THEN m + 1 ELSE n
  <2>1. \A k \in DOMAIN slots' : slots'[k].isParam <=> k <= n
    BY <1>3 DEF MInv, Declared
  <2> DEFINE s == slots'
  <2>2. NParams' = Cardinality({k \in DOMAIN s : s[k].isParam})
    BY DEF NParams
  <2>3. s \in Seq(Slot) /\ Len(s) = m + 1 /\ \A k \in DOMAIN s : s[k].isParam <=> k <= n
    BY <1>3, <2>1
  <2> HIDE DEF s, n, m
  <2>4. Cardinality({k \in DOMAIN s : s[k].isParam}) = IF Len(s) <= n THEN Len(s) ELSE n
    BY <1>3, <2>3, ParamsCounted
  <2> QED
    BY <2>2, <2>3, <2>4
<1>6. /\ WasmPhase = "declaring" /\ WasmLocals = Unset(slots) /\ WasmOperands = <<>>
      /\ WasmOutcome = outcome
  BY DeclaringIs
<1>7. /\ WasmPhase' = "declaring" /\ WasmLocals' = Unset(slots') /\ WasmOperands' = <<>>
      /\ WasmOutcome' = outcome'
  BY DEF WasmPhase, WasmLocals, WasmOperands, WasmOutcome, LocalValue, Live, Unset, Pair
<1>8. WasmLocals' = Append(WasmLocals, Wasm!Of(t, 0))
  BY <1>1, <1>2, <1>6, <1>7, UnsetAppend, OfPair
<1>9. Len(WasmLocals) = m
  BY <1>1, <1>6, UnsetTyped
<1> HIDE DEF n, m
<1>10. isParam <=> m < n
  BY DEF n, m
<1>11. /\ isParam => NParams = Len(WasmLocals)
       /\ NParams' = IF isParam THEN NParams + 1 ELSE NParams
  BY <1>3, <1>4, <1>5, <1>9, <1>10
<1> QED
  BY <1>6, <1>7, <1>8, <1>11 DEF Wasm!Declare
\* A function starts without operands.
Unstarted == phase = "params" => types = <<>>

LEMMA AnyRegister ==
  ASSUME NEW t \in Types, NEW v \in Values("I64")
  PROVE  (IF t = "I64" THEN v ELSE v % Pow2[Bits]) \in Values(t)
<1>1. CASE t = "I64"
  BY <1>1
<1>2. CASE t = "I32"
  <2>1. v \in Int /\ Bits \in Nat
    BY WidthTyped, BitsTyped DEF Values, Types
  <2>2. v % Pow2[Bits] \in 0..(Pow2[Bits] - 1)
    BY <2>1, ModTyped
  <2> QED
    BY <1>2, <2>2, BitsTyped DEF Values
<1> QED
  BY <1>1, <1>2 DEF Types

\* The prologue: the arguments are in registers, every other local is zero.
LEMMA PrologueIs ==
  ASSUME MInv, MInv', Unstarted, NEW args, NEW upper, Prologue(args, upper)
  PROVE  Wasm!Enter
<1>1. /\ phase = "params" /\ phase' = "running" /\ Len(slots) >= Len(params)
      /\ frame' = [c \in 0..(AlignedSize - 1) |-> 0]
      /\ DOMAIN reg' = DOMAIN params
      /\ UNCHANGED params /\ UNCHANGED slots /\ UNCHANGED types /\ UNCHANGED opmem
      /\ UNCHANGED outcome /\ UNCHANGED done
  BY DEF Prologue
<1>2. /\ WasmPhase = "declaring" /\ WasmLocals = Unset(slots) /\ WasmOperands = <<>>
      /\ WasmOutcome = outcome
  BY <1>1, DeclaringIs
<1>3. slots \in Seq(Slot) /\ params \in Seq(Types) /\ size \in Nat
  BY DEF MInv, IInv, LayoutTyped
<1>4. NParams = Len(params)
  <2>1. NParams = IF Len(slots) <= Len(params) THEN Len(slots) ELSE Len(params)
    BY NParamsIs
  <2>2. Len(slots) \in Nat /\ Len(params) \in Nat
    BY <1>3
  <2> QED
    BY <1>1, <2>1, <2>2
<1>5. NParams' = NParams
  BY <1>1 DEF NParams
<1>6. WasmPhase' = "running" /\ WasmOutcome' = outcome'
  BY <1>1 DEF WasmPhase, WasmOutcome, Live
<1>7. WasmOperands' = <<>>
  <2>1. types' = <<>> /\ DOMAIN <<>> = {}
    BY <1>1 DEF Unstarted
  <2>2. WasmOperands' = [n \in DOMAIN types' |->
          [type |-> types'[n], val |-> LoadedFrom(opmem', CellsUpTo(types')[n - 1] + 1, types'[n])]]
    BY <1>1 DEF WasmOperands, OperandsOf, LoadedFrom, Live
  <2> DEFINE v(n) == [type |-> types'[n], val |-> LoadedFrom(opmem', CellsUpTo(types')[n - 1] + 1, types'[n])]
  <2>3. WasmOperands' = [n \in {} |-> v(n)]
    BY <2>1, <2>2
  <2> HIDE DEF v
  <2> QED
    BY <2>3
<1> DEFINE val(k) == IF slots[k].isParam
                       THEN IF slots[k].type = "I64" THEN reg'[k] ELSE reg'[k] % Pow2[Bits]
                       ELSE LoadedFrom(frame', slots[k].offset, slots[k].type)
<1>8. WasmLocals' = [k \in DOMAIN slots |-> Pair(slots[k].type, val(k))]
  BY <1>1 DEF WasmLocals, LocalValue, Register, LoadedFrom, Live, Pair
<1>9. ASSUME NEW k \in DOMAIN slots
      PROVE  /\ slots[k].type \in Types /\ val(k) \in Values(slots[k].type)
             /\ k > Len(params) => val(k) = 0
             /\ Unset(slots)[k].type = slots[k].type
  <2> DEFINE t  == slots[k].type
             to == slots[k].offset
  <2>1. slots[k] \in Slot /\ k \in 1..Len(slots) /\ k \in Nat
    BY <1>3
  <2>2. t \in Types /\ to \in Nat /\ slots[k].isParam \in BOOLEAN
    BY <2>1 DEF Slot
  <2>3. slots[k].isParam <=> k <= Len(params)
    BY DEF MInv, Declared
  <2>4. Unset(slots)[k].type = t
    <3>1. Unset(slots)[k] = Pair(t, 0)
      BY <1>3, <2>1, UnsetTyped
    <3> QED
      BY <3>1, OfPair
  <2>5. CASE slots[k].isParam
    <3>1. k \in DOMAIN params
      BY <1>3, <2>1, <2>3, <2>5
    <3>2. reg' \in Seq(Values("I64"))
      BY DEF MInv, Machine, Registers
    <3>3. reg'[k] \in Values("I64")
      BY <1>1, <3>1, <3>2
    <3>4. val(k) \in Values(t)
      BY <2>2, <2>5, <3>3, AnyRegister
    <3>5. ~(k > Len(params))
      <4>1. Len(params) \in Nat /\ k \in Nat /\ k <= Len(params)
        BY <1>3, <2>1, <2>3, <2>5
      <4> HIDE DEF val
      <4> QED
        BY <4>1
    <3> QED
      BY <2>2, <2>4, <3>4, <3>5
  <2>6. CASE ~slots[k].isParam
    <3>1. EndOf(slots[k]) <= size
      BY DEF MInv, IInv, SlotsDisjoint
    <3>2. to + CellsOf(t) <= size
      BY <3>1 DEF EndOf
    <3>3. AlignedSize \in Int /\ size <= AlignedSize
      BY <1>3, Aligned
    <3>4. CellsOf(t) \in {1, 2} /\ (t = "I64" => CellsOf(t) = 2)
      BY <2>2, CellsOfType DEF CellsOf
    <3> DEFINE top == AlignedSize
    <3> HIDE DEF top, t, to
    <3>5. to \in 0..(top - 1) /\ (t = "I64" => to + 1 \in 0..(top - 1))
      BY <1>3, <2>2, <3>2, <3>3, <3>4 DEF top
    <3>6. frame'[to] = 0 /\ (t = "I64" => frame'[to + 1] = 0)
      BY <1>1, <3>5 DEF top
    <3>7. val(k) = IF t = "I64" THEN frame'[to] + frame'[to + 1] * Pow2[Bits] ELSE frame'[to]
      BY <2>6 DEF LoadedFrom, t, to
    <3> HIDE DEF val
    <3>8. val(k) = 0
      <4>1. CASE t = "I64"
        BY <3>6, <3>7, <4>1, BitsTyped
      <4>2. CASE t # "I64"
        BY <3>6, <3>7, <4>2
      <4> QED
        BY <4>1, <4>2
    <3>9. val(k) \in Values(t)
      BY <2>2, <3>8, ZeroTyped
    <3> QED
      BY <2>2, <2>4, <3>8, <3>9 DEF t
  <2> QED
    BY <2>2, <2>5, <2>6
<1> HIDE DEF val
<1>10. DOMAIN WasmLocals' = DOMAIN WasmLocals /\ DOMAIN WasmLocals = DOMAIN slots
  BY <1>2, <1>8 DEF Unset
<1>11. ASSUME NEW k \in DOMAIN WasmLocals
       PROVE  /\ Wasm!IsTyped(WasmLocals'[k]) /\ WasmLocals'[k].type = WasmLocals[k].type
              /\ k > NParams => WasmLocals'[k].val = 0
  <2>1. k \in DOMAIN slots /\ WasmLocals'[k] = Pair(slots[k].type, val(k))
    BY <1>8, <1>10
  <2>2. /\ slots[k].type \in Types /\ val(k) \in Values(slots[k].type)
        /\ k > Len(params) => val(k) = 0
        /\ Unset(slots)[k].type = slots[k].type
    BY <1>9, <2>1
  <2>3. Pair(slots[k].type, val(k)) \in Pairs
    BY <2>2, PairTyped
  <2>4. Wasm!IsTyped(WasmLocals'[k])
    BY <2>1, <2>3, TypedPair
  <2>5. WasmLocals'[k].type = slots[k].type /\ WasmLocals'[k].val = val(k)
    BY <2>1, OfPair
  <2> QED
    BY <1>2, <1>4, <2>2, <2>4, <2>5
<1> QED
  BY <1>1, <1>2, <1>5, <1>6, <1>7, <1>10, <1>11, Zenon DEF Wasm!Enter

-----------------------------------------------------------------------------
(***************************************************************************)
(* The refinement.                                                         *)
(***************************************************************************)
\* The initial states map to initial states.
LEMMA InitMaps == Init => Wasm!Init /\ Unstarted
<1> SUFFICES ASSUME Init PROVE Wasm!Init /\ Unstarted
  OBVIOUS
<1>1. phase = "params" /\ slots = <<>> /\ types = <<>> /\ outcome = End("none") /\ done = <<>>
  BY DEF Init
<1>2. WasmPhase = "declaring" /\ WasmLocals = Unset(slots) /\ WasmOperands = <<>> /\ WasmOutcome = outcome
  BY <1>1, DeclaringIs
<1>3. NParams = 0
  <2>1. DOMAIN slots = {}
    BY <1>1
  <2>2. {k \in DOMAIN slots : slots[k].isParam} = {}
    BY <2>1
  <2> QED
    BY <2>2, FS_EmptySet DEF NParams
<1>4. WasmLocals = <<>>
  <2>1. slots \in Seq(Slot) /\ Len(slots) = 0
    BY <1>1
  <2>2. WasmLocals \in Seq(Pairs) /\ Len(WasmLocals) = 0
    BY <1>2, <2>1, UnsetTyped
  <2> QED
    BY <2>2
<1> QED
  BY <1>1, <1>2, <1>3, <1>4 DEF Wasm!Init, Unstarted, End, Wasm!End

\* The operand stack is empty until the function is entered.
LEMMA StaysUnstarted == ASSUME MInv, Unstarted, [Next]_vars PROVE Unstarted'
<1>0. IInv
  BY DEF MInv
<1>1. CASE AddParam
  BY <1>1 DEF AddParam, Unstarted
<1>2. ASSUME NEW t \in Types, AddLocal(t) PROVE Unstarted'
  BY <1>2 DEF AddLocal, Unstarted
<1>3. ASSUME NEW args, NEW upper, Prologue(args, upper) PROVE Unstarted'
  BY <1>3 DEF Prologue, Unstarted
<1>4. ASSUME Instruction PROVE Unstarted'
  BY <1>4 DEF Instruction, Unstarted
<1>5. ASSUME NEW op, Fetch(op) PROVE Unstarted'
  BY <1>4, <1>5, FetchIsInstruction
<1>6. ASSUME NEW byte, ReadGroup(byte) PROVE Unstarted'
  BY <1>4, <1>6, ReadGroupIsInstruction
<1>7. ASSUME NEW op, Arithmetic(op) PROVE Unstarted'
  BY <1>4, <1>7, ArithmeticIsInstruction
<1>8. ASSUME NEW op, Comparison(op) PROVE Unstarted'
  BY <1>4, <1>8, ComparisonIsInstruction
<1>9. ASSUME NEW op, UnaryOp(op) PROVE Unstarted'
  BY <1>4, <1>9, UnaryIsInstruction
<1>10. CASE Drop
  BY <1>4, <1>10, DropIsInstruction
<1>11. ASSUME NEW result, Call(result) PROVE Unstarted'
  BY <1>0, <1>4, <1>11, CallIsInstruction
<1>12. ASSUME NEW hasResult, Return(hasResult) PROVE Unstarted'
  BY <1>4, <1>12, ReturnIsInstruction
<1>13. CASE Unsupported
  BY <1>4, <1>13, UnsupportedIsInstruction
<1>14. CASE UNCHANGED vars
  BY <1>14 DEF vars, Unstarted
<1> QED
  BY <1>1, <1>2, <1>3, <1>5, <1>6, <1>7, <1>8, <1>9, <1>10, <1>11, <1>12, <1>13, <1>14 DEF Next

\* Every step is a step of Wasm's function or leaves what it sees alone.
LEMMA StepMaps ==
  ASSUME MInv, Unstarted, [Next]_vars
  PROVE  [Wasm!Next]_(Wasm!vars)
<1>0. MInv'
  BY MNext
<1>1. ASSUME AddParam PROVE Wasm!Next
  <2>1. /\ phase = "params" /\ Len(slots) < Len(params) /\ Added(TRUE, params[Len(slots) + 1])
        /\ UNCHANGED phase /\ UNCHANGED params /\ UNCHANGED outcome /\ UNCHANGED done
    BY <1>1 DEF AddParam
  <2> DEFINE t == params[Len(slots) + 1]
  <2>2. t \in Types
    BY <2>1 DEF MInv, IInv, LayoutTyped
  <2>3. Added(TRUE, t)
    BY <2>1
  <2> HIDE DEF t
  <2>4. Wasm!Declare(t, TRUE)
    BY <1>0, <2>1, <2>2, <2>3, AddedIs
  <2> QED
    BY <2>2, <2>4, WasmSets DEF Wasm!Next
<1>2. ASSUME NEW t \in Types, AddLocal(t) PROVE Wasm!Next
  <2>1. /\ phase = "params" /\ Len(slots) >= Len(params) /\ Added(FALSE, t)
        /\ UNCHANGED phase /\ UNCHANGED params /\ UNCHANGED outcome /\ UNCHANGED done
    BY <1>2 DEF AddLocal
  <2>2. Len(slots) >= Len(params) => ~(Len(slots) < Len(params))
    <3>1. Len(slots) \in Nat /\ Len(params) \in Nat
      BY DEF MInv, IInv, LayoutTyped
    <3> QED
      BY <3>1
  <2>3. FALSE <=> Len(slots) < Len(params)
    BY <2>1, <2>2, Zenon
  <2>4. Wasm!Declare(t, FALSE)
    BY <1>0, <2>1, <2>3, AddedIs
  <2> QED
    BY <2>4, WasmSets DEF Wasm!Next
<1>3. ASSUME NEW args, NEW upper, Prologue(args, upper) PROVE Wasm!Next
  <2>1. Wasm!Enter
    BY <1>0, <1>3, PrologueIs
  <2> QED
    BY <2>1 DEF Wasm!Next
<1>4. ASSUME NEW op, Fetch(op) PROVE UNCHANGED Wasm!vars
  BY <1>4, FetchIs
<1>5. ASSUME NEW byte \in Byte \cup {EndOfFile}, ReadGroup(byte)
      PROVE  Wasm!Next \/ UNCHANGED Wasm!vars
  BY <1>5, ReadGroupIs
<1>6. ASSUME NEW op \in Binary \ Comparisons, Arithmetic(op) PROVE Wasm!Next
  <2>1. Wasm!Operate(op)
    BY <1>6, ArithmeticIs
  <2>2. op \in Wasm!Binary
    BY WasmSets
  <2> QED
    BY <2>1, <2>2 DEF Wasm!Next
<1>7. ASSUME NEW op \in Comparisons, Comparison(op) PROVE Wasm!Next
  <2>1. Wasm!Operate(op)
    BY <1>7, ComparisonIs
  <2>2. op \in Wasm!Binary
    BY WasmSets DEF Binary
  <2> QED
    BY <2>1, <2>2 DEF Wasm!Next
<1>8. ASSUME NEW op \in Unary, UnaryOp(op) PROVE Wasm!Next
  <2>1. Wasm!Change(op)
    BY <1>8, UnaryIs
  <2>2. op \in Wasm!Unary
    BY WasmSets
  <2> QED
    BY <2>1, <2>2 DEF Wasm!Next
<1>9. ASSUME Drop PROVE Wasm!Next
  <2>1. Wasm!Drop
    BY <1>9, DropIs
  <2> QED
    BY <2>1 DEF Wasm!Next
<1>10. ASSUME NEW result \in Results \cup {<<>>}, Call(result) PROVE Wasm!Next
  BY <1>10, CallIs
<1>11. ASSUME NEW hasResult, Return(hasResult) PROVE Wasm!Next
  <2>1. Wasm!Return
    BY <1>11, ReturnIs
  <2> QED
    BY <2>1 DEF Wasm!Next
<1>12. ASSUME Unsupported PROVE Wasm!Next
  BY <1>12, UnsupportedIs
<1>13. ASSUME UNCHANGED vars PROVE UNCHANGED Wasm!vars
  <2>1. /\ UNCHANGED phase /\ UNCHANGED slots /\ UNCHANGED types /\ UNCHANGED reg
        /\ UNCHANGED frame /\ UNCHANGED opmem /\ UNCHANGED outcome /\ UNCHANGED done
    BY <1>13 DEF vars
  <2>2. WasmPhase' = WasmPhase /\ WasmOutcome' = WasmOutcome /\ NParams' = NParams
    BY <2>1 DEF WasmPhase, WasmOutcome, NParams, Live
  <2>3. WasmLocals' = WasmLocals
    BY <2>1 DEF WasmLocals, LocalValue, Register, LoadedFrom, Live
  <2>4. WasmOperands' = WasmOperands
    BY <2>1 DEF WasmOperands, OperandsOf, LoadedFrom, Live
  <2> QED
    BY <2>1, <2>2, <2>3, <2>4 DEF Wasm!vars
<1> QED
  BY <1>1, <1>2, <1>3, <1>4, <1>5, <1>6, <1>7, <1>8, <1>9, <1>10, <1>11, <1>12, <1>13 DEF Next

\* Whatever the list of parameters, the locals, the widths and the code: what
\* a function leaves on its operand stack, in its locals and as its result,
\* and how it ends, is what Wasm says of the program.
THEOREM Refinement == Spec => ImplementsWasmFunction
<1>1. MInv /\ Unstarted /\ [Next]_vars => [Wasm!Next]_(Wasm!vars)
  BY StepMaps
<1>2. MInv /\ Unstarted /\ [Next]_vars => Unstarted'
  BY StaysUnstarted
<1> QED
  BY InitMaps, MInit, MNext, <1>1, <1>2, PTL DEF Spec, ImplementsWasmFunction, Wasm!Spec
==============================================================================
