------------------------- MODULE CPUArithmeticProofs -------------------------
(***************************************************************************)
(* The condition bits of CPUArithmetic tell the truth, for bytes and words *)
(* of every size.                                                          *)
(***************************************************************************)
EXTENDS CPUArithmetic, TLAPS

(* Division with remainder.                                                *)

LEMMA DivMod ==
  ASSUME NEW n \in Nat \ {0}, NEW q \in Int, NEW r \in 0 .. n - 1
  PROVE  (q * n + r) \div n = q /\ (q * n + r) % n = r
<1> DEFINE x == q * n + r
<1>1. x \in Int /\ x \div n \in Int /\ x % n \in 0 .. n - 1
      /\ x = n * (x \div n) + (x % n)
  OBVIOUS
<1>2. ASSUME x \div n <= q - 1 PROVE FALSE
  <2>1. n * (x \div n) <= n * (q - 1)
    BY <1>1, <1>2
  <2> QED BY <1>1, <2>1
<1>3. ASSUME x \div n >= q + 1 PROVE FALSE
  <2>1. n * (x \div n) >= n * (q + 1)
    BY <1>1, <1>3
  <2> QED BY <1>1, <2>1
<1> QED BY <1>1, <1>2, <1>3

\* A modulus is even, and m_ALU holds a multiple of it.
IsModulus(m, h, k) == h \in Nat \ {0} /\ m = 2 * h /\ k \in Nat /\ k >= 2 /\ Wide = k * m

LEMMA Halves ==
  ASSUME NEW h \in Int
  PROVE  (2 * h) \div 2 = h
<1>1. (h * 2 + 0) \div 2 = h
  BY DivMod
<1> QED BY <1>1

LEMMA ModulusExists ==
  ASSUME NEW m \in {Byte, Word}
  PROVE  \E h, k : IsModulus(m, h, k)
<1>1. PICK b \in Nat \ {0} : Byte = 2 * b
  BY ArithmeticAssumption
<1>2. CASE m = Byte
  <2> DEFINE k == Byte * Word
  <2>1. Byte >= 2 /\ Byte \in Nat
    BY <1>1
  <2>2. Word >= 2 /\ Word \in Nat
    BY <2>1 DEF Word
  <2>3. k \in Nat /\ k >= 2
    BY <2>1, <2>2
  <2>4. Wide = k * m
    BY <1>2, <2>1, <2>2 DEF Wide, Word
  <2> QED BY <1>1, <1>2, <2>3, <2>4 DEF IsModulus
<1>3. CASE m = Word
  <2> DEFINE h == b * Byte
  <2>1. Byte >= 2 /\ Byte \in Nat /\ h \in Nat \ {0}
    BY <1>1
  <2>2. m = 2 * h
    BY <1>1, <1>3, <2>1 DEF Word
  <2>3. Word >= 2 /\ Word \in Nat
    BY <2>1 DEF Word
  <2> QED BY <1>3, <2>1, <2>2, <2>3 DEF IsModulus, Wide
<1> QED BY <1>2, <1>3

\* What is read off m_ALU, when it is j times the modulus and y.
LEMMA Read ==
  ASSUME NEW m, NEW h, NEW k, IsModulus(m, h, k), NEW j \in Int, NEW y \in 0 .. m - 1
  PROVE  /\ Sign(j * m + y, m) <=> y >= h
         /\ Carry(j * m + y, m) <=> j # 0
         /\ (j * m + y) % m = y
         /\ m \div 2 = h
<1>1. h \in Nat \ {0} /\ m = 2 * h /\ m \div 2 = h
  BY Halves DEF IsModulus
<1>2. (j * m + y) \div m = j /\ (j * m + y) % m = y
  BY <1>1, DivMod
<1>3. CASE y < h
  <2>1. j * m + y = (2 * j) * h + y
    BY <1>1
  <2>2. ((2 * j) * h + y) \div h = 2 * j
    <3>1. 2 * j \in Int /\ y \in 0 .. h - 1
      BY <1>1, <1>3
    <3> QED BY ONLY <3>1, <1>1, DivMod
  <2>3. (2 * j) % 2 # 1
    BY <1>1
  <2> QED BY <1>1, <1>2, <1>3, <2>1, <2>2, <2>3 DEF Sign, Carry
<1>4. CASE y >= h
  <2>1. j * m + y = (2 * j + 1) * h + (y - h)
    BY <1>1
  <2>2. y - h \in 0 .. h - 1
    BY <1>1, <1>4
  <2>3. ((2 * j + 1) * h + (y - h)) \div h = 2 * j + 1
    <3>1. 2 * j + 1 \in Int
      OBVIOUS
    <3> QED BY ONLY <3>1, <1>1, <2>2, DivMod
  <2>4. (2 * j + 1) % 2 = 1
    BY <1>1
  <2> QED BY <1>1, <1>2, <1>4, <2>1, <2>3, <2>4 DEF Sign, Carry
<1> QED BY <1>1, <1>3, <1>4

\* m_ALU after an addition or a subtraction whose exact value is d.
LEMMA Cut ==
  ASSUME NEW m, NEW h, NEW k, IsModulus(m, h, k), NEW d \in -m .. 2 * m - 1
  PROVE  \E j \in Int, i \in -1 .. 1, y \in 0 .. m - 1 :
           /\ d % Wide = j * m + y
           /\ d = i * m + y
           /\ j # 0 <=> i # 0
<1>1. h \in Nat \ {0} /\ m = 2 * h /\ k \in Nat /\ k >= 2 /\ Wide = k * m
  BY DEF IsModulus
<1>2. 2 * m <= k * m
  BY <1>1
<1>3. Wide \in Nat \ {0} /\ 2 * m <= Wide
  BY <1>1, <1>2
<1>4. CASE d >= 0
  <2>1. d \in 0 .. Wide - 1
    BY <1>1, <1>3, <1>4
  <2>2. (0 * Wide + d) % Wide = d
    BY <1>3, <2>1, DivMod
  <2>3. d % Wide = d
    BY <2>2, <1>3, <2>1
  <2>4. CASE d < m
    <3>1. d % Wide = 0 * m + d /\ d = 0 * m + d /\ d \in 0 .. m - 1
      BY <1>1, <1>4, <2>3, <2>4
    <3> QED BY <3>1
  <2>5. CASE d >= m
    <3>1. d % Wide = 1 * m + (d - m) /\ d = 1 * m + (d - m) /\ d - m \in 0 .. m - 1
      BY <1>1, <2>3, <2>5
    <3> QED BY <3>1
  <2> QED BY <1>1, <2>4, <2>5
<1>5. CASE d < 0
  <2>1. Wide + d \in 0 .. Wide - 1
    BY <1>1, <1>3, <1>5
  <2>2. ((-1) * Wide + (Wide + d)) % Wide = Wide + d
    <3> DEFINE r == Wide + d
    <3>1. r \in 0 .. Wide - 1 /\ -1 \in Int
      BY <2>1
    <3> HIDE DEF r
    <3>2. ((-1) * Wide + r) % Wide = r
      BY ONLY <1>3, <3>1, DivMod
    <3> QED BY <3>2 DEF r
  <2>3. (-1) * Wide + (Wide + d) = d
    BY <1>1, <1>3
  <2>4. d % Wide = (k - 1) * m + (m + d)
    BY <1>1, <2>2, <2>3
  <2>5. d = (-1) * m + (m + d) /\ m + d \in 0 .. m - 1 /\ k - 1 \in Int /\ k - 1 # 0
    BY <1>1, <1>5
  <2>6. -1 \in -1 .. 1 /\ (k - 1 # 0 <=> -1 # 0)
    BY <2>5
  <2> QED BY ONLY <2>4, <2>5, <2>6
<1> QED BY <1>1, <1>4, <1>5

\* What the condition bits are computed from, in terms of the exact value.
LEMMA CutRead ==
  ASSUME NEW m, NEW h, NEW k, IsModulus(m, h, k), NEW d \in -m .. 2 * m - 1
  PROVE  /\ Sign(d % Wide, m) <=> (d \in h .. m - 1 \/ d \in -h .. -1 \/ d >= m + h)
         /\ Carry(d % Wide, m) <=> d \notin 0 .. m - 1
         /\ (d % Wide) % m = IF d < 0 THEN d + m ELSE IF d < m THEN d ELSE d - m
<1>1. h \in Nat \ {0} /\ m = 2 * h
  BY DEF IsModulus
<1>2. PICK j \in Int, i \in -1 .. 1, y \in 0 .. m - 1 :
        d % Wide = j * m + y /\ d = i * m + y /\ (j # 0 <=> i # 0)
  BY Cut
<1>3. /\ Sign(d % Wide, m) <=> y >= h
      /\ Carry(d % Wide, m) <=> j # 0
      /\ (d % Wide) % m = y
  BY <1>2, Read
<1>4. CASE i = -1
  BY <1>1, <1>2, <1>3, <1>4
<1>5. CASE i = 0
  BY <1>1, <1>2, <1>3, <1>5
<1>6. CASE i = 1
  BY <1>1, <1>2, <1>3, <1>6
<1> QED BY <1>4, <1>5, <1>6

\* An outcome tells the truth when the exact signed value differs from d by a
\* multiple of the modulus, and V and C are right.
LEMMA Told ==
  ASSUME NEW m, NEW h, NEW k, IsModulus(m, h, k), NEW d \in -m .. 2 * m - 1,
         NEW t \in Int, NEW w \in Int, w = d + t * m, NEW u \in Int, NEW v, NEW c,
         v <=> w \notin -h .. h - 1, c <=> u \notin 0 .. m - 1
  PROVE  Tells(Outcome(d % Wide, m, v, c), w, u, m)
<1> DEFINE x == d % Wide
<1>1. h \in Nat \ {0} /\ m = 2 * h /\ m \div 2 = h
  BY Halves DEF IsModulus
<1>2. PICK j \in Int, i \in -1 .. 1, y \in 0 .. m - 1 : x = j * m + y /\ d = i * m + y
  BY Cut
<1>3. x % m = y /\ (Sign(x, m) <=> y >= h)
  BY <1>2, Read
<1>4. w % m = y
  <2>1. w = (i + t) * m + y /\ i + t \in Int
    BY <1>1, <1>2
  <2> DEFINE e == i + t
  <2>2. e \in Int /\ y \in 0 .. m - 1 /\ m \in Nat \ {0}
    BY <1>1, <2>1
  <2> HIDE DEF e
  <2>3. (e * m + y) % m = y
    BY ONLY <2>2, DivMod
  <2> QED BY <2>1, <2>3 DEF e
<1>5. Signed(y, m) < 0 <=> y >= h
  BY <1>1 DEF Signed
<1> HIDE DEF x
<1>6. Tells(Outcome(x, m, v, c), w, u, m)
  BY <1>1, <1>3, <1>4, <1>5 DEF Tells, Outcome
<1> QED BY <1>6 DEF x

\* Small numbers are their own remainders.
LEMMA Small ==
  ASSUME NEW m, NEW h, NEW k, IsModulus(m, h, k), NEW d \in 0 .. 2 * m - 1
  PROVE  d % Wide = d
<1>1. h \in Nat \ {0} /\ m = 2 * h /\ k \in Nat /\ k >= 2 /\ Wide = k * m
  BY DEF IsModulus
<1>2. 2 * m <= k * m
  BY <1>1
<1>3. Wide \in Nat \ {0} /\ d \in 0 .. Wide - 1
  BY <1>1, <1>2
<1>4. (0 * Wide + d) % Wide = d /\ 0 * Wide + d = d
  BY <1>3, DivMod
<1> QED BY <1>4

\* The operands.
LEMMA Operand ==
  ASSUME NEW m, NEW h, NEW k, IsModulus(m, h, k), NEW a \in 0 .. m - 1
  PROVE  /\ Sign(a, m) <=> a >= h
         /\ Signed(a, m) = IF a < h THEN a ELSE a - m
<1>1. h \in Nat \ {0} /\ m = 2 * h /\ m \div 2 = h
  BY Halves DEF IsModulus
<1>2. Sign(0 * m + a, m) <=> a >= h
  BY Read
<1>3. 0 * m + a = a
  BY <1>1
<1> QED BY <1>1, <1>2, <1>3 DEF Signed
-----------------------------------------------------------------------------
(* The instructions.                                                       *)

LEMMA AddTells ==
  ASSUME NEW m, NEW h, NEW k, IsModulus(m, h, k), NEW a \in 0 .. m - 1,
         NEW b \in 0 .. m - 1, NEW f \in Conditions
  PROVE  Tells(ADD(a, b, f, m), Signed(a, m) + Signed(b, m), a + b, m)
<1> DEFINE d == a + b
           w == Signed(a, m) + Signed(b, m)
           v == (Sign(b, m) <=> Sign(a, m)) /\ ~(Sign(a, m) <=> Sign(d % Wide, m))
           c == Carry(d % Wide, m)
<1>1. h \in Nat \ {0} /\ m = 2 * h
  BY DEF IsModulus
<1>2. d \in -m .. 2 * m - 1 /\ d % Wide = a + b
  BY <1>1, Small
<1>3. Signed(a, m) = (IF a < h THEN a ELSE a - m) /\ Signed(b, m) = (IF b < h THEN b ELSE b - m)
      /\ (Sign(a, m) <=> a >= h) /\ (Sign(b, m) <=> b >= h)
  BY Operand
<1>4. /\ Sign(d % Wide, m) <=> (d \in h .. m - 1 \/ d \in -h .. -1 \/ d >= m + h)
      /\ Carry(d % Wide, m) <=> d \notin 0 .. m - 1
      /\ (d % Wide) % m = IF d < 0 THEN d + m ELSE IF d < m THEN d ELSE d - m
  BY <1>2, CutRead
<1>5. \E t \in -2 .. 2 : w = d + t * m
  <2>1. CASE a < h /\ b < h
    <3>1. w = d + (0) * m
      BY <1>1, <1>2, <1>3, <2>1
    <3> QED BY <3>1
  <2>2. CASE a < h /\ b >= h
    <3>1. w = d + (-1) * m
      BY <1>1, <1>2, <1>3, <2>2
    <3> QED BY <3>1
  <2>3. CASE a >= h /\ b < h
    <3>1. w = d + (-1) * m
      BY <1>1, <1>2, <1>3, <2>3
    <3> QED BY <3>1
  <2>4. CASE a >= h /\ b >= h
    <3>1. w = d + (-2) * m
      BY <1>1, <1>2, <1>3, <2>4
    <3> QED BY <3>1
  <2> QED BY <1>1, <2>1, <2>2, <2>3, <2>4
<1>6. v <=> w \notin -h .. h - 1
  BY <1>1, <1>2, <1>3, <1>4
<1>7. c <=> d \notin 0 .. m - 1
  BY <1>1, <1>2, <1>4
<1>8. Tells(Outcome(d % Wide, m, v, c), w, d, m)
  <2> HIDE DEF d, w, v, c
  <2>1. PICK t \in -2 .. 2 : w = d + t * m
    BY <1>5
  <2>2. d \in Int /\ w \in Int /\ t \in Int
    BY <1>1, <1>2, <2>1
  <2> QED BY <1>2, <1>6, <1>7, <2>1, <2>2, Told
<1> QED BY <1>2, <1>8 DEF ADD

LEMMA SubTells ==
  ASSUME NEW m, NEW h, NEW k, IsModulus(m, h, k), NEW a \in 0 .. m - 1,
         NEW b \in 0 .. m - 1, NEW f \in Conditions
  PROVE  Tells(SUB(a, b, f, m), Signed(a, m) - Signed(b, m), a - b, m)
<1> DEFINE d == a - b
           w == Signed(a, m) - Signed(b, m)
           v == ~(Sign(b, m) <=> Sign(a, m)) /\ (Sign(b, m) <=> Sign(d % Wide, m))
           c == Carry(d % Wide, m)
<1>1. h \in Nat \ {0} /\ m = 2 * h
  BY DEF IsModulus
<1>2. d \in -m .. 2 * m - 1
  BY <1>1
<1>3. Signed(a, m) = (IF a < h THEN a ELSE a - m) /\ Signed(b, m) = (IF b < h THEN b ELSE b - m)
      /\ (Sign(a, m) <=> a >= h) /\ (Sign(b, m) <=> b >= h)
  BY Operand
<1>4. /\ Sign(d % Wide, m) <=> (d \in h .. m - 1 \/ d \in -h .. -1 \/ d >= m + h)
      /\ Carry(d % Wide, m) <=> d \notin 0 .. m - 1
      /\ (d % Wide) % m = IF d < 0 THEN d + m ELSE IF d < m THEN d ELSE d - m
  BY <1>2, CutRead
<1>5. \E t \in -2 .. 2 : w = d + t * m
  <2>1. CASE a < h /\ b < h
    <3>1. w = d + (0) * m
      BY <1>1, <1>2, <1>3, <2>1
    <3> QED BY <3>1
  <2>2. CASE a < h /\ b >= h
    <3>1. w = d + (1) * m
      BY <1>1, <1>2, <1>3, <2>2
    <3> QED BY <3>1
  <2>3. CASE a >= h /\ b < h
    <3>1. w = d + (-1) * m
      BY <1>1, <1>2, <1>3, <2>3
    <3> QED BY <3>1
  <2>4. CASE a >= h /\ b >= h
    <3>1. w = d + (0) * m
      BY <1>1, <1>2, <1>3, <2>4
    <3> QED BY <3>1
  <2> QED BY <1>1, <2>1, <2>2, <2>3, <2>4
<1>6. v <=> w \notin -h .. h - 1
  BY <1>1, <1>2, <1>3, <1>4
<1>7. c <=> d \notin 0 .. m - 1
  BY <1>1, <1>2, <1>4
<1>8. Tells(Outcome(d % Wide, m, v, c), w, d, m)
  <2> HIDE DEF d, w, v, c
  <2>1. PICK t \in -2 .. 2 : w = d + t * m
    BY <1>5
  <2>2. d \in Int /\ w \in Int /\ t \in Int
    BY <1>1, <1>2, <2>1
  <2> QED BY <1>2, <1>6, <1>7, <2>1, <2>2, Told
<1> QED BY <1>8 DEF SUB

LEMMA CmpTells ==
  ASSUME NEW m, NEW h, NEW k, IsModulus(m, h, k), NEW a \in 0 .. m - 1,
         NEW b \in 0 .. m - 1, NEW f \in Conditions
  PROVE  Tells(CMP(a, b, f, m), Signed(b, m) - Signed(a, m), b - a, m)
<1> DEFINE d == b - a
           w == Signed(b, m) - Signed(a, m)
           v == ~(Sign(b, m) <=> Sign(a, m)) /\ (Sign(a, m) <=> Sign(d % Wide, m))
           c == Carry(d % Wide, m)
<1>1. h \in Nat \ {0} /\ m = 2 * h
  BY DEF IsModulus
<1>2. d \in -m .. 2 * m - 1
  BY <1>1
<1>3. Signed(a, m) = (IF a < h THEN a ELSE a - m) /\ Signed(b, m) = (IF b < h THEN b ELSE b - m)
      /\ (Sign(a, m) <=> a >= h) /\ (Sign(b, m) <=> b >= h)
  BY Operand
<1>4. /\ Sign(d % Wide, m) <=> (d \in h .. m - 1 \/ d \in -h .. -1 \/ d >= m + h)
      /\ Carry(d % Wide, m) <=> d \notin 0 .. m - 1
      /\ (d % Wide) % m = IF d < 0 THEN d + m ELSE IF d < m THEN d ELSE d - m
  BY <1>2, CutRead
<1>5. \E t \in -2 .. 2 : w = d + t * m
  <2>1. CASE a < h /\ b < h
    <3>1. w = d + (0) * m
      BY <1>1, <1>2, <1>3, <2>1
    <3> QED BY <3>1
  <2>2. CASE a < h /\ b >= h
    <3>1. w = d + (-1) * m
      BY <1>1, <1>2, <1>3, <2>2
    <3> QED BY <3>1
  <2>3. CASE a >= h /\ b < h
    <3>1. w = d + (1) * m
      BY <1>1, <1>2, <1>3, <2>3
    <3> QED BY <3>1
  <2>4. CASE a >= h /\ b >= h
    <3>1. w = d + (0) * m
      BY <1>1, <1>2, <1>3, <2>4
    <3> QED BY <3>1
  <2> QED BY <1>1, <2>1, <2>2, <2>3, <2>4
<1>6. v <=> w \notin -h .. h - 1
  BY <1>1, <1>2, <1>3, <1>4
<1>7. c <=> d \notin 0 .. m - 1
  BY <1>1, <1>2, <1>4
<1>8. Tells(Outcome(d % Wide, m, v, c), w, d, m)
  <2> HIDE DEF d, w, v, c
  <2>1. PICK t \in -2 .. 2 : w = d + t * m
    BY <1>5
  <2>2. d \in Int /\ w \in Int /\ t \in Int
    BY <1>1, <1>2, <2>1
  <2> QED BY <1>2, <1>6, <1>7, <2>1, <2>2, Told
<1> QED BY <1>8 DEF CMP

\* m_ALU is wider than the operands.
LEMMA Wider ==
  ASSUME NEW m, NEW h, NEW k, IsModulus(m, h, k)
  PROVE  Wide \in Nat \ {0} /\ 2 * m <= Wide
<1>1. h \in Nat \ {0} /\ m = 2 * h /\ k \in Nat /\ k >= 2 /\ Wide = k * m
  BY DEF IsModulus
<1>2. 2 * m <= k * m
  BY <1>1
<1> QED BY <1>1, <1>2

LEMMA AdcTells ==
  ASSUME NEW m, NEW h, NEW k, IsModulus(m, h, k), NEW a \in 0 .. m - 1,
         NEW b \in 0 .. m - 1, NEW f \in Conditions
  PROVE  Tells(ADC(a, b, f, m), Signed(a, m) + One(f.C), a + One(f.C), m)
<1> DEFINE d == a + One(f.C)
           w == Signed(a, m) + One(f.C)
           v == Rose(a, d % Wide, m)
           c == Carry(d % Wide, m)
<1>1. h \in Nat \ {0} /\ m = 2 * h
  BY DEF IsModulus
<1>0. One(f.C) \in 0 .. 1
  BY DEF One
<1>2. d \in -m .. 2 * m - 1
  BY <1>1, <1>0
<1>12. d % Wide = d
  <2>1. d \in 0 .. 2 * m - 1
    BY <1>1, <1>0
  <2> QED BY <2>1, Small
<1>3. Signed(a, m) = (IF a < h THEN a ELSE a - m) /\ (Sign(a, m) <=> a >= h)
  BY Operand
<1>4. /\ Sign(d % Wide, m) <=> (d \in h .. m - 1 \/ d \in -h .. -1 \/ d >= m + h)
      /\ Carry(d % Wide, m) <=> d \notin 0 .. m - 1
      /\ (d % Wide) % m = IF d < 0 THEN d + m ELSE IF d < m THEN d ELSE d - m
  BY <1>2, CutRead
<1>5. \E t \in -2 .. 2 : w = d + t * m
  <2>1. CASE a < h
    <3>1. w = d + (0) * m
      BY <1>1, <1>0, <1>2, <1>3, <2>1
    <3> QED BY <3>1
  <2>2. CASE a >= h
    <3>1. w = d + (-1) * m
      BY <1>1, <1>0, <1>2, <1>3, <2>2
    <3> QED BY <3>1
  <2> QED BY <1>1, <2>1, <2>2
<1>6. v <=> w \notin -h .. h - 1
  BY <1>1, <1>0, <1>2, <1>3, <1>4 DEF Rose, Fell
<1>7. c <=> d \notin 0 .. m - 1
  BY <1>1, <1>2, <1>4
<1>8. Tells(Outcome(d % Wide, m, v, c), w, d, m)
  <2> HIDE DEF d, w, v, c
  <2>1. PICK t \in -2 .. 2 : w = d + t * m
    BY <1>5
  <2>2. d \in Int /\ w \in Int /\ t \in Int /\ 0 \in Int
    BY <1>1, <1>2, <2>1
  <2> QED BY <1>2, <1>6, <1>7, <2>1, <2>2, Told
<1> QED BY <1>12, <1>8 DEF ADC

LEMMA SbcTells ==
  ASSUME NEW m, NEW h, NEW k, IsModulus(m, h, k), NEW a \in 0 .. m - 1,
         NEW b \in 0 .. m - 1, NEW f \in Conditions
  PROVE  Tells(SBC(a, b, f, m), Signed(a, m) - One(f.C), a - One(f.C), m)
<1> DEFINE d == a - One(f.C)
           w == Signed(a, m) - One(f.C)
           v == Fell(a, d % Wide, m)
           c == Carry(d % Wide, m)
<1>1. h \in Nat \ {0} /\ m = 2 * h
  BY DEF IsModulus
<1>0. One(f.C) \in 0 .. 1
  BY DEF One
<1>2. d \in -m .. 2 * m - 1
  BY <1>1, <1>0
<1>3. Signed(a, m) = (IF a < h THEN a ELSE a - m) /\ (Sign(a, m) <=> a >= h)
  BY Operand
<1>4. /\ Sign(d % Wide, m) <=> (d \in h .. m - 1 \/ d \in -h .. -1 \/ d >= m + h)
      /\ Carry(d % Wide, m) <=> d \notin 0 .. m - 1
      /\ (d % Wide) % m = IF d < 0 THEN d + m ELSE IF d < m THEN d ELSE d - m
  BY <1>2, CutRead
<1>5. \E t \in -2 .. 2 : w = d + t * m
  <2>1. CASE a < h
    <3>1. w = d + (0) * m
      BY <1>1, <1>0, <1>2, <1>3, <2>1
    <3> QED BY <3>1
  <2>2. CASE a >= h
    <3>1. w = d + (-1) * m
      BY <1>1, <1>0, <1>2, <1>3, <2>2
    <3> QED BY <3>1
  <2> QED BY <1>1, <2>1, <2>2
<1>6. v <=> w \notin -h .. h - 1
  BY <1>1, <1>0, <1>2, <1>3, <1>4 DEF Rose, Fell
<1>7. c <=> d \notin 0 .. m - 1
  BY <1>1, <1>2, <1>4
<1>8. Tells(Outcome(d % Wide, m, v, c), w, d, m)
  <2> HIDE DEF d, w, v, c
  <2>1. PICK t \in -2 .. 2 : w = d + t * m
    BY <1>5
  <2>2. d \in Int /\ w \in Int /\ t \in Int /\ 0 \in Int
    BY <1>1, <1>2, <2>1
  <2> QED BY <1>2, <1>6, <1>7, <2>1, <2>2, Told
<1> QED BY <1>8 DEF SBC

\* Changing C of an outcome.
LEMMA OtherBit ==
  ASSUME NEW x, NEW s, NEW z, NEW v, NEW c, NEW e
  PROVE  [[alu |-> x, f |-> [N |-> s, Z |-> z, V |-> v, C |-> c]] EXCEPT !.f.C = e]
         = [alu |-> x, f |-> [N |-> s, Z |-> z, V |-> v, C |-> e]]
<1> DEFINE g == [N |-> s, Z |-> z, V |-> v, C |-> c]
<1>1. [g EXCEPT !.C = e] = [N |-> s, Z |-> z, V |-> v, C |-> e]
  OBVIOUS
<1>2. [[alu |-> x, f |-> g] EXCEPT !.f.C = e] = [alu |-> x, f |-> [g EXCEPT !.C = e]]
  <2> HIDE DEF g
  <2> QED OBVIOUS
<1> QED BY <1>1, <1>2

LEMMA OtherCarry ==
  ASSUME NEW x, NEW m, NEW v, NEW c, NEW e
  PROVE  [Outcome(x, m, v, c) EXCEPT !.f.C = e] = Outcome(x, m, v, e)
<1> DEFINE s == Sign(x, m)
           z == (x % m = 0)
<1>1. \A u : Outcome(x, m, v, u) = [alu |-> x, f |-> [N |-> s, Z |-> z, V |-> v, C |-> u]]
  BY DEF Outcome
<1> HIDE DEF s, z
<1> QED BY <1>1, OtherBit

LEMMA IncTells ==
  ASSUME NEW m, NEW h, NEW k, IsModulus(m, h, k), NEW a \in 0 .. m - 1,
         NEW b \in 0 .. m - 1, NEW f \in Conditions
  PROVE  TellsKeepingC(INC(a, b, f, m), Signed(a, m) + 1, f.C, m)
<1> DEFINE d == a + 1
           w == Signed(a, m) + 1
           v == Rose(a, d % Wide, m)
           c == FALSE
<1>1. h \in Nat \ {0} /\ m = 2 * h
  BY DEF IsModulus
<1>2. d \in -m .. 2 * m - 1
  BY <1>1
<1>12. d % Wide = d
  <2>1. d \in 0 .. 2 * m - 1
    BY <1>1
  <2> QED BY <2>1, Small
<1>3. Signed(a, m) = (IF a < h THEN a ELSE a - m) /\ (Sign(a, m) <=> a >= h)
  BY Operand
<1>4. /\ Sign(d % Wide, m) <=> (d \in h .. m - 1 \/ d \in -h .. -1 \/ d >= m + h)
      /\ Carry(d % Wide, m) <=> d \notin 0 .. m - 1
      /\ (d % Wide) % m = IF d < 0 THEN d + m ELSE IF d < m THEN d ELSE d - m
  BY <1>2, CutRead
<1>5. \E t \in -2 .. 2 : w = d + t * m
  <2>1. CASE a < h
    <3>1. w = d + (0) * m
      BY <1>1, <1>2, <1>3, <2>1
    <3> QED BY <3>1
  <2>2. CASE a >= h
    <3>1. w = d + (-1) * m
      BY <1>1, <1>2, <1>3, <2>2
    <3> QED BY <3>1
  <2> QED BY <1>1, <2>1, <2>2
<1>6. v <=> w \notin -h .. h - 1
  BY <1>1, <1>2, <1>3, <1>4 DEF Rose, Fell
<1>7. c <=> 0 \notin 0 .. m - 1
  BY <1>1, <1>2, <1>4
<1>8. Tells(Outcome(d % Wide, m, v, c), w, 0, m)
  <2> HIDE DEF d, w, v, c
  <2>1. PICK t \in -2 .. 2 : w = d + t * m
    BY <1>5
  <2>2. d \in Int /\ w \in Int /\ t \in Int /\ 0 \in Int
    BY <1>1, <1>2, <2>1
  <2> QED BY <1>2, <1>6, <1>7, <2>1, <2>2, Told
<1>9. INC(a, b, f, m) = Outcome(d % Wide, m, v, f.C)
  BY <1>12 DEF INC
<1>10. [Outcome(d % Wide, m, v, f.C) EXCEPT !.f.C = FALSE] = Outcome(d % Wide, m, v, c)
  <2> DEFINE x == d % Wide
             g == f.C
  <2> HIDE DEF x, v, c, g
  <2>1. [Outcome(x, m, v, g) EXCEPT !.f.C = c] = Outcome(x, m, v, c)
    BY OtherCarry
  <2> QED BY <2>1 DEF x, c, g
<1>11. Outcome(d % Wide, m, v, f.C).f.C <=> f.C
  BY DEF Outcome
<1> QED BY <1>8, <1>9, <1>10, <1>11 DEF TellsKeepingC

LEMMA DecTells ==
  ASSUME NEW m, NEW h, NEW k, IsModulus(m, h, k), NEW a \in 0 .. m - 1,
         NEW b \in 0 .. m - 1, NEW f \in Conditions
  PROVE  TellsKeepingC(DEC(a, b, f, m), Signed(a, m) - 1, f.C, m)
<1> DEFINE d == a - 1
           w == Signed(a, m) - 1
           v == Fell(a, d % Wide, m)
           c == FALSE
<1>1. h \in Nat \ {0} /\ m = 2 * h
  BY DEF IsModulus
<1>2. d \in -m .. 2 * m - 1
  BY <1>1
<1>3. Signed(a, m) = (IF a < h THEN a ELSE a - m) /\ (Sign(a, m) <=> a >= h)
  BY Operand
<1>4. /\ Sign(d % Wide, m) <=> (d \in h .. m - 1 \/ d \in -h .. -1 \/ d >= m + h)
      /\ Carry(d % Wide, m) <=> d \notin 0 .. m - 1
      /\ (d % Wide) % m = IF d < 0 THEN d + m ELSE IF d < m THEN d ELSE d - m
  BY <1>2, CutRead
<1>5. \E t \in -2 .. 2 : w = d + t * m
  <2>1. CASE a < h
    <3>1. w = d + (0) * m
      BY <1>1, <1>2, <1>3, <2>1
    <3> QED BY <3>1
  <2>2. CASE a >= h
    <3>1. w = d + (-1) * m
      BY <1>1, <1>2, <1>3, <2>2
    <3> QED BY <3>1
  <2> QED BY <1>1, <2>1, <2>2
<1>6. v <=> w \notin -h .. h - 1
  BY <1>1, <1>2, <1>3, <1>4 DEF Rose, Fell
<1>7. c <=> 0 \notin 0 .. m - 1
  BY <1>1, <1>2, <1>4
<1>8. Tells(Outcome(d % Wide, m, v, c), w, 0, m)
  <2> HIDE DEF d, w, v, c
  <2>1. PICK t \in -2 .. 2 : w = d + t * m
    BY <1>5
  <2>2. d \in Int /\ w \in Int /\ t \in Int /\ 0 \in Int
    BY <1>1, <1>2, <2>1
  <2> QED BY <1>2, <1>6, <1>7, <2>1, <2>2, Told
<1>9. DEC(a, b, f, m) = Outcome(d % Wide, m, v, f.C)
  BY DEF DEC
<1>10. [Outcome(d % Wide, m, v, f.C) EXCEPT !.f.C = FALSE] = Outcome(d % Wide, m, v, c)
  <2> DEFINE x == d % Wide
             g == f.C
  <2> HIDE DEF x, v, c, g
  <2>1. [Outcome(x, m, v, g) EXCEPT !.f.C = c] = Outcome(x, m, v, c)
    BY OtherCarry
  <2> QED BY <2>1 DEF x, c, g
<1>11. Outcome(d % Wide, m, v, f.C).f.C <=> f.C
  BY DEF Outcome
<1> QED BY <1>8, <1>9, <1>10, <1>11 DEF TellsKeepingC

LEMMA NegTells ==
  ASSUME NEW m, NEW h, NEW k, IsModulus(m, h, k), NEW a \in 0 .. m - 1,
         NEW b \in 0 .. m - 1, NEW f \in Conditions
  PROVE  Tells(NEG(a, b, f, m), -Signed(a, m), -a, m)
<1> DEFINE d == -a
           w == -Signed(a, m)
           v == (d % Wide) % m = m \div 2
           c == (d % Wide) % m # 0
<1>1. h \in Nat \ {0} /\ m = 2 * h
  BY DEF IsModulus
<1>2. d \in -m .. 2 * m - 1
  BY <1>1
<1>12. (Wide - a) % Wide = d % Wide
  <2>1. Wide \in Nat \ {0} /\ m <= Wide
    BY <1>1, Wider
  <2>2. CASE a = 0
    <3>1. (1 * Wide + 0) % Wide = 0 /\ (0 * Wide + 0) % Wide = 0
      BY <2>1, DivMod
    <3> QED BY <2>1, <2>2, <3>1
  <2>3. CASE a > 0
    <3>1. Wide - a \in 0 .. Wide - 1
      BY <1>1, <2>1, <2>3
    <3> DEFINE r == Wide - a
    <3>2. r \in 0 .. Wide - 1 /\ r \in Int /\ -1 \in Int /\ 0 \in Int
      BY <3>1
    <3> HIDE DEF r
    <3>3. ((-1) * Wide + r) % Wide = r /\ (0 * Wide + r) % Wide = r
      BY ONLY <2>1, <3>2, DivMod
    <3>4. (-1) * Wide + r = d /\ 0 * Wide + r = Wide - a
      BY <1>1, <2>1 DEF r
    <3> QED BY <3>3, <3>4
  <2> QED BY <1>1, <2>2, <2>3
<1>13. m \div 2 = h
  BY <1>1, Halves
<1>3. Signed(a, m) = (IF a < h THEN a ELSE a - m) /\ (Sign(a, m) <=> a >= h)
  BY Operand
<1>4. /\ Sign(d % Wide, m) <=> (d \in h .. m - 1 \/ d \in -h .. -1 \/ d >= m + h)
      /\ Carry(d % Wide, m) <=> d \notin 0 .. m - 1
      /\ (d % Wide) % m = IF d < 0 THEN d + m ELSE IF d < m THEN d ELSE d - m
  BY <1>2, CutRead
<1>5. \E t \in -2 .. 2 : w = d + t * m
  <2>1. CASE a < h
    <3>1. w = d + (0) * m
      BY <1>1, <1>2, <1>3, <2>1
    <3> QED BY <3>1
  <2>2. CASE a >= h
    <3>1. w = d + (1) * m
      BY <1>1, <1>2, <1>3, <2>2
    <3> QED BY <3>1
  <2> QED BY <1>1, <2>1, <2>2
<1>6. v <=> w \notin -h .. h - 1
  BY <1>1, <1>2, <1>3, <1>4, <1>13
<1>7. c <=> d \notin 0 .. m - 1
  BY <1>1, <1>2, <1>4
<1>8. Tells(Outcome(d % Wide, m, v, c), w, d, m)
  <2> HIDE DEF d, w, v, c
  <2>1. PICK t \in -2 .. 2 : w = d + t * m
    BY <1>5
  <2>2. d \in Int /\ w \in Int /\ t \in Int /\ 0 \in Int
    BY <1>1, <1>2, <2>1
  <2> QED BY <1>2, <1>6, <1>7, <2>1, <2>2, Told
<1> QED BY <1>12, <1>8 DEF NEG

LEMMA AslTells ==
  ASSUME NEW m, NEW h, NEW k, IsModulus(m, h, k), NEW a \in 0 .. m - 1,
         NEW b \in 0 .. m - 1, NEW f \in Conditions, NEW e \in 0 .. 1
  PROVE  Tells(Shifted(2 * a + e, m, Sign(a, m)), 2 * Signed(a, m) + e, 2 * a + e, m)
<1> DEFINE d == 2 * a + e
           w == 2 * Signed(a, m) + e
           v == ~(Sign(d % Wide, m) <=> Sign(a, m))
           c == Sign(a, m)
<1>1. h \in Nat \ {0} /\ m = 2 * h
  BY DEF IsModulus
<1>2. d \in -m .. 2 * m - 1 /\ d \in 0 .. 2 * m - 1 /\ d % Wide = d
  <2>1. d \in 0 .. 2 * m - 1
    BY <1>1
  <2> QED BY <1>1, <2>1, Small
<1>3. Signed(a, m) = (IF a < h THEN a ELSE a - m) /\ (Sign(a, m) <=> a >= h)
  BY Operand
<1>4. Sign(d % Wide, m) <=> (d \in h .. m - 1 \/ d \in -h .. -1 \/ d >= m + h)
  BY <1>2, CutRead
<1>5. \E t \in -2 .. 2 : w = d + t * m
  <2>1. CASE a < h
    <3>1. w = d + (0) * m
      BY <1>1, <1>2, <1>3, <2>1
    <3> QED BY <3>1
  <2>2. CASE a >= h
    <3>1. w = d + (-2) * m
      BY <1>1, <1>2, <1>3, <2>2
    <3> QED BY <3>1
  <2> QED BY <1>1, <2>1, <2>2
<1>6. v <=> w \notin -h .. h - 1
  BY <1>1, <1>2, <1>3, <1>4
<1>7. c <=> d \notin 0 .. m - 1
  BY <1>1, <1>2, <1>3
<1>8. Tells(Outcome(d % Wide, m, v, c), w, d, m)
  <2> HIDE DEF d, w, v, c
  <2>1. PICK t \in -2 .. 2 : w = d + t * m
    BY <1>5
  <2>2. d \in Int /\ w \in Int /\ t \in Int
    BY <1>1, <1>2, <2>1
  <2> QED BY <1>2, <1>6, <1>7, <2>1, <2>2, Told
<1>9. Shifted(2 * a + e, m, Sign(a, m)) = Outcome(d % Wide, m, v, c)
  BY <1>2 DEF Shifted
<1> QED BY <1>8, <1>9

LEMMA Halved ==
  ASSUME NEW m, NEW h, NEW k, IsModulus(m, h, k), NEW a \in 0 .. m - 1
  PROVE  (a \div 2) + One(Sign(a, m)) * (m \div 2) = (Signed(a, m) \div 2) % m
<1>1. h \in Nat \ {0} /\ m = 2 * h /\ m \div 2 = h
  BY Halves DEF IsModulus
<1>2. Signed(a, m) = (IF a < h THEN a ELSE a - m) /\ (Sign(a, m) <=> a >= h)
  BY Operand
<1>3. PICK q \in Int, r \in 0 .. 1 : a = 2 * q + r /\ a \div 2 = q
  <2>1. a \div 2 \in Int /\ a % 2 \in 0 .. 1 /\ a = 2 * (a \div 2) + (a % 2)
    OBVIOUS
  <2> QED BY <2>1
<1>4. CASE a < h
  <2>1. Signed(a, m) \div 2 = q /\ q \in 0 .. m - 1
    BY <1>1, <1>2, <1>3, <1>4
  <2>2. (0 * m + q) % m = q /\ 0 * m + q = q
    <3>1. m \in Nat \ {0} /\ 0 \in Int
      BY <1>1
    <3>2. (0 * m + q) % m = q
      BY ONLY <3>1, <2>1, DivMod
    <3>3. 0 * m + q = q
      BY <3>1, <1>3
    <3> QED BY <3>2, <3>3
  <2> QED BY <1>1, <1>2, <1>3, <1>4, <2>1, <2>2 DEF One
<1>5. CASE a >= h
  <2>1. a - m = (q - h) * 2 + r
    BY <1>1, <1>3
  <2> DEFINE z == q - h
  <2>2. z \in Int
    BY <1>1, <1>3
  <2>3. (z * 2 + r) \div 2 = z
    <3> HIDE DEF z
    <3> QED BY ONLY <2>2, <1>3, DivMod
  <2>4. Signed(a, m) \div 2 = q - h
    <3>1. ~(a < h) /\ Signed(a, m) = a - m
      BY <1>1, <1>2, <1>5
    <3> QED BY ONLY <3>1, <2>1, <2>3
  <2> DEFINE y == q + h
  <2>5. y \in 0 .. m - 1 /\ q - h = (-1) * m + y /\ -1 \in Int
    BY <1>1, <1>3, <1>5
  <2>6. ((-1) * m + y) % m = y
    <3> HIDE DEF y
    <3> QED BY ONLY <1>1, <2>5, DivMod
  <2> QED BY <1>1, <1>2, <1>3, <1>5, <2>4, <2>5, <2>6 DEF One
<1> QED BY <1>1, <1>4, <1>5
-----------------------------------------------------------------------------
(* Together.                                                               *)

\* The condition bits after every addition, subtraction and comparison say
\* whether the result is right as a signed (V) and as an unsigned (C) number,
\* for bytes and words of any size.
THEOREM AdditionTells ==
  ASSUME NEW m \in {Byte, Word}, NEW a \in 0 .. m - 1, NEW b \in 0 .. m - 1,
         NEW f \in Conditions
  PROVE  AdditionRight(a, b, f, m)
<1>1. PICK h, k : IsModulus(m, h, k)
  BY ModulusExists
<1>2. /\ Tells(ADD(a, b, f, m), Signed(a, m) + Signed(b, m), a + b, m)
      /\ Tells(SUB(a, b, f, m), Signed(a, m) - Signed(b, m), a - b, m)
      /\ Tells(CMP(a, b, f, m), Signed(b, m) - Signed(a, m), b - a, m)
  BY <1>1, AddTells, SubTells, CmpTells
<1>3. /\ Tells(ADC(a, b, f, m), Signed(a, m) + One(f.C), a + One(f.C), m)
      /\ Tells(SBC(a, b, f, m), Signed(a, m) - One(f.C), a - One(f.C), m)
      /\ Tells(NEG(a, b, f, m), -Signed(a, m), -a, m)
  BY <1>1, AdcTells, SbcTells, NegTells
<1>4. /\ TellsKeepingC(INC(a, b, f, m), Signed(a, m) + 1, f.C, m)
      /\ TellsKeepingC(DEC(a, b, f, m), Signed(a, m) - 1, f.C, m)
  BY <1>1, IncTells, DecTells
<1> QED BY <1>2, <1>3, <1>4 DEF AdditionRight

\* The shifts by one double, or halve towards the smaller number, and no bit
\* is lost: the one that leaves is in C.
THEOREM ShiftsTell ==
  ASSUME NEW m \in {Byte, Word}, NEW a \in 0 .. m - 1, NEW b \in 0 .. m - 1,
         NEW f \in Conditions
  PROVE  ShiftRight(a, b, f, m)
<1>1. PICK h, k : IsModulus(m, h, k)
  BY ModulusExists
<1>2. h \in Nat \ {0} /\ m = 2 * h /\ m \div 2 = h
  BY <1>1, Halves DEF IsModulus
<1>3. One(f.C) \in 0 .. 1
  BY DEF One
<1>4. Tells(ASL(a, b, f, m), 2 * Signed(a, m), 2 * a, m)
  <2>1. Signed(a, m) \in Int
    BY <1>2 DEF Signed
  <2>2. 2 * a + 0 = 2 * a /\ 2 * Signed(a, m) + 0 = 2 * Signed(a, m)
    BY <1>2, <2>1
  <2>3. Tells(Shifted(2 * a + 0, m, Sign(a, m)), 2 * Signed(a, m) + 0, 2 * a + 0, m)
    BY <1>1, AslTells
  <2> QED BY <2>2, <2>3 DEF ASL
<1>5. Tells(ROL(a, b, f, m), 2 * Signed(a, m) + One(f.C), 2 * a + One(f.C), m)
  BY <1>1, <1>3, AslTells DEF ROL
<1>6. ASR(a, b, f, m).alu = (Signed(a, m) \div 2) % m /\ (ASR(a, b, f, m).f.C <=> a % 2 = 1)
  BY <1>1, Halved DEF ASR, Shifted, Outcome
<1>7. 2 * ROR(a, b, f, m).alu + One(ROR(a, b, f, m).f.C) = a + One(f.C) * m
  <2>1. ROR(a, b, f, m).alu = (a \div 2) + One(f.C) * (m \div 2)
    BY DEF ROR, Shifted, Outcome
  <2>2. ROR(a, b, f, m).f.C <=> a % 2 = 1
    BY DEF ROR, Shifted, Outcome
  <2>3. One(ROR(a, b, f, m).f.C) = a % 2
    BY <2>2, <1>2 DEF One
  <2>4. a = 2 * (a \div 2) + (a % 2) /\ a \div 2 \in Int /\ a % 2 \in 0 .. 1
    BY <1>2
  <2>5. CASE f.C
    BY <1>2, <2>1, <2>3, <2>4, <2>5 DEF One
  <2>6. CASE ~f.C
    BY <1>2, <2>1, <2>3, <2>4, <2>6 DEF One
  <2> QED BY <2>5, <2>6
<1> QED BY <1>4, <1>5, <1>6, <1>7 DEF ShiftRight

=============================================================================
