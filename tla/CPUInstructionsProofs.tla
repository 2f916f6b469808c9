------------------------ MODULE CPUInstructionsProofs ------------------------
(***************************************************************************)
(* What holds of instructions and programs on registers for bytes and      *)
(* words of every size: the type invariant, that the condition bits and    *)
(* the results are right, and that the programs compute what they are      *)
(* written for.                                                            *)
(***************************************************************************)
EXTENDS CPUInstructions, CPUArithmeticProofs, WellFoundedInduction

(* Remainders.                                                             *)

LEMMA Divided ==
  ASSUME NEW n \in Nat \ {0}, NEW x \in Int
  PROVE  x % n \in 0 .. n - 1 /\ x \div n \in Int /\ x = (x \div n) * n + (x % n)
OBVIOUS

LEMMA SelfRemainder ==
  ASSUME NEW n \in Nat \ {0}, NEW x \in 0 .. n - 1
  PROVE  x % n = x /\ x \div n = 0
<1>1. (0 * n + x) \div n = 0 /\ (0 * n + x) % n = x
  BY DivMod
<1>2. 0 * n + x = x
  OBVIOUS
<1> QED BY <1>1, <1>2

\* Numbers that differ by a multiple of n have the same remainder.
LEMMA SameRemainder ==
  ASSUME NEW n \in Nat \ {0}, NEW x \in Int, NEW t \in Int, NEW y \in Int, y = x + t * n
  PROVE  y % n = x % n /\ y \div n = (x \div n) + t
<1> DEFINE q == x \div n
           r == x % n
<1>1. r \in 0 .. n - 1 /\ q \in Int /\ x = q * n + r
  BY Divided
<1> HIDE DEF q, r
<1>2. y = (q + t) * n + r /\ q + t \in Int
  BY <1>1
<1> DEFINE e == q + t
<1>3. e \in Int
  BY <1>2
<1> HIDE DEF e
<1>4. (e * n + r) % n = r /\ (e * n + r) \div n = e
  BY ONLY <1>1, <1>3, DivMod
<1> QED BY <1>2, <1>4 DEF e, q, r

LEMMA RemainderTwice ==
  ASSUME NEW n \in Nat \ {0}, NEW k \in Nat \ {0}, NEW x \in Int
  PROVE  (x % (k * n)) % n = x % n
<1> DEFINE w == k * n
           q == x \div w
           r == x % w
<1>1. w \in Nat \ {0}
  OBVIOUS
<1>2. r \in Int /\ q \in Int /\ x = q * w + r
  <2> HIDE DEF w
  <2> QED BY <1>1, Divided
<1> DEFINE t == q * k
<1>3. t \in Int /\ x = r + t * n
  BY <1>2
<1> HIDE DEF r, q, t
<1>4. n \in Nat \ {0} /\ x \in Int /\ r \in Int
  BY <1>2
<1>5. x % n = r % n
  BY ONLY <1>3, <1>4, SameRemainder
<1> QED BY <1>5 DEF r
-----------------------------------------------------------------------------
(* Numbers modulo m = 2 * h, and the signed ones they stand for.            *)

Half(m, h) == h \in Nat \ {0} /\ m = 2 * h

LEMMA HalfOf ==
  ASSUME NEW m, NEW h, Half(m, h)
  PROVE  m \in Nat \ {0} /\ m \div 2 = h
BY Halves DEF Half

LEMMA SizesHalf ==
  \E b \in Nat \ {0}, h \in Nat \ {0}, w \in Nat \ {0} :
     /\ Half(Byte, b) /\ Half(Word, h) /\ Half(Wide, w)
     /\ h = b * Byte /\ w = h * Word
<1>1. PICK b \in Nat \ {0} : Byte = 2 * b
  BY ArithmeticAssumption
<1> DEFINE h == b * Byte
           w == h * Word
<1>2. Byte \in Nat \ {0} /\ h \in Nat \ {0} /\ Word = 2 * h
  BY <1>1 DEF Word
<1>3. w \in Nat \ {0} /\ Wide = 2 * w
  <2> HIDE DEF h
  <2> QED BY <1>2 DEF Wide
<1> HIDE DEF w, h
<1>4. Half(Byte, b) /\ Half(Word, h) /\ Half(Wide, w) /\ h = b * Byte /\ w = h * Word
  BY <1>1, <1>2, <1>3 DEF Half, h, w
<1> QED BY <1>1, <1>2, <1>3, <1>4

LEMMA Sizes ==
  /\ Byte \in Nat \ {0} /\ Word \in Nat \ {0} /\ Wide \in Nat \ {0}
  /\ Byte >= 2 /\ Word = Byte * Byte /\ Wide = Word * Word /\ Byte <= Word /\ Word <= Wide
  /\ Word >= 4 /\ 4 * Word <= Wide
<1>1. Byte \in Nat /\ Byte >= 2
  BY ArithmeticAssumption
<1>2. Word = Byte * Byte /\ Word \in Nat /\ Word >= 2 * Byte
  BY <1>1 DEF Word
<1>3. Wide = Word * Word /\ Wide \in Nat /\ Wide >= 4 * Word
  BY <1>1, <1>2 DEF Wide
<1> QED BY <1>1, <1>2, <1>3

LEMMA SignedOf ==
  ASSUME NEW m, NEW h, Half(m, h), NEW a \in 0 .. m - 1
  PROVE  /\ Signed(a, m) = IF a < h THEN a ELSE a - m
         /\ Signed(a, m) \in -h .. h - 1
         /\ Signed(a, m) % m = a
<1>1. m \in Nat \ {0} /\ m = 2 * h /\ m \div 2 = h /\ h \in Nat \ {0}
  BY HalfOf DEF Half
<1>2. Signed(a, m) = IF a < h THEN a ELSE a - m
  BY <1>1 DEF Signed
<1>3. a % m = a
  BY <1>1, SelfRemainder
<1>4. CASE a < h
  BY <1>1, <1>2, <1>3, <1>4
<1>5. CASE a >= h
  <2> DEFINE v == a - m
  <2>1. v \in Int /\ a \in Int /\ v = a + (-1) * m /\ -1 \in Int
    BY <1>1
  <2>2. v % m = a % m
    <3> HIDE DEF v
    <3> QED BY <1>1, <2>1, SameRemainder
  <2> QED BY <1>1, <1>2, <1>3, <1>5, <2>2
<1> QED BY <1>1, <1>4, <1>5

\* A number that fits is what its remainder stands for.
LEMMA SignedBack ==
  ASSUME NEW m, NEW h, Half(m, h), NEW v \in -h .. h - 1
  PROVE  Signed(v % m, m) = v /\ v % m = IF v < 0 THEN v + m ELSE v
<1>1. m \in Nat \ {0} /\ m = 2 * h /\ m \div 2 = h /\ h \in Nat \ {0}
  BY HalfOf DEF Half
<1>2. CASE v >= 0
  <2>1. v \in 0 .. m - 1
    BY <1>1, <1>2
  <2>2. v % m = v
    BY <1>1, <2>1, SelfRemainder
  <2> QED BY <1>1, <1>2, <2>2 DEF Signed
<1>3. CASE v < 0
  <2> DEFINE u == v + m
             t == -1
  <2>1. u \in 0 .. m - 1 /\ u \in Int /\ v \in Int /\ v = u + t * m /\ t \in Int
    BY <1>1, <1>3
  <2>2. v % m = u % m /\ u % m = u
    <3> HIDE DEF u, t
    <3>1. v % m = u % m
      BY ONLY <1>1, <2>1, SameRemainder
    <3>2. u % m = u
      BY <1>1, <2>1, SelfRemainder
    <3> QED BY <3>1, <3>2
  <2> QED BY <1>1, <1>3, <2>2 DEF Signed
<1> QED BY <1>2, <1>3

\* m_Nbit of any m_ALU.
LEMMA SignOf ==
  ASSUME NEW m, NEW h, Half(m, h), NEW x \in Int
  PROVE  /\ Sign(x, m) <=> x % m >= h
         /\ Sign(x, m) <=> Signed(x % m, m) < 0
         /\ x % m \in 0 .. m - 1
<1>1. m \in Nat \ {0} /\ m = 2 * h /\ m \div 2 = h /\ h \in Nat \ {0}
  BY HalfOf DEF Half
<1> DEFINE j == x \div m
           y == x % m
<1>2. j \in Int /\ y \in 0 .. m - 1 /\ x = j * m + y
  BY <1>1, Divided
<1> HIDE DEF j, y
<1>3. Sign(x, m) <=> y >= h
  <2>1. CASE y < h
    <3>1. x = (2 * j) * h + y /\ 2 * j \in Int /\ y \in 0 .. h - 1
      BY <1>1, <1>2, <2>1
    <3>2. x \div h = 2 * j
      BY <3>1, <1>1, DivMod
    <3> QED BY <1>1, <1>2, <2>1, <3>2 DEF Sign
  <2>2. CASE y >= h
    <3>1. x = (2 * j + 1) * h + (y - h) /\ 2 * j + 1 \in Int /\ y - h \in 0 .. h - 1
      BY <1>1, <1>2, <2>2
    <3>2. x \div h = 2 * j + 1
      BY <3>1, <1>1, DivMod
    <3> QED BY <1>1, <1>2, <2>2, <3>2 DEF Sign
  <2> QED BY <1>1, <1>2, <2>1, <2>2
<1>4. Signed(y, m) = IF y < h THEN y ELSE y - m
  BY <1>2, SignedOf
<1> QED BY <1>1, <1>2, <1>3, <1>4 DEF y
-----------------------------------------------------------------------------
(* Recursive functions: shifts, powers and the bits of a number.            *)

LEMMA Stepwise ==
  ASSUME NEW N \in Nat, NEW S \in SUBSET (0 .. N), 0 \in S,
         \A n \in 1 .. N : n - 1 \in S => n \in S
  PROVE  S = 0 .. N
<1> SUFFICES ASSUME (0 .. N) \ S # {} PROVE FALSE
  OBVIOUS
<1> DEFINE U == (0 .. N) \ S
<1>1. U \in SUBSET Nat /\ U # {}
  OBVIOUS
<1>2. PICK x \in U : \A y \in U : <<y, x>> \notin OpToRel(<, Nat)
  BY <1>1, NatLessThanWellFounded, WFMin
<1>3. x \in 1 .. N /\ x \notin S
  OBVIOUS
<1>4. x - 1 \in 0 .. N /\ x - 1 \in Nat /\ x \in Nat /\ x - 1 < x
  BY <1>3
<1>5. x - 1 \notin U
  BY <1>2, <1>4 DEF OpToRel
<1> QED BY <1>3, <1>4, <1>5

\* The function that starts with x and takes each value through F.
From(x, F, g, N) == g = [k \in 0 .. N |-> IF k = 0 THEN x ELSE F[g[k - 1]]]

LEMMA FromExists ==
  ASSUME NEW S, NEW x \in S, NEW F \in [S -> S], NEW N \in Nat
  PROVE  \E g \in [0 .. N -> S] : From(x, F, g, N)
<1> DEFINE Some(n) == \E g \in [0 .. n -> S] : From(x, F, g, n)
           T == {n \in 0 .. N : Some(n)}
<1>1. 0 \in T
  <2> DEFINE g == [k \in 0 .. 0 |-> x]
  <2>1. g \in [0 .. 0 -> S] /\ From(x, F, g, 0)
    BY DEF From
  <2>2. Some(0)
    BY <2>1
  <2> QED BY <2>2
<1>2. ASSUME NEW n \in 1 .. N, n - 1 \in T PROVE n \in T
  <2>1. PICK g \in [0 .. n - 1 -> S] : From(x, F, g, n - 1)
    BY <1>2
  <2> DEFINE last == F[g[n - 1]]
             h == [k \in 0 .. n |-> IF k = n THEN last ELSE g[k]]
  <2>2. n - 1 \in 0 .. n - 1 /\ g[n - 1] \in S /\ last \in S
    OBVIOUS
  <2>3. h \in [0 .. n -> S]
    <3> HIDE DEF last
    <3>1. \A k \in 0 .. n : (IF k = n THEN last ELSE g[k]) \in S
      BY <2>2
    <3> QED BY <3>1
  <2>4. ASSUME NEW k \in 0 .. n
        PROVE  h[k] = IF k = 0 THEN x ELSE F[h[k - 1]]
    <3>1. CASE k = 0
      <4>1. 0 # n /\ 0 \in 0 .. n - 1
        OBVIOUS
      <4>2. h[0] = g[0]
        BY <4>1
      <4>3. g[0] = x
        BY <2>1, <4>1 DEF From
      <4> QED BY <3>1, <4>2, <4>3
    <3>2. CASE k = n
      <4>1. n - 1 \in 0 .. n /\ n - 1 # n /\ n \in 0 .. n /\ n # 0
        OBVIOUS
      <4>2. h[n - 1] = g[n - 1] /\ h[n] = last
        BY <4>1
      <4> QED BY <3>2, <4>1, <4>2
    <3>3. CASE k \in 1 .. n - 1
      <4>1. k - 1 \in 0 .. n - 1 /\ k \in 0 .. n - 1 /\ k # n /\ k - 1 # n /\ k # 0
            /\ k - 1 \in 0 .. n
        BY <3>3
      <4>2. h[k - 1] = g[k - 1] /\ h[k] = g[k]
        BY <4>1
      <4>3. g[k] = F[g[k - 1]]
        BY <2>1, <4>1 DEF From
      <4> QED BY <4>1, <4>2, <4>3
    <3> QED BY <3>1, <3>2, <3>3
  <2>5. From(x, F, h, n)
    <3>1. h = [k \in 0 .. n |-> h[k]]
      OBVIOUS
    <3> HIDE DEF h
    <3> QED BY <2>4, <3>1, Zenon DEF From
  <2>6. Some(n)
    BY <2>3, <2>5
  <2> QED BY <2>6
<1>3. T = 0 .. N
  <2> HIDE DEF T
  <2>1. T \in SUBSET (0 .. N)
    BY DEF T
  <2> QED BY <1>1, <1>2, <2>1, Stepwise
<1> QED BY <1>3

\* Each value is the one before, taken through F; what F keeps holds of all.
LEMMA FromSteps ==
  ASSUME NEW x, NEW F, NEW N \in Nat, NEW g, From(x, F, g, N), NEW k \in 0 .. N
  PROVE  /\ k = 0 => g[k] = x
         /\ k # 0 => k - 1 \in 0 .. N /\ g[k] = F[g[k - 1]]
BY DEF From

LEMMA FromKeeps ==
  ASSUME NEW x, NEW F, NEW N \in Nat, NEW g, From(x, F, g, N),
         NEW S, x \in S, \A s \in S : F[s] \in S
  PROVE  \A k \in 0 .. N : g[k] \in S
<1> DEFINE T == {k \in 0 .. N : g[k] \in S}
<1>1. 0 \in T
  BY DEF From
<1>2. ASSUME NEW n \in 1 .. N, n - 1 \in T PROVE n \in T
  <2>1. n \in 0 .. N /\ n # 0
    OBVIOUS
  <2>2. g[n] = F[g[n - 1]]
    BY <2>1, FromSteps
  <2> QED BY <1>2, <2>1, <2>2
<1>3. T = 0 .. N
  <2> HIDE DEF T
  <2>1. T \in SUBSET (0 .. N)
    BY DEF T
  <2> QED BY <1>1, <1>2, <2>1, Stepwise
<1> QED BY <1>3

\* The bits two numbers share.
Places == [a : Nat, b : Nat, place : Nat, both : Nat]

LEMMA NextBitPlaces ==
  ASSUME NEW s \in Places
  PROVE  NextBit(s) \in Places
<1>1. s.a \in Nat /\ s.b \in Nat /\ s.place \in Nat /\ s.both \in Nat
  BY DEF Places
<1> DEFINE bit == s.place * One(s.a % 2 = 1 /\ s.b % 2 = 1)
<1>2. s.a \div 2 \in Nat /\ s.b \div 2 \in Nat /\ 2 * s.place \in Nat
  BY <1>1
<1>3. bit \in Nat
  BY <1>1 DEF One
<1> HIDE DEF bit
<1>4. s.both + bit \in Nat
  BY <1>1, <1>3
<1> QED BY <1>2, <1>4 DEF NextBit, Places, bit

BitsOf(g, a, b) ==
  g = [n \in 0 .. a |->
         IF n = 0 THEN [a |-> a, b |-> b, place |-> 1, both |-> 0] ELSE NextBit(g[n - 1])]

LEMMA BitsExist ==
  ASSUME NEW a \in Nat, NEW b \in Nat
  PROVE  BitsOf(CHOOSE g : BitsOf(g, a, b), a, b)
<1> DEFINE x == [a |-> a, b |-> b, place |-> 1, both |-> 0]
           F == [s \in Places |-> NextBit(s)]
<1>1. x \in Places
  BY DEF Places
<1>2. F \in [Places -> Places]
  BY NextBitPlaces
<1>3. \E g : BitsOf(g, a, b)
  <2> HIDE DEF F, x
  <2>1. PICK g \in [0 .. a -> Places] : From(x, F, g, a)
    BY <1>1, <1>2, FromExists
  <2>2. ASSUME NEW k \in 0 .. a
        PROVE  g[k] = IF k = 0 THEN x ELSE NextBit(g[k - 1])
    <3>1. CASE k = 0
      BY <2>1, <3>1 DEF From
    <3>2. CASE k # 0
      <4>1. k - 1 \in 0 .. a /\ g[k] = F[g[k - 1]]
        BY <2>1, <3>2 DEF From
      <4>2. g[k - 1] \in Places
        BY <4>1
      <4> QED BY <3>2, <4>1, <4>2 DEF F
    <3> QED BY <3>1, <3>2
  <2>3. g = [k \in 0 .. a |-> g[k]]
    OBVIOUS
  <2> QED BY <2>2, <2>3, Zenon DEF BitsOf, x
<1> QED BY <1>3

LEMMA BothTyped ==
  ASSUME NEW a \in Nat, NEW b \in Nat
  PROVE  Both(a, b) \in Nat
<1> DEFINE x == [a |-> a, b |-> b, place |-> 1, both |-> 0]
           B == CHOOSE g : BitsOf(g, a, b)
           T == {k \in 0 .. a : B[k] \in Places}
<1>1. x \in Places
  BY DEF Places
<1>2. Both(a, b) = B[a].both
  BY DEF Both, BitsOf
<1>3. \A k \in 0 .. a : B[k] = IF k = 0 THEN x ELSE NextBit(B[k - 1])
  <2>1. BitsOf(B, a, b)
    BY BitsExist
  <2> HIDE DEF B
  <2> QED BY <2>1, Zenon DEF BitsOf
<1> HIDE DEF x, B
<1>4. 0 \in T
  BY <1>1, <1>3
<1>5. ASSUME NEW n \in 1 .. a, n - 1 \in T PROVE n \in T
  <2>1. n \in 0 .. a /\ n # 0 /\ B[n - 1] \in Places
    BY <1>5
  <2> QED BY <1>3, <2>1, NextBitPlaces
<1>6. T = 0 .. a
  <2> HIDE DEF T
  <2>1. T \in SUBSET (0 .. a)
    BY DEF T
  <2> QED BY <1>4, <1>5, <2>1, Stepwise
<1>7. B[a] \in Places
  BY <1>6
<1> QED BY <1>2, <1>7 DEF Places

LEMMA LogicTyped ==
  ASSUME NEW op \in Logic, NEW a \in Nat, NEW b \in Nat
  PROVE  LogicALU(op, a, b) \in Int
<1>1. Both(a, b) \in Int
  BY BothTyped
<1> QED BY <1>1 DEF LogicALU, Logic

\* Powers of two.
PowersOf(g, n) == g = [k \in 0 .. n |-> IF k = 0 THEN 1 ELSE 2 * g[k - 1]]

LEMMA PowerFunction ==
  ASSUME NEW n \in Nat
  PROVE  \E g : PowersOf(g, n) /\ Power(n) = g[n]
<1> DEFINE S == Nat \ {0}
           F == [s \in S |-> 2 * s]
<1>1. 1 \in S /\ F \in [S -> S]
  OBVIOUS
<1>2. \E g : PowersOf(g, n)
  <2> HIDE DEF F, S
  <2>1. PICK g \in [0 .. n -> S] : From(1, F, g, n)
    BY <1>1, FromExists
  <2>2. ASSUME NEW k \in 0 .. n
        PROVE  g[k] = IF k = 0 THEN 1 ELSE 2 * g[k - 1]
    <3>1. CASE k = 0
      BY <2>1, <3>1 DEF From
    <3>2. CASE k # 0
      <4>1. k - 1 \in 0 .. n /\ g[k] = F[g[k - 1]]
        BY <2>1, <3>2 DEF From
      <4>2. g[k - 1] \in S
        BY <4>1
      <4> QED BY <3>2, <4>1, <4>2 DEF F
    <3> QED BY <3>1, <3>2
  <2>3. g = [k \in 0 .. n |-> g[k]]
    OBVIOUS
  <2> QED BY <2>2, <2>3, Zenon DEF PowersOf
<1> DEFINE P == CHOOSE g : PowersOf(g, n)
<1>3. PowersOf(P, n)
  BY <1>2
<1>4. Power(n) = P[n]
  BY DEF Power, PowersOf
<1> QED BY <1>3, <1>4

LEMMA PowersAgree ==
  ASSUME NEW n \in Nat, NEW g, NEW e, PowersOf(g, n), PowersOf(e, n + 1)
  PROVE  \A k \in 0 .. n : g[k] = e[k] /\ g[k] \in Nat \ {0}
<1> DEFINE T == {k \in 0 .. n : g[k] = e[k] /\ g[k] \in Nat \ {0}}
<1>1. /\ \A k \in 0 .. n : g[k] = IF k = 0 THEN 1 ELSE 2 * g[k - 1]
      /\ \A k \in 0 .. n + 1 : e[k] = IF k = 0 THEN 1 ELSE 2 * e[k - 1]
  BY Zenon DEF PowersOf
<1>2. 0 \in T
  <2>1. 0 \in 0 .. n /\ 0 \in 0 .. n + 1
    OBVIOUS
  <2>2. g[0] = 1 /\ e[0] = 1
    BY <1>1, <2>1, Zenon
  <2> QED BY <2>1, <2>2
<1>3. ASSUME NEW k \in 1 .. n, k - 1 \in T PROVE k \in T
  <2>1. k \in 0 .. n /\ k \in 0 .. n + 1 /\ k # 0
    OBVIOUS
  <2>2. g[k] = 2 * g[k - 1] /\ e[k] = 2 * e[k - 1]
    BY <1>1, <2>1
  <2> QED BY <1>3, <2>1, <2>2
<1>4. T = 0 .. n
  <2> HIDE DEF T
  <2>1. T \in SUBSET (0 .. n)
    BY DEF T
  <2> QED BY <1>2, <1>3, <2>1, Stepwise
<1> QED BY <1>4

LEMMA Powers ==
  ASSUME NEW n \in Nat
  PROVE  Power(n) \in Nat \ {0} /\ Power(n + 1) = 2 * Power(n)
<1>1. PICK g : PowersOf(g, n) /\ Power(n) = g[n]
  BY PowerFunction
<1>2. n + 1 \in Nat
  OBVIOUS
<1>3. PICK e : PowersOf(e, n + 1) /\ Power(n + 1) = e[n + 1]
  BY <1>2, PowerFunction
<1>4. n \in 0 .. n /\ n + 1 \in 0 .. n + 1 /\ n + 1 # 0 /\ n + 1 - 1 = n
  OBVIOUS
<1>5. g[n] = e[n] /\ g[n] \in Nat \ {0}
  BY <1>1, <1>3, <1>4, PowersAgree
<1>6. e[n + 1] = 2 * e[n]
  BY <1>3, <1>4 DEF PowersOf
<1> QED BY <1>1, <1>3, <1>5, <1>6

LEMMA PowerZero == Power(0) = 1
<1>1. PICK g : PowersOf(g, 0) /\ Power(0) = g[0]
  BY PowerFunction
<1>2. g[0] = 1
  BY <1>1 DEF PowersOf
<1> QED BY <1>1, <1>2

\* The turns of a shift.
Turned == [x : 0 .. Wide - 1, c : BOOLEAN, v : BOOLEAN]

Begun(a) == [x |-> a, c |-> FALSE, v |-> FALSE]

Turn(s, a, m, right) == IF right THEN Right(s, m, Sign(a, m)) ELSE Left(s, m)

Turns(t, a, m, right, times) ==
  t = [n \in 0 .. times |-> IF n = 0 THEN Begun(a) ELSE Turn(t[n - 1], a, m, right)]

LEMMA TurnKeeps ==
  ASSUME NEW m \in {Word, Wide}, NEW a, NEW right \in BOOLEAN, NEW s \in Turned
  PROVE  Turn(s, a, m, right) \in Turned
<1>1. s.x \in 0 .. Wide - 1 /\ s.c \in BOOLEAN /\ s.v \in BOOLEAN
  BY DEF Turned
<1>2. PICK h : Half(m, h)
  BY SizesHalf
<1>3. m \div 2 = h /\ m = 2 * h /\ h \in Nat \ {0} /\ m <= Wide /\ Wide \in Nat \ {0}
  BY <1>2, HalfOf, Sizes DEF Half
<1>4. Right(s, m, Sign(a, m)) \in Turned
  <2>1. (s.x \div 2) + One(Sign(a, m)) * (m \div 2) \in 0 .. Wide - 1
    <3>1. PICK w : Wide = 2 * w /\ w \in Nat
      BY SizesHalf DEF Half
    <3>2. s.x \div 2 \in 0 .. w - 1 /\ h <= w
      BY <1>1, <1>3, <3>1
    <3>3. CASE Sign(a, m)
      BY <1>3, <3>1, <3>2, <3>3 DEF One
    <3>4. CASE ~Sign(a, m)
      BY <1>3, <3>1, <3>2, <3>4 DEF One
    <3> QED BY <3>3, <3>4
  <2> QED BY <1>1, <2>1 DEF Right, Turned
<1>5. Left(s, m) \in Turned
  <2>1. (2 * s.x) % Wide \in 0 .. Wide - 1
    BY <1>1, <1>3
  <2>2. Sign(s.x, m) \in BOOLEAN
    BY DEF Sign
  <2>3. (s.v \/ ~(Sign(s.x, m) <=> Sign((2 * s.x) % Wide, m))) \in BOOLEAN
    BY Zenon
  <2> QED BY <2>1, <2>2, <2>3, Zenon DEF Left, Turned
<1> QED BY <1>4, <1>5 DEF Turn

Rightward(b) == b % (2 * Shifts) >= Shifts
Times(b) == IF Rightward(b) THEN 2 * Shifts - (b % (2 * Shifts)) ELSE b % (2 * Shifts)

LEMMA ShiftTurns ==
  ASSUME NEW m \in {Word, Wide}, NEW a \in 0 .. m - 1, NEW b \in Int, NEW g
  PROVE  \E t \in [0 .. Times(b) -> Turned] :
           /\ Turns(t, a, m, Rightward(b), Times(b))
           /\ Shift(a, b, g, m) =
                [alu |-> t[Times(b)].x,
                 f |-> [N |-> Sign(t[Times(b)].x, m), Z |-> t[Times(b)].x % m = 0,
                        V |-> IF Times(b) = 0 THEN g.V ELSE t[Times(b)].v,
                        C |-> IF Times(b) = 0 THEN g.C ELSE t[Times(b)].c]]
<1> DEFINE N == Times(b)
           right == Rightward(b)
           F == [s \in Turned |-> Turn(s, a, m, right)]
<1>1. N \in Nat /\ right \in BOOLEAN
  BY ArithmeticAssumption DEF Times, Rightward
<1>2. F \in [Turned -> Turned] /\ Begun(a) \in Turned
  <2>1. m <= Wide /\ m \in Nat /\ Wide \in Nat
    BY Sizes
  <2>2. Begun(a) \in Turned
    BY <2>1 DEF Begun, Turned
  <2> QED BY <1>1, <2>2, TurnKeeps
<1>3. \E t \in [0 .. N -> Turned] : Turns(t, a, m, right, N)
  <2> HIDE DEF F, N, right
  <2>1. PICK t \in [0 .. N -> Turned] : From(Begun(a), F, t, N)
    BY <1>1, <1>2, FromExists
  <2>2. ASSUME NEW k \in 0 .. N
        PROVE  t[k] = IF k = 0 THEN Begun(a) ELSE Turn(t[k - 1], a, m, right)
    <3>1. CASE k = 0
      BY <2>1, <3>1 DEF From
    <3>2. CASE k # 0
      <4>1. k - 1 \in 0 .. N /\ t[k] = F[t[k - 1]]
        BY <1>1, <2>1, <3>2 DEF From
      <4>2. t[k - 1] \in Turned
        BY <4>1
      <4> QED BY <3>2, <4>1, <4>2 DEF F
    <3> QED BY <3>1, <3>2
  <2>3. t = [k \in 0 .. N |-> t[k]]
    OBVIOUS
  <2> QED BY <2>2, <2>3, Zenon DEF Turns
<1> DEFINE T == CHOOSE t : Turns(t, a, m, right, N)
<1>4. Turns(T, a, m, right, N)
  BY <1>3, Zenon
<1>5. T \in [0 .. N -> Turned]
  <2> HIDE DEF T, N, right
  <2> DEFINE S == {k \in 0 .. N : T[k] \in Turned}
  <2>1. \A k \in 0 .. N : T[k] = IF k = 0 THEN Begun(a) ELSE Turn(T[k - 1], a, m, right)
    BY <1>4, Zenon DEF Turns
  <2>2. 0 \in S
    BY <1>1, <1>2, <2>1
  <2>3. ASSUME NEW n \in 1 .. N, n - 1 \in S PROVE n \in S
    <3>1. n \in 0 .. N /\ n # 0 /\ T[n - 1] \in Turned
      BY <1>1, <2>3
    <3> QED BY <1>1, <2>1, <3>1, TurnKeeps
  <2>4. S = 0 .. N
    <3> HIDE DEF S
    <3>1. S \in SUBSET (0 .. N)
      BY DEF S
    <3> QED BY <1>1, <2>2, <2>3, <3>1, Stepwise
  <2>5. T = [k \in 0 .. N |-> T[k]]
    BY <1>4, Zenon DEF Turns
  <2> QED BY <2>4, <2>5, Zenon
<1>6. Shift(a, b, g, m) =
        [alu |-> T[N].x,
         f |-> [N |-> Sign(T[N].x, m), Z |-> T[N].x % m = 0,
                V |-> IF N = 0 THEN g.V ELSE T[N].v, C |-> IF N = 0 THEN g.C ELSE T[N].c]]
  BY Zenon DEF Shift, Turns, Turn, Begun, Times, Rightward
<1> HIDE DEF T
<1> QED BY <1>4, <1>5, <1>6, Zenon
-----------------------------------------------------------------------------
(* The type invariant.                                                      *)

LEMMA OutcomeTyped ==
  ASSUME NEW x \in Int, NEW m, NEW v \in BOOLEAN, NEW c \in BOOLEAN
  PROVE  Outcome(x, m, v, c).alu \in Int /\ Outcome(x, m, v, c).f \in Conditions
<1>1. Sign(x, m) \in BOOLEAN /\ (x % m = 0) \in BOOLEAN
  BY Zenon DEF Sign
<1> DEFINE s == Sign(x, m)
           z == (x % m = 0)
<1>2. Outcome(x, m, v, c) = [alu |-> x, f |-> [N |-> s, Z |-> z, V |-> v, C |-> c]]
  BY DEF Outcome
<1> HIDE DEF s, z
<1>3. [N |-> s, Z |-> z, V |-> v, C |-> c] \in Conditions
  BY <1>1, Zenon DEF Conditions, s, z
<1> QED BY <1>2, <1>3

\* The instructions of one result, without the logical ones.
Arithmetic ==
  {"ADD", "SUB", "CMP", "INC", "DEC", "NEG", "ADC", "SBC", "TST", "CLR", "COM", "ROR", "ROL",
   "ASR", "ASL", "SXT", "SWAB", "MOV"}

LEMMA InstructionFields ==
  ASSUME NEW i \in Instruction
  PROVE  /\ i.op \in OfBoth \cup OfWords /\ i.m \in {Byte, Word}
         /\ i.src \in Registers /\ i.dst \in Registers
         /\ i.m = Byte => i.op \in OfBoth
         /\ i.op \notin EIS \cup Branches \cup {"SOB"} => i.op \in Arithmetic \cup Logic
<1>1. /\ i.op \in OfBoth \cup OfWords /\ i.m \in {Byte, Word}
      /\ i.src \in Registers /\ i.dst \in Registers
      /\ i.op \in OfBoth \/ i.m = Word
  BY DEF Instruction
<1>2. Byte # Word
  <2>1. PICK b \in Nat : b = Byte /\ b >= 2 /\ Word = b * b
    BY Sizes
  <2> QED BY <2>1
<1>3. i.op \notin EIS \cup Branches \cup {"SOB"} => i.op \in Arithmetic \cup Logic
  BY <1>1, Zenon DEF OfBoth, OfWords, EIS, Branches, Arithmetic, Logic
<1> QED BY <1>1, <1>2, <1>3

\* All but SXT and SWAB take N and Z from m_ALU.
LEMMA ALUOutcome ==
  ASSUME NEW i \in Instruction, i.op \in (Arithmetic \cup Logic) \ {"SXT", "SWAB"},
         NEW a \in 0 .. i.m - 1, NEW b \in 0 .. i.m - 1, f \in Conditions
  PROVE  \E x \in Int, v \in BOOLEAN, c \in BOOLEAN : ALU(i, a, b) = Outcome(x, i.m, v, c)
<1>1. i.m \in Nat \ {0} /\ Wide \in Nat \ {0} /\ Byte \in Nat \ {0} /\ a \in Nat /\ b \in Nat
  BY InstructionFields, Sizes
<1>2. One(f.C) \in 0 .. 1 /\ One(Sign(a, i.m)) \in 0 .. 1 /\ f.C \in BOOLEAN /\ i.m \div 2 \in Int
      /\ f.N \in BOOLEAN /\ a \div 2 \in Int
  BY <1>1 DEF One, Conditions
<1>3. \A x \in Int : Sign(x, i.m) \in BOOLEAN /\ Carry(x, i.m) \in BOOLEAN
  BY Zenon DEF Sign, Carry
<1>4. CASE i.op = "ADD"
  <2> DEFINE x == a + b
             v == (Sign(b, i.m) <=> Sign(a, i.m)) /\ ~(Sign(a, i.m) <=> Sign(x, i.m))
             c == Carry(x, i.m)
  <2>1. ALU(i, a, b) = Outcome(x, i.m, v, c)
    BY <1>4 DEF ALU, ADD, Logic
  <2>2. x \in Int
    BY <1>1, <1>2
  <2>3. v \in BOOLEAN /\ c \in BOOLEAN
    BY <1>2, Zenon DEF Sign, Carry, Rose, Fell
  <2> HIDE DEF x, v, c
  <2> QED BY <2>1, <2>2, <2>3
<1>5. CASE i.op = "SUB"
  <2> DEFINE x == (a - b) % Wide
             v == ~(Sign(b, i.m) <=> Sign(a, i.m)) /\ (Sign(b, i.m) <=> Sign(x, i.m))
             c == Carry(x, i.m)
  <2>1. ALU(i, a, b) = Outcome(x, i.m, v, c)
    BY <1>5 DEF ALU, SUB, Logic
  <2>2. x \in Int
    BY <1>1, <1>2
  <2>3. v \in BOOLEAN /\ c \in BOOLEAN
    BY <1>2, Zenon DEF Sign, Carry, Rose, Fell
  <2> HIDE DEF x, v, c
  <2> QED BY <2>1, <2>2, <2>3
<1>6. CASE i.op = "CMP"
  <2> DEFINE x == (b - a) % Wide
             v == ~(Sign(b, i.m) <=> Sign(a, i.m)) /\ (Sign(a, i.m) <=> Sign(x, i.m))
             c == Carry(x, i.m)
  <2>1. ALU(i, a, b) = Outcome(x, i.m, v, c)
    BY <1>6 DEF ALU, CMP, Logic
  <2>2. x \in Int
    BY <1>1, <1>2
  <2>3. v \in BOOLEAN /\ c \in BOOLEAN
    BY <1>2, Zenon DEF Sign, Carry, Rose, Fell
  <2> HIDE DEF x, v, c
  <2> QED BY <2>1, <2>2, <2>3
<1>7. CASE i.op = "INC"
  <2> DEFINE x == a + 1
             v == Rose(a, x, i.m)
             c == f.C
  <2>1. ALU(i, a, b) = Outcome(x, i.m, v, c)
    BY <1>7 DEF ALU, INC, Logic
  <2>2. x \in Int
    BY <1>1, <1>2
  <2>3. v \in BOOLEAN /\ c \in BOOLEAN
    BY <1>2, Zenon DEF Sign, Carry, Rose, Fell
  <2> HIDE DEF x, v, c
  <2> QED BY <2>1, <2>2, <2>3
<1>8. CASE i.op = "DEC"
  <2> DEFINE x == (a - 1) % Wide
             v == Fell(a, x, i.m)
             c == f.C
  <2>1. ALU(i, a, b) = Outcome(x, i.m, v, c)
    BY <1>8 DEF ALU, DEC, Logic
  <2>2. x \in Int
    BY <1>1, <1>2
  <2>3. v \in BOOLEAN /\ c \in BOOLEAN
    BY <1>2, Zenon DEF Sign, Carry, Rose, Fell
  <2> HIDE DEF x, v, c
  <2> QED BY <2>1, <2>2, <2>3
<1>9. CASE i.op = "NEG"
  <2> DEFINE x == (Wide - a) % Wide
             v == (x) % i.m = i.m \div 2
             c == (x) % i.m # 0
  <2>1. ALU(i, a, b) = Outcome(x, i.m, v, c)
    BY <1>9 DEF ALU, NEG, Logic
  <2>2. x \in Int
    BY <1>1, <1>2
  <2>3. v \in BOOLEAN /\ c \in BOOLEAN
    BY <1>2, Zenon DEF Sign, Carry, Rose, Fell
  <2> HIDE DEF x, v, c
  <2> QED BY <2>1, <2>2, <2>3
<1>10. CASE i.op = "ADC"
  <2> DEFINE x == a + One(f.C)
             v == Rose(a, x, i.m)
             c == Carry(x, i.m)
  <2>1. ALU(i, a, b) = Outcome(x, i.m, v, c)
    BY <1>10 DEF ALU, ADC, Logic
  <2>2. x \in Int
    BY <1>1, <1>2
  <2>3. v \in BOOLEAN /\ c \in BOOLEAN
    BY <1>2, Zenon DEF Sign, Carry, Rose, Fell
  <2> HIDE DEF x, v, c
  <2> QED BY <2>1, <2>2, <2>3
<1>11. CASE i.op = "SBC"
  <2> DEFINE x == (a - One(f.C)) % Wide
             v == Fell(a, x, i.m)
             c == Carry(x, i.m)
  <2>1. ALU(i, a, b) = Outcome(x, i.m, v, c)
    BY <1>11 DEF ALU, SBC, Logic
  <2>2. x \in Int
    BY <1>1, <1>2
  <2>3. v \in BOOLEAN /\ c \in BOOLEAN
    BY <1>2, Zenon DEF Sign, Carry, Rose, Fell
  <2> HIDE DEF x, v, c
  <2> QED BY <2>1, <2>2, <2>3
<1>12. CASE i.op = "TST"
  <2> DEFINE x == a
             v == FALSE
             c == FALSE
  <2>1. ALU(i, a, b) = Outcome(x, i.m, v, c)
    BY <1>12 DEF ALU, TST, Logic
  <2>2. x \in Int
    BY <1>1, <1>2
  <2>3. v \in BOOLEAN /\ c \in BOOLEAN
    BY <1>2, Zenon DEF Sign, Carry, Rose, Fell
  <2> HIDE DEF x, v, c
  <2> QED BY <2>1, <2>2, <2>3
<1>13. CASE i.op = "CLR"
  <2> DEFINE x == 0
             v == FALSE
             c == FALSE
  <2>1. ALU(i, a, b) = Outcome(x, i.m, v, c)
    BY <1>13 DEF ALU, CLR, Logic
  <2>2. x \in Int
    BY <1>1, <1>2
  <2>3. v \in BOOLEAN /\ c \in BOOLEAN
    BY <1>2, Zenon DEF Sign, Carry, Rose, Fell
  <2> HIDE DEF x, v, c
  <2> QED BY <2>1, <2>2, <2>3
<1>14. CASE i.op = "COM"
  <2> DEFINE x == Wide - 1 - a
             v == FALSE
             c == TRUE
  <2>1. ALU(i, a, b) = Outcome(x, i.m, v, c)
    BY <1>14 DEF ALU, COM, Logic
  <2>2. x \in Int
    BY <1>1, <1>2
  <2>3. v \in BOOLEAN /\ c \in BOOLEAN
    BY <1>2, Zenon DEF Sign, Carry, Rose, Fell
  <2> HIDE DEF x, v, c
  <2> QED BY <2>1, <2>2, <2>3
<1>15. CASE i.op = "ROR"
  <2> DEFINE x == (a \div 2) + One(f.C) * (i.m \div 2)
             v == ~(Sign(x, i.m) <=> a % 2 = 1)
             c == a % 2 = 1
  <2>1. ALU(i, a, b) = Outcome(x, i.m, v, c)
    BY <1>15 DEF ALU, ROR, Shifted, Logic
  <2>2. x \in Int
    BY <1>1, <1>2
  <2>3. v \in BOOLEAN /\ c \in BOOLEAN
    BY <1>2, Zenon DEF Sign, Carry, Rose, Fell
  <2> HIDE DEF x, v, c
  <2> QED BY <2>1, <2>2, <2>3
<1>16. CASE i.op = "ROL"
  <2> DEFINE x == 2 * a + One(f.C)
             v == ~(Sign(x, i.m) <=> Sign(a, i.m))
             c == Sign(a, i.m)
  <2>1. ALU(i, a, b) = Outcome(x, i.m, v, c)
    BY <1>16 DEF ALU, ROL, Shifted, Logic
  <2>2. x \in Int
    BY <1>1, <1>2
  <2>3. v \in BOOLEAN /\ c \in BOOLEAN
    BY <1>2, Zenon DEF Sign, Carry, Rose, Fell
  <2> HIDE DEF x, v, c
  <2> QED BY <2>1, <2>2, <2>3
<1>17. CASE i.op = "ASR"
  <2> DEFINE x == (a \div 2) + One(Sign(a, i.m)) * (i.m \div 2)
             v == ~(Sign(x, i.m) <=> a % 2 = 1)
             c == a % 2 = 1
  <2>1. ALU(i, a, b) = Outcome(x, i.m, v, c)
    BY <1>17 DEF ALU, ASR, Shifted, Logic
  <2>2. x \in Int
    BY <1>1, <1>2
  <2>3. v \in BOOLEAN /\ c \in BOOLEAN
    BY <1>2, Zenon DEF Sign, Carry, Rose, Fell
  <2> HIDE DEF x, v, c
  <2> QED BY <2>1, <2>2, <2>3
<1>18. CASE i.op = "ASL"
  <2> DEFINE x == 2 * a
             v == ~(Sign(x, i.m) <=> Sign(a, i.m))
             c == Sign(a, i.m)
  <2>1. ALU(i, a, b) = Outcome(x, i.m, v, c)
    BY <1>18 DEF ALU, ASL, Shifted, Logic
  <2>2. x \in Int
    BY <1>1, <1>2
  <2>3. v \in BOOLEAN /\ c \in BOOLEAN
    BY <1>2, Zenon DEF Sign, Carry, Rose, Fell
  <2> HIDE DEF x, v, c
  <2> QED BY <2>1, <2>2, <2>3
<1>19. CASE i.op = "MOV"
  <2> DEFINE x == IF i.m = Byte /\ CharSigned /\ Sign(b, Byte) THEN Wide - Byte + b ELSE b
             c == f.C
             v == FALSE
  <2>1. ALU(i, a, b) = Outcome(x, i.m, v, c)
    BY <1>19 DEF ALU, MOV, Logic
  <2>2. x \in Int /\ c \in BOOLEAN /\ v \in BOOLEAN
    BY <1>1, <1>2
  <2> HIDE DEF x, v, c
  <2> QED BY <2>1, <2>2
<1>20. CASE i.op \in Logic
  <2> DEFINE x == LogicALU(i.op, a, b)
             c == f.C
             v == FALSE
  <2>1. ALU(i, a, b) = Outcome(x, i.m, v, c)
    BY <1>20 DEF ALU, Logic
  <2>2. x \in Int /\ c \in BOOLEAN /\ v \in BOOLEAN
    BY <1>1, <1>2, <1>20, LogicTyped
  <2> HIDE DEF x, v, c
  <2> QED BY <2>1, <2>2
<1> QED BY <1>4, <1>5, <1>6, <1>7, <1>8, <1>9, <1>10, <1>11, <1>12, <1>13, <1>14, <1>15,
           <1>16, <1>17, <1>18, <1>19, <1>20 DEF Arithmetic

LEMMA ALUTyped ==
  ASSUME NEW i \in Instruction, i.op \in Arithmetic \cup Logic,
         NEW a \in 0 .. i.m - 1, NEW b \in 0 .. i.m - 1, f \in Conditions
  PROVE  ALU(i, a, b).alu \in Int /\ ALU(i, a, b).f \in Conditions
<1>1. i.m \in Nat \ {0} /\ Wide \in Nat \ {0} /\ Byte \in Nat \ {0} /\ a \in Nat /\ b \in Nat
  BY InstructionFields, Sizes
<1>2. f.N \in BOOLEAN
  BY DEF Conditions
<1>3. CASE i.op = "SXT"
  <2>1. ALU(i, a, b) = [alu |-> IF f.N THEN Wide - 1 ELSE 0, f |-> [f EXCEPT !.Z = ~f.N, !.V = FALSE]]
    BY <1>3 DEF ALU, SXT, Logic
  <2>2. (IF f.N THEN Wide - 1 ELSE 0) \in Int
    BY <1>1
  <2>3. [f EXCEPT !.Z = ~f.N, !.V = FALSE] \in Conditions
    BY <1>2 DEF Conditions
  <2> QED BY <2>1, <2>2, <2>3
<1>4. CASE i.op = "SWAB"
  <2> DEFINE x == (a \div Byte) + Byte * (a % Byte)
             s == Sign(x % Byte, Byte)
             z == x % Byte = 0
  <2>1. ALU(i, a, b) = [alu |-> x, f |-> [N |-> s, Z |-> z, V |-> FALSE, C |-> FALSE]]
    BY <1>4 DEF ALU, SWAB, Logic
  <2>2. x \in Int
    BY <1>1
  <2>3. s \in BOOLEAN /\ z \in BOOLEAN
    BY Zenon DEF Sign
  <2> HIDE DEF x, s, z
  <2>4. [N |-> s, Z |-> z, V |-> FALSE, C |-> FALSE] \in Conditions
    BY <2>3, Zenon DEF Conditions
  <2> QED BY <2>1, <2>2, <2>4
<1>5. CASE i.op \notin {"SXT", "SWAB"}
  <2>1. PICK x \in Int, v \in BOOLEAN, c \in BOOLEAN : ALU(i, a, b) = Outcome(x, i.m, v, c)
    BY <1>5, ALUOutcome
  <2> QED BY <2>1, OutcomeTyped
<1> QED BY <1>3, <1>4, <1>5

LEMMA CodeTyped ==
  ASSUME program \in Programs
  PROVE  /\ Len(program.code) \in Nat
         /\ \A k \in 1 .. Len(program.code) : program.code[k] \in Instruction
<1>1. program.code \in Seq(Instruction)
  BY ProgramsAssumption
<1> QED BY <1>1

LEMMA PairTyped ==
  ASSUME R \in [Registers -> 0 .. Word - 1], NEW r \in Registers
  PROVE  /\ Partner(r) \in Registers /\ Pair(R, r) \in 0 .. Wide - 1
         /\ Pair(R, r) = R[r] * Word + R[Partner(r)]
<1>1. Partner(r) \in Registers
  BY DEF Partner, Registers
<1> DEFINE x == R[r]
           y == R[Partner(r)]
<1>2. x \in 0 .. Word - 1 /\ y \in 0 .. Word - 1 /\ Word \in Nat \ {0} /\ Wide = Word * Word
  BY <1>1, Sizes
<1>3. Pair(R, r) = x * Word + y
  BY DEF Pair
<1> HIDE DEF x, y
<1>4. x * Word <= (Word - 1) * Word /\ x * Word \in Nat
  BY <1>2
<1>5. (Word - 1) * Word = Wide - Word
  BY <1>2
<1> QED BY <1>1, <1>2, <1>3, <1>4, <1>5 DEF x, y

LEMMA HalvesOfPair ==
  ASSUME NEW v \in 0 .. Wide - 1
  PROVE  v \div Word \in 0 .. Word - 1 /\ v % Word \in 0 .. Word - 1
         /\ v = (v \div Word) * Word + (v % Word)
<1> DEFINE q == v \div Word
           r == v % Word
<1>1. Word \in Nat \ {0} /\ Wide = Word * Word /\ v \in Int
  BY Sizes
<1>2. q \in Int /\ r \in 0 .. Word - 1 /\ v = q * Word + r
  BY <1>1, Divided
<1> HIDE DEF q, r
<1>3. ASSUME q >= Word PROVE FALSE
  <2>1. q * Word >= Word * Word
    BY <1>1, <1>2, <1>3
  <2> QED BY <1>1, <1>2, <2>1
<1>4. ASSUME q <= -1 PROVE FALSE
  <2>1. q * Word <= (-1) * Word
    BY <1>1, <1>2, <1>4
  <2> QED BY <1>1, <1>2, <2>1
<1>5. q \in 0 .. Word - 1
  BY <1>1, <1>2, <1>3, <1>4
<1> QED BY <1>2, <1>5 DEF q, r

LEMMA PairStored ==
  ASSUME R \in [Registers -> 0 .. Word - 1], NEW r \in Registers, NEW v \in 0 .. Wide - 1,
         StorePair(r, v)
  PROVE  /\ R' \in [Registers -> 0 .. Word - 1]
         /\ \A q \in Registers : R'[q] = IF q = Partner(r) THEN v % Word
                                         ELSE IF q = r THEN v \div Word ELSE R[q]
<1>1. v \div Word \in 0 .. Word - 1 /\ v % Word \in 0 .. Word - 1
  BY HalvesOfPair
<1>2. Partner(r) \in Registers
  BY PairTyped
<1> DEFINE x == v \div Word
           y == v % Word
           p == Partner(r)
<1>3. R' = [R EXCEPT ![r] = x, ![p] = y]
  BY DEF StorePair
<1>4. x \in 0 .. Word - 1 /\ y \in 0 .. Word - 1 /\ p \in Registers
  BY <1>1, <1>2
<1> HIDE DEF x, y, p
<1>5. R' \in [Registers -> 0 .. Word - 1]
  BY <1>3, <1>4
<1>6. \A q \in Registers : R'[q] = IF q = p THEN y ELSE IF q = r THEN x ELSE R[q]
  BY <1>3, <1>4
<1> QED BY <1>5, <1>6 DEF x, y, p

\* The quotient of C.
LEMMA QuotientTyped ==
  ASSUME NEW p \in Int, NEW q \in Int, q # 0
  PROVE  /\ Quotient(p, q) \in Int
         /\ Magnitude(p) \div Magnitude(q) \in Nat
         /\ Magnitude(Quotient(p, q)) = Magnitude(p) \div Magnitude(q)
<1>1. Magnitude(p) \in Nat /\ Magnitude(q) \in Nat \ {0}
  BY DEF Magnitude
<1> DEFINE n == Magnitude(p) \div Magnitude(q)
<1>2. n \in Nat
  <2> DEFINE x == Magnitude(p)
             y == Magnitude(q)
  <2> HIDE DEF x, y
  <2>1. \A u \in Nat, v \in Nat \ {0} : u \div v \in Nat
    OBVIOUS
  <2> QED BY <1>1, <2>1 DEF x, y
<1>3. Quotient(p, q) = n \/ Quotient(p, q) = -n
  BY DEF Quotient
<1> HIDE DEF n
<1>4. \A u \in Nat : Magnitude(u) = u /\ Magnitude(-u) = u
  BY DEF Magnitude
<1> QED BY <1>2, <1>3, <1>4 DEF n

LEMMA SignedTyped ==
  /\ \A a \in 0 .. Word - 1 : Signed(a, Word) \in Int /\ Signed(a, Word) % Word = a
  /\ \A a \in 0 .. Wide - 1 : Signed(a, Wide) \in Int /\ Signed(a, Wide) % Wide = a
  /\ \A a \in 0 .. Word - 1 : Signed(a, Word) = 0 <=> a = 0
<1>1. PICK h \in Nat \ {0}, w \in Nat \ {0} : Half(Word, h) /\ Half(Wide, w)
  BY SizesHalf
<1>2. ASSUME NEW a \in 0 .. Word - 1
      PROVE  Signed(a, Word) \in Int /\ Signed(a, Word) % Word = a /\ (Signed(a, Word) = 0 <=> a = 0)
  <2>1. Signed(a, Word) \in -h .. h - 1 /\ Signed(a, Word) % Word = a
        /\ Signed(a, Word) = IF a < h THEN a ELSE a - Word
    BY <1>1, SignedOf
  <2> QED BY <1>1, <2>1 DEF Half
<1>3. ASSUME NEW a \in 0 .. Wide - 1
      PROVE  Signed(a, Wide) \in Int /\ Signed(a, Wide) % Wide = a
  <2>1. Signed(a, Wide) \in -w .. w - 1 /\ Signed(a, Wide) % Wide = a
    BY <1>1, SignedOf
  <2> QED BY <1>1, <2>1
<1> QED BY <1>2, <1>3

LEMMA MulTyped ==
  ASSUME NEW a \in 0 .. Word - 1, NEW b \in 0 .. Word - 1, NEW g
  PROVE  MUL(a, b, g).pair \in 0 .. Wide - 1 /\ MUL(a, b, g).f \in Conditions
<1> DEFINE v == Signed(a, Word) * Signed(b, Word)
<1>1. v \in Int /\ Wide \in Nat \ {0}
  BY SignedTyped, Sizes
<1>2. MUL(a, b, g) =
        [pair |-> v % Wide,
         f |-> [N |-> v < 0, Z |-> v = 0, V |-> FALSE, C |-> Magnitude(v) >= Word \div 2]]
  BY DEF MUL
<1> HIDE DEF v
<1>3. v % Wide \in 0 .. Wide - 1
  BY <1>1
<1> DEFINE c == Magnitude(v) >= Word \div 2
           s == v < 0
           z == v = 0
<1>4. c \in BOOLEAN /\ s \in BOOLEAN /\ z \in BOOLEAN
  OBVIOUS
<1> HIDE DEF c, s, z
<1>5. [N |-> s, Z |-> z, V |-> FALSE, C |-> c] \in Conditions
  BY <1>4, Zenon DEF Conditions
<1> QED BY <1>2, <1>3, <1>5 DEF c, s, z

LEMMA DivTyped ==
  ASSUME NEW a \in 0 .. Wide - 1, NEW b \in 0 .. Word - 1, NEW g
  PROVE  DIV(a, b, g).pair \in 0 .. Wide - 1 /\ DIV(a, b, g).f \in Conditions
<1> DEFINE p == Signed(a, Wide)
           q == Signed(b, Word)
           n == Quotient(p, q)
<1>1. p \in Int /\ q \in Int
  BY SignedTyped
<1>2. /\ [N |-> FALSE, Z |-> FALSE, V |-> TRUE, C |-> TRUE] \in Conditions
      /\ [N |-> FALSE, Z |-> FALSE, V |-> TRUE, C |-> FALSE] \in Conditions
  BY DEF Conditions
<1>3. CASE q = 0
  <2>1. DIV(a, b, g) = [pair |-> a, f |-> [N |-> FALSE, Z |-> FALSE, V |-> TRUE, C |-> TRUE]]
    BY <1>3 DEF DIV
  <2> QED BY <1>2, <2>1
<1>4. CASE q # 0 /\ (a = Wide \div 2 \/ Magnitude(n) >= Word)
  <2>1. DIV(a, b, g) = [pair |-> a, f |-> [N |-> FALSE, Z |-> FALSE, V |-> TRUE, C |-> FALSE]]
    BY <1>4 DEF DIV
  <2> QED BY <1>2, <2>1
<1>5. CASE q # 0 /\ ~(a = Wide \div 2 \/ Magnitude(n) >= Word)
  <2> DEFINE x == ((n % Word) * Word) + ((p - n * q) % Word)
             s == n < 0
             z == n = 0
  <2>1. DIV(a, b, g) = [pair |-> x, f |-> [N |-> s, Z |-> z, V |-> FALSE, C |-> FALSE]]
    BY <1>5 DEF DIV
  <2>2. n \in Int
    BY <1>1, <1>5, QuotientTyped
  <2>3. x \in 0 .. Wide - 1
    <3> HIDE DEF n, p, q
    <3> DEFINE e == n * q
               y == n % Word
               r == (p - e) % Word
    <3>1. e \in Int
      BY <1>1, <2>2
    <3> HIDE DEF e
    <3>2. y \in 0 .. Word - 1 /\ r \in 0 .. Word - 1
      BY <1>1, <2>2, <3>1, Sizes
    <3>3. x = y * Word + r
      BY DEF e
    <3> HIDE DEF x, y, r
    <3>4. Word \in Nat \ {0} /\ Wide = Word * Word
      BY Sizes
    <3>5. y * Word \in Nat /\ y * Word <= (Word - 1) * Word /\ (Word - 1) * Word = Wide - Word
      BY <3>2, <3>4
    <3> QED BY <3>2, <3>3, <3>4, <3>5
  <2>4. s \in BOOLEAN /\ z \in BOOLEAN
    OBVIOUS
  <2> HIDE DEF x, s, z
  <2>5. [N |-> s, Z |-> z, V |-> FALSE, C |-> FALSE] \in Conditions
    BY <2>4, Zenon DEF Conditions
  <2> QED BY <2>1, <2>3, <2>5
<1> QED BY <1>3, <1>4, <1>5

LEMMA ShiftTyped ==
  ASSUME NEW m \in {Word, Wide}, NEW a \in 0 .. m - 1, NEW b \in 0 .. Word - 1,
         NEW g \in Conditions
  PROVE  Shift(a, b, g, m).alu \in 0 .. Wide - 1 /\ Shift(a, b, g, m).f \in Conditions
<1> DEFINE N == Times(b)
<1>1. b \in Int /\ N \in Nat
  BY ArithmeticAssumption, Sizes DEF Times, Rightward
<1>2. PICK t \in [0 .. N -> Turned] :
        Shift(a, b, g, m) =
          [alu |-> t[N].x,
           f |-> [N |-> Sign(t[N].x, m), Z |-> t[N].x % m = 0,
                  V |-> IF N = 0 THEN g.V ELSE t[N].v, C |-> IF N = 0 THEN g.C ELSE t[N].c]]
  BY <1>1, ShiftTurns
<1> HIDE DEF N
<1>3. t[N] \in Turned
  BY <1>1
<1>4. t[N].x \in 0 .. Wide - 1 /\ t[N].v \in BOOLEAN /\ t[N].c \in BOOLEAN
      /\ g.V \in BOOLEAN /\ g.C \in BOOLEAN
  BY <1>3 DEF Turned, Conditions
<1> DEFINE s == Sign(t[N].x, m)
           z == t[N].x % m = 0
           v == IF N = 0 THEN g.V ELSE t[N].v
           c == IF N = 0 THEN g.C ELSE t[N].c
<1>5. s \in BOOLEAN /\ z \in BOOLEAN /\ v \in BOOLEAN /\ c \in BOOLEAN
  BY <1>4, Zenon DEF Sign
<1>6. Shift(a, b, g, m) = [alu |-> t[N].x, f |-> [N |-> s, Z |-> z, V |-> v, C |-> c]]
  BY <1>2
<1> HIDE DEF s, z, v, c
<1>7. [N |-> s, Z |-> z, V |-> v, C |-> c] \in Conditions
  BY <1>5, Zenon DEF Conditions
<1> QED BY <1>4, <1>6, <1>7

\* The register after a result: all of it, or its low byte.
Stored(i, old, x) == IF WholeWord(i) THEN x % Word ELSE (old - (old % Byte)) + (x % Byte)

LEMMA StoredRight ==
  ASSUME NEW i \in Instruction, NEW old \in 0 .. Word - 1, NEW x \in Int
  PROVE  /\ Stored(i, old, x) \in 0 .. Word - 1
         /\ Stored(i, old, x) % i.m = x % i.m
         /\ ~WholeWord(i) => Stored(i, old, x) \div Byte = old \div Byte
<1>1. Byte \in Nat \ {0} /\ Word \in Nat \ {0} /\ Word = Byte * Byte /\ i.m \in {Byte, Word}
  BY Sizes, InstructionFields
<1>2. CASE WholeWord(i)
  <2>1. Stored(i, old, x) = x % Word
    BY <1>2 DEF Stored
  <2>2. (x % (Byte * Byte)) % Byte = x % Byte
    BY <1>1, RemainderTwice
  <2>3. x % Word \in 0 .. Word - 1
    BY <1>1
  <2>4. (x % Word) % Word = x % Word
    BY <1>1, <2>3, SelfRemainder
  <2> QED BY <1>1, <1>2, <2>1, <2>2, <2>3, <2>4
<1>3. CASE ~WholeWord(i)
  <2>1. i.m = Byte
    BY <1>1, <1>3 DEF WholeWord
  <2> DEFINE q == old \div Byte
             r == old % Byte
             e == x % Byte
  <2>2. q \in Int /\ r \in 0 .. Byte - 1 /\ old = q * Byte + r /\ e \in 0 .. Byte - 1
    <3>1. old \in Int
      BY <1>1
    <3> QED BY <3>1, <1>1, Divided
  <2>3. Stored(i, old, x) = (old - r) + e
    BY <1>3 DEF Stored
  <2> HIDE DEF q, r, e
  <2>4. Stored(i, old, x) = q * Byte + e
    BY <1>1, <2>2, <2>3
  <2>5. (q * Byte + e) \div Byte = q /\ (q * Byte + e) % Byte = e
    BY <1>1, <2>2, DivMod
  <2>6. q \in 0 .. Byte - 1
    <3>1. ASSUME q >= Byte PROVE FALSE
      <4>1. q * Byte >= Byte * Byte
        BY <1>1, <2>2, <3>1
      <4> QED BY <1>1, <2>2, <4>1
    <3>2. ASSUME q <= -1 PROVE FALSE
      <4>1. q * Byte <= (-1) * Byte
        BY <1>1, <2>2, <3>2
      <4> QED BY <1>1, <2>2, <4>1
    <3> QED BY <1>1, <2>2, <3>1, <3>2
  <2>7. q * Byte + e \in 0 .. Word - 1
    <3>1. q * Byte \in Nat /\ q * Byte <= (Byte - 1) * Byte
      BY <1>1, <2>6
    <3>2. (Byte - 1) * Byte = Word - Byte
      BY <1>1
    <3> QED BY <1>1, <2>2, <3>1, <3>2
  <2> QED BY <2>1, <2>4, <2>5, <2>7 DEF q, e
<1> QED BY <1>2, <1>3

LEMMA ArgumentTyped ==
  ASSUME TypeOK, NEW r \in Registers, NEW m \in {Byte, Word}
  PROVE  /\ R[r] \in 0 .. Word - 1 /\ Argument(r, m) \in 0 .. m - 1
         /\ m = Word => Argument(r, m) = R[r]
<1>1. R[r] \in 0 .. Word - 1 /\ m \in Nat \ {0}
  BY Sizes DEF TypeOK
<1>2. R[r] % m \in 0 .. m - 1
  BY <1>1
<1>3. Word \in Nat \ {0}
  BY Sizes
<1>4. R[r] % Word = R[r]
  BY <1>1, <1>3, SelfRemainder
<1> QED BY <1>1, <1>2, <1>4 DEF Argument

\* An instruction of the ALU changes its destination and the conditions.
LEMMA ALUDoes ==
  ASSUME TypeOK, NEW i \in Instruction, ExecuteALU(i)
  PROVE  LET o == ALU(i, Argument(i.dst, i.m), Argument(i.src, i.m)) IN
         /\ i.op \in Arithmetic \cup Logic
         /\ o.alu \in Int /\ f' = o.f /\ f' \in Conditions
         /\ R' \in [Registers -> 0 .. Word - 1]
         /\ i.op \in NoResult => R' = R
         /\ i.op \notin NoResult => R'[i.dst] = Stored(i, R[i.dst], o.alu)
         /\ \A q \in Registers \ {i.dst} : R'[q] = R[q]
<1> DEFINE a == Argument(i.dst, i.m)
           b == Argument(i.src, i.m)
           o == ALU(i, a, b)
           x == o.alu
<1>1. i.op \in Arithmetic \cup Logic /\ i.m \in {Byte, Word} /\ i.src \in Registers /\ i.dst \in Registers
  BY InstructionFields DEF ExecuteALU
<1>2. a \in 0 .. i.m - 1 /\ b \in 0 .. i.m - 1 /\ R[i.dst] \in 0 .. Word - 1
  BY <1>1, ArgumentTyped
<1>3. R \in [Registers -> 0 .. Word - 1] /\ f \in Conditions
  BY DEF TypeOK
<1>4. x \in Int /\ o.f \in Conditions
  <2> HIDE DEF a, b
  <2> QED BY <1>1, <1>2, <1>3, ALUTyped
<1>5. f' = o.f
  BY DEF ExecuteALU
<1>6. IF i.op \in NoResult THEN UNCHANGED R ELSE set_dst_arg(i, x)
  BY DEF ExecuteALU
<1> DEFINE d == i.dst
           e == Stored(i, R[d], x)
<1>7. e \in 0 .. Word - 1 /\ d \in Registers
  <2> HIDE DEF x
  <2> QED BY <1>1, <1>2, <1>4, StoredRight
<1>8. CASE i.op \in NoResult
  BY <1>1, <1>3, <1>4, <1>5, <1>6, <1>8
<1>9. CASE i.op \notin NoResult
  <2>1. R' = [R EXCEPT ![d] = e]
    BY <1>6, <1>9 DEF set_dst_arg, Stored
  <2> HIDE DEF d, e
  <2>2. R' \in [Registers -> 0 .. Word - 1] /\ R'[d] = e /\ \A q \in Registers \ {d} : R'[q] = R[q]
    BY <1>3, <1>7, <2>1
  <2> QED BY <1>1, <1>4, <1>5, <1>9, <2>2 DEF d, e
<1> QED BY <1>8, <1>9

LEMMA MULDoes ==
  ASSUME TypeOK, NEW i \in Instruction, ExecuteMUL(i)
  PROVE  /\ StorePair(i.dst, MUL(R[i.dst], R[i.src], f).pair)
         /\ MUL(R[i.dst], R[i.src], f).pair \in 0 .. Wide - 1
         /\ R' \in [Registers -> 0 .. Word - 1] /\ f' \in Conditions
<1>1. i.src \in Registers /\ i.dst \in Registers
  BY InstructionFields
<1>2. R[i.dst] \in 0 .. Word - 1 /\ R[i.src] \in 0 .. Word - 1 /\ R \in [Registers -> 0 .. Word - 1]
  BY <1>1 DEF TypeOK
<1> DEFINE o == MUL(R[i.dst], R[i.src], f)
<1>3. o.pair \in 0 .. Wide - 1 /\ o.f \in Conditions
  BY <1>2, MulTyped
<1>4. StorePair(i.dst, o.pair) /\ f' = o.f
  BY DEF ExecuteMUL
<1>5. R' \in [Registers -> 0 .. Word - 1]
  <2> HIDE DEF o
  <2> QED BY <1>1, <1>2, <1>3, <1>4, PairStored
<1> QED BY <1>3, <1>4, <1>5

LEMMA DIVDoes ==
  ASSUME TypeOK, NEW i \in Instruction, ExecuteDIV(i)
  PROVE  LET o == DIV(Pair(R, i.dst), R[i.src], f) IN
         /\ f' = o.f
         /\ IF o.f.V THEN R' = R ELSE StorePair(i.dst, o.pair)
         /\ o.pair \in 0 .. Wide - 1
         /\ R' \in [Registers -> 0 .. Word - 1] /\ f' \in Conditions
<1>1. i.src \in Registers /\ i.dst \in Registers
  BY InstructionFields
<1>2. R[i.src] \in 0 .. Word - 1 /\ R \in [Registers -> 0 .. Word - 1]
  BY <1>1 DEF TypeOK
<1>3. Pair(R, i.dst) \in 0 .. Wide - 1
  BY <1>1, <1>2, PairTyped
<1> DEFINE o == DIV(Pair(R, i.dst), R[i.src], f)
<1>4. o.pair \in 0 .. Wide - 1 /\ o.f \in Conditions
  BY <1>2, <1>3, DivTyped
<1>5. f' = o.f /\ IF o.f.V THEN R' = R ELSE StorePair(i.dst, o.pair)
  BY DEF ExecuteDIV
<1>6. R' \in [Registers -> 0 .. Word - 1]
  <2> HIDE DEF o
  <2> QED BY <1>1, <1>2, <1>4, <1>5, PairStored
<1> QED BY <1>4, <1>5, <1>6

LEMMA ASHDoes ==
  ASSUME TypeOK, NEW i \in Instruction, ExecuteASH(i)
  PROVE  LET o == Shift(R[i.dst], R[i.src], f, Word) IN
         /\ R' = [R EXCEPT ![i.dst] = o.alu % Word] /\ f' = o.f
         /\ R' \in [Registers -> 0 .. Word - 1] /\ f' \in Conditions
<1>1. i.src \in Registers /\ i.dst \in Registers
  BY InstructionFields
<1>2. R[i.dst] \in 0 .. Word - 1 /\ R[i.src] \in 0 .. Word - 1 /\ f \in Conditions
      /\ R \in [Registers -> 0 .. Word - 1]
  BY <1>1 DEF TypeOK
<1> DEFINE o == Shift(R[i.dst], R[i.src], f, Word)
<1>3. o.alu \in 0 .. Wide - 1 /\ o.f \in Conditions
  BY <1>2, ShiftTyped
<1>4. R' = [R EXCEPT ![i.dst] = o.alu % Word] /\ f' = o.f
  BY DEF ExecuteASH
<1>5. o.alu % Word \in 0 .. Word - 1
  <2> DEFINE x == o.alu
  <2> HIDE DEF x
  <2> QED BY <1>3, Sizes DEF x
<1> HIDE DEF o
<1> QED BY <1>1, <1>2, <1>3, <1>4, <1>5 DEF o

LEMMA ASHCDoes ==
  ASSUME TypeOK, NEW i \in Instruction, ExecuteASHC(i)
  PROVE  LET o == Shift(Pair(R, i.dst), R[i.src], f, Wide) IN
         /\ f' = o.f /\ StorePair(i.dst, o.alu) /\ o.alu \in 0 .. Wide - 1
         /\ R' \in [Registers -> 0 .. Word - 1] /\ f' \in Conditions
<1>1. i.src \in Registers /\ i.dst \in Registers
  BY InstructionFields
<1>2. R[i.src] \in 0 .. Word - 1 /\ f \in Conditions /\ R \in [Registers -> 0 .. Word - 1]
  BY <1>1 DEF TypeOK
<1>3. Pair(R, i.dst) \in 0 .. Wide - 1
  BY <1>1, <1>2, PairTyped
<1> DEFINE o == Shift(Pair(R, i.dst), R[i.src], f, Wide)
<1>4. o.alu \in 0 .. Wide - 1 /\ o.f \in Conditions
  BY <1>2, <1>3, ShiftTyped
<1>5. f' = o.f /\ StorePair(i.dst, o.alu)
  BY DEF ExecuteASHC
<1>6. R' \in [Registers -> 0 .. Word - 1]
  <2> HIDE DEF o
  <2> QED BY <1>1, <1>2, <1>4, <1>5, PairStored
<1> QED BY <1>4, <1>5, <1>6

LEMMA SOBDoes ==
  ASSUME TypeOK, NEW i \in Instruction, ExecuteSOB(i)
  PROVE  /\ R' \in [Registers -> 0 .. Word - 1]
         /\ R'[i.dst] = (R[i.dst] - 1) % Word
         /\ \A q \in Registers \ {i.dst} : R'[q] = R[q]
<1> DEFINE d == i.dst
           x == (R[d] - 1) % Word
<1>1. d \in Registers /\ R \in [Registers -> 0 .. Word - 1]
  BY InstructionFields DEF TypeOK
<1>2. x \in 0 .. Word - 1
  BY <1>1, Sizes
<1>3. R' = [R EXCEPT ![d] = x]
  BY DEF ExecuteSOB
<1> HIDE DEF d, x
<1> QED BY <1>1, <1>2, <1>3 DEF d, x

LEMMA TypeInit == Init => TypeOK
<1> SUFFICES ASSUME Init PROVE TypeOK
  OBVIOUS
<1>1. program \in Programs
  BY DEF Init
<1>2. Len(program.code) \in Nat
  BY <1>1, CodeTyped
<1>3. R \in [Registers -> 0 .. Word - 1] /\ f \in Conditions
  BY <1>1, ProgramsAssumption DEF Init
<1>4. pc = 1 /\ start = R /\ m_bCBug \in BOOLEAN /\ taken \in BOOLEAN
  BY DEF Init
<1>5. pc \in 1 .. Len(program.code) + 1
  BY <1>2, <1>4
<1> QED BY <1>1, <1>3, <1>4, <1>5 DEF TypeOK

LEMMA TypeNext == TypeOK /\ [Next]_vars => TypeOK'
<1> SUFFICES ASSUME TypeOK, [Next]_vars PROVE TypeOK'
  OBVIOUS
<1>1. CASE UNCHANGED vars
  BY <1>1 DEF vars, TypeOK
<1>2. CASE Next
  <2> DEFINE i == program.code[pc]
             N == Len(program.code)
  <2>1. program \in Programs /\ N \in Nat /\ pc \in 1 .. N /\ i \in Instruction
    BY <1>2, CodeTyped DEF TypeOK, Next
  <2>2. start \in [Registers -> 0 .. Word - 1] /\ taken \in BOOLEAN /\ f \in Conditions
        /\ R \in [Registers -> 0 .. Word - 1]
    BY DEF TypeOK
  <2>3. Execute(i)
    BY <1>2 DEF Next
  <2> HIDE DEF i
  <2>4. ASSUME Go(pc + 1), R' \in [Registers -> 0 .. Word - 1], f' \in Conditions,
               m_bCBug' \in BOOLEAN, taken' \in BOOLEAN
        PROVE  TypeOK'
    BY <2>1, <2>2, <2>4 DEF TypeOK, Go
  <2>5. CASE ExecuteALU(i)
    <3>1. R' \in [Registers -> 0 .. Word - 1] /\ f' \in Conditions
      BY <2>1, <2>5, ALUDoes
    <3>2. Go(pc + 1) /\ m_bCBug' \in BOOLEAN /\ taken' \in BOOLEAN
      BY <2>2, <2>5 DEF ExecuteALU
    <3> QED BY <2>4, <3>1, <3>2
  <2>6. CASE ExecuteMUL(i)
    <3>1. R' \in [Registers -> 0 .. Word - 1] /\ f' \in Conditions
      BY <2>1, <2>6, MULDoes
    <3>2. Go(pc + 1) /\ m_bCBug' \in BOOLEAN /\ taken' \in BOOLEAN
      BY <2>2, <2>6 DEF ExecuteMUL
    <3> QED BY <2>4, <3>1, <3>2
  <2>7. CASE ExecuteDIV(i)
    <3>1. R' \in [Registers -> 0 .. Word - 1] /\ f' \in Conditions
      BY <2>1, <2>7, DIVDoes
    <3>2. Go(pc + 1) /\ m_bCBug' \in BOOLEAN /\ taken' \in BOOLEAN
      BY <2>2, <2>7 DEF ExecuteDIV
    <3> QED BY <2>4, <3>1, <3>2
  <2>8. CASE ExecuteASH(i)
    <3>1. R' \in [Registers -> 0 .. Word - 1] /\ f' \in Conditions
      BY <2>1, <2>8, ASHDoes
    <3>2. Go(pc + 1) /\ m_bCBug' \in BOOLEAN /\ taken' \in BOOLEAN
      BY <2>2, <2>8 DEF ExecuteASH
    <3> QED BY <2>4, <3>1, <3>2
  <2>9. CASE ExecuteASHC(i)
    <3>1. R' \in [Registers -> 0 .. Word - 1] /\ f' \in Conditions
      BY <2>1, <2>9, ASHCDoes
    <3>2. Go(pc + 1) /\ m_bCBug' \in BOOLEAN /\ taken' \in BOOLEAN
      BY <2>2, <2>9 DEF ExecuteASHC
    <3> QED BY <2>4, <3>1, <3>2
  <2>10. CASE ExecuteBranch(i)
    <3>1. m_Freg \in Conditions
      BY <2>2 DEF m_Freg, Conditions
    <3>2. taken' = Condition(i.op, m_Freg) /\ i.op \in Branches
      BY <2>10 DEF ExecuteBranch
    <3> DEFINE g == m_Freg
    <3>3. g.N \in BOOLEAN /\ g.Z \in BOOLEAN /\ g.V \in BOOLEAN /\ g.C \in BOOLEAN
      BY <3>1 DEF Conditions
    <3> HIDE DEF g
    <3>4. Condition(i.op, g) \in BOOLEAN
      BY <3>2, <3>3 DEF Condition, Branches
    <3>5. Go(pc + 1) /\ m_bCBug' \in BOOLEAN /\ R' = R /\ f' = f
      BY <2>10 DEF ExecuteBranch
    <3> QED BY <2>2, <2>4, <3>2, <3>4, <3>5 DEF g
  <2>11. CASE ExecuteSOB(i)
    <3>1. R' \in [Registers -> 0 .. Word - 1]
      BY <2>1, <2>11, SOBDoes
    <3>2. /\ f' = f /\ m_bCBug' = FALSE /\ taken' = (R'[i.dst] # 0)
          /\ Go(IF taken' THEN 1 ELSE pc + 1)
      BY <2>11 DEF ExecuteSOB
    <3>3. (R'[i.dst] # 0) \in BOOLEAN
      OBVIOUS
    <3>4. taken' \in BOOLEAN
      BY <3>2, <3>3
    <3>5. pc' \in 1 .. N + 1 /\ program' = program /\ start' = start
      BY <2>1, <3>2, <3>4 DEF Go
    <3> QED BY <2>1, <2>2, <3>1, <3>2, <3>4, <3>5 DEF TypeOK
  <2> QED BY <2>3, <2>5, <2>6, <2>7, <2>8, <2>9, <2>10, <2>11 DEF Execute
<1> QED BY <1>1, <1>2 DEF Next

\* The registers hold words and the conditions are bits, for bytes and words of
\* every size and all programs: what an instruction leaves in m_ALU is cut before
\* it is stored, also the pairs of the extended instructions.
THEOREM TypeCorrect == Spec => []TypeOK
BY TypeInit, TypeNext, PTL DEF Spec
-----------------------------------------------------------------------------
(* What the instructions of the programs leave in the registers.            *)

\* All but one register stay, and the next instruction follows.
Only(d) ==
  /\ \A q \in Registers \ {d} : R'[q] = R[q]
  /\ pc' = pc + 1 /\ program' = program /\ start' = start

\* The word instruction that the program is at.
At(op, src, dst) == Next /\ program.code[pc] = Op(op, src, dst)

LEMMA AtALU ==
  ASSUME TypeOK, NEW op \in Arithmetic, NEW src \in Registers, NEW dst \in Registers,
         At(op, src, dst)
  PROVE  LET o == ALU(Op(op, src, dst), R[dst], R[src]) IN
         /\ Only(dst) /\ f' = o.f
         /\ m_bCBug' <=> op = "SWAB"
         /\ R'[dst] = IF op \in NoResult THEN R[dst] ELSE o.alu % Word
         /\ R[dst] \in 0 .. Word - 1 /\ R[src] \in 0 .. Word - 1 /\ f \in Conditions
<1> DEFINE i == Op(op, src, dst)
<1>1. i \in Instruction /\ i = program.code[pc]
  BY CodeTyped DEF TypeOK, At, Next
<1>2. i.op = op /\ i.m = Word /\ i.src = src /\ i.dst = dst
  BY DEF Op
<1>3. Execute(i)
  BY <1>1 DEF At, Next
<1>4. op \notin EIS \cup Branches \cup {"SOB"}
  BY DEF Arithmetic, EIS, Branches
<1> HIDE DEF i
<1>5. ExecuteALU(i)
  BY <1>2, <1>3, <1>4 DEF Execute, ExecuteMUL, ExecuteDIV, ExecuteASH, ExecuteASHC,
                          ExecuteBranch, ExecuteSOB, EIS
<1>6. Argument(dst, Word) = R[dst] /\ Argument(src, Word) = R[src]
      /\ R[dst] \in 0 .. Word - 1 /\ R[src] \in 0 .. Word - 1 /\ f \in Conditions
  BY ArgumentTyped DEF TypeOK
<1> DEFINE o == ALU(i, R[dst], R[src])
<1>7. /\ f' = o.f
      /\ op \in NoResult => R' = R
      /\ op \notin NoResult => R'[dst] = Stored(i, R[dst], o.alu)
      /\ \A q \in Registers \ {dst} : R'[q] = R[q]
  BY <1>1, <1>2, <1>5, <1>6, ALUDoes
<1>8. Stored(i, R[dst], o.alu) = o.alu % Word
  BY <1>2 DEF Stored, WholeWord
<1>9. Byte # Word
  BY Sizes
<1>10. pc' = pc + 1 /\ program' = program /\ start' = start /\ (m_bCBug' <=> op = "SWAB")
  BY <1>2, <1>5, <1>9 DEF ExecuteALU, Go
<1> HIDE DEF o
<1> QED BY <1>6, <1>7, <1>8, <1>10 DEF Only, o, i

LEMMA Cut2 ==
  ASSUME NEW x \in Int
  PROVE  (x % Wide) % Word = x % Word
<1>1. Word \in Nat \ {0} /\ Wide = Word * Word
  BY Sizes
<1>2. (x % (Word * Word)) % Word = x % Word
  BY <1>1, RemainderTwice
<1> QED BY <1>1, <1>2

LEMMA AtADD ==
  ASSUME TypeOK, NEW src \in Registers, NEW dst \in Registers, At("ADD", src, dst)
  PROVE  /\ Only(dst)
         /\ R'[dst] = (R[dst] + R[src]) % Word
         /\ f'.C <=> R[dst] + R[src] >= Word
<1> DEFINE a == R[dst]
           b == R[src]
           o == ADD(a, b, f, Word)
<1>1. ALU(Op("ADD", src, dst), a, b) = o
  BY DEF ALU, Op, Logic
<1>2. Only(dst) /\ f' = o.f /\ R'[dst] = o.alu % Word
      /\ a \in 0 .. Word - 1 /\ b \in 0 .. Word - 1 /\ f \in Conditions
  BY <1>1, AtALU DEF Arithmetic, NoResult
<1> HIDE DEF a, b
<1>3. AdditionRight(a, b, f, Word)
  BY <1>2, AdditionTells
<1>4. o.f.C <=> a + b \notin 0 .. Word - 1
  BY <1>3 DEF AdditionRight, Tells
<1>5. o.alu = a + b
  BY DEF ADD, Outcome
<1> HIDE DEF o
<1>6. f'.C <=> a + b >= Word
  BY <1>2, <1>4, Sizes
<1> QED BY <1>2, <1>5, <1>6 DEF a, b

LEMMA AtSUB ==
  ASSUME TypeOK, NEW src \in Registers, NEW dst \in Registers, At("SUB", src, dst)
  PROVE  /\ Only(dst)
         /\ R'[dst] = (R[dst] - R[src]) % Word
         /\ f'.C <=> R[dst] < R[src]
<1> DEFINE a == R[dst]
           b == R[src]
           o == SUB(a, b, f, Word)
<1>1. ALU(Op("SUB", src, dst), a, b) = o
  BY DEF ALU, Op, Logic
<1>2. Only(dst) /\ f' = o.f /\ R'[dst] = o.alu % Word
      /\ a \in 0 .. Word - 1 /\ b \in 0 .. Word - 1 /\ f \in Conditions
  BY <1>1, AtALU DEF Arithmetic, NoResult
<1> HIDE DEF a, b
<1>3. AdditionRight(a, b, f, Word)
  BY <1>2, AdditionTells
<1>4. o.f.C <=> a - b \notin 0 .. Word - 1
  BY <1>3 DEF AdditionRight, Tells
<1>5. o.alu = (a - b) % Wide
  BY DEF SUB, Outcome
<1> HIDE DEF o
<1> DEFINE d == a - b
<1>6. d \in Int /\ (f'.C <=> a < b)
  BY <1>2, <1>4, Sizes
<1> HIDE DEF d
<1>7. (d % Wide) % Word = d % Word
  BY <1>6, Cut2
<1> QED BY <1>2, <1>5, <1>6, <1>7 DEF a, b, d

LEMMA AtADC ==
  ASSUME TypeOK, NEW src \in Registers, NEW dst \in Registers, At("ADC", src, dst)
  PROVE  Only(dst) /\ R'[dst] = (R[dst] + One(f.C)) % Word
<1> DEFINE o == ADC(R[dst], R[src], f, Word)
<1>1. ALU(Op("ADC", src, dst), R[dst], R[src]) = o
  BY DEF ALU, Op, Logic
<1>2. Only(dst) /\ R'[dst] = o.alu % Word
  BY <1>1, AtALU DEF Arithmetic, NoResult
<1>3. o.alu = R[dst] + One(f.C)
  BY DEF ADC, Outcome
<1> HIDE DEF o
<1> QED BY <1>2, <1>3

LEMMA AtSBC ==
  ASSUME TypeOK, NEW src \in Registers, NEW dst \in Registers, At("SBC", src, dst)
  PROVE  Only(dst) /\ R'[dst] = (R[dst] - One(f.C)) % Word
<1> DEFINE o == SBC(R[dst], R[src], f, Word)
           d == R[dst] - One(f.C)
<1>1. ALU(Op("SBC", src, dst), R[dst], R[src]) = o
  BY DEF ALU, Op, Logic
<1>2. Only(dst) /\ R'[dst] = o.alu % Word /\ R[dst] \in 0 .. Word - 1
  BY <1>1, AtALU DEF Arithmetic, NoResult
<1>3. o.alu = d % Wide
  BY DEF SBC, Outcome
<1>4. d \in Int
  BY <1>2 DEF One
<1> HIDE DEF o, d
<1>5. (d % Wide) % Word = d % Word
  BY <1>4, Cut2
<1> QED BY <1>2, <1>3, <1>5 DEF d

LEMMA AtNEG ==
  ASSUME TypeOK, NEW src \in Registers, NEW dst \in Registers, At("NEG", src, dst)
  PROVE  Only(dst) /\ R'[dst] = (-R[dst]) % Word /\ (f'.C <=> R[dst] # 0)
<1> DEFINE a == R[dst]
           b == R[src]
           o == NEG(a, b, f, Word)
<1>1. ALU(Op("NEG", src, dst), a, b) = o
  BY DEF ALU, Op, Logic
<1>2. Only(dst) /\ f' = o.f /\ R'[dst] = o.alu % Word
      /\ a \in 0 .. Word - 1 /\ b \in 0 .. Word - 1 /\ f \in Conditions
  BY <1>1, AtALU DEF Arithmetic, NoResult
<1> HIDE DEF a, b
<1>3. AdditionRight(a, b, f, Word)
  BY <1>2, AdditionTells
<1>4. o.f.C <=> -a \notin 0 .. Word - 1
  BY <1>3 DEF AdditionRight, Tells
<1>5. o.alu = (Wide - a) % Wide
  BY DEF NEG, Outcome
<1> HIDE DEF o
<1> DEFINE d == Wide - a
           e == -a
<1>6. d \in Int /\ e \in Int /\ (f'.C <=> a # 0) /\ d = e + Word * Word /\ Word \in Nat \ {0}
  BY <1>2, <1>4, Sizes
<1>7. (d % Wide) % Word = d % Word /\ d % Word = e % Word
  <2> HIDE DEF d, e
  <2>1. Word \in Int
    BY <1>6
  <2>2. d % Word = e % Word
    BY ONLY <1>6, <2>1, SameRemainder
  <2> QED BY <1>6, <2>2, Cut2
<1> QED BY <1>2, <1>5, <1>6, <1>7 DEF a, b

LEMMA AtASL ==
  ASSUME TypeOK, NEW src \in Registers, NEW dst \in Registers, At("ASL", src, dst)
  PROVE  Only(dst) /\ R'[dst] = (2 * R[dst]) % Word /\ (f'.C <=> 2 * R[dst] >= Word)
<1> DEFINE a == R[dst]
           b == R[src]
           o == ASL(a, b, f, Word)
<1>1. ALU(Op("ASL", src, dst), a, b) = o
  BY DEF ALU, Op, Logic
<1>2. Only(dst) /\ f' = o.f /\ R'[dst] = o.alu % Word
      /\ a \in 0 .. Word - 1 /\ b \in 0 .. Word - 1 /\ f \in Conditions
  BY <1>1, AtALU DEF Arithmetic, NoResult
<1> HIDE DEF a, b
<1>3. ShiftRight(a, b, f, Word)
  BY <1>2, ShiftsTell
<1>4. o.f.C <=> 2 * a \notin 0 .. Word - 1
  BY <1>3 DEF ShiftRight, Tells
<1>5. o.alu = 2 * a
  BY DEF ASL, Shifted, Outcome
<1> HIDE DEF o
<1>6. f'.C <=> 2 * a >= Word
  BY <1>2, <1>4, Sizes
<1> QED BY <1>2, <1>5, <1>6 DEF a, b

LEMMA AtROL ==
  ASSUME TypeOK, NEW src \in Registers, NEW dst \in Registers, At("ROL", src, dst)
  PROVE  /\ Only(dst)
         /\ R'[dst] = (2 * R[dst] + One(f.C)) % Word
         /\ f'.C <=> 2 * R[dst] + One(f.C) >= Word
<1> DEFINE a == R[dst]
           b == R[src]
           c == One(f.C)
           o == ROL(a, b, f, Word)
<1>1. ALU(Op("ROL", src, dst), a, b) = o
  BY DEF ALU, Op, Logic
<1>2. Only(dst) /\ f' = o.f /\ R'[dst] = o.alu % Word
      /\ a \in 0 .. Word - 1 /\ b \in 0 .. Word - 1 /\ f \in Conditions
  BY <1>1, AtALU DEF Arithmetic, NoResult
<1> HIDE DEF a, b
<1>3. ShiftRight(a, b, f, Word)
  BY <1>2, ShiftsTell
<1>4. o.f.C <=> 2 * a + c \notin 0 .. Word - 1
  BY <1>3 DEF ShiftRight, Tells
<1>5. o.alu = 2 * a + c
  BY DEF ROL, Shifted, Outcome
<1>6. c \in 0 .. 1
  BY DEF One
<1> HIDE DEF o, c
<1>7. f'.C <=> 2 * a + c >= Word
  BY <1>2, <1>4, <1>6, Sizes
<1> QED BY <1>2, <1>5, <1>7 DEF a, b, c

LEMMA AtASR ==
  ASSUME TypeOK, NEW src \in Registers, NEW dst \in Registers, At("ASR", src, dst)
  PROVE  /\ Only(dst)
         /\ R'[dst] = (Signed(R[dst], Word) \div 2) % Word
         /\ f'.C <=> R[dst] % 2 = 1
<1> DEFINE a == R[dst]
           b == R[src]
           o == ASR(a, b, f, Word)
           e == Signed(a, Word) \div 2
<1>1. ALU(Op("ASR", src, dst), a, b) = o
  BY DEF ALU, Op, Logic
<1>2. Only(dst) /\ f' = o.f /\ R'[dst] = o.alu % Word
      /\ a \in 0 .. Word - 1 /\ b \in 0 .. Word - 1 /\ f \in Conditions
  BY <1>1, AtALU DEF Arithmetic, NoResult
<1> HIDE DEF a, b
<1>3. ShiftRight(a, b, f, Word)
  BY <1>2, ShiftsTell
<1>4. o.alu = e % Word /\ (o.f.C <=> a % 2 = 1)
  BY <1>3 DEF ShiftRight
<1>5. e \in Int
  BY <1>2, SignedTyped
<1> HIDE DEF o, e
<1>6. e % Word \in 0 .. Word - 1 /\ Word \in Nat \ {0}
  BY <1>5, Sizes
<1>7. (e % Word) % Word = e % Word
  BY <1>6, SelfRemainder
<1> QED BY <1>2, <1>4, <1>7 DEF a, b, e

LEMMA AtROR ==
  ASSUME TypeOK, NEW src \in Registers, NEW dst \in Registers, At("ROR", src, dst)
  PROVE  /\ Only(dst) /\ R'[dst] \in 0 .. Word - 1
         /\ 2 * R'[dst] + (R[dst] % 2) = R[dst] + One(f.C) * Word
         /\ f'.C <=> R[dst] % 2 = 1
<1> DEFINE a == R[dst]
           b == R[src]
           c == One(f.C)
           o == ROR(a, b, f, Word)
<1>1. ALU(Op("ROR", src, dst), a, b) = o
  BY DEF ALU, Op, Logic
<1>2. Only(dst) /\ f' = o.f /\ R'[dst] = o.alu % Word
      /\ a \in 0 .. Word - 1 /\ b \in 0 .. Word - 1 /\ f \in Conditions
  BY <1>1, AtALU DEF Arithmetic, NoResult
<1> HIDE DEF a, b
<1>3. PICK h \in Nat \ {0} : Word = 2 * h /\ Word \div 2 = h /\ Word \in Nat \ {0}
  BY SizesHalf, HalfOf DEF Half
<1>4. o.alu = (a \div 2) + c * h
  BY <1>3 DEF ROR, Shifted, Outcome
<1>5. o.f.C <=> a % 2 = 1
  BY DEF ROR, Shifted, Outcome
<1>6. c \in 0 .. 1
  BY DEF One
<1> HIDE DEF o, c
<1>7. a = 2 * (a \div 2) + (a % 2) /\ a \div 2 \in 0 .. h - 1 /\ a % 2 \in 0 .. 1
  BY <1>2, <1>3
<1>8. o.alu \in 0 .. Word - 1 /\ 2 * o.alu + (a % 2) = a + c * Word
  <2>1. CASE c = 0
    BY <1>2, <1>3, <1>4, <1>7, <2>1
  <2>2. CASE c = 1
    BY <1>2, <1>3, <1>4, <1>7, <2>2
  <2> QED BY <1>6, <2>1, <2>2
<1>9. o.alu % Word = o.alu
  BY <1>3, <1>8, SelfRemainder
<1> QED BY <1>2, <1>5, <1>8, <1>9 DEF a, b, c

LEMMA AtTST ==
  ASSUME TypeOK, NEW src \in Registers, NEW dst \in Registers, At("TST", src, dst)
  PROVE  Only(dst) /\ R'[dst] = R[dst] /\ (f'.N <=> Signed(R[dst], Word) < 0)
<1> DEFINE a == R[dst]
           b == R[src]
           o == TST(a, b, f, Word)
<1>1. ALU(Op("TST", src, dst), a, b) = o
  BY DEF ALU, Op, Logic
<1>2. Only(dst) /\ f' = o.f /\ R'[dst] = a /\ a \in 0 .. Word - 1
  BY <1>1, AtALU DEF Arithmetic, NoResult
<1>3. PICK h : Half(Word, h)
  BY SizesHalf
<1> HIDE DEF a, b
<1>4. Word \in Nat \ {0} /\ a \in Int
  BY <1>2, Sizes
<1>5. a % Word = a
  BY <1>2, <1>4, SelfRemainder
<1>6. Sign(a, Word) <=> Signed(a, Word) < 0
  BY <1>3, <1>4, <1>5, SignOf
<1>7. o.f.N <=> Sign(a, Word)
  BY DEF TST, Outcome
<1> QED BY <1>2, <1>6, <1>7 DEF a

LEMMA AtSXT ==
  ASSUME TypeOK, NEW src \in Registers, NEW dst \in Registers, At("SXT", src, dst)
  PROVE  Only(dst) /\ R'[dst] = IF f.N THEN Word - 1 ELSE 0
<1> DEFINE o == SXT(R[dst], R[src], f, Word)
           x == IF f.N THEN Wide - 1 ELSE 0
<1>1. ALU(Op("SXT", src, dst), R[dst], R[src]) = o
  BY DEF ALU, Op, Logic
<1>2. Only(dst) /\ R'[dst] = o.alu % Word
  BY <1>1, AtALU DEF Arithmetic, NoResult
<1>3. o.alu = x
  BY DEF SXT
<1> HIDE DEF o
<1>4. Word \in Nat \ {0} /\ Wide = Word * Word
  BY Sizes
<1>5. (Wide - 1) % Word = Word - 1
  <2>1. Wide - 1 = (Word - 1) * Word + (Word - 1) /\ Word - 1 \in Int /\ Word - 1 \in 0 .. Word - 1
    BY <1>4
  <2> DEFINE q == Word - 1
  <2>2. q \in Int /\ q \in 0 .. Word - 1
    BY <2>1
  <2> HIDE DEF q
  <2>3. (q * Word + q) % Word = q
    BY ONLY <1>4, <2>2, DivMod
  <2> QED BY <2>1, <2>3 DEF q
<1>6. 0 % Word = 0
  BY <1>4
<1> QED BY <1>2, <1>3, <1>5, <1>6

LEMMA AtMUL ==
  ASSUME TypeOK, NEW src \in Registers, NEW dst \in Registers, At("MUL", src, dst)
  PROVE  /\ StorePair(dst, MUL(R[dst], R[src], f).pair)
         /\ MUL(R[dst], R[src], f).pair \in 0 .. Wide - 1
         /\ pc' = pc + 1 /\ program' = program /\ start' = start
<1> DEFINE i == Op("MUL", src, dst)
<1>1. i \in Instruction /\ Execute(i)
  BY CodeTyped DEF TypeOK, At, Next
<1>2. i.op = "MUL" /\ i.src = src /\ i.dst = dst
  BY DEF Op
<1> HIDE DEF i
<1>3. ExecuteMUL(i)
  BY <1>1, <1>2 DEF Execute, ExecuteALU, ExecuteDIV, ExecuteASH, ExecuteASHC, ExecuteBranch,
                    ExecuteSOB, EIS, Branches
<1>4. pc' = pc + 1 /\ program' = program /\ start' = start
  BY <1>3 DEF ExecuteMUL, Go
<1> QED BY <1>1, <1>2, <1>3, <1>4, MULDoes

LEMMA AtDIV ==
  ASSUME TypeOK, NEW src \in Registers, NEW dst \in Registers, At("DIV", src, dst)
  PROVE  LET o == DIV(Pair(R, dst), R[src], f) IN
         /\ IF o.f.V THEN R' = R ELSE StorePair(dst, o.pair)
         /\ o.pair \in 0 .. Wide - 1
         /\ pc' = pc + 1 /\ program' = program /\ start' = start
<1> DEFINE i == Op("DIV", src, dst)
<1>1. i \in Instruction /\ Execute(i)
  BY CodeTyped DEF TypeOK, At, Next
<1>2. i.op = "DIV" /\ i.src = src /\ i.dst = dst
  BY DEF Op
<1> HIDE DEF i
<1>3. ExecuteDIV(i)
  BY <1>1, <1>2 DEF Execute, ExecuteALU, ExecuteMUL, ExecuteASH, ExecuteASHC, ExecuteBranch,
                    ExecuteSOB, EIS, Branches
<1>4. pc' = pc + 1 /\ program' = program /\ start' = start
  BY <1>3 DEF ExecuteDIV, Go
<1> QED BY <1>1, <1>2, <1>3, <1>4, DIVDoes

LEMMA AtASH ==
  ASSUME TypeOK, NEW src \in Registers, NEW dst \in Registers, At("ASH", src, dst)
  PROVE  LET o == Shift(R[dst], R[src], f, Word) IN
         /\ Only(dst) /\ R'[dst] = o.alu % Word /\ f' = o.f
<1> DEFINE i == Op("ASH", src, dst)
<1>1. i \in Instruction /\ Execute(i)
  BY CodeTyped DEF TypeOK, At, Next
<1>2. i.op = "ASH" /\ i.src = src /\ i.dst = dst
  BY DEF Op
<1> HIDE DEF i
<1>3. ExecuteASH(i)
  BY <1>1, <1>2 DEF Execute, ExecuteALU, ExecuteMUL, ExecuteDIV, ExecuteASHC, ExecuteBranch,
                    ExecuteSOB, EIS, Branches
<1>4. pc' = pc + 1 /\ program' = program /\ start' = start
  BY <1>3 DEF ExecuteASH, Go
<1> DEFINE o == Shift(R[dst], R[src], f, Word)
           x == o.alu % Word
<1>5. R' = [R EXCEPT ![dst] = x] /\ f' = o.f
  BY <1>2, <1>3 DEF ExecuteASH
<1> HIDE DEF o, x
<1>6. R'[dst] = x /\ \A q \in Registers \ {dst} : R'[q] = R[q]
  BY <1>5 DEF TypeOK
<1> QED BY <1>4, <1>5, <1>6 DEF Only, o, x

LEMMA AtASHC ==
  ASSUME TypeOK, NEW src \in Registers, NEW dst \in Registers, At("ASHC", src, dst)
  PROVE  LET o == Shift(Pair(R, dst), R[src], f, Wide) IN
         /\ StorePair(dst, o.alu) /\ o.alu \in 0 .. Wide - 1 /\ f' = o.f
         /\ pc' = pc + 1 /\ program' = program /\ start' = start
<1> DEFINE i == Op("ASHC", src, dst)
<1>1. i \in Instruction /\ Execute(i)
  BY CodeTyped DEF TypeOK, At, Next
<1>2. i.op = "ASHC" /\ i.src = src /\ i.dst = dst
  BY DEF Op
<1> HIDE DEF i
<1>3. ExecuteASHC(i)
  BY <1>1, <1>2 DEF Execute, ExecuteALU, ExecuteMUL, ExecuteDIV, ExecuteASH, ExecuteBranch,
                    ExecuteSOB, EIS, Branches
<1>4. pc' = pc + 1 /\ program' = program /\ start' = start
  BY <1>3 DEF ExecuteASHC, Go
<1> QED BY <1>1, <1>2, <1>3, <1>4, ASHCDoes

LEMMA AtSOB ==
  ASSUME TypeOK, NEW src \in Registers, NEW dst \in Registers, At("SOB", src, dst)
  PROVE  /\ R'[dst] = (R[dst] - 1) % Word
         /\ \A q \in Registers \ {dst} : R'[q] = R[q]
         /\ pc' = IF R'[dst] # 0 THEN 1 ELSE pc + 1
         /\ program' = program /\ start' = start
<1> DEFINE i == Op("SOB", src, dst)
<1>1. i \in Instruction /\ Execute(i)
  BY CodeTyped DEF TypeOK, At, Next
<1>2. i.op = "SOB" /\ i.src = src /\ i.dst = dst
  BY DEF Op
<1> HIDE DEF i
<1>3. ExecuteSOB(i)
  BY <1>1, <1>2 DEF Execute, ExecuteALU, ExecuteMUL, ExecuteDIV, ExecuteASH, ExecuteASHC,
                    ExecuteBranch, EIS, Branches
<1>4. taken' = (R'[dst] # 0) /\ pc' = (IF taken' THEN 1 ELSE pc + 1)
      /\ program' = program /\ start' = start
  BY <1>2, <1>3 DEF ExecuteSOB, Go
<1> QED BY <1>1, <1>2, <1>3, <1>4, SOBDoes
-----------------------------------------------------------------------------
(* Numbers of two words.                                                    *)

LEMMA RemainderAdds ==
  ASSUME NEW n \in Nat \ {0}, NEW x \in Int, NEW y \in Int
  PROVE  ((x % n) + y) % n = (x + y) % n
<1> DEFINE q == x \div n
           r == x % n
<1>1. q \in Int /\ r \in 0 .. n - 1 /\ r \in Int /\ x = q * n + r
  BY Divided
<1> HIDE DEF q, r
<1> DEFINE u == r + y
           v == x + y
<1>2. u \in Int /\ v \in Int /\ v = u + q * n
  BY <1>1
<1> HIDE DEF u, v
<1>3. v % n = u % n
  BY <1>1, <1>2, SameRemainder
<1> QED BY <1>3 DEF u, v, r

\* A number of two words whose low word is l with carry c.
LEMMA PairOf ==
  ASSUME NEW H \in Int, NEW c \in Int, NEW l \in 0 .. Word - 1
  PROVE  ((H + c) % Word) * Word + l = (H * Word + (c * Word + l)) % Wide
<1> DEFINE x == H + c
           k == x \div Word
           t == x % Word
<1>1. Word \in Nat \ {0} /\ Wide = Word * Word /\ Wide \in Nat \ {0} /\ x \in Int /\ l \in Int
  BY Sizes
<1>2. k \in Int /\ t \in 0 .. Word - 1 /\ x = k * Word + t
  <2> HIDE DEF x
  <2> QED BY <1>1, Divided
<1> HIDE DEF k, t
<1> DEFINE y == t * Word + l
           z == H * Word + (c * Word + l)
<1>3. z = x * Word + l
  BY <1>1
<1>4. x * Word = k * Wide + t * Word
  <2> HIDE DEF x
  <2>1. (k * Word + t) * Word = k * (Word * Word) + t * Word
    BY <1>1, <1>2
  <2> QED BY <1>1, <1>2, <2>1
<1>5. y \in 0 .. Wide - 1
  <2>1. t * Word \in Nat /\ t * Word <= (Word - 1) * Word /\ (Word - 1) * Word = Wide - Word
    BY <1>1, <1>2
  <2> QED BY <1>1, <2>1
<1>6. z = k * Wide + y
  <2>1. k * Wide \in Int /\ t * Word \in Int
    BY <1>1, <1>2
  <2> HIDE DEF x
  <2> QED BY <1>1, <1>3, <1>4, <2>1
<1> HIDE DEF y, z
<1>7. (k * Wide + y) % Wide = y
  BY <1>1, <1>2, <1>5, DivMod
<1> QED BY <1>6, <1>7 DEF y, z, t

\* The signed number of a pair.
LEMMA SignedPair ==
  ASSUME NEW x \in 0 .. Word - 1, NEW y \in 0 .. Word - 1
  PROVE  x * Word + y \in 0 .. Wide - 1
         /\ Signed(x * Word + y, Wide) = Signed(x, Word) * Word + y
<1>1. PICK h \in Nat \ {0}, w \in Nat \ {0} : Half(Word, h) /\ Half(Wide, w) /\ w = h * Word
  BY SizesHalf
<1>2. Word = 2 * h /\ Wide = 2 * w /\ Word \in Nat \ {0} /\ Wide = Word * Word
  BY <1>1, Sizes DEF Half
<1> DEFINE u == x * Word
           p == u + y
<1>3. u \in Nat /\ u <= (Word - 1) * Word /\ (Word - 1) * Word = Wide - Word
  BY <1>2
<1> HIDE DEF u
<1>4. p \in 0 .. Wide - 1
  BY <1>2, <1>3
<1>5. Signed(p, Wide) = IF p < w THEN p ELSE p - Wide
  <2> HIDE DEF p
  <2> QED BY <1>1, <1>4, SignedOf
<1>6. Signed(x, Word) = IF x < h THEN x ELSE x - Word
  BY <1>1, SignedOf
<1>7. CASE x < h
  <2>1. u <= (h - 1) * Word /\ (h - 1) * Word = w - Word
    BY <1>1, <1>2, <1>7 DEF u
  <2>2. p < w
    BY <1>2, <1>3, <2>1
  <2> QED BY <1>4, <1>5, <1>6, <1>7, <2>2 DEF u
<1>8. CASE x >= h
  <2>1. u >= w
    BY <1>1, <1>2, <1>8 DEF u
  <2>2. ~(p < w)
    BY <1>1, <1>2, <1>3, <2>1
  <2>3. (x - Word) * Word = u - Wide
    BY <1>2 DEF u
  <2>4. ~(x < h)
    BY <1>2, <1>8
  <2>5. Signed(p, Wide) = p - Wide /\ Signed(x, Word) = x - Word
    BY <1>5, <1>6, <2>2, <2>4
  <2>6. p - Wide = (u - Wide) + y
    BY <1>2, <1>3
  <2> QED BY <1>4, <2>3, <2>5, <2>6 DEF u
<1> QED BY <1>2, <1>7, <1>8
-----------------------------------------------------------------------------
(* The programs on two words.                                               *)

\* A low word without its carry.
LEMMA Carried ==
  ASSUME NEW L \in Int, NEW c \in Int, c * Word <= L, L < c * Word + Word
  PROVE  L % Word \in 0 .. Word - 1 /\ L = c * Word + (L % Word)
<1> DEFINE l == L - c * Word
<1>1. Word \in Nat \ {0} /\ l \in 0 .. Word - 1 /\ L = c * Word + l
  BY Sizes
<1> HIDE DEF l
<1>2. (c * Word + l) % Word = l
  BY <1>1, DivMod
<1> QED BY <1>1, <1>2

LEMMA PairsAdd ==
  ASSUME NEW s0 \in 0 .. Word - 1, NEW s1 \in 0 .. Word - 1,
         NEW s2 \in 0 .. Word - 1, NEW s3 \in 0 .. Word - 1
  PROVE  ((((s0 + One(s1 + s3 >= Word)) % Word) + s2) % Word) * Word + ((s1 + s3) % Word)
           = ((s0 * Word + s1) + (s2 * Word + s3)) % Wide
<1> DEFINE c == One(s1 + s3 >= Word)
           L == s1 + s3
           H == s0 + s2
<1>1. Word \in Nat \ {0} /\ s0 \in Int /\ s1 \in Int /\ s2 \in Int /\ s3 \in Int
  BY Sizes
<1>2. c \in Int /\ c * Word <= L /\ L < c * Word + Word /\ L \in Int /\ H \in Int
  BY <1>1 DEF One
<1>3. H * Word + L = (s0 * Word + s1) + (s2 * Word + s3)
  BY <1>1
<1> HIDE DEF c, L
<1>4. L % Word \in 0 .. Word - 1 /\ L = c * Word + (L % Word)
  BY <1>2, Carried
<1> DEFINE x == s0 + c
<1>5. x \in Int /\ x + s2 = H + c
  BY <1>1, <1>2
<1> HIDE DEF x, H
<1>6. ((x % Word) + s2) % Word = (H + c) % Word
  <2>1. ((x % Word) + s2) % Word = (x + s2) % Word
    BY <1>1, <1>5, RemainderAdds
  <2> QED BY <1>5, <2>1
<1> DEFINE l == L % Word
<1>7. l \in 0 .. Word - 1 /\ L = c * Word + l
  BY <1>4
<1> HIDE DEF l
<1>8. ((H + c) % Word) * Word + l = (H * Word + (c * Word + l)) % Wide
  BY <1>2, <1>7, PairOf
<1> QED BY <1>3, <1>6, <1>7, <1>8 DEF x, l, L, c

LEMMA PairsSubtract ==
  ASSUME NEW s0 \in 0 .. Word - 1, NEW s1 \in 0 .. Word - 1,
         NEW s2 \in 0 .. Word - 1, NEW s3 \in 0 .. Word - 1
  PROVE  ((((s0 - One(s1 < s3)) % Word) - s2) % Word) * Word + ((s1 - s3) % Word)
           = ((s0 * Word + s1) - (s2 * Word + s3)) % Wide
<1> DEFINE c == -One(s1 < s3)
           L == s1 - s3
           H == s0 - s2
           e == -s2
<1>1. Word \in Nat \ {0} /\ s0 \in Int /\ s1 \in Int /\ s2 \in Int /\ s3 \in Int /\ e \in Int
  BY Sizes
<1>2. c \in Int /\ c * Word <= L /\ L < c * Word + Word /\ L \in Int /\ H \in Int
  BY <1>1 DEF One
<1>3. H * Word + L = (s0 * Word + s1) - (s2 * Word + s3)
  BY <1>1
<1> DEFINE x == s0 - One(s1 < s3)
<1>5. x \in Int /\ x + e = H + c
  BY <1>1, <1>2 DEF One
<1> HIDE DEF c, L, H
<1>4. L % Word \in 0 .. Word - 1 /\ L = c * Word + (L % Word)
  BY <1>2, Carried
<1>6. ((x % Word) - s2) % Word = (H + c) % Word
  <2> HIDE DEF x
  <2>1. ((x % Word) + e) % Word = (x + e) % Word
    <3> HIDE DEF e
    <3> QED BY <1>1, <1>5, RemainderAdds
  <2>2. (x % Word) + e = (x % Word) - s2
    BY <1>1, <1>5
  <2> QED BY <1>5, <2>1, <2>2
<1> DEFINE l == L % Word
<1>7. l \in 0 .. Word - 1 /\ L = c * Word + l
  BY <1>4
<1> HIDE DEF l, x
<1>8. ((H + c) % Word) * Word + l = (H * Word + (c * Word + l)) % Wide
  BY <1>2, <1>7, PairOf
<1> QED BY <1>3, <1>6, <1>7, <1>8 DEF x, l, L

LEMMA PairsNegate ==
  ASSUME NEW s0 \in 0 .. Word - 1, NEW s1 \in 0 .. Word - 1
  PROVE  ((((-s0) % Word) - One(s1 # 0)) % Word) * Word + ((-s1) % Word)
           = (-(s0 * Word + s1)) % Wide
<1> DEFINE c == -One(s1 # 0)
           L == -s1
           H == -s0
<1>1. Word \in Nat \ {0} /\ s0 \in Int /\ s1 \in Int
  BY Sizes
<1>2. c \in Int /\ c * Word <= L /\ L < c * Word + Word /\ L \in Int /\ H \in Int
  BY <1>1 DEF One
<1>3. H * Word + L = -(s0 * Word + s1)
  BY <1>1
<1>5. \A y \in Int : y + c = y - One(s1 # 0)
  BY <1>2 DEF One
<1> HIDE DEF c, L, H
<1>4. L % Word \in 0 .. Word - 1 /\ L = c * Word + (L % Word)
  BY <1>2, Carried
<1>6. ((H % Word) - One(s1 # 0)) % Word = (H + c) % Word
  <2>1. ((H % Word) + c) % Word = (H + c) % Word
    BY <1>1, <1>2, RemainderAdds
  <2>2. H % Word \in Int
    BY <1>1, <1>2
  <2> QED BY <1>5, <2>1, <2>2
<1> DEFINE l == L % Word
<1>7. l \in 0 .. Word - 1 /\ L = c * Word + l
  BY <1>4
<1> HIDE DEF l
<1>8. ((H + c) % Word) * Word + l = (H * Word + (c * Word + l)) % Wide
  BY <1>2, <1>7, PairOf
<1> QED BY <1>3, <1>6, <1>7, <1>8 DEF l, L, H

LEMMA PairsDouble ==
  ASSUME NEW s0 \in 0 .. Word - 1, NEW s1 \in 0 .. Word - 1
  PROVE  LET c == One(2 * s1 >= Word) IN
         /\ ((2 * s0 + c) % Word) * Word + ((2 * s1) % Word) = (2 * (s0 * Word + s1)) % Wide
         /\ 2 * s0 + c >= Word <=> 2 * (s0 * Word + s1) >= Wide
<1> DEFINE c == One(2 * s1 >= Word)
           L == 2 * s1
           H == 2 * s0
<1>1. Word \in Nat \ {0} /\ Wide = Word * Word /\ s0 \in Int /\ s1 \in Int
  BY Sizes
<1>2. c \in Int /\ c * Word <= L /\ L < c * Word + Word /\ L \in Int /\ H \in Int
  BY <1>1 DEF One
<1>3. H * Word + L = 2 * (s0 * Word + s1)
  BY <1>1
<1> HIDE DEF c, L, H
<1>4. L % Word \in 0 .. Word - 1 /\ L = c * Word + (L % Word)
  BY <1>2, Carried
<1> DEFINE l == L % Word
<1>7. l \in 0 .. Word - 1 /\ L = c * Word + l
  BY <1>4
<1> HIDE DEF l
<1>8. ((H + c) % Word) * Word + l = (H * Word + (c * Word + l)) % Wide
  BY <1>2, <1>7, PairOf
<1>9. H + c >= Word <=> H * Word + L >= Wide
  <2> DEFINE x == H + c
             y == x * Word
  <2>1. H * Word + L = y + l /\ x \in Int /\ y \in Int
    BY <1>1, <1>2, <1>7
  <2> HIDE DEF x
  <2>2. ASSUME x >= Word PROVE y >= Wide
    BY <1>1, <2>1, <2>2
  <2>3. ASSUME x <= Word - 1 PROVE y <= Wide - Word
    <3>1. x * Word <= (Word - 1) * Word /\ (Word - 1) * Word = Wide - Word
      BY <1>1, <2>1, <2>3
    <3> QED BY <3>1
  <2> HIDE DEF y
  <2>4. x >= Word <=> y + l >= Wide
    BY <1>1, <1>7, <2>1, <2>2, <2>3
  <2> QED BY <2>1, <2>4 DEF x
<1> QED BY <1>3, <1>7, <1>8, <1>9 DEF l, L, H, c

\* r is what ROR leaves of the low word.
LEMMA PairsHalve ==
  ASSUME NEW s0 \in 0 .. Word - 1, NEW s1 \in 0 .. Word - 1, NEW r \in 0 .. Word - 1,
         2 * r + (s1 % 2) = s1 + One(s0 % 2 = 1) * Word
  PROVE  /\ ((Signed(s0, Word) \div 2) % Word) * Word + r
              = (Signed(s0 * Word + s1, Wide) \div 2) % Wide
         /\ s1 % 2 = (s0 * Word + s1) % 2
<1> DEFINE x == Signed(s0, Word)
           e == x \div 2
           c == One(s0 % 2 = 1)
           b == s1 % 2
<1>1. PICK h \in Nat \ {0} : Word = 2 * h /\ Half(Word, h)
  BY SizesHalf DEF Half
<1>2. x = (IF s0 < h THEN s0 ELSE s0 - Word) /\ x \in Int
  <2>1. x = (IF s0 < h THEN s0 ELSE s0 - Word)
    BY <1>1, SignedOf
  <2> QED BY <1>1, <2>1
<1>3. c \in 0 .. 1 /\ b \in 0 .. 1 /\ s1 \in Int /\ s0 \in Int /\ Word \in Int /\ Word \in Nat \ {0}
  BY <1>1 DEF One
<1>4. x = 2 * e + c /\ e \in Int
  <2>1. x % 2 = s0 % 2
    <3>1. CASE s0 < h
      BY <1>2, <3>1
    <3>2. CASE s0 >= h
      <4>1. x = s0 + (-h) * 2 /\ -h \in Int
        BY <1>1, <1>2, <3>2
      <4> HIDE DEF x
      <4> QED BY <1>2, <1>3, <4>1, SameRemainder
    <3> QED BY <1>1, <3>1, <3>2
  <2> HIDE DEF x
  <2>2. x = (x \div 2) * 2 + (x % 2) /\ x \div 2 \in Int /\ x % 2 \in 0 .. 1
    BY <1>2
  <2>3. s0 % 2 = c
    BY <1>3, <2>1, <2>2 DEF One
  <2> QED BY <2>1, <2>2, <2>3
<1>5. Signed(s0 * Word + s1, Wide) = x * Word + s1
  BY SignedPair
<1> DEFINE z == e * Word + r
           w == x * Word + s1
<1>6. w = z * 2 + b /\ z \in Int
  <2> HIDE DEF x, e, c, b
  <2> DEFINE u == e * Word
  <2>1. x * Word = 2 * u + c * Word /\ u \in Int
    BY <1>3, <1>4
  <2>2. 2 * r + b = s1 + c * Word
    BY DEF b, c
  <2>3. c * Word \in Int
    BY <1>3
  <2> HIDE DEF u
  <2>4. x * Word + s1 = 2 * (u + r) + b
    BY <1>3, <2>1, <2>2, <2>3
  <2> QED BY <1>3, <2>1, <2>4 DEF u
<1>7. w \div 2 = z
  <2> HIDE DEF z, w, b
  <2>1. (z * 2 + b) \div 2 = z
    BY <1>3, <1>6, DivMod
  <2> QED BY <1>6, <2>1
<1>8. ((e + 0) % Word) * Word + r = (e * Word + (0 * Word + r)) % Wide
  <2> HIDE DEF e
  <2> QED BY <1>4, PairOf
<1>9. (e % Word) * Word + r = z % Wide
  <2> HIDE DEF e
  <2> QED BY <1>3, <1>4, <1>8
<1>10. s1 % 2 = (s0 * Word + s1) % 2
  <2> DEFINE k == s0 * h
             y == s0 * Word + s1
  <2>1. k \in Int /\ y \in Int /\ y = s1 + k * 2
    BY <1>1, <1>3
  <2> HIDE DEF k, y
  <2>2. y % 2 = s1 % 2
    BY <1>3, <2>1, SameRemainder
  <2> QED BY <2>2 DEF y
<1> QED BY <1>5, <1>7, <1>9, <1>10

LEMMA PairsExtend ==
  ASSUME NEW s1 \in 0 .. Word - 1
  PROVE  Signed((IF Signed(s1, Word) < 0 THEN Word - 1 ELSE 0) * Word + s1, Wide) = Signed(s1, Word)
<1> DEFINE v == Signed(s1, Word)
           x == IF v < 0 THEN Word - 1 ELSE 0
<1>1. PICK h \in Nat \ {0} : Word = 2 * h /\ Half(Word, h) /\ Word \in Nat \ {0}
  BY SizesHalf, HalfOf DEF Half
<1>2. v = IF s1 < h THEN s1 ELSE s1 - Word
  BY <1>1, SignedOf
<1>3. x \in 0 .. Word - 1
  BY <1>1
<1>4. Signed(x, Word) = IF x < h THEN x ELSE x - Word
  <2> HIDE DEF x
  <2> QED BY <1>1, <1>3, SignedOf
<1>5. Signed(x * Word + s1, Wide) = Signed(x, Word) * Word + s1
  <2> HIDE DEF x
  <2> QED BY <1>3, SignedPair
<1>6. CASE s1 < h
  <2>1. v = s1 /\ x = 0
    BY <1>1, <1>2, <1>6
  <2>2. Signed(x, Word) = 0
    BY <1>1, <1>4, <2>1
  <2> QED BY <1>1, <1>5, <2>1, <2>2
<1>7. CASE s1 >= h
  <2>1. v = s1 - Word /\ v < 0
    BY <1>1, <1>2, <1>7
  <2>2. x = Word - 1
    BY <2>1
  <2>3. Signed(x, Word) = -1
    BY <1>1, <1>4, <2>2
  <2>4. (-1) * Word + s1 = v
    BY <1>1, <2>1
  <2> QED BY <1>5, <2>3, <2>4
<1> QED BY <1>1, <1>6, <1>7
-----------------------------------------------------------------------------
(* What is known of a program at each of its instructions.                   *)

LEMMA Codes ==
  ASSUME TypeOK
  PROVE  /\ program.name \in {"single", "compare"} \/ program \in Longer
         /\ program.name = "add" => program.code = <<Op("ADD", 3, 1), Op("ADC", 0, 0), Op("ADD", 2, 0)>>
         /\ program.name = "subtract" => program.code = <<Op("SUB", 3, 1), Op("SBC", 0, 0), Op("SUB", 2, 0)>>
         /\ program.name = "negate" => program.code = <<Op("NEG", 0, 0), Op("NEG", 1, 1), Op("SBC", 0, 0)>>
         /\ program.name = "double" => program.code = <<Op("ASL", 1, 1), Op("ROL", 0, 0)>>
         /\ program.name = "halve" => program.code = <<Op("ASR", 0, 0), Op("ROR", 1, 1)>>
         /\ program.name = "extend" => program.code = <<Op("TST", 1, 1), Op("SXT", 0, 0)>>
         /\ program.name = "product" => program.code = <<Op("MUL", 2, 0), Op("DIV", 2, 0)>>
         /\ program.name = "loop" => program.code = <<Op("ADD", 2, 0), Op("SOB", 1, 1)>>
         /\ program.name = "shift" => program.code = <<Op("ASH", 2, 0)>>
         /\ program.name = "shift_pair" => program.code = <<Op("ASHC", 2, 0)>>
<1> DEFINE c0 == <<Op("ADD", 3, 1), Op("ADC", 0, 0), Op("ADD", 2, 0)>>
           c1 == <<Op("SUB", 3, 1), Op("SBC", 0, 0), Op("SUB", 2, 0)>>
           c2 == <<Op("NEG", 0, 0), Op("NEG", 1, 1), Op("SBC", 0, 0)>>
           c3 == <<Op("ASL", 1, 1), Op("ROL", 0, 0)>>
           c4 == <<Op("ASR", 0, 0), Op("ROR", 1, 1)>>
           c5 == <<Op("TST", 1, 1), Op("SXT", 0, 0)>>
           c6 == <<Op("MUL", 2, 0), Op("DIV", 2, 0)>>
           c7 == <<Op("ADD", 2, 0), Op("SOB", 1, 1)>>
           c8 == <<Op("ASH", 2, 0)>>
           c9 == <<Op("ASHC", 2, 0)>>
<1>1. program.name = "single" \/ program \in Comparisons \cup Longer
  BY ProgramsAssumption DEF TypeOK
<1>2. program \in Comparisons => program.name = "compare"
  BY DEF Comparisons
<1>3. CASE program \in Longer
  <2>1. program \in {[name |-> "add", code |-> c0],
                   [name |-> "subtract", code |-> c1],
                   [name |-> "negate", code |-> c2],
                   [name |-> "double", code |-> c3],
                   [name |-> "halve", code |-> c4],
                   [name |-> "extend", code |-> c5],
                   [name |-> "product", code |-> c6],
                   [name |-> "loop", code |-> c7],
                   [name |-> "shift", code |-> c8],
                   [name |-> "shift_pair", code |-> c9]}
    BY <1>3, Zenon DEF Longer
  <2> HIDE DEF c0, c1, c2, c3, c4, c5, c6, c7, c8, c9
  <2>2. /\ program.name = "add" => program.code = c0
        /\ program.name = "subtract" => program.code = c1
        /\ program.name = "negate" => program.code = c2
        /\ program.name = "double" => program.code = c3
        /\ program.name = "halve" => program.code = c4
        /\ program.name = "extend" => program.code = c5
        /\ program.name = "product" => program.code = c6
        /\ program.name = "loop" => program.code = c7
        /\ program.name = "shift" => program.code = c8
        /\ program.name = "shift_pair" => program.code = c9
    <3>1. CASE program = [name |-> "add", code |-> c0]
      BY <3>1
    <3>2. CASE program = [name |-> "subtract", code |-> c1]
      BY <3>2
    <3>3. CASE program = [name |-> "negate", code |-> c2]
      BY <3>3
    <3>4. CASE program = [name |-> "double", code |-> c3]
      BY <3>4
    <3>5. CASE program = [name |-> "halve", code |-> c4]
      BY <3>5
    <3>6. CASE program = [name |-> "extend", code |-> c5]
      BY <3>6
    <3>7. CASE program = [name |-> "product", code |-> c6]
      BY <3>7
    <3>8. CASE program = [name |-> "loop", code |-> c7]
      BY <3>8
    <3>9. CASE program = [name |-> "shift", code |-> c8]
      BY <3>9
    <3>10. CASE program = [name |-> "shift_pair", code |-> c9]
      BY <3>10
    <3> QED BY <2>1, <3>1, <3>2, <3>3, <3>4, <3>5, <3>6, <3>7, <3>8, <3>9, <3>10, Zenon
  <2> QED BY <1>3, <2>2 DEF c0, c1, c2, c3, c4, c5, c6, c7, c8, c9
<1>4. CASE program.name \in {"single", "compare"}
  BY <1>4
<1> QED BY <1>1, <1>2, <1>3, <1>4

KnownAdd ==
  /\ pc = 1 => R = start
  /\ pc = 2 => R[0] = start[0] /\ R[2] = start[2] /\ R[1] = (start[1] + start[3]) % Word
            /\ (f.C <=> start[1] + start[3] >= Word)
  /\ pc = 3 => R[2] = start[2] /\ R[1] = (start[1] + start[3]) % Word
            /\ R[0] = (start[0] + One(start[1] + start[3] >= Word)) % Word
  /\ pc = 4 => Pair(R, 0) = (Pair(start, 0) + Pair(start, 2)) % Wide

KnownSubtract ==
  /\ pc = 1 => R = start
  /\ pc = 2 => R[0] = start[0] /\ R[2] = start[2] /\ R[1] = (start[1] - start[3]) % Word
            /\ (f.C <=> start[1] < start[3])
  /\ pc = 3 => R[2] = start[2] /\ R[1] = (start[1] - start[3]) % Word
            /\ R[0] = (start[0] - One(start[1] < start[3])) % Word
  /\ pc = 4 => Pair(R, 0) = (Pair(start, 0) - Pair(start, 2)) % Wide

KnownNegate ==
  /\ pc = 1 => R = start
  /\ pc = 2 => R[1] = start[1] /\ R[0] = (-start[0]) % Word
  /\ pc = 3 => R[1] = (-start[1]) % Word /\ R[0] = (-start[0]) % Word /\ (f.C <=> start[1] # 0)
  /\ pc = 4 => Pair(R, 0) = (-Pair(start, 0)) % Wide

KnownDouble ==
  /\ pc = 1 => R = start
  /\ pc = 2 => R[0] = start[0] /\ R[1] = (2 * start[1]) % Word /\ (f.C <=> 2 * start[1] >= Word)
  /\ pc = 3 => Pair(R, 0) = (2 * Pair(start, 0)) % Wide /\ (f.C <=> 2 * Pair(start, 0) >= Wide)

KnownHalve ==
  /\ pc = 1 => R = start
  /\ pc = 2 => R[1] = start[1] /\ R[0] = (Signed(start[0], Word) \div 2) % Word
            /\ (f.C <=> start[0] % 2 = 1)
  /\ pc = 3 => Pair(R, 0) = (Signed(Pair(start, 0), Wide) \div 2) % Wide
            /\ (f.C <=> Pair(start, 0) % 2 = 1)

KnownExtend ==
  /\ pc = 1 => R = start
  /\ pc = 2 => R[1] = start[1] /\ (f.N <=> Signed(start[1], Word) < 0)
  /\ pc = 3 => Signed(Pair(R, 0), Wide) = Signed(start[1], Word)

LEMMA AddGoes ==
  ASSUME TypeOK, program.name = "add", KnownAdd, Next
  PROVE  KnownAdd'
<1>1. program.code = <<Op("ADD", 3, 1), Op("ADC", 0, 0), Op("ADD", 2, 0)>> /\ pc \in 1 .. 3
  BY Codes DEF TypeOK, Next
<1>2. /\ 0 \in Registers /\ 1 \in Registers /\ 2 \in Registers /\ 3 \in Registers
      /\ \A q \in Registers : start[q] \in 0 .. Word - 1
  BY DEF Registers, TypeOK
<1>3. CASE pc = 1
  <2>1. At("ADD", 3, 1)
    BY <1>1, <1>3 DEF At
  <2>2. R = start
    BY <1>3 DEF KnownAdd
  <2>3. Only(1) /\ R'[1] = (R[1] + R[3]) % Word /\ (f'.C <=> R[1] + R[3] >= Word)
    BY <1>2, <2>1, AtADD
  <2>4. pc' = 2 /\ start' = start
    BY <1>3, <2>3 DEF Only
  <2>5. R'[0] = start[0] /\ R'[2] = start[2] /\ R'[1] = (start[1] + start[3]) % Word
            /\ (f'.C <=> start[1] + start[3] >= Word)
    BY <1>2, <2>2, <2>3 DEF Only, Registers
  <2> QED BY <2>4, <2>5 DEF KnownAdd
<1>4. CASE pc = 2
  <2>1. At("ADC", 0, 0)
    BY <1>1, <1>4 DEF At
  <2>2. R[0] = start[0] /\ R[2] = start[2] /\ R[1] = (start[1] + start[3]) % Word
        /\ (f.C <=> start[1] + start[3] >= Word)
    BY <1>4 DEF KnownAdd
  <2>3. Only(0) /\ R'[0] = (R[0] + One(f.C)) % Word
    BY <1>2, <2>1, AtADC
  <2>4. pc' = 3 /\ start' = start
    BY <1>4, <2>3 DEF Only
  <2>6. One(f.C) = One(start[1] + start[3] >= Word)
    BY <2>2 DEF One
  <2>5. R'[2] = start[2] /\ R'[1] = (start[1] + start[3]) % Word
            /\ R'[0] = (start[0] + One(start[1] + start[3] >= Word)) % Word
    BY <1>2, <2>2, <2>3, <2>6 DEF Only, Registers
  <2> QED BY <2>4, <2>5 DEF KnownAdd
<1>5. CASE pc = 3
  <2>1. At("ADD", 2, 0)
    BY <1>1, <1>5 DEF At
  <2>2. R[2] = start[2] /\ R[1] = (start[1] + start[3]) % Word
        /\ R[0] = (start[0] + One(start[1] + start[3] >= Word)) % Word
    BY <1>5 DEF KnownAdd
  <2>3. Only(0) /\ R'[0] = (R[0] + R[2]) % Word /\ (f'.C <=> R[0] + R[2] >= Word)
    BY <1>2, <2>1, AtADD
  <2>4. pc' = 4 /\ start' = start
    BY <1>5, <2>3 DEF Only
  <2>5. Pair(R', 0) = (Pair(start, 0) + Pair(start, 2)) % Wide
    <3>1. Partner(0) = 1 /\ Partner(2) = 3
      BY DEF Partner
    <3> QED BY <1>2, <2>2, <2>3, <3>1, PairsAdd DEF Only, Registers, Pair
  <2> QED BY <2>4, <2>5 DEF KnownAdd, Pair
<1> QED BY <1>1, <1>3, <1>4, <1>5

LEMMA SubtractGoes ==
  ASSUME TypeOK, program.name = "subtract", KnownSubtract, Next
  PROVE  KnownSubtract'
<1>1. program.code = <<Op("SUB", 3, 1), Op("SBC", 0, 0), Op("SUB", 2, 0)>> /\ pc \in 1 .. 3
  BY Codes DEF TypeOK, Next
<1>2. /\ 0 \in Registers /\ 1 \in Registers /\ 2 \in Registers /\ 3 \in Registers
      /\ \A q \in Registers : start[q] \in 0 .. Word - 1
  BY DEF Registers, TypeOK
<1>3. CASE pc = 1
  <2>1. At("SUB", 3, 1)
    BY <1>1, <1>3 DEF At
  <2>2. R = start
    BY <1>3 DEF KnownSubtract
  <2>3. Only(1) /\ R'[1] = (R[1] - R[3]) % Word /\ (f'.C <=> R[1] < R[3])
    BY <1>2, <2>1, AtSUB
  <2>4. pc' = 2 /\ start' = start
    BY <1>3, <2>3 DEF Only
  <2>5. R'[0] = start[0] /\ R'[2] = start[2] /\ R'[1] = (start[1] - start[3]) % Word
            /\ (f'.C <=> start[1] < start[3])
    BY <1>2, <2>2, <2>3 DEF Only, Registers
  <2> QED BY <2>4, <2>5 DEF KnownSubtract
<1>4. CASE pc = 2
  <2>1. At("SBC", 0, 0)
    BY <1>1, <1>4 DEF At
  <2>2. R[0] = start[0] /\ R[2] = start[2] /\ R[1] = (start[1] - start[3]) % Word
        /\ (f.C <=> start[1] < start[3])
    BY <1>4 DEF KnownSubtract
  <2>3. Only(0) /\ R'[0] = (R[0] - One(f.C)) % Word
    BY <1>2, <2>1, AtSBC
  <2>4. pc' = 3 /\ start' = start
    BY <1>4, <2>3 DEF Only
  <2>6. One(f.C) = One(start[1] < start[3])
    BY <2>2 DEF One
  <2>5. R'[2] = start[2] /\ R'[1] = (start[1] - start[3]) % Word
            /\ R'[0] = (start[0] - One(start[1] < start[3])) % Word
    BY <1>2, <2>2, <2>3, <2>6 DEF Only, Registers
  <2> QED BY <2>4, <2>5 DEF KnownSubtract
<1>5. CASE pc = 3
  <2>1. At("SUB", 2, 0)
    BY <1>1, <1>5 DEF At
  <2>2. R[2] = start[2] /\ R[1] = (start[1] - start[3]) % Word
        /\ R[0] = (start[0] - One(start[1] < start[3])) % Word
    BY <1>5 DEF KnownSubtract
  <2>3. Only(0) /\ R'[0] = (R[0] - R[2]) % Word /\ (f'.C <=> R[0] < R[2])
    BY <1>2, <2>1, AtSUB
  <2>4. pc' = 4 /\ start' = start
    BY <1>5, <2>3 DEF Only
  <2>5. Pair(R', 0) = (Pair(start, 0) - Pair(start, 2)) % Wide
    <3>1. Partner(0) = 1 /\ Partner(2) = 3
      BY DEF Partner
    <3> QED BY <1>2, <2>2, <2>3, <3>1, PairsSubtract DEF Only, Registers, Pair
  <2> QED BY <2>4, <2>5 DEF KnownSubtract, Pair
<1> QED BY <1>1, <1>3, <1>4, <1>5

LEMMA NegateGoes ==
  ASSUME TypeOK, program.name = "negate", KnownNegate, Next
  PROVE  KnownNegate'
<1>1. program.code = <<Op("NEG", 0, 0), Op("NEG", 1, 1), Op("SBC", 0, 0)>> /\ pc \in 1 .. 3
  BY Codes DEF TypeOK, Next
<1>2. /\ 0 \in Registers /\ 1 \in Registers /\ 2 \in Registers /\ 3 \in Registers
      /\ \A q \in Registers : start[q] \in 0 .. Word - 1
  BY DEF Registers, TypeOK
<1>3. CASE pc = 1
  <2>1. At("NEG", 0, 0)
    BY <1>1, <1>3 DEF At
  <2>2. R = start
    BY <1>3 DEF KnownNegate
  <2>3. Only(0) /\ R'[0] = (-R[0]) % Word /\ (f'.C <=> R[0] # 0)
    BY <1>2, <2>1, AtNEG
  <2>4. pc' = 2 /\ start' = start
    BY <1>3, <2>3 DEF Only
  <2>5. R'[1] = start[1] /\ R'[0] = (-start[0]) % Word
    BY <1>2, <2>2, <2>3 DEF Only, Registers
  <2> QED BY <2>4, <2>5 DEF KnownNegate
<1>4. CASE pc = 2
  <2>1. At("NEG", 1, 1)
    BY <1>1, <1>4 DEF At
  <2>2. R[1] = start[1] /\ R[0] = (-start[0]) % Word
    BY <1>4 DEF KnownNegate
  <2>3. Only(1) /\ R'[1] = (-R[1]) % Word /\ (f'.C <=> R[1] # 0)
    BY <1>2, <2>1, AtNEG
  <2>4. pc' = 3 /\ start' = start
    BY <1>4, <2>3 DEF Only
  <2>5. R'[1] = (-start[1]) % Word /\ R'[0] = (-start[0]) % Word /\ (f'.C <=> start[1] # 0)
    BY <1>2, <2>2, <2>3 DEF Only, Registers
  <2> QED BY <2>4, <2>5 DEF KnownNegate
<1>5. CASE pc = 3
  <2>1. At("SBC", 0, 0)
    BY <1>1, <1>5 DEF At
  <2>2. R[1] = (-start[1]) % Word /\ R[0] = (-start[0]) % Word /\ (f.C <=> start[1] # 0)
    BY <1>5 DEF KnownNegate
  <2>3. Only(0) /\ R'[0] = (R[0] - One(f.C)) % Word
    BY <1>2, <2>1, AtSBC
  <2>4. pc' = 4 /\ start' = start
    BY <1>5, <2>3 DEF Only
  <2>6. One(f.C) = One(start[1] # 0)
    BY <2>2 DEF One
  <2>5. Pair(R', 0) = (-Pair(start, 0)) % Wide
    <3>1. Partner(0) = 1 /\ Partner(2) = 3
      BY DEF Partner
    <3> QED BY <1>2, <2>2, <2>3, <2>6, <3>1, PairsNegate DEF Only, Registers, Pair
  <2> QED BY <2>4, <2>5 DEF KnownNegate, Pair
<1> QED BY <1>1, <1>3, <1>4, <1>5

LEMMA DoubleGoes ==
  ASSUME TypeOK, program.name = "double", KnownDouble, Next
  PROVE  KnownDouble'
<1>1. program.code = <<Op("ASL", 1, 1), Op("ROL", 0, 0)>> /\ pc \in 1 .. 2
  BY Codes DEF TypeOK, Next
<1>2. /\ 0 \in Registers /\ 1 \in Registers /\ 2 \in Registers /\ 3 \in Registers
      /\ \A q \in Registers : start[q] \in 0 .. Word - 1
  BY DEF Registers, TypeOK
<1>3. CASE pc = 1
  <2>1. At("ASL", 1, 1)
    BY <1>1, <1>3 DEF At
  <2>2. R = start
    BY <1>3 DEF KnownDouble
  <2>3. Only(1) /\ R'[1] = (2 * R[1]) % Word /\ (f'.C <=> 2 * R[1] >= Word)
    BY <1>2, <2>1, AtASL
  <2>4. pc' = 2 /\ start' = start
    BY <1>3, <2>3 DEF Only
  <2>5. R'[0] = start[0] /\ R'[1] = (2 * start[1]) % Word /\ (f'.C <=> 2 * start[1] >= Word)
    BY <1>2, <2>2, <2>3 DEF Only, Registers
  <2> QED BY <2>4, <2>5 DEF KnownDouble
<1>4. CASE pc = 2
  <2>1. At("ROL", 0, 0)
    BY <1>1, <1>4 DEF At
  <2>2. R[0] = start[0] /\ R[1] = (2 * start[1]) % Word /\ (f.C <=> 2 * start[1] >= Word)
    BY <1>4 DEF KnownDouble
  <2>3. Only(0) /\ R'[0] = (2 * R[0] + One(f.C)) % Word /\ (f'.C <=> 2 * R[0] + One(f.C) >= Word)
    BY <1>2, <2>1, AtROL
  <2>4. pc' = 3 /\ start' = start
    BY <1>4, <2>3 DEF Only
  <2>6. One(f.C) = One(2 * start[1] >= Word)
    BY <2>2 DEF One
  <2>5. Pair(R', 0) = (2 * Pair(start, 0)) % Wide /\ (f'.C <=> 2 * Pair(start, 0) >= Wide)
    <3>1. Partner(0) = 1 /\ Partner(2) = 3
      BY DEF Partner
    <3> QED BY <1>2, <2>2, <2>3, <2>6, <3>1, PairsDouble DEF Only, Registers, Pair
  <2> QED BY <2>4, <2>5 DEF KnownDouble, Pair
<1> QED BY <1>1, <1>3, <1>4

LEMMA HalveGoes ==
  ASSUME TypeOK, program.name = "halve", KnownHalve, Next
  PROVE  KnownHalve'
<1>1. program.code = <<Op("ASR", 0, 0), Op("ROR", 1, 1)>> /\ pc \in 1 .. 2
  BY Codes DEF TypeOK, Next
<1>2. /\ 0 \in Registers /\ 1 \in Registers /\ 2 \in Registers /\ 3 \in Registers
      /\ \A q \in Registers : start[q] \in 0 .. Word - 1
  BY DEF Registers, TypeOK
<1>3. CASE pc = 1
  <2>1. At("ASR", 0, 0)
    BY <1>1, <1>3 DEF At
  <2>2. R = start
    BY <1>3 DEF KnownHalve
  <2>3. Only(0) /\ R'[0] = (Signed(R[0], Word) \div 2) % Word /\ (f'.C <=> R[0] % 2 = 1)
    BY <1>2, <2>1, AtASR
  <2>4. pc' = 2 /\ start' = start
    BY <1>3, <2>3 DEF Only
  <2>5. R'[1] = start[1] /\ R'[0] = (Signed(start[0], Word) \div 2) % Word
            /\ (f'.C <=> start[0] % 2 = 1)
    BY <1>2, <2>2, <2>3 DEF Only, Registers
  <2> QED BY <2>4, <2>5 DEF KnownHalve
<1>4. CASE pc = 2
  <2>1. At("ROR", 1, 1)
    BY <1>1, <1>4 DEF At
  <2>2. R[1] = start[1] /\ R[0] = (Signed(start[0], Word) \div 2) % Word
        /\ (f.C <=> start[0] % 2 = 1)
    BY <1>4 DEF KnownHalve
  <2>3. Only(1) /\ R'[1] \in 0 .. Word - 1 /\ 2 * R'[1] + (R[1] % 2) = R[1] + One(f.C) * Word
        /\ (f'.C <=> R[1] % 2 = 1)
    BY <1>2, <2>1, AtROR
  <2>4. pc' = 3 /\ start' = start
    BY <1>4, <2>3 DEF Only
  <2>6. One(f.C) = One(start[0] % 2 = 1)
    BY <2>2 DEF One
  <2>5. Pair(R', 0) = (Signed(Pair(start, 0), Wide) \div 2) % Wide
            /\ (f'.C <=> Pair(start, 0) % 2 = 1)
    <3>1. Partner(0) = 1 /\ Partner(2) = 3
      BY DEF Partner
    <3> QED BY <1>2, <2>2, <2>3, <2>6, <3>1, PairsHalve DEF Only, Registers, Pair
  <2> QED BY <2>4, <2>5 DEF KnownHalve, Pair
<1> QED BY <1>1, <1>3, <1>4

LEMMA ExtendGoes ==
  ASSUME TypeOK, program.name = "extend", KnownExtend, Next
  PROVE  KnownExtend'
<1>1. program.code = <<Op("TST", 1, 1), Op("SXT", 0, 0)>> /\ pc \in 1 .. 2
  BY Codes DEF TypeOK, Next
<1>2. /\ 0 \in Registers /\ 1 \in Registers /\ 2 \in Registers /\ 3 \in Registers
      /\ \A q \in Registers : start[q] \in 0 .. Word - 1
  BY DEF Registers, TypeOK
<1>3. CASE pc = 1
  <2>1. At("TST", 1, 1)
    BY <1>1, <1>3 DEF At
  <2>2. R = start
    BY <1>3 DEF KnownExtend
  <2>3. Only(1) /\ R'[1] = R[1] /\ (f'.N <=> Signed(R[1], Word) < 0)
    BY <1>2, <2>1, AtTST
  <2>4. pc' = 2 /\ start' = start
    BY <1>3, <2>3 DEF Only
  <2>5. R'[1] = start[1] /\ (f'.N <=> Signed(start[1], Word) < 0)
    BY <1>2, <2>2, <2>3 DEF Only, Registers
  <2> QED BY <2>4, <2>5 DEF KnownExtend
<1>4. CASE pc = 2
  <2>1. At("SXT", 0, 0)
    BY <1>1, <1>4 DEF At
  <2>2. R[1] = start[1] /\ (f.N <=> Signed(start[1], Word) < 0)
    BY <1>4 DEF KnownExtend
  <2>3. Only(0) /\ R'[0] = IF f.N THEN Word - 1 ELSE 0
    BY <1>2, <2>1, AtSXT
  <2>4. pc' = 3 /\ start' = start
    BY <1>4, <2>3 DEF Only
  <2>5. Signed(Pair(R', 0), Wide) = Signed(start[1], Word)
    <3>1. Partner(0) = 1 /\ Partner(2) = 3
      BY DEF Partner
    <3> QED BY <1>2, <2>2, <2>3, <3>1, PairsExtend DEF Only, Registers, Pair
  <2> QED BY <2>4, <2>5 DEF KnownExtend, Pair
<1> QED BY <1>1, <1>3, <1>4

\* A loop that adds R2 as often as R1 says, 0 standing for a whole word.
TimesOf(x) == IF x = 0 THEN Word ELSE x

KnownLoop ==
  LET s0 == start[0]
      s2 == start[2]
      gone == TimesOf(start[1]) - TimesOf(R[1]) IN
  /\ R[2] = s2
  /\ pc = 1 => R[0] = (s0 + s2 * gone) % Word
  /\ pc = 2 => R[0] = (s0 + s2 * (gone + 1)) % Word
  /\ pc = 3 => R[0] = (s0 + s2 * TimesOf(start[1])) % Word

LEMMA AddsOnce ==
  ASSUME NEW x \in 0 .. Word - 1, NEW y \in 0 .. Word - 1, NEW k \in Int
  PROVE  (((x + y * k) % Word) + y) % Word = (x + y * (k + 1)) % Word
<1> DEFINE u == x + y * k
<1>1. Word \in Nat \ {0} /\ u \in Int /\ y \in Int /\ u + y = x + y * (k + 1)
  BY Sizes
<1> HIDE DEF u
<1>2. ((u % Word) + y) % Word = (u + y) % Word
  BY <1>1, RemainderAdds
<1> QED BY <1>1, <1>2 DEF u

LEMMA CountsDown ==
  ASSUME NEW x \in 0 .. Word - 1
  PROVE  (x - 1) % Word = TimesOf(x) - 1 /\ TimesOf(x) \in 1 .. Word
<1>1. Word \in Nat \ {0}
  BY Sizes
<1>2. CASE x = 0
  <2> DEFINE q == Word - 1
  <2>1. q \in 0 .. Word - 1 /\ -1 \in Int /\ x - 1 = (-1) * Word + q
    BY <1>1, <1>2
  <2> HIDE DEF q
  <2>2. ((-1) * Word + q) % Word = q
    BY <1>1, <2>1, DivMod
  <2> QED BY <1>1, <1>2, <2>1, <2>2 DEF q, TimesOf
<1>3. CASE x # 0
  <2>1. x - 1 \in 0 .. Word - 1
    BY <1>1, <1>3
  <2>2. (x - 1) % Word = x - 1
    <3> DEFINE q == x - 1
    <3>1. q \in 0 .. Word - 1
      BY <2>1
    <3> HIDE DEF q
    <3>2. q % Word = q
      BY <1>1, <3>1, SelfRemainder
    <3> QED BY <3>2 DEF q
  <2> QED BY <1>1, <1>3, <2>2 DEF TimesOf
<1> QED BY <1>2, <1>3

LEMMA LoopGoes ==
  ASSUME TypeOK, program.name = "loop", KnownLoop, Next
  PROVE  KnownLoop'
<1>1. program.code = <<Op("ADD", 2, 0), Op("SOB", 1, 1)>> /\ pc \in 1 .. 2
  BY Codes DEF TypeOK, Next
<1>2. /\ 0 \in Registers /\ 1 \in Registers /\ 2 \in Registers
      /\ \A q \in Registers : start[q] \in 0 .. Word - 1 /\ R[q] \in 0 .. Word - 1
      /\ Word \in Nat \ {0}
  BY Sizes DEF Registers, TypeOK
<1> DEFINE s0 == start[0]
           s2 == start[2]
           N == TimesOf(start[1])
           left == TimesOf(R[1])
<1>3. s0 \in 0 .. Word - 1 /\ s2 \in 0 .. Word - 1 /\ N \in 1 .. Word /\ left \in 1 .. Word
      /\ R[2] = s2
  BY <1>2, CountsDown DEF KnownLoop
<1>4. CASE pc = 1
  <2>1. At("ADD", 2, 0)
    BY <1>1, <1>4 DEF At
  <2>2. Only(0) /\ R'[0] = (R[0] + R[2]) % Word
    BY <1>2, <2>1, AtADD
  <2>3. R[0] = (s0 + s2 * (N - left)) % Word
    BY <1>4 DEF KnownLoop
  <2>4. R'[1] = R[1] /\ R'[2] = s2 /\ pc' = 2 /\ start' = start
    BY <1>2, <1>3, <1>4, <2>2 DEF Only
  <2>5. R'[0] = (s0 + s2 * ((N - left) + 1)) % Word
    <3> DEFINE k == N - left
    <3>1. k \in Int /\ R'[0] = (((s0 + s2 * k) % Word) + s2) % Word
      BY <1>2, <1>3, <2>2, <2>3
    <3> HIDE DEF k, s0, s2
    <3>2. (((s0 + s2 * k) % Word) + s2) % Word = (s0 + s2 * (k + 1)) % Word
      BY <1>3, <3>1, AddsOnce
    <3> QED BY <3>1, <3>2 DEF k
  <2> QED BY <2>4, <2>5 DEF KnownLoop, TimesOf
<1>5. CASE pc = 2
  <2>1. At("SOB", 1, 1)
    BY <1>1, <1>5 DEF At
  <2>2. /\ R'[1] = (R[1] - 1) % Word
        /\ \A q \in Registers \ {1} : R'[q] = R[q]
        /\ pc' = (IF R'[1] # 0 THEN 1 ELSE 3) /\ start' = start
    BY <1>2, <1>5, <2>1, AtSOB
  <2>3. R[0] = (s0 + s2 * ((N - left) + 1)) % Word
    BY <1>5 DEF KnownLoop
  <2>4. R'[0] = R[0] /\ R'[2] = s2
    BY <1>2, <1>3, <2>2
  <2>5. R'[1] = left - 1
    BY <1>2, <2>2, CountsDown
  <2>6. CASE left = 1
    <3>1. (N - left) + 1 = N /\ pc' = 3
      BY <1>3, <2>2, <2>5, <2>6
    <3> QED BY <2>2, <2>3, <2>4, <3>1 DEF KnownLoop, TimesOf
  <2>7. CASE left # 1
    <3>1. R'[1] # 0 /\ pc' = 1
      BY <1>3, <2>2, <2>5, <2>7
    <3>2. (N - left) + 1 = N - R'[1]
      BY <1>3, <2>5
    <3> QED BY <2>2, <2>3, <2>4, <3>1, <3>2 DEF KnownLoop, TimesOf
  <2> QED BY <2>6, <2>7
<1> QED BY <1>1, <1>4, <1>5

\* Dividing a product.
KnownProduct ==
  LET v == Signed(start[0], Word) * Signed(start[2], Word) IN
  /\ pc = 1 => R = start
  /\ pc = 2 => R[2] = start[2] /\ Pair(R, 0) = v % Wide
  /\ pc = 3 /\ start[2] # 0 => R[0] = start[0] /\ R[1] = 0

LEMMA ProductBounds ==
  ASSUME NEW h \in Nat \ {0}, NEW x \in -h .. h - 1, NEW y \in -h .. h - 1
  PROVE  x * y \in -(h * h) .. h * h /\ Magnitude(x * y) = Magnitude(x) * Magnitude(y)
<1> DEFINE X == Magnitude(x)
           Y == Magnitude(y)
           v == x * y
<1>1. X \in 0 .. h /\ Y \in 0 .. h /\ x \in Int /\ y \in Int /\ v \in Int
      /\ X = (IF x < 0 THEN -x ELSE x) /\ Y = (IF y < 0 THEN -y ELSE y)
  BY DEF Magnitude
<1>2. X * Y <= h * h /\ X * Y \in Nat
  <2>1. X * Y <= h * Y /\ h * Y <= h * h
    BY <1>1
  <2>2. X * Y \in Nat /\ h * Y \in Nat /\ h * h \in Nat
    BY <1>1
  <2> QED BY <2>1, <2>2
<1>3. v = X * Y \/ v = -(X * Y)
  <2>1. CASE x < 0 /\ y < 0
    <3>1. X = -x /\ Y = -y
      BY <1>1, <2>1
    <3>2. (-x) * (-y) = x * y
      BY <1>1
    <3> QED BY <3>1, <3>2
  <2>2. CASE x < 0 /\ y >= 0
    <3>1. X = -x /\ Y = y
      BY <1>1, <2>2
    <3>2. -((-x) * y) = x * y
      BY <1>1
    <3> QED BY <3>1, <3>2
  <2>3. CASE x >= 0 /\ y < 0
    <3>1. X = x /\ Y = -y
      BY <1>1, <2>3
    <3>2. -(x * (-y)) = x * y
      BY <1>1
    <3> QED BY <3>1, <3>2
  <2>4. CASE x >= 0 /\ y >= 0
    <3>1. X = x /\ Y = y
      BY <1>1, <2>4
    <3> QED BY <3>1
  <2> QED BY <1>1, <2>1, <2>2, <2>3, <2>4
<1> DEFINE P == X * Y
           H == h * h
<1>4. P \in Nat /\ P <= H /\ H \in Nat /\ v \in Int /\ (v = P \/ v = -P)
  BY <1>1, <1>2, <1>3
<1> HIDE DEF P, H, v
<1>5. v \in -H .. H /\ Magnitude(v) = P
  BY <1>4 DEF Magnitude
<1> QED BY <1>5 DEF v, P, H

LEMMA ProductDivides ==
  ASSUME NEW a \in 0 .. Word - 1, NEW b \in 0 .. Word - 1, b # 0, NEW g
  PROVE  LET o == DIV((Signed(a, Word) * Signed(b, Word)) % Wide, b, g) IN
         ~o.f.V /\ o.pair \div Word = a /\ o.pair % Word = 0
<1> DEFINE x == Signed(a, Word)
           y == Signed(b, Word)
           v == x * y
           X == Magnitude(x)
           Y == Magnitude(y)
           o == DIV(v % Wide, b, g)
<1>1. PICK h \in Nat \ {0}, w \in Nat \ {0} : Half(Word, h) /\ Half(Wide, w) /\ w = h * Word
  BY SizesHalf
<1>2. Word = 2 * h /\ Wide = 2 * w /\ Wide \div 2 = w /\ Word \in Nat \ {0} /\ Wide \in Nat \ {0}
  BY <1>1, HalfOf DEF Half
<1>3. x \in -h .. h - 1 /\ y \in -h .. h - 1 /\ x % Word = a /\ y # 0
  BY <1>1, SignedOf, SignedTyped
<1>4. X \in 0 .. h /\ Y \in 1 .. h /\ x \in Int /\ y \in Int /\ v \in Int
      /\ X = (IF x < 0 THEN -x ELSE x) /\ Y = (IF y < 0 THEN -y ELSE y)
  BY <1>3 DEF Magnitude
<1>5. v \in -(h * h) .. h * h /\ Magnitude(v) = X * Y
  <2> HIDE DEF x, y
  <2> QED BY <1>3, ProductBounds
<1>6. v \in -w + 1 .. w - 1
  <2> DEFINE H == h * h
  <2>1. w = 2 * H /\ H \in Nat \ {0}
    BY <1>1, <1>2
  <2> HIDE DEF H, v
  <2>2. v \in -H .. H
    BY <1>5 DEF H
  <2> QED BY <2>1, <2>2
<1>7. Signed(v % Wide, Wide) = v /\ v % Wide = IF v < 0 THEN v + Wide ELSE v
  <2>1. v \in -w .. w - 1
    BY <1>2, <1>6
  <2> HIDE DEF v
  <2> QED BY <1>1, <2>1, SignedBack
<1>8. v % Wide # w
  BY <1>2, <1>6, <1>7
<1>9. (X * Y) \div Y = X
  <2> HIDE DEF X, Y
  <2>1. 0 \in 0 .. Y - 1 /\ Y \in Nat \ {0} /\ X \in Int
    BY <1>4
  <2>2. (X * Y + 0) \div Y = X
    BY ONLY <2>1, DivMod
  <2>3. X * Y + 0 = X * Y
    BY <1>4
  <2> QED BY <2>2, <2>3
<1>10. Quotient(v, y) = x
  <2>1. Quotient(v, y) = IF (v < 0) <=> (y < 0) THEN X ELSE -X
    BY <1>5, <1>9 DEF Quotient
  <2>2. /\ x > 0 /\ y > 0 => v > 0
        /\ x < 0 /\ y > 0 => v < 0
        /\ x > 0 /\ y < 0 => v < 0
        /\ x < 0 /\ y < 0 => v > 0
        /\ x = 0 => v = 0
    <3>1. ASSUME NEW p \in Int, NEW q \in Int, p > 0, q > 0
          PROVE  p * q > 0 /\ (-p) * q < 0 /\ p * (-q) < 0 /\ (-p) * (-q) > 0
      <4>1. p * q >= 1 * q
        BY <3>1
      <4>2. p * q \in Int /\ (-p) * q = -(p * q) /\ p * (-q) = -(p * q) /\ (-p) * (-q) = p * q
        OBVIOUS
      <4> QED BY <3>1, <4>1, <4>2
    <3>2. ASSUME x > 0, y > 0 PROVE x * y > 0
      BY <1>4, <3>1, <3>2
    <3>3. ASSUME x < 0, y > 0 PROVE x * y < 0
      <4>1. -x \in Int /\ -x > 0 /\ -(-x) = x
        BY <1>4, <3>3
      <4> DEFINE p == -x
      <4> HIDE DEF p
      <4>2. (-p) * y < 0
        BY <1>4, <3>1, <3>3, <4>1 DEF p
      <4> QED BY <4>1, <4>2 DEF p
    <3>4. ASSUME x > 0, y < 0 PROVE x * y < 0
      <4>1. -y \in Int /\ -y > 0 /\ -(-y) = y
        BY <1>4, <3>4
      <4> DEFINE q == -y
      <4> HIDE DEF q
      <4>2. x * (-q) < 0
        BY <1>4, <3>1, <3>4, <4>1 DEF q
      <4> QED BY <4>1, <4>2 DEF q
    <3>5. ASSUME x < 0, y < 0 PROVE x * y > 0
      <4>1. -y \in Int /\ -y > 0 /\ -(-y) = y /\ -x \in Int /\ -x > 0 /\ -(-x) = x
        BY <1>4, <3>5
      <4> DEFINE q == -y
                 p == -x
      <4> HIDE DEF q, p
      <4>2. (-p) * (-q) > 0
        BY <3>1, <4>1 DEF q, p
      <4> QED BY <4>1, <4>2 DEF q, p
    <3>6. ASSUME x = 0 PROVE x * y = 0
      BY <1>4, <3>6
    <3> QED BY <3>2, <3>3, <3>4, <3>5, <3>6
  <2> HIDE DEF v, x, y, X, Y
  <2> QED BY <1>3, <1>4, <2>1, <2>2
<1>11. Magnitude(x) < Word
  BY <1>2, <1>4
<1> DEFINE z == x < 0
           t == x = 0
           r == (v - x * y) % Word
<1>12. o = [pair |-> (x % Word) * Word + r, f |-> [N |-> z, Z |-> t, V |-> FALSE, C |-> FALSE]]
  <2> HIDE DEF r, z, t
  <2>1. ~(Magnitude(x) >= Word) /\ y # 0 /\ ~(v % Wide = Wide \div 2)
    BY <1>2, <1>3, <1>4, <1>8, <1>11
  <2> HIDE DEF v
  <2> QED BY <1>7, <1>10, <2>1 DEF DIV, r, z, t
<1>13. r = 0
  <2>1. v - x * y = 0 * Word + 0
    BY <1>2, <1>4
  <2>2. 0 \in 0 .. Word - 1 /\ 0 \in Int
    BY <1>2
  <2> DEFINE e == 0
  <2>3. e \in 0 .. Word - 1 /\ e \in Int /\ v - x * y = e * Word + e
    BY <2>1, <2>2
  <2> HIDE DEF e
  <2>4. (e * Word + e) % Word = e
    BY ONLY <1>2, <2>3, DivMod
  <2> QED BY <2>3, <2>4 DEF e
<1> HIDE DEF z, t, r
<1>14. o.pair = a * Word + r /\ ~o.f.V
  BY <1>3, <1>12
<1>15. r \in 0 .. Word - 1 /\ a \in Int
  BY <1>2, <1>13
<1>16. (a * Word + r) \div Word = a /\ (a * Word + r) % Word = r
  BY <1>2, <1>15, DivMod
<1> QED BY <1>13, <1>14, <1>16

LEMMA ProductGoes ==
  ASSUME TypeOK, program.name = "product", KnownProduct, Next
  PROVE  KnownProduct'
<1>1. program.code = <<Op("MUL", 2, 0), Op("DIV", 2, 0)>> /\ pc \in 1 .. 2
  BY Codes DEF TypeOK, Next
<1>2. /\ 0 \in Registers /\ 1 \in Registers /\ 2 \in Registers /\ Partner(0) = 1
      /\ \A q \in Registers : start[q] \in 0 .. Word - 1
      /\ R \in [Registers -> 0 .. Word - 1]
  BY DEF Registers, TypeOK, Partner
<1> DEFINE v == Signed(start[0], Word) * Signed(start[2], Word)
<1>3. CASE pc = 1
  <2>1. At("MUL", 2, 0)
    BY <1>1, <1>3 DEF At
  <2>2. R = start
    BY <1>3 DEF KnownProduct
  <2> DEFINE p == MUL(R[0], R[2], f).pair
  <2>3. StorePair(0, p) /\ p \in 0 .. Wide - 1 /\ pc' = 2 /\ start' = start
    BY <1>2, <1>3, <2>1, AtMUL
  <2>4. p = v % Wide
    BY <2>2 DEF MUL
  <2> HIDE DEF p, v
  <2>5. R'[2] = R[2] /\ R'[0] = p \div Word /\ R'[1] = p % Word
    BY <1>2, <2>3, PairStored
  <2>6. p = (p \div Word) * Word + (p % Word)
    BY <2>3, HalvesOfPair
  <2>7. Pair(R', 0) = p
    BY <1>2, <2>5, <2>6 DEF Pair
  <2> QED BY <2>2, <2>3, <2>4, <2>5, <2>7 DEF KnownProduct, v, Pair
<1>4. CASE pc = 2
  <2>1. At("DIV", 2, 0)
    BY <1>1, <1>4 DEF At
  <2>2. R[2] = start[2] /\ Pair(R, 0) = v % Wide
    BY <1>4 DEF KnownProduct
  <2> DEFINE o == DIV(v % Wide, start[2], f)
  <2>3. /\ IF o.f.V THEN R' = R ELSE StorePair(0, o.pair)
        /\ o.pair \in 0 .. Wide - 1
        /\ pc' = 3 /\ start' = start
    BY <1>2, <1>4, <2>1, <2>2, AtDIV
  <2>4. ASSUME start[2] # 0 PROVE R'[0] = start[0] /\ R'[1] = 0
    <3>1. ~o.f.V /\ o.pair \div Word = start[0] /\ o.pair % Word = 0
      BY <1>2, <2>4, ProductDivides
    <3> DEFINE p == o.pair
    <3>2. StorePair(0, p) /\ p \in 0 .. Wide - 1 /\ p \div Word = start[0] /\ p % Word = 0
      BY <2>3, <3>1
    <3> HIDE DEF p
    <3>3. R'[0] = p \div Word /\ R'[1] = p % Word
      BY <1>2, <3>2, PairStored
    <3> QED BY <3>2, <3>3
  <2> HIDE DEF o
  <2> QED BY <2>3, <2>4 DEF KnownProduct, Pair
<1> QED BY <1>1, <1>3, <1>4
-----------------------------------------------------------------------------
(* Shifts by a count.                                                       *)

LEMMA DividedTwice ==
  ASSUME NEW x \in Int, NEW p \in Nat \ {0}
  PROVE  (x \div p) \div 2 = x \div (2 * p)
<1> DEFINE q == x \div p
           r == x % p
           k == q \div 2
           e == q % 2
           w == 2 * p
           d == IF e = 1 THEN p + r ELSE r
<1>1. q \in Int /\ r \in 0 .. p - 1 /\ x = q * p + r
  BY Divided
<1> HIDE DEF q, r
<1>2. k \in Int /\ e \in 0 .. 1 /\ q = k * 2 + e
  BY <1>1
<1> HIDE DEF k, e
<1>3. w \in Nat \ {0} /\ d \in 0 .. w - 1
  BY <1>1, <1>2
<1>4. x = k * w + d
  <2>1. CASE e = 1
    <3>1. q * p = (k * 2 + 1) * p
      BY <1>2, <2>1
    <3>2. (k * 2 + 1) * p = k * w + p
      BY <1>2
    <3> QED BY <1>1, <1>2, <2>1, <3>1, <3>2
  <2>2. CASE e # 1
    <3>1. q * p = (k * 2) * p
      BY <1>2, <2>2
    <3>2. (k * 2) * p = k * w
      BY <1>2
    <3> QED BY <1>1, <1>2, <2>2, <3>1, <3>2
  <2> QED BY <2>1, <2>2
<1> HIDE DEF w, d
<1>5. (k * w + d) \div w = k
  BY ONLY <1>2, <1>3, DivMod
<1> QED BY <1>4, <1>5 DEF w, k, q

LEMMA CutOf ==
  ASSUME NEW m \in {Word, Wide}, NEW x \in Int
  PROVE  (x % Wide) % m = x % m
<1>1. CASE m = Word
  BY <1>1, Cut2
<1>2. CASE m = Wide
  <2> DEFINE r == x % Wide
  <2>1. Wide \in Nat \ {0} /\ r \in 0 .. Wide - 1
    BY Sizes
  <2> HIDE DEF r
  <2>2. r % Wide = r
    BY <2>1, SelfRemainder
  <2> QED BY <1>2, <2>2 DEF r
<1> QED BY <1>1, <1>2

LEMMA DoubleRemainder ==
  ASSUME NEW n \in Nat \ {0}, NEW x \in Int, NEW y \in Int, x % n = y % n
  PROVE  (2 * x) % n = (2 * y) % n
<1> DEFINE q == x \div n
           p == y \div n
           r == x % n
           t == 2 * (p - q)
           X == 2 * x
           Y == 2 * y
<1>1. q \in Int /\ p \in Int /\ r \in Int /\ x = q * n + r /\ y = p * n + r
  BY Divided
<1> HIDE DEF q, p, r
<1>2. t \in Int /\ X \in Int /\ Y \in Int
  BY <1>1
<1>3. Y = X + t * n
  BY <1>1
<1> HIDE DEF t, X, Y
<1>4. n \in Nat \ {0}
  OBVIOUS
<1>5. Y % n = X % n
  BY ONLY <1>2, <1>3, <1>4, SameRemainder
<1> QED BY <1>5 DEF X, Y

\* A turn to the left doubles the number, and V remembers that it did not fit.
LEMMA LeftOnce ==
  ASSUME NEW m \in {Word, Wide}, NEW s \in Turned, NEW u \in Int,
         s.x % m = u % m, s.v <=> ~Fits(u, m)
  PROVE  /\ Left(s, m).x % m = (2 * u) % m
         /\ Left(s, m).v <=> ~Fits(2 * u, m)
<1> DEFINE x == s.x
           d == 2 * x
           y == d % Wide
           w == 2 * u
<1>1. PICK h : Half(m, h)
  BY SizesHalf
<1>2. m \div 2 = h /\ m = 2 * h /\ h \in Nat \ {0} /\ m \in Nat \ {0} /\ Wide \in Nat \ {0}
  BY <1>1, HalfOf, Sizes DEF Half
<1>3. x \in Int /\ x \in 0 .. Wide - 1 /\ s.v \in BOOLEAN
  BY <1>2 DEF Turned
<1>4. Left(s, m).x = y /\ (Left(s, m).v <=> (s.v \/ ~(Sign(x, m) <=> Sign(y, m))))
  BY DEF Left
<1>5. d \in Int /\ y \in Int /\ w \in Int /\ d % m = w % m
  <2>1. d \in Int /\ y \in Int /\ w \in Int
    BY <1>2, <1>3
  <2>2. x % m = u % m
    OBVIOUS
  <2> HIDE DEF x
  <2>3. (2 * x) % m = (2 * u) % m
    BY <1>2, <1>3, <2>2, DoubleRemainder
  <2> QED BY <2>1, <2>3
<1>6. y % m = w % m
  <2> HIDE DEF d
  <2> QED BY <1>5, CutOf
<1> HIDE DEF y, d, x
<1>7. /\ Fits(u, m) <=> u \in -h .. h - 1
      /\ Fits(w, m) <=> w \in -h .. h - 1
  BY <1>2 DEF Fits
<1>8. (Sign(y, m) <=> w % m >= h) /\ (Sign(x, m) <=> Signed(u % m, m) < 0)
  <2>1. Sign(y, m) <=> y % m >= h
    BY <1>1, <1>5, SignOf
  <2>2. Sign(x, m) <=> Signed(x % m, m) < 0
    BY <1>1, <1>3, SignOf
  <2> QED BY <1>6, <2>1, <2>2 DEF x
<1>9. CASE ~(u \in -h .. h - 1)
  BY <1>2, <1>4, <1>6, <1>7, <1>9
<1>10. CASE u \in -h .. h - 1
  <2>1. Signed(u % m, m) = u
    BY <1>1, <1>10, SignedBack
  <2>2. CASE w \in -h .. h - 1
    <3>1. w % m = IF w < 0 THEN w + m ELSE w
      <4> HIDE DEF w
      <4> QED BY <1>1, <2>2, SignedBack
    <3>2. w % m >= h <=> u < 0
      BY <1>2, <1>10, <2>2, <3>1
    <3> QED BY <1>4, <1>6, <1>7, <1>8, <1>10, <2>1, <2>2, <3>2
  <2>3. CASE w >= h
    <3>1. w % m = w
      <4>1. w \in 0 .. m - 1
        BY <1>2, <1>10, <2>3
      <4> HIDE DEF w
      <4> QED BY <1>2, <4>1, SelfRemainder
    <3>2. w % m >= h /\ ~(u < 0)
      BY <1>2, <2>3, <3>1
    <3>3. ~(w \in -h .. h - 1)
      BY <1>2, <2>3
    <3> QED BY <1>4, <1>6, <1>7, <1>8, <2>1, <3>2, <3>3
  <2>4. CASE w < -h
    <3> DEFINE v == w + m
    <3>1. v \in 0 .. h - 1 /\ v \in 0 .. m - 1 /\ v \in Int /\ -1 \in Int /\ w = v + (-1) * m
      BY <1>2, <1>10, <2>4
    <3>2. w % m = v % m /\ v % m = v
      <4> HIDE DEF v, w
      <4>1. w % m = v % m
        BY ONLY <1>2, <1>5, <3>1, SameRemainder
      <4>2. v % m = v
        BY <1>2, <3>1, SelfRemainder
      <4> QED BY <4>1, <4>2
    <3>3. ~(w % m >= h) /\ u < 0
      BY <1>2, <2>4, <3>1, <3>2
    <3>4. ~(w \in -h .. h - 1)
      BY <1>2, <2>4
    <3> QED BY <1>4, <1>6, <1>7, <1>8, <2>1, <3>3, <3>4
  <2> QED BY <1>2, <1>5, <2>2, <2>3, <2>4
<1> QED BY <1>9, <1>10

LEMMA LeftMeans ==
  ASSUME NEW m \in {Word, Wide}, NEW a \in 0 .. m - 1, NEW times \in Nat,
         NEW t \in [0 .. times -> Turned], Turns(t, a, m, FALSE, times)
  PROVE  \A k \in 0 .. times :
           /\ t[k].x % m = (Signed(a, m) * Power(k)) % m
           /\ t[k].v <=> ~Fits(Signed(a, m) * Power(k), m)
<1> DEFINE s == Signed(a, m)
           S == {k \in 0 .. times : /\ t[k].x % m = (s * Power(k)) % m
                                    /\ t[k].v <=> ~Fits(s * Power(k), m)}
<1>1. PICK h : Half(m, h)
  BY SizesHalf
<1>2. m \div 2 = h /\ h \in Nat \ {0} /\ s \in -h .. h - 1 /\ s % m = a /\ s \in Int
      /\ m \in Nat \ {0}
  <2>1. m \div 2 = h /\ h \in Nat \ {0} /\ m \in Nat \ {0}
    BY <1>1, HalfOf DEF Half
  <2>2. s \in -h .. h - 1 /\ s % m = a
    BY <1>1, SignedOf
  <2> HIDE DEF s
  <2> QED BY <2>1, <2>2
<1>3. \A k \in 0 .. times : t[k] = IF k = 0 THEN Begun(a) ELSE Turn(t[k - 1], a, m, FALSE)
  BY Zenon DEF Turns
<1> HIDE DEF s
<1>4. 0 \in S
  <2>1. t[0].x = a /\ t[0].v = FALSE
    <3>1. 0 \in 0 .. times
      OBVIOUS
    <3>2. t[0] = Begun(a)
      BY <1>3, <3>1, Zenon
    <3> QED BY <3>2 DEF Begun
  <2>2. s * Power(0) = s /\ Fits(s, m)
    BY <1>2, PowerZero DEF Fits
  <2>3. a % m = a
    BY <1>2, SelfRemainder
  <2> QED BY <1>2, <2>1, <2>2, <2>3
<1>5. ASSUME NEW n \in 1 .. times, n - 1 \in S PROVE n \in S
  <2> DEFINE j == n - 1
             u == s * Power(j)
             q == t[j]
  <2>1. j \in Nat /\ j \in 0 .. times /\ n \in 0 .. times /\ n # 0 /\ n = j + 1
    BY <1>5
  <2>2. q \in Turned /\ q.x % m = u % m /\ (q.v <=> ~Fits(u, m))
    BY <1>5, <2>1
  <2>3. t[n] = Left(q, m)
    BY <1>3, <2>1 DEF Turn
  <2>4. u \in Int /\ 2 * u = s * Power(n)
    <3>1. Power(j) \in Nat /\ Power(j + 1) = 2 * Power(j)
      <4> HIDE DEF j
      <4> QED BY <2>1, Powers
    <3>2. Power(n) = 2 * Power(j)
      BY <2>1, <3>1
    <3> DEFINE p == Power(j)
    <3> HIDE DEF p, j
    <3>3. p \in Nat /\ Power(n) = 2 * p
      BY <3>1, <3>2 DEF p
    <3>4. s * p \in Int /\ 2 * (s * p) = s * (2 * p)
      BY <1>2, <3>3
    <3> QED BY <3>3, <3>4 DEF p
  <2> HIDE DEF q, u, j
  <2>5. Left(q, m).x % m = (2 * u) % m /\ (Left(q, m).v <=> ~Fits(2 * u, m))
    BY <2>2, <2>4, LeftOnce
  <2> QED BY <2>1, <2>3, <2>4, <2>5
<1>6. S = 0 .. times
  <2>1. S \in SUBSET (0 .. times)
    OBVIOUS
  <2> HIDE DEF S
  <2> QED BY <1>4, <1>5, <2>1, Stepwise
<1> QED BY <1>6 DEF s

\* A turn to the right halves the number.
LEMMA RightOnce ==
  ASSUME NEW m \in {Word, Wide}, NEW h, Half(m, h), NEW z \in -h .. h - 1, NEW s,
         s.x = z % m, NEW neg \in BOOLEAN, neg <=> z < 0
  PROVE  /\ Right(s, m, neg).x = (z \div 2) % m
         /\ z \div 2 \in -h .. h - 1 /\ (z \div 2 < 0 <=> z < 0)
<1>1. m \div 2 = h /\ m = 2 * h /\ h \in Nat \ {0} /\ m \in Nat \ {0}
  BY HalfOf DEF Half
<1> DEFINE q == z \div 2
           r == z % 2
<1>2. q \in Int /\ r \in 0 .. 1 /\ z = 2 * q + r /\ z \in Int
  BY <1>1
<1> HIDE DEF q, r
<1>3. q \in -h .. h - 1 /\ (q < 0 <=> z < 0)
  BY <1>1, <1>2
<1>4. s.x = (IF z < 0 THEN z + m ELSE z) /\ q % m = IF q < 0 THEN q + m ELSE q
  BY <1>3, SignedBack
<1>5. Right(s, m, neg).x = (s.x \div 2) + One(neg) * h
  BY <1>1 DEF Right
<1>6. CASE z < 0
  <2> DEFINE e == q + h
  <2>1. e \in Int /\ r \in 0 .. 2 - 1 /\ s.x = e * 2 + r
    BY <1>1, <1>2, <1>4, <1>6
  <2>2. s.x \div 2 = e
    BY <2>1
  <2>3. One(neg) = 1
    BY <1>6 DEF One
  <2> QED BY <1>1, <1>2, <1>3, <1>4, <1>5, <1>6, <2>2, <2>3 DEF q
<1>7. CASE z >= 0
  <2>1. s.x \div 2 = q
    BY <1>1, <1>2, <1>4, <1>7
  <2>2. One(neg) = 0
    BY <1>1, <1>7 DEF One
  <2> QED BY <1>1, <1>2, <1>3, <1>4, <1>5, <1>7, <2>1, <2>2 DEF q
<1> QED BY <1>1, <1>6, <1>7

LEMMA RightMeans ==
  ASSUME NEW m \in {Word, Wide}, NEW a \in 0 .. m - 1, NEW times \in Nat,
         NEW t \in [0 .. times -> Turned], Turns(t, a, m, TRUE, times)
  PROVE  \A k \in 0 .. times : t[k].x = (Signed(a, m) \div Power(k)) % m /\ ~t[k].v
<1>1. PICK h : Half(m, h)
  BY SizesHalf
<1> DEFINE s == Signed(a, m)
           neg == Sign(a, m)
           S == {k \in 0 .. times : LET z == s \div Power(k) IN
                   t[k].x = z % m /\ z \in -h .. h - 1 /\ (z < 0 <=> s < 0) /\ ~t[k].v}
<1>2. h \in Nat \ {0} /\ s \in -h .. h - 1 /\ s % m = a /\ s \in Int /\ m \in Nat \ {0}
  <2>1. h \in Nat \ {0} /\ m \in Nat \ {0}
    BY <1>1, HalfOf DEF Half
  <2>2. s \in -h .. h - 1 /\ s % m = a
    BY <1>1, SignedOf
  <2> HIDE DEF s
  <2> QED BY <2>1, <2>2
<1>3. \A k \in 0 .. times : t[k] = IF k = 0 THEN Begun(a) ELSE Turn(t[k - 1], a, m, TRUE)
  BY Zenon DEF Turns
<1>4. neg \in BOOLEAN /\ (neg <=> s < 0)
  <2>1. a \in Int /\ a % m = a
    BY <1>2, SelfRemainder
  <2>2. neg <=> Signed(a % m, m) < 0
    BY <1>1, <2>1, SignOf
  <2> QED BY <2>1, <2>2 DEF Sign
<1> HIDE DEF s
<1>5. 0 \in S
  <2>1. t[0].x = a /\ ~t[0].v
    <3>1. 0 \in 0 .. times
      OBVIOUS
    <3>2. t[0] = Begun(a)
      BY <1>3, <3>1, Zenon
    <3> QED BY <3>2 DEF Begun
  <2>2. s \div Power(0) = s
    <3>1. s \div 1 = s
      BY <1>2
    <3> QED BY <3>1, PowerZero
  <2> QED BY <1>2, <2>1, <2>2
<1>6. ASSUME NEW n \in 1 .. times, n - 1 \in S PROVE n \in S
  <2> DEFINE j == n - 1
             z == s \div Power(j)
             q == t[j]
  <2>1. j \in Nat /\ j \in 0 .. times /\ n \in 0 .. times /\ n # 0 /\ n = j + 1
    BY <1>6
  <2>2. q.x = z % m /\ z \in -h .. h - 1 /\ (z < 0 <=> s < 0) /\ ~q.v
    BY <1>6
  <2>3. t[n] = Right(q, m, neg)
    BY <1>3, <2>1 DEF Turn
  <2>4. z \div 2 = s \div Power(n)
    <3>1. Power(j) \in Nat \ {0} /\ Power(j + 1) = 2 * Power(j)
      <4> HIDE DEF j
      <4> QED BY <2>1, Powers
    <3>2. Power(n) = 2 * Power(j)
      BY <2>1, <3>1
    <3> DEFINE p == Power(j)
    <3> HIDE DEF p, j
    <3>3. p \in Nat \ {0} /\ Power(n) = 2 * p
      BY <3>1, <3>2 DEF p
    <3>4. (s \div p) \div 2 = s \div (2 * p)
      BY <1>2, <3>3, DividedTwice
    <3> QED BY <3>3, <3>4 DEF p
  <2> HIDE DEF q, z, j, neg
  <2>5. Right(q, m, neg).x = (z \div 2) % m /\ z \div 2 \in -h .. h - 1 /\ (z \div 2 < 0 <=> z < 0)
    BY <1>1, <1>4, <2>2, RightOnce
  <2>6. Right(q, m, neg).v = q.v
    BY DEF Right
  <2> QED BY <2>1, <2>2, <2>3, <2>4, <2>5, <2>6
<1>7. S = 0 .. times
  <2>1. S \in SUBSET (0 .. times)
    OBVIOUS
  <2> HIDE DEF S
  <2> QED BY <1>5, <1>6, <2>1, Stepwise
<1> QED BY <1>7 DEF s

\* A shift multiplies or divides by a power of two.
LEMMA ShiftMeans ==
  ASSUME NEW m \in {Word, Wide}, NEW a \in 0 .. m - 1, NEW b \in Int, NEW g
  PROVE  LET s == Signed(a, m)
             n == Signed(b % (2 * Shifts), 2 * Shifts)
             o == Shift(a, b, g, m) IN
         /\ o.alu % m = ShiftedBy(s, n, m)
         /\ n > 0 => (o.f.V <=> ~Fits(s * Power(n), m))
<1> DEFINE N == Times(b)
           c == b % (2 * Shifts)
           n == Signed(c, 2 * Shifts)
           s == Signed(a, m)
           o == Shift(a, b, g, m)
<1>1. Shifts \in Nat \ {0} /\ Half(2 * Shifts, Shifts) /\ c \in 0 .. 2 * Shifts - 1
  BY ArithmeticAssumption DEF Half
<1>2. n = IF c < Shifts THEN c ELSE c - 2 * Shifts
  <2> HIDE DEF c
  <2>1. \A k : Half(k, Shifts) /\ c \in 0 .. k - 1 => Signed(c, k) = IF c < Shifts THEN c ELSE c - k
    BY SignedOf
  <2> QED BY <1>1, <2>1
<1>3. PICK t \in [0 .. N -> Turned] :
        /\ Turns(t, a, m, Rightward(b), N)
        /\ o = [alu |-> t[N].x,
                f |-> [N |-> Sign(t[N].x, m), Z |-> t[N].x % m = 0,
                       V |-> IF N = 0 THEN g.V ELSE t[N].v, C |-> IF N = 0 THEN g.C ELSE t[N].c]]
  BY ShiftTurns
<1> HIDE DEF n, o
<1>4. CASE c < Shifts
  <2>1. Rightward(b) = FALSE /\ N = c /\ N = n /\ N \in Nat
    BY <1>1, <1>2, <1>4 DEF Rightward, Times
  <2> HIDE DEF N, s, c
  <2>2. t[N].x % m = (s * Power(N)) % m /\ (t[N].v <=> ~Fits(s * Power(N), m))
    <3>1. N \in 0 .. N
      BY <2>1
    <3>2. Turns(t, a, m, FALSE, N)
      BY <1>3, <2>1
    <3> QED BY <2>1, <3>1, <3>2, LeftMeans DEF s
  <2>3. ShiftedBy(s, n, m) = (s * Power(N)) % m
    BY <2>1 DEF ShiftedBy
  <2>4. o.alu = t[N].x /\ (N # 0 => o.f.V = t[N].v)
    BY <1>3
  <2> QED BY <2>1, <2>2, <2>3, <2>4 DEF n, o, s, c
<1>5. CASE c >= Shifts
  <2>1. Rightward(b) = TRUE /\ N = -n /\ N \in Nat /\ n < 0
    BY <1>1, <1>2, <1>5 DEF Rightward, Times
  <2> HIDE DEF N, s, c
  <2>2. t[N].x = (s \div Power(N)) % m
    <3>1. N \in 0 .. N
      BY <2>1
    <3>2. Turns(t, a, m, TRUE, N)
      BY <1>3, <2>1
    <3> QED BY <2>1, <3>1, <3>2, RightMeans DEF s
  <2>3. ShiftedBy(s, n, m) = (s \div Power(N)) % m /\ ~(n > 0)
    BY <1>1, <1>2, <1>5, <2>1 DEF ShiftedBy
  <2>4. o.alu = t[N].x
    BY <1>3
  <2>5. t[N].x % m = t[N].x
    <3> DEFINE d == s \div Power(N)
               e == d % m
    <3>1. m \in Nat \ {0}
      BY Sizes
    <3>2. d \in Int
      <4>1. Power(N) \in Nat \ {0}
        BY <2>1, Powers
      <4>2. s \in Int
        <5>1. PICK h : Half(m, h)
          BY SizesHalf
        <5>2. s \in -h .. h - 1
          BY <5>1, SignedOf DEF s
        <5>3. h \in Nat
          BY <5>1 DEF Half
        <5> QED BY <5>2, <5>3
      <4> QED BY <4>1, <4>2, Divided
    <3> HIDE DEF d
    <3>3. e \in 0 .. m - 1
      BY <3>1, <3>2, Divided
    <3> HIDE DEF e
    <3>4. e % m = e
      BY <3>1, <3>3, SelfRemainder
    <3> QED BY <2>2, <3>4 DEF e, d
  <2> QED BY <2>3, <2>4, <2>2, <2>5 DEF n, o, s, c
<1> QED BY <1>1, <1>4, <1>5

KnownShift ==
  LET s == Signed(start[0], Word)
      n == Signed(start[2] % (2 * Shifts), 2 * Shifts) IN
  /\ pc = 1 => R = start
  /\ pc = 2 => R[0] = ShiftedBy(s, n, Word) /\ (n > 0 => (f.V <=> ~Fits(s * Power(n), Word)))

KnownShiftPair ==
  LET w == Signed(Pair(start, 0), Wide)
      n == Signed(start[2] % (2 * Shifts), 2 * Shifts) IN
  /\ pc = 1 => R = start
  /\ pc = 2 => /\ Pair(R, 0) = ShiftedBy(w, n, Wide)
               /\ n > 0 => (f.V <=> ~Fits(w * Power(n), Wide))

LEMMA ShiftGoes ==
  ASSUME TypeOK, program.name = "shift", KnownShift, Next
  PROVE  KnownShift'
<1>1. program.code = <<Op("ASH", 2, 0)>> /\ pc = 1
  BY Codes DEF TypeOK, Next
<1>2. /\ 0 \in Registers /\ 2 \in Registers
      /\ start[0] \in 0 .. Word - 1 /\ start[2] \in 0 .. Word - 1 /\ start[2] \in Int
  BY Sizes DEF Registers, TypeOK
<1>3. At("ASH", 2, 0)
  BY <1>1 DEF At
<1>4. R = start
  BY <1>1 DEF KnownShift
<1> DEFINE o == Shift(start[0], start[2], f, Word)
<1>5. Only(0) /\ R'[0] = o.alu % Word /\ f' = o.f
  BY <1>2, <1>3, <1>4, AtASH
<1>6. LET s == Signed(start[0], Word)
          n == Signed(start[2] % (2 * Shifts), 2 * Shifts) IN
      /\ o.alu % Word = ShiftedBy(s, n, Word)
      /\ n > 0 => (o.f.V <=> ~Fits(s * Power(n), Word))
  BY <1>2, ShiftMeans
<1>7. pc' = 2 /\ start' = start
  BY <1>1, <1>5 DEF Only
<1> HIDE DEF o
<1> QED BY <1>5, <1>6, <1>7 DEF KnownShift

LEMMA ShiftPairGoes ==
  ASSUME TypeOK, program.name = "shift_pair", KnownShiftPair, Next
  PROVE  KnownShiftPair'
<1>1. program.code = <<Op("ASHC", 2, 0)>> /\ pc = 1
  BY Codes DEF TypeOK, Next
<1>2. /\ 0 \in Registers /\ 1 \in Registers /\ 2 \in Registers /\ Partner(0) = 1
      /\ start[2] \in 0 .. Word - 1 /\ start[2] \in Int
      /\ R \in [Registers -> 0 .. Word - 1]
  BY Sizes DEF Registers, TypeOK, Partner
<1>3. At("ASHC", 2, 0)
  BY <1>1 DEF At
<1>4. R = start
  BY <1>1 DEF KnownShiftPair
<1> DEFINE p == Pair(start, 0)
           o == Shift(p, start[2], f, Wide)
           x == o.alu
<1>5. p \in 0 .. Wide - 1
  BY <1>2, <1>4, PairTyped
<1>6. StorePair(0, x) /\ x \in 0 .. Wide - 1 /\ f' = o.f /\ pc' = 2 /\ start' = start
  BY <1>1, <1>2, <1>3, <1>4, AtASHC
<1> HIDE DEF p
<1>7. LET w == Signed(p, Wide)
          n == Signed(start[2] % (2 * Shifts), 2 * Shifts) IN
      /\ x % Wide = ShiftedBy(w, n, Wide)
      /\ n > 0 => (o.f.V <=> ~Fits(w * Power(n), Wide))
  BY <1>2, <1>5, ShiftMeans
<1> HIDE DEF o, x
<1>8. Pair(R', 0) = x
  <2>1. R'[0] = x \div Word /\ R'[1] = x % Word
    BY <1>2, <1>6, PairStored
  <2>2. x = (x \div Word) * Word + (x % Word)
    BY <1>6, HalvesOfPair
  <2> QED BY <1>2, <2>1, <2>2 DEF Pair
<1>9. x % Wide = x
  BY <1>6, SelfRemainder, Sizes
<1> QED BY <1>6, <1>7, <1>8, <1>9 DEF KnownShiftPair, p, Pair
-----------------------------------------------------------------------------
(* A comparison and its branch.                                             *)

\* What the conditions g say of x and y when they were compared.
Compared(g, x, y, m) ==
  /\ g.Z <=> x = y
  /\ g.C <=> x < y
  /\ g.N <=> Signed((x - y) % m, m) < 0
  /\ g.V <=> Signed(x, m) - Signed(y, m) \notin -(m \div 2) .. (m \div 2) - 1
  /\ (g.N <=> g.V) <=> Signed(x, m) >= Signed(y, m)

LEMMA CMPTells ==
  ASSUME NEW m \in {Byte, Word}, NEW y \in 0 .. m - 1, NEW x \in 0 .. m - 1, NEW g \in Conditions
  PROVE  Compared(CMP(y, x, g, m).f, x, y, m)
<1> DEFINE o == CMP(y, x, g, m)
           sx == Signed(x, m)
           sy == Signed(y, m)
           v == sx - sy
           u == x - y
<1>1. PICK h : Half(m, h)
  BY SizesHalf
<1>2. m \div 2 = h /\ m = 2 * h /\ h \in Nat \ {0} /\ m \in Nat \ {0}
  BY <1>1, HalfOf DEF Half
<1>3. Tells(o, v, u, m)
  BY AdditionTells DEF AdditionRight
<1>4. /\ sx \in -h .. h - 1 /\ sx = IF x < h THEN x ELSE x - m
      /\ sy \in -h .. h - 1 /\ sy = IF y < h THEN y ELSE y - m
  BY <1>1, SignedOf
<1> DEFINE t == (IF x < h THEN 0 ELSE -1) + (IF y < h THEN 0 ELSE 1)
<1>5. v \in Int /\ u \in Int /\ t \in Int /\ v = u + t * m
  BY <1>2, <1>4
<1> HIDE DEF o, sx, sy, v, u, t
<1>6. v % m = u % m
  BY <1>2, <1>5, SameRemainder
<1>7. /\ o.f.N <=> Signed(u % m, m) < 0
      /\ o.f.Z <=> u % m = 0
      /\ o.f.V <=> v \notin -h .. h - 1
      /\ o.f.C <=> u \notin 0 .. m - 1
  BY <1>2, <1>3, <1>6 DEF Tells
<1>8. u \in -(m - 1) .. m - 1 /\ (u = 0 <=> x = y) /\ (u < 0 <=> x < y)
  BY <1>2 DEF u
<1>9. u % m = 0 <=> u = 0
  <2>1. CASE u >= 0
    BY <1>2, <1>8, <2>1, SelfRemainder
  <2>2. CASE u < 0
    <3> DEFINE w == u + m
    <3>1. w \in 1 .. m - 1 /\ w \in 0 .. m - 1 /\ w \in Int /\ u = w + (-1) * m /\ -1 \in Int
      BY <1>2, <1>8, <2>2
    <3> HIDE DEF w
    <3>2. u % m = w % m /\ w % m = w
      BY <1>2, <1>5, <3>1, SameRemainder, SelfRemainder
    <3> QED BY <2>2, <3>1, <3>2
  <2> QED BY <1>5, <2>1, <2>2
<1>10. (o.f.N <=> o.f.V) <=> sx >= sy
  <2>1. o.f.N <=> Signed(v % m, m) < 0
    BY <1>6, <1>7
  <2>2. v = sx - sy
    BY DEF v
  <2>3. CASE v \in -h .. h - 1
    <3>1. Signed(v % m, m) = v
      BY <1>1, <2>3, SignedBack
    <3> QED BY <1>4, <1>5, <1>7, <2>1, <2>2, <2>3, <3>1
  <2>4. CASE v >= h
    <3>1. v \in 0 .. m - 1
      BY <1>2, <1>4, <2>2, <2>4
    <3>2. v % m = v /\ Signed(v, m) = v - m
      <4>1. v % m = v
        BY <1>2, <3>1, SelfRemainder
      <4>2. Signed(v, m) = IF v < h THEN v ELSE v - m
        BY <1>1, <3>1, SignedOf
      <4> QED BY <1>2, <1>5, <2>4, <4>1, <4>2
    <3>3. ~(v \in -h .. h - 1) /\ v - m < 0
      BY <1>2, <2>4, <3>1
    <3> QED BY <1>2, <1>4, <1>7, <2>1, <2>2, <2>4, <3>2, <3>3
  <2>5. CASE v < -h
    <3> DEFINE w == v + m
    <3>1. w \in 1 .. h - 1 /\ w \in 0 .. m - 1 /\ w \in Int /\ v = w + (-1) * m /\ -1 \in Int
      BY <1>2, <1>4, <2>2, <2>5
    <3> HIDE DEF w
    <3>2. v % m = w % m /\ w % m = w /\ Signed(w, m) = w
      <4>1. v % m = w % m
        BY ONLY <1>2, <1>5, <3>1, SameRemainder
      <4>2. w % m = w
        BY <1>2, <3>1, SelfRemainder
      <4>3. Signed(w, m) = IF w < h THEN w ELSE w - m
        BY <1>1, <3>1, SignedOf
      <4> QED BY <1>2, <3>1, <4>1, <4>2, <4>3
    <3>3. ~(v \in -h .. h - 1) /\ ~(w < 0) /\ sx < sy
      BY <1>2, <1>4, <2>2, <2>5, <3>1
    <3> QED BY <1>4, <1>7, <2>1, <3>2, <3>3
  <2> QED BY <1>2, <1>5, <2>3, <2>4, <2>5
<1>11. /\ o.f.Z <=> x = y
       /\ o.f.C <=> x < y
  BY <1>2, <1>7, <1>8, <1>9
<1>12. /\ o.f.N <=> Signed((x - y) % m, m) < 0
       /\ o.f.V <=> Signed(x, m) - Signed(y, m) \notin -(m \div 2) .. (m \div 2) - 1
  BY <1>2, <1>7 DEF u, v, sx, sy
<1> QED BY <1>10, <1>11, <1>12 DEF Compared, o, sx, sy

LEMMA ComparisonCode ==
  ASSUME TypeOK, program.name = "compare"
  PROVE  \E cmp \in {Op("CMP", 1, 0), OpB("CMP", 1, 0)}, op \in Branches :
           program.code = <<cmp, Op(op, 0, 0)>>
<1>1. program \in Comparisons \cup Longer
  BY ProgramsAssumption DEF TypeOK
<1>2. program \notin Longer
  BY DEF Longer
<1> DEFINE S == {Op("CMP", 1, 0), OpB("CMP", 1, 0)}
           p(cmp, op) == [name |-> "compare", code |-> <<cmp, Op(op, 0, 0)>>]
<1>3. program \in {p(cmp, op) : cmp \in S, op \in Branches}
  <2>1. program \in Comparisons
    BY <1>1, <1>2
  <2>2. Comparisons = {p(cmp, op) : cmp \in S, op \in Branches}
    BY DEF Comparisons
  <2> HIDE DEF S, p
  <2> QED BY <2>1, <2>2
<1>4. \A cmp, op : p(cmp, op).code = <<cmp, Op(op, 0, 0)>>
  OBVIOUS
<1> HIDE DEF S, p
<1>5. \E cmp \in S, op \in Branches : program = p(cmp, op)
  BY <1>3
<1> QED BY <1>4, <1>5 DEF S

LEMMA AtCMP ==
  ASSUME TypeOK, NEW i \in {Op("CMP", 1, 0), OpB("CMP", 1, 0)}, Next, program.code[pc] = i
  PROVE  /\ f' = CMP(R[0] % i.m, R[1] % i.m, f, i.m).f
         /\ R[0] % i.m \in 0 .. i.m - 1 /\ R[1] % i.m \in 0 .. i.m - 1
         /\ m_bCBug' = FALSE /\ pc' = pc + 1 /\ program' = program /\ start' = start
<1>1. i.op = "CMP" /\ i.m \in {Byte, Word} /\ i.src = 1 /\ i.dst = 0
  BY DEF Op, OpB
<1>2. 0 \in Registers /\ 1 \in Registers
  BY DEF Registers
<1>3. Execute(i)
  BY DEF Next
<1>4. ExecuteALU(i)
  BY <1>1, <1>3 DEF Execute, ExecuteMUL, ExecuteDIV, ExecuteASH, ExecuteASHC, ExecuteBranch,
                    ExecuteSOB, EIS, Branches
<1>5. ALU(i, Argument(0, i.m), Argument(1, i.m)) = CMP(Argument(0, i.m), Argument(1, i.m), f, i.m)
  BY <1>1 DEF ALU, Logic
<1>6. f' = CMP(Argument(0, i.m), Argument(1, i.m), f, i.m).f
  BY <1>1, <1>4, <1>5 DEF ExecuteALU
<1>7. m_bCBug' = FALSE /\ pc' = pc + 1 /\ program' = program /\ start' = start
  BY <1>1, <1>4 DEF ExecuteALU, Go
<1>8. Argument(0, i.m) \in 0 .. i.m - 1 /\ Argument(1, i.m) \in 0 .. i.m - 1
  BY <1>1, <1>2, ArgumentTyped
<1> QED BY <1>6, <1>7, <1>8 DEF Argument

LEMMA AtBranch ==
  ASSUME TypeOK, NEW op \in Branches, At(op, 0, 0)
  PROVE  /\ taken' = Condition(op, m_Freg)
         /\ pc' = pc + 1 /\ program' = program /\ start' = start
<1> DEFINE i == Op(op, 0, 0)
<1>1. Execute(i)
  BY DEF At, Next
<1>2. i.op = op
  BY DEF Op
<1> HIDE DEF i
<1>3. i.op # "SOB" /\ i.op \notin EIS
  BY <1>2 DEF Branches, EIS
<1>4. ExecuteBranch(i)
  BY <1>1, <1>2, <1>3 DEF Execute, ExecuteALU, ExecuteMUL, ExecuteDIV, ExecuteASH, ExecuteASHC,
                          ExecuteSOB, EIS
<1> QED BY <1>2, <1>4 DEF ExecuteBranch, Go

\* Each branch asks what its name says of the numbers that were compared.
LEMMA BranchTells ==
  ASSUME NEW op \in Branches, NEW m \in {Byte, Word}, NEW x \in 0 .. m - 1,
         NEW y \in 0 .. m - 1, NEW g \in Conditions, Compared(g, x, y, m)
  PROVE  Condition(op, g) = Relation(op, x, y, m)
<1> DEFINE sx == Signed(x, m)
           sy == Signed(y, m)
           n == Signed((x - y) % m, m) < 0
           v == sx - sy \notin -(m \div 2) .. (m \div 2) - 1
<1>1. PICK h : Half(m, h)
  BY SizesHalf
<1>2. sx \in Int /\ sy \in Int /\ h \in Nat \ {0} /\ m \in Nat \ {0}
  <2>1. h \in Nat \ {0} /\ m \in Nat \ {0}
    BY <1>1, HalfOf DEF Half
  <2>2. sx \in -h .. h - 1 /\ sy \in -h .. h - 1
    BY <1>1, SignedOf
  <2> HIDE DEF sx, sy
  <2> QED BY <2>1, <2>2
<1>3. sx = sy <=> x = y
  BY <1>1, SignedOf
<1>4. /\ g.Z <=> x = y
      /\ g.C <=> x < y
      /\ g.N <=> n
      /\ g.V <=> v
      /\ (g.N <=> g.V) <=> sx >= sy
  BY DEF Compared
<1>5. g.N \in BOOLEAN /\ g.Z \in BOOLEAN /\ g.V \in BOOLEAN /\ g.C \in BOOLEAN
  BY DEF Conditions
<1>6. (g.N = g.V) = (sx >= sy) /\ (g.N # g.V) = (sx < sy)
  <2>1. (g.N = g.V) <=> sx >= sy
    BY <1>4, <1>5
  <2>2. (sx >= sy) \in BOOLEAN /\ (sx < sy) \in BOOLEAN /\ (sx < sy <=> ~(sx >= sy))
    BY <1>2
  <2> QED BY <2>1, <2>2
<1> HIDE DEF sx, sy, n, v
<1>7. CASE op = "BNE"
  BY <1>4, <1>5, <1>7 DEF Condition, Relation
<1>8. CASE op = "BEQ"
  BY <1>4, <1>5, <1>8 DEF Condition, Relation
<1>9. CASE op = "BGE"
  BY <1>6, <1>9 DEF Condition, Relation, sx, sy
<1>10. CASE op = "BLT"
  BY <1>6, <1>10 DEF Condition, Relation, sx, sy
<1>11. CASE op = "BGT"
  <2>1. Condition(op, g) = ~(g.Z \/ g.N # g.V)
    BY <1>11 DEF Condition
  <2>2. Relation(op, x, y, m) = (sx > sy)
    BY <1>11 DEF Relation, sx, sy
  <2>3. sx > sy <=> ~(x = y \/ sx < sy)
    BY <1>2, <1>3
  <2> QED BY <1>2, <1>4, <1>6, <2>1, <2>2, <2>3
<1>12. CASE op = "BLE"
  <2>1. Condition(op, g) = (g.Z \/ g.N # g.V)
    BY <1>12 DEF Condition
  <2>2. Relation(op, x, y, m) = (sx <= sy)
    BY <1>12 DEF Relation, sx, sy
  <2>3. sx <= sy <=> x = y \/ sx < sy
    BY <1>2, <1>3
  <2> QED BY <1>2, <1>4, <1>6, <2>1, <2>2, <2>3
<1>13. CASE op = "BPL"
  <2>1. Condition(op, g) = ~g.N
    BY <1>13 DEF Condition
  <2>2. Relation(op, x, y, m) = (n = FALSE)
    BY <1>13 DEF Relation, n
  <2> QED BY <1>4, <1>5, <2>1, <2>2 DEF n
<1>14. CASE op = "BMI"
  <2>1. Condition(op, g) = g.N
    BY <1>14 DEF Condition
  <2>2. Relation(op, x, y, m) = (n = TRUE)
    BY <1>14 DEF Relation, n
  <2> QED BY <1>4, <1>5, <2>1, <2>2 DEF n
<1>15. CASE op = "BHI"
  <2>1. Condition(op, g) = ~(g.Z \/ g.C)
    BY <1>15 DEF Condition
  <2>2. Relation(op, x, y, m) = (x > y)
    BY <1>15 DEF Relation
  <2>3. x > y <=> ~(x = y \/ x < y)
    BY <1>2
  <2> QED BY <1>2, <1>4, <1>5, <2>1, <2>2, <2>3
<1>16. CASE op = "BLOS"
  <2>1. Condition(op, g) = (g.Z \/ g.C)
    BY <1>16 DEF Condition
  <2>2. Relation(op, x, y, m) = (x <= y)
    BY <1>16 DEF Relation
  <2>3. x <= y <=> x = y \/ x < y
    BY <1>2
  <2> QED BY <1>2, <1>4, <1>5, <2>1, <2>2, <2>3
<1>17. CASE op = "BVC"
  <2>1. Condition(op, g) = ~g.V
    BY <1>17 DEF Condition
  <2>2. Relation(op, x, y, m) = (v = FALSE)
    BY <1>17 DEF Relation, v, sx, sy
  <2> QED BY <1>4, <1>5, <2>1, <2>2 DEF v
<1>18. CASE op = "BVS"
  <2>1. Condition(op, g) = g.V
    BY <1>18 DEF Condition
  <2>2. Relation(op, x, y, m) = (v = TRUE)
    BY <1>18 DEF Relation, v, sx, sy
  <2> QED BY <1>4, <1>5, <2>1, <2>2 DEF v
<1>19. CASE op = "BHIS"
  <2>1. Condition(op, g) = ~g.C
    BY <1>19 DEF Condition
  <2>2. Relation(op, x, y, m) = (x >= y)
    BY <1>19 DEF Relation
  <2>3. x >= y <=> ~(x < y)
    BY <1>2
  <2> QED BY <1>2, <1>4, <1>5, <2>1, <2>2, <2>3
<1>20. CASE op = "BLO"
  BY <1>2, <1>4, <1>5, <1>20 DEF Condition, Relation
<1> QED BY <1>7, <1>8, <1>9, <1>10, <1>11, <1>12, <1>13, <1>14, <1>15, <1>16, <1>17, <1>18,
           <1>19, <1>20, Zenon DEF Branches

KnownCompare ==
  LET first == program.code[1]
      m == first.m
      x == start[first.src] % m
      y == start[first.dst] % m IN
  /\ pc = 1 => R = start
  /\ pc = 2 => m_bCBug = FALSE /\ Compared(f, x, y, m)
  /\ pc = 3 => taken = Relation(program.code[2].op, x, y, m)

LEMMA CompareGoes ==
  ASSUME TypeOK, program.name = "compare", KnownCompare, Next
  PROVE  KnownCompare'
<1>1. PICK cmp \in {Op("CMP", 1, 0), OpB("CMP", 1, 0)}, op \in Branches :
        program.code = <<cmp, Op(op, 0, 0)>>
  BY ComparisonCode
<1>2. pc \in 1 .. 2 /\ program.code[1] = cmp /\ program.code[2] = Op(op, 0, 0)
  BY <1>1 DEF TypeOK, Next
<1>3. cmp.m \in {Byte, Word} /\ cmp.src = 1 /\ cmp.dst = 0 /\ Op(op, 0, 0).op = op
  BY DEF Op, OpB
<1> DEFINE m == cmp.m
           x == start[1] % m
           y == start[0] % m
<1>4. CASE pc = 1
  <2>1. R = start
    BY <1>4 DEF KnownCompare
  <2>2. /\ f' = CMP(y, x, f, m).f /\ y \in 0 .. m - 1 /\ x \in 0 .. m - 1
        /\ m_bCBug' = FALSE /\ pc' = 2 /\ program' = program /\ start' = start
    <3>1. program.code[pc] = cmp
      BY <1>2, <1>4
    <3>2. /\ f' = CMP(R[0] % cmp.m, R[1] % cmp.m, f, cmp.m).f
          /\ R[0] % cmp.m \in 0 .. cmp.m - 1 /\ R[1] % cmp.m \in 0 .. cmp.m - 1
          /\ m_bCBug' = FALSE /\ pc' = pc + 1 /\ program' = program /\ start' = start
      BY <3>1, AtCMP
    <3> QED BY <1>4, <2>1, <3>2
  <2>3. f \in Conditions
    BY DEF TypeOK
  <2> HIDE DEF x, y
  <2>4. Compared(CMP(y, x, f, m).f, x, y, m)
    BY <1>3, <2>2, <2>3, CMPTells
  <2> QED BY <1>2, <1>3, <2>2, <2>4 DEF KnownCompare, x, y
<1>5. CASE pc = 2
  <2>1. m_bCBug = FALSE /\ Compared(f, x, y, m)
    BY <1>2, <1>3, <1>5 DEF KnownCompare
  <2>2. At(op, 0, 0)
    BY <1>2, <1>5 DEF At
  <2>3. taken' = Condition(op, m_Freg) /\ pc' = 3 /\ program' = program /\ start' = start
    BY <1>5, <2>2, AtBranch
  <2>4. m_Freg = f /\ f \in Conditions
    BY <2>1 DEF m_Freg, TypeOK
  <2>5. x \in 0 .. m - 1 /\ y \in 0 .. m - 1
    <3>1. start[0] \in Int /\ start[1] \in Int /\ m \in Nat \ {0}
      BY <1>3, Sizes DEF TypeOK, Registers
    <3> QED BY <3>1, Divided
  <2> HIDE DEF x, y
  <2>6. Condition(op, f) = Relation(op, x, y, m)
    BY <1>3, <2>1, <2>4, <2>5, BranchTells
  <2> QED BY <1>2, <1>3, <2>3, <2>4, <2>6 DEF KnownCompare, x, y
<1> QED BY <1>2, <1>4, <1>5
-----------------------------------------------------------------------------
(* The programs compute what they are written for.                          *)

\* Beside the types: what is known of each program where it stands.
ProgramsKnown ==
  /\ program.name = "add" => KnownAdd
  /\ program.name = "subtract" => KnownSubtract
  /\ program.name = "negate" => KnownNegate
  /\ program.name = "double" => KnownDouble
  /\ program.name = "halve" => KnownHalve
  /\ program.name = "extend" => KnownExtend
  /\ program.name = "product" => KnownProduct
  /\ program.name = "loop" => KnownLoop
  /\ program.name = "shift" => KnownShift
  /\ program.name = "shift_pair" => KnownShiftPair
  /\ program.name = "compare" => KnownCompare

LEMMA KnownInit == Init => ProgramsKnown
<1> SUFFICES ASSUME Init PROVE ProgramsKnown
  OBVIOUS
<1>1. R = start /\ pc = 1 /\ pc # 2 /\ pc # 3 /\ pc # 4
  BY DEF Init
<1>2. KnownAdd /\ KnownSubtract /\ KnownNegate /\ KnownDouble
  BY <1>1 DEF KnownAdd, KnownSubtract, KnownNegate, KnownDouble
<1>3. KnownHalve /\ KnownExtend /\ KnownProduct
  BY <1>1 DEF KnownHalve, KnownExtend, KnownProduct
<1>4. KnownShift /\ KnownShiftPair /\ KnownCompare
  BY <1>1 DEF KnownShift, KnownShiftPair, KnownCompare
<1>5. KnownLoop
  <2>1. \A q \in Registers : R[q] \in 0 .. Word - 1
    BY TypeInit DEF TypeOK
  <2>2. R[0] \in 0 .. Word - 1 /\ R[1] \in 0 .. Word - 1 /\ R[2] \in 0 .. Word - 1
    BY <2>1 DEF Registers
  <2> DEFINE n == TimesOf(R[1])
             x == R[0]
             y == R[2]
  <2>3. n \in Int /\ x \in Int /\ y \in Int /\ x \in 0 .. Word - 1
    BY <2>2, CountsDown
  <2> HIDE DEF n, x, y
  <2>4. x + y * (n - n) = x
    BY <2>3
  <2>5. x % Word = x
    BY <2>3, SelfRemainder, Sizes
  <2>6. x = (x + y * (n - n)) % Word
    BY <2>4, <2>5
  <2> QED BY <1>1, <2>6 DEF KnownLoop, n, x, y
<1> QED BY <1>2, <1>3, <1>4, <1>5 DEF ProgramsKnown

LEMMA KnownNext == TypeOK /\ ProgramsKnown /\ [Next]_vars => ProgramsKnown'
<1> SUFFICES ASSUME TypeOK, ProgramsKnown, [Next]_vars PROVE ProgramsKnown'
  OBVIOUS
<1>1. CASE UNCHANGED vars
  <2>1. /\ KnownAdd' <=> KnownAdd
        /\ KnownSubtract' <=> KnownSubtract
        /\ KnownNegate' <=> KnownNegate
        /\ KnownDouble' <=> KnownDouble
        /\ KnownHalve' <=> KnownHalve
        /\ KnownExtend' <=> KnownExtend
    BY <1>1 DEF vars, KnownAdd, KnownSubtract, KnownNegate, KnownDouble, KnownHalve, KnownExtend,
                Pair
  <2>2. /\ KnownProduct' <=> KnownProduct
        /\ KnownLoop' <=> KnownLoop
        /\ KnownShift' <=> KnownShift
        /\ KnownShiftPair' <=> KnownShiftPair
        /\ KnownCompare' <=> KnownCompare
    BY <1>1 DEF vars, KnownProduct, KnownLoop, KnownShift, KnownShiftPair, KnownCompare, Pair
  <2>3. program' = program
    BY <1>1 DEF vars
  <2> QED BY <2>1, <2>2, <2>3 DEF ProgramsKnown
<1>2. CASE Next
  <2>1. program' = program
    BY <1>2 DEF Next, Execute, ExecuteALU, ExecuteMUL, ExecuteDIV, ExecuteASH, ExecuteASHC,
                ExecuteBranch, ExecuteSOB, Go
  <2>2. program.name = "add" => KnownAdd'
    BY <1>2, AddGoes DEF ProgramsKnown
  <2>3. program.name = "subtract" => KnownSubtract'
    BY <1>2, SubtractGoes DEF ProgramsKnown
  <2>4. program.name = "negate" => KnownNegate'
    BY <1>2, NegateGoes DEF ProgramsKnown
  <2>5. program.name = "double" => KnownDouble'
    BY <1>2, DoubleGoes DEF ProgramsKnown
  <2>6. program.name = "halve" => KnownHalve'
    BY <1>2, HalveGoes DEF ProgramsKnown
  <2>7. program.name = "extend" => KnownExtend'
    BY <1>2, ExtendGoes DEF ProgramsKnown
  <2>8. program.name = "product" => KnownProduct'
    BY <1>2, ProductGoes DEF ProgramsKnown
  <2>9. program.name = "loop" => KnownLoop'
    BY <1>2, LoopGoes DEF ProgramsKnown
  <2>10. program.name = "shift" => KnownShift'
    BY <1>2, ShiftGoes DEF ProgramsKnown
  <2>11. program.name = "shift_pair" => KnownShiftPair'
    BY <1>2, ShiftPairGoes DEF ProgramsKnown
  <2>12. program.name = "compare" => KnownCompare'
    BY <1>2, CompareGoes DEF ProgramsKnown
  <2> QED BY <2>1, <2>2, <2>3, <2>4, <2>5, <2>6, <2>7, <2>8, <2>9, <2>10, <2>11, <2>12
          DEF ProgramsKnown
<1> QED BY <1>1, <1>2

LEMMA KnownMeans == TypeOK /\ ProgramsKnown => ProgramsCompute
<1> SUFFICES ASSUME TypeOK, ProgramsKnown, pc > Len(program.code) PROVE Computes
  BY DEF ProgramsCompute
<1> DEFINE name == program.name
           n == Len(program.code)
<1>0. /\ name \in {"add", "subtract", "negate"} => n = 3
      /\ name \in {"double", "halve", "extend", "product", "loop"} => n = 2
      /\ name \in {"shift", "shift_pair"} => n = 1
  <2>1. /\ Len(<<Op("ADD", 3, 1), Op("ADC", 0, 0), Op("ADD", 2, 0)>>) = 3
        /\ Len(<<Op("SUB", 3, 1), Op("SBC", 0, 0), Op("SUB", 2, 0)>>) = 3
        /\ Len(<<Op("NEG", 0, 0), Op("NEG", 1, 1), Op("SBC", 0, 0)>>) = 3
        /\ Len(<<Op("ASL", 1, 1), Op("ROL", 0, 0)>>) = 2
        /\ Len(<<Op("ASR", 0, 0), Op("ROR", 1, 1)>>) = 2
        /\ Len(<<Op("TST", 1, 1), Op("SXT", 0, 0)>>) = 2
        /\ Len(<<Op("MUL", 2, 0), Op("DIV", 2, 0)>>) = 2
        /\ Len(<<Op("ADD", 2, 0), Op("SOB", 1, 1)>>) = 2
        /\ Len(<<Op("ASH", 2, 0)>>) = 1 /\ Len(<<Op("ASHC", 2, 0)>>) = 1
    OBVIOUS
  <2> QED BY <2>1, Codes, Zenon
<1>1. pc = n + 1
  BY CodeTyped DEF TypeOK
<1> HIDE DEF n
<1>14. /\ name \in {"add", "subtract", "negate"} => pc = 4
       /\ name \in {"double", "halve", "extend", "product", "loop"} => pc = 3
       /\ name \in {"shift", "shift_pair"} => pc = 2
  <2>1. (n = 3 => pc = 4) /\ (n = 2 => pc = 3) /\ (n = 1 => pc = 2)
    BY <1>1
  <2> QED BY <1>0, <2>1
<1>2. CASE name = "add"
  <2>1. pc = 4
    BY <1>14, <1>2, Zenon
  <2>2. KnownAdd
    BY <1>2, Zenon DEF ProgramsKnown
  <2> QED BY <1>2, <2>1, <2>2 DEF Computes, KnownAdd
<1>3. CASE name = "subtract"
  <2>1. pc = 4
    BY <1>14, <1>3, Zenon
  <2>2. KnownSubtract
    BY <1>3, Zenon DEF ProgramsKnown
  <2> QED BY <1>3, <2>1, <2>2 DEF Computes, KnownSubtract
<1>4. CASE name = "negate"
  <2>1. pc = 4
    BY <1>14, <1>4, Zenon
  <2>2. KnownNegate
    BY <1>4, Zenon DEF ProgramsKnown
  <2> QED BY <1>4, <2>1, <2>2 DEF Computes, KnownNegate
<1>5. CASE name = "double"
  <2>1. pc = 3
    BY <1>14, <1>5, Zenon
  <2>2. KnownDouble
    BY <1>5, Zenon DEF ProgramsKnown
  <2> QED BY <1>5, <2>1, <2>2 DEF Computes, KnownDouble
<1>6. CASE name = "halve"
  <2>1. pc = 3
    BY <1>14, <1>6, Zenon
  <2>2. KnownHalve
    BY <1>6, Zenon DEF ProgramsKnown
  <2> QED BY <1>6, <2>1, <2>2 DEF Computes, KnownHalve
<1>7. CASE name = "extend"
  <2>1. pc = 3
    BY <1>14, <1>7, Zenon
  <2>2. KnownExtend
    BY <1>7, Zenon DEF ProgramsKnown
  <2> QED BY <1>7, <2>1, <2>2 DEF Computes, KnownExtend
<1>8. CASE name = "product"
  <2>1. pc = 3
    BY <1>14, <1>8, Zenon
  <2>2. KnownProduct
    BY <1>8, Zenon DEF ProgramsKnown
  <2> QED BY <1>8, <2>1, <2>2 DEF Computes, KnownProduct
<1>9. CASE name = "loop"
  <2>1. pc = 3
    BY <1>14, <1>9, Zenon
  <2>2. KnownLoop
    BY <1>9, Zenon DEF ProgramsKnown
  <2> QED BY <1>9, <2>1, <2>2 DEF Computes, KnownLoop, TimesOf
<1>10. CASE name = "shift"
  <2>1. pc = 2
    BY <1>14, <1>10, Zenon
  <2>2. KnownShift
    BY <1>10, Zenon DEF ProgramsKnown
  <2> QED BY <1>10, <2>1, <2>2 DEF Computes, KnownShift
<1>11. CASE name = "shift_pair"
  <2>1. pc = 2
    BY <1>14, <1>11, Zenon
  <2>2. KnownShiftPair
    BY <1>11, Zenon DEF ProgramsKnown
  <2> QED BY <1>11, <2>1, <2>2 DEF Computes, KnownShiftPair
<1>12. CASE name = "compare"
  <2>1. pc = 3 /\ KnownCompare
    <3>1. PICK cmp \in {Op("CMP", 1, 0), OpB("CMP", 1, 0)}, op \in Branches :
            program.code = <<cmp, Op(op, 0, 0)>>
      BY <1>12, ComparisonCode
    <3>2. Len(program.code) = 2
      BY <3>1
    <3> QED BY <1>1, <1>12, <3>2 DEF ProgramsKnown, n
  <2> QED BY <1>12, <2>1 DEF Computes, KnownCompare
<1>13. CASE name = "single"
  BY <1>13 DEF Computes
<1>15. name \in {"single", "compare", "add", "subtract", "negate", "double", "halve", "extend",
                 "product", "loop", "shift", "shift_pair"}
  <2>1. name \in {"single", "compare"} \/ program \in Longer
    BY Codes
  <2>2. program \in Longer => name \in {"add", "subtract", "negate", "double", "halve", "extend",
                                        "product", "loop", "shift", "shift_pair"}
    BY DEF Longer
  <2> QED BY <2>1, <2>2
<1> QED BY <1>2, <1>3, <1>4, <1>5, <1>6, <1>7, <1>8, <1>9, <1>10, <1>11, <1>12, <1>13, <1>15

\* Numbers of two words are added, subtracted, negated, doubled, halved and
\* extended with the carry that the first instruction leaves; a product divides
\* back; a loop runs as often as its counter says, 0 standing for a whole word;
\* shifts by a count multiply and divide; and each branch after a comparison asks
\* what its name says.  For bytes and words of every size, and all registers.
THEOREM ProgramsDoCompute == Spec => []ProgramsCompute
<1>1. Spec => []ProgramsKnown
  BY TypeCorrect, KnownInit, KnownNext, PTL DEF Spec
<1> QED BY <1>1, TypeCorrect, KnownMeans, PTL
-----------------------------------------------------------------------------
(* What each instruction leaves in registers and conditions.                *)

LEMMA OutcomeFields ==
  ASSUME NEW o, NEW x, NEW m, NEW v, NEW c, o = Outcome(x, m, v, c)
  PROVE  /\ o.alu = x
         /\ o.f.N <=> Sign(x, m)
         /\ o.f.Z <=> x % m = 0
         /\ o.f.V = v
         /\ o.f.C = c
<1> DEFINE s == Sign(x, m)
           z == (x % m = 0)
<1>1. o = [alu |-> x, f |-> [N |-> s, Z |-> z, V |-> v, C |-> c]]
  BY DEF Outcome
<1> HIDE DEF s, z
<1>2. o.alu = x /\ o.f.N = s /\ o.f.Z = z /\ o.f.V = v /\ o.f.C = c
  BY <1>1
<1> QED BY <1>2 DEF s, z

\* What an operation leaves in m_ALU and the conditions when v is the exact result.
Said(o, v, c, m) ==
  /\ o.alu % m = v % m
  /\ o.f.N <=> Signed(v % m, m) < 0
  /\ o.f.Z <=> v % m = 0
  /\ o.f.V <=> ~Fits(v, m)
  /\ o.f.C <=> c

LEMMA TellsSaid ==
  ASSUME NEW o, NEW v, NEW u, NEW m, Tells(o, v, u, m)
  PROVE  Said(o, v, u \notin 0 .. m - 1, m)
BY DEF Tells, Said, Fits

LEMMA KeepingSaid ==
  ASSUME NEW x, NEW m, NEW p, NEW e, NEW v, NEW c,
         TellsKeepingC(Outcome(x, m, p, e), v, c, m)
  PROVE  Said(Outcome(x, m, p, e), v, c, m)
<1> DEFINE o == Outcome(x, m, p, e)
           n == Outcome(x, m, p, FALSE)
<1>4. [o EXCEPT !.f.C = FALSE] = n
  <2> DEFINE g == FALSE
  <2> HIDE DEF g
  <2>1. [Outcome(x, m, p, e) EXCEPT !.f.C = g] = Outcome(x, m, p, g)
    BY OtherCarry
  <2> QED BY <2>1 DEF g
<1>1. Tells(n, v, 0, m) /\ (o.f.C <=> c)
  <2>1. Tells([o EXCEPT !.f.C = FALSE], v, 0, m) /\ (o.f.C <=> c)
    BY DEF TellsKeepingC
  <2> HIDE DEF n, o
  <2> QED BY <1>4, <2>1, Zenon
<1>2. o.alu = n.alu /\ o.f.N = n.f.N /\ o.f.Z = n.f.Z /\ o.f.V = n.f.V
  BY DEF Outcome
<1> HIDE DEF o, n
<1>3. /\ n.alu % m = v % m
      /\ n.f.N <=> Signed(v % m, m) < 0
      /\ n.f.Z <=> v % m = 0
      /\ n.f.V <=> ~Fits(v, m)
  BY <1>1 DEF Tells, Fits
<1>5. Said(o, v, c, m)
  BY <1>1, <1>2, <1>3 DEF Said
<1> QED BY <1>5 DEF o

\* An outcome whose result is exact and fits.
LEMMA OutcomeSaid ==
  ASSUME NEW m \in {Byte, Word}, NEW x \in Int, NEW v \in Int, NEW c \in BOOLEAN,
         x % m = v % m, Fits(v, m)
  PROVE  Said(Outcome(x, m, FALSE, c), v, c, m)
<1>1. PICK h : Half(m, h)
  BY SizesHalf
<1>2. Sign(x, m) <=> Signed(x % m, m) < 0
  BY <1>1, SignOf
<1> DEFINE o == Outcome(x, m, FALSE, c)
<1>3. o.alu = x /\ (o.f.N <=> Sign(x, m)) /\ (o.f.Z <=> x % m = 0) /\ o.f.V = FALSE /\ o.f.C = c
  BY DEF Outcome
<1> HIDE DEF o
<1>4. Said(o, v, c, m)
  BY <1>2, <1>3 DEF Said
<1> QED BY <1>4 DEF o

LEMMA SignedFits ==
  ASSUME NEW m \in {Byte, Word}, NEW a \in 0 .. m - 1
  PROVE  /\ Signed(a, m) \in Int /\ Fits(Signed(a, m), m) /\ Signed(a, m) % m = a % m
         /\ Fits(0, m) /\ Fits(-Signed(a, m) - 1, m)
         /\ -Signed(a, m) - 1 \in Int
<1>1. PICK h : Half(m, h)
  BY SizesHalf
<1>2. m \div 2 = h /\ h \in Nat \ {0} /\ m \in Nat \ {0}
  BY <1>1, HalfOf DEF Half
<1> DEFINE s == Signed(a, m)
<1>3. s \in -h .. h - 1 /\ s % m = a
  BY <1>1, SignedOf
<1>4. a % m = a
  BY <1>2, SelfRemainder
<1> HIDE DEF s
<1>5. s \in Int /\ 0 \in -h .. h - 1 /\ -s - 1 \in -h .. h - 1 /\ -s - 1 \in Int
  BY <1>2, <1>3
<1>6. Fits(s, m) /\ Fits(0, m) /\ Fits(-s - 1, m)
  BY <1>2, <1>3, <1>5 DEF Fits
<1> QED BY <1>3, <1>4, <1>5, <1>6 DEF s

\* The carry that is to be after an operation of Sums.
ExactCarry(op, u, m) == IF op \in {"INC", "DEC", "MOV"} THEN f.C ELSE u \notin 0 .. m - 1

\* What SumRight says of the result and the conditions of an instruction of Sums
\* holds of what ALU leaves in m_ALU.
LEMMA SumSaid ==
  ASSUME NEW i \in Instruction, i.op \in Sums, NEW a \in 0 .. i.m - 1, NEW b \in 0 .. i.m - 1,
         f \in Conditions
  PROVE  Said(ALU(i, a, b), Exact(i.op, Signed(a, i.m), Signed(b, i.m), One(f.C)),
              ExactCarry(i.op, Exact(i.op, a, b, One(f.C)), i.m), i.m)
<1> DEFINE op == i.op
           m == i.m
           x == Signed(a, m)
           y == Signed(b, m)
           c == One(f.C)
           Goal == Said(ALU(i, a, b), Exact(op, x, y, c), ExactCarry(op, Exact(op, a, b, c), m), m)
<1>1. m \in {Byte, Word} /\ m \in Nat \ {0} /\ f.C \in BOOLEAN /\ Wide \in Nat \ {0}
  BY InstructionFields, Sizes DEF Conditions
<1>2. AdditionRight(a, b, f, m) /\ ShiftRight(a, b, f, m)
  BY <1>1, AdditionTells, ShiftsTell
<1>3. CASE op \in {"ADD", "SUB", "CMP"}
  <2>1. CASE op = "ADD"
    <3>1. Said(ADD(a, b, f, m), x + y, a + b \notin 0 .. m - 1, m)
      BY <1>2, TellsSaid DEF AdditionRight
    <3>2. ALU(i, a, b) = ADD(a, b, f, m)
      BY <2>1 DEF ALU, Logic
    <3> QED BY <2>1, <3>1, <3>2 DEF Exact, ExactCarry
  <2>2. CASE op = "SUB"
    <3>1. Said(SUB(a, b, f, m), x - y, a - b \notin 0 .. m - 1, m)
      BY <1>2, TellsSaid DEF AdditionRight
    <3>2. ALU(i, a, b) = SUB(a, b, f, m)
      BY <2>2 DEF ALU, Logic
    <3> QED BY <2>2, <3>1, <3>2 DEF Exact, ExactCarry
  <2>3. CASE op = "CMP"
    <3>1. Said(CMP(a, b, f, m), y - x, b - a \notin 0 .. m - 1, m)
      BY <1>2, TellsSaid DEF AdditionRight
    <3>2. ALU(i, a, b) = CMP(a, b, f, m)
      BY <2>3 DEF ALU, Logic
    <3> QED BY <2>3, <3>1, <3>2 DEF Exact, ExactCarry
  <2> QED BY <1>3, <2>1, <2>2, <2>3
<1>4. CASE op \in {"ADC", "SBC", "NEG"}
  <2>1. CASE op = "ADC"
    <3>1. Said(ADC(a, b, f, m), x + c, a + c \notin 0 .. m - 1, m)
      BY <1>2, TellsSaid DEF AdditionRight
    <3>2. ALU(i, a, b) = ADC(a, b, f, m)
      BY <2>1 DEF ALU, Logic
    <3> QED BY <2>1, <3>1, <3>2 DEF Exact, ExactCarry
  <2>2. CASE op = "SBC"
    <3>1. Said(SBC(a, b, f, m), x - c, a - c \notin 0 .. m - 1, m)
      BY <1>2, TellsSaid DEF AdditionRight
    <3>2. ALU(i, a, b) = SBC(a, b, f, m)
      BY <2>2 DEF ALU, Logic
    <3> QED BY <2>2, <3>1, <3>2 DEF Exact, ExactCarry
  <2>3. CASE op = "NEG"
    <3>1. Said(NEG(a, b, f, m), -x, -a \notin 0 .. m - 1, m)
      BY <1>2, TellsSaid DEF AdditionRight
    <3>2. ALU(i, a, b) = NEG(a, b, f, m)
      BY <2>3 DEF ALU, Logic
    <3> QED BY <2>3, <3>1, <3>2 DEF Exact, ExactCarry
  <2> QED BY <1>4, <2>1, <2>2, <2>3
<1>5. CASE op \in {"ASL", "ROL"}
  <2>1. CASE op = "ASL"
    <3>1. Said(ASL(a, b, f, m), 2 * x, 2 * a \notin 0 .. m - 1, m)
      BY <1>2, TellsSaid DEF ShiftRight
    <3>2. ALU(i, a, b) = ASL(a, b, f, m)
      BY <2>1 DEF ALU, Logic
    <3> QED BY <2>1, <3>1, <3>2 DEF Exact, ExactCarry
  <2>2. CASE op = "ROL"
    <3>1. Said(ROL(a, b, f, m), 2 * x + c, 2 * a + c \notin 0 .. m - 1, m)
      BY <1>2, TellsSaid DEF ShiftRight
    <3>2. ALU(i, a, b) = ROL(a, b, f, m)
      BY <2>2 DEF ALU, Logic
    <3> QED BY <2>2, <3>1, <3>2 DEF Exact, ExactCarry
  <2> QED BY <1>5, <2>1, <2>2
<1>6. CASE op = "INC"
  <2> DEFINE r == a + 1
             p == Rose(a, r, m)
  <2>1. INC(a, b, f, m) = Outcome(r, m, p, f.C) /\ TellsKeepingC(INC(a, b, f, m), x + 1, f.C, m)
    BY <1>2 DEF INC, AdditionRight
  <2> HIDE DEF r, p
  <2>2. Said(INC(a, b, f, m), x + 1, f.C, m)
    BY <2>1, KeepingSaid
  <2>3. ALU(i, a, b) = INC(a, b, f, m)
    BY <1>6 DEF ALU, Logic
  <2> QED BY <1>6, <2>2, <2>3 DEF Exact, ExactCarry
<1>7. CASE op = "DEC"
  <2> DEFINE r == (a - 1) % Wide
             p == Fell(a, r, m)
  <2>1. DEC(a, b, f, m) = Outcome(r, m, p, f.C) /\ TellsKeepingC(DEC(a, b, f, m), x - 1, f.C, m)
    BY <1>2 DEF DEC, AdditionRight
  <2> HIDE DEF r, p
  <2>2. Said(DEC(a, b, f, m), x - 1, f.C, m)
    BY <2>1, KeepingSaid
  <2>3. ALU(i, a, b) = DEC(a, b, f, m)
    BY <1>7 DEF ALU, Logic
  <2> QED BY <1>7, <2>2, <2>3 DEF Exact, ExactCarry
<1>8. CASE op = "CLR"
  <2>1. ALU(i, a, b) = Outcome(0, m, FALSE, FALSE)
    BY <1>8 DEF ALU, CLR, Logic
  <2>2. Said(Outcome(0, m, FALSE, FALSE), 0, FALSE, m)
    <3>1. FALSE \in BOOLEAN /\ 0 \in Int /\ Fits(0, m) /\ 0 % m = 0 % m
      BY <1>1, SignedFits
    <3> QED BY <1>1, <3>1, OutcomeSaid
  <2>3. 0 \in 0 .. m - 1
    BY <1>1
  <2> QED BY <1>8, <2>1, <2>2, <2>3 DEF Exact, ExactCarry
<1>9. CASE op = "TST"
  <2>1. ALU(i, a, b) = Outcome(a, m, FALSE, FALSE)
    BY <1>9 DEF ALU, TST, Logic
  <2>2. a \in Int /\ x \in Int /\ a % m = x % m /\ Fits(x, m)
    BY <1>1, SignedFits
  <2> HIDE DEF x
  <2>3. Said(Outcome(a, m, FALSE, FALSE), x, FALSE, m)
    BY <1>1, <2>2, OutcomeSaid
  <2>4. Exact(op, x, y, c) = x /\ (ExactCarry(op, Exact(op, a, b, c), m) <=> FALSE)
    BY <1>9 DEF Exact, ExactCarry
  <2> QED BY <2>1, <2>3, <2>4 DEF Said, x
<1>10. CASE op = "COM"
  <2> DEFINE r == Wide - 1 - a
             v == -x - 1
  <2>1. ALU(i, a, b) = Outcome(r, m, FALSE, TRUE)
    BY <1>10 DEF ALU, COM, Logic
  <2>2. x \in Int /\ v \in Int /\ Fits(v, m) /\ x % m = a % m /\ r \in Int
    BY <1>1, SignedFits
  <2>3. r % m = v % m
    <3>1. PICK k \in Nat : Wide = k * m
      BY <1>1, ModulusExists DEF IsModulus
    <3>2. PICK t \in Int : x = a + t * m
      <4> DEFINE p == x \div m
                 q == a \div m
                 e == x % m
      <4>1. p \in Int /\ q \in Int /\ e \in Int /\ x = p * m + e /\ a = q * m + e
        <5> HIDE DEF x
        <5>1. p \in Int /\ x = p * m + e
          BY <1>1, <2>2, Divided
        <5>2. q \in Int /\ a % m \in Int /\ a = q * m + (a % m)
          <6>1. a \in Int
            BY <1>1
          <6>2. a % m \in 0 .. m - 1 /\ q \in Int /\ a = q * m + (a % m)
            BY <1>1, <6>1, Divided
          <6>3. a % m \in Int
            BY <1>1, <6>2
          <6> QED BY <6>2, <6>3
        <5>3. e = a % m
          BY <2>2
        <5> HIDE DEF p, q, e
        <5> QED BY <5>1, <5>2, <5>3, Zenon
      <4> HIDE DEF p, q, e, x
      <4>2. x = a + (p - q) * m /\ p - q \in Int
        BY <1>1, <4>1
      <4> QED BY <4>2
    <3> DEFINE j == k + t
    <3>3. j \in Int /\ r = v + j * m
      <4> HIDE DEF x
      <4>1. k * m \in Int /\ t * m \in Int /\ (k + t) * m = k * m + t * m
        BY <1>1, <3>1, <3>2
      <4> DEFINE km == k * m
                 tm == t * m
      <4> HIDE DEF km, tm
      <4>2. r = v + (km + tm)
        BY <1>1, <2>2, <3>1, <3>2, <4>1 DEF km, tm
      <4> QED BY <3>1, <4>1, <4>2 DEF km, tm
    <3>4. m \in Nat \ {0} /\ v \in Int /\ r \in Int
      BY <1>1, <2>2
    <3> HIDE DEF j, r, v, x, m
    <3> QED BY ONLY <3>3, <3>4, SameRemainder
  <2> HIDE DEF r, v
  <2>4. Said(Outcome(r, m, FALSE, TRUE), v, TRUE, m)
    BY <1>1, <2>2, <2>3, OutcomeSaid
  <2>5. -a - 1 \notin 0 .. m - 1
    BY <1>1
  <2>6. Exact(op, x, y, c) = v /\ (ExactCarry(op, Exact(op, a, b, c), m) <=> TRUE)
    BY <1>10, <2>5 DEF Exact, ExactCarry, v
  <2> QED BY <2>1, <2>4, <2>6 DEF Said
<1>11. CASE op = "MOV"
  <2> DEFINE r == IF m = Byte /\ CharSigned /\ Sign(b, Byte) THEN Wide - Byte + b ELSE b
  <2>1. ALU(i, a, b) = Outcome(r, m, FALSE, f.C)
    BY <1>11 DEF ALU, MOV, Logic
  <2>2. b \in Int /\ y \in Int /\ b % m = y % m /\ Fits(y, m) /\ r \in Int
    BY <1>1, SignedFits, Sizes
  <2>3. r % m = y % m
    <3>1. CASE r = b
      BY <2>2, <3>1
    <3>2. CASE r # b
      <4>1. m = Byte /\ r = Wide - m + b
        BY <3>2
      <4>2. PICK k \in Nat : Wide = k * m
        BY <1>1, ModulusExists DEF IsModulus
      <4> DEFINE j == k - 1
      <4>3. j \in Int /\ r = b + j * m
        <5>1. (k - 1) * m = k * m - m /\ k * m \in Int
          BY <1>1, <4>2
        <5> QED BY <1>1, <2>2, <4>1, <4>2, <5>1
      <4>5. m \in Nat \ {0} /\ b \in Int /\ r \in Int
        BY <1>1, <2>2
      <4> HIDE DEF j, r, y, m
      <4>4. r % m = b % m
        BY ONLY <4>3, <4>5, SameRemainder
      <4> QED BY <2>2, <4>4
    <3> QED BY <3>1, <3>2
  <2> HIDE DEF r, y
  <2>4. Said(Outcome(r, m, FALSE, f.C), y, f.C, m)
    BY <1>1, <2>2, <2>3, OutcomeSaid
  <2>5. Exact(op, x, y, c) = y /\ (ExactCarry(op, Exact(op, a, b, c), m) <=> f.C)
    BY <1>11 DEF Exact, ExactCarry
  <2> QED BY <2>1, <2>4, <2>5 DEF Said, y
<1>12. op \in Sums
  OBVIOUS
<1> QED BY <1>3, <1>4, <1>5, <1>6, <1>7, <1>8, <1>9, <1>10, <1>11, <1>12 DEF Sums

\* A number below a modulus stays itself.
LEMMA WordStays ==
  ASSUME NEW x \in 0 .. Word - 1, NEW y \in 0 .. Word - 1
  PROVE  x % Word = x /\ x \div Word = y \div Word
<1>1. Word \in Nat \ {0}
  BY Sizes
<1>2. x \div Word = 0 /\ y \div Word = 0 /\ x % Word = x
  BY <1>1, SelfRemainder
<1> QED BY <1>2

\* An instruction that goes through m_ALU changes its destination only.
LEMMA ALUBecomes ==
  ASSUME TypeOK, NEW i \in Instruction, ExecuteALU(i), i.op \notin NoResult,
         i.op # "MOV" \/ i.m = Word
  PROVE  Becomes(i, ALU(i, Argument(i.dst, i.m), Argument(i.src, i.m)).alu % i.m)
<1> DEFINE x == ALU(i, Argument(i.dst, i.m), Argument(i.src, i.m)).alu
           d == i.dst
<1>1. /\ x \in Int /\ R' \in [Registers -> 0 .. Word - 1]
      /\ R'[d] = Stored(i, R[d], x)
      /\ \A q \in Registers \ {d} : R'[q] = R[q]
  BY ALUDoes
<1>2. i.m \in {Byte, Word} /\ d \in Registers /\ R[d] \in 0 .. Word - 1 /\ R'[d] \in 0 .. Word - 1
  BY <1>1, InstructionFields DEF TypeOK
<1> HIDE DEF x, d
<1>3. R'[d] % i.m = x % i.m /\ (~WholeWord(i) => R'[d] \div Byte = R[d] \div Byte)
  BY <1>1, <1>2, StoredRight
<1>4. R'[d] \div i.m = R[d] \div i.m
  <2>1. CASE i.m = Word
    BY <1>2, <2>1, WordStays
  <2>2. CASE i.m # Word
    BY <1>2, <1>3, <2>2 DEF WholeWord
  <2> QED BY <2>1, <2>2
<1> QED BY <1>1, <1>3, <1>4 DEF Becomes, x, d

\* A byte that is moved to a register is the same signed number there.
LEMMA MoveExtends ==
  ASSUME NEW m \in {Byte, Word}, NEW a, NEW b \in 0 .. m - 1, NEW g, CharSigned
  PROVE  MOV(a, b, g, m).alu % Word = Signed(b, m) % Word
<1>1. Word \in Nat \ {0} /\ Wide \in Nat \ {0} /\ Byte \in Nat \ {0} /\ Wide = Word * Word /\ Byte # Word
  <2>1. PICK k \in Nat : k = Byte /\ k >= 2 /\ Word = k * k
    BY Sizes
  <2> QED BY <2>1, Sizes
<1>2. PICK h : Half(m, h)
  BY SizesHalf
<1>3. Signed(b, m) = (IF b < h THEN b ELSE b - m) /\ Signed(b, m) % m = b /\ m \in Nat \ {0} /\ h \in Nat
  BY <1>2, SignedOf, HalfOf DEF Half
<1>4. b % m = b
  BY <1>3, SelfRemainder
<1>5. Sign(b, m) <=> b >= h
  BY <1>2, <1>3, <1>4, SignOf
<1> DEFINE x == IF m = Byte /\ CharSigned /\ Sign(b, Byte) THEN Wide - Byte + b ELSE b
           v == Signed(b, m)
<1>6. MOV(a, b, g, m).alu = x
  <2> DEFINE o == MOV(a, b, g, m)
             w == FALSE
             c == g.C
  <2>1. o = Outcome(x, m, w, c)
    BY DEF MOV
  <2>2. o.alu = x
    <3> HIDE DEF o, x, w, c
    <3> QED BY <2>1, OutcomeFields
  <2> QED BY <2>2
<1>7. CASE m = Word
  <2>1. x = b
    BY <1>1, <1>7
  <2>2. v % Word = b % Word
    BY <1>3, <1>4, <1>7
  <2> QED BY <1>6, <2>1, <2>2
<1>8. CASE m = Byte /\ b < h
  BY <1>3, <1>5, <1>6, <1>8
<1>9. CASE m = Byte /\ b >= h
  <2>1. x = Wide - Byte + b /\ v = b - Byte /\ b \in Int
    BY <1>3, <1>5, <1>9
  <2>2. x \in Int /\ v \in Int /\ x = v + Word * Word
    <3> HIDE DEF x, v
    <3> QED BY <1>1, <2>1
  <2> HIDE DEF x, v
  <2>3. Word \in Int
    BY <1>1
  <2>4. x % Word = v % Word
    BY ONLY <1>1, <2>2, <2>3, SameRemainder
  <2> QED BY <1>6, <2>4 DEF v
<1> QED BY <1>3, <1>7, <1>8, <1>9

LEMMA SumsRight ==
  ASSUME TypeOK, NEW i \in Instruction, ExecuteALU(i), CharSigned
  PROVE  SumRight(i)
<1> DEFINE m == i.m
           a == Argument(i.dst, i.m)
           b == Argument(i.src, i.m)
           v == Exact(i.op, Signed(a, m), Signed(b, m), One(f.C))
           u == Exact(i.op, a, b, One(f.C))
           o == ALU(i, a, b)
<1> SUFFICES ASSUME i.op \in Sums
    PROVE  /\ IF i.op \in NoResult THEN R' = R
              ELSE IF i.op = "MOV" THEN Becomes([i EXCEPT !.m = Word], v % Word)
              ELSE Becomes(i, v % m)
           /\ Shows(v % m, m) /\ (f'.V <=> ~Fits(v, m))
           /\ f'.C <=> ExactCarry(i.op, u, m)
  BY DEF SumRight, ExactCarry
<1>1. m \in {Byte, Word} /\ i.src \in Registers /\ i.dst \in Registers
  BY InstructionFields
<1>2. a \in 0 .. m - 1 /\ b \in 0 .. m - 1 /\ f \in Conditions /\ R[i.dst] \in 0 .. Word - 1
  BY <1>1, ArgumentTyped DEF TypeOK
<1>3. Said(o, v, ExactCarry(i.op, u, m), m)
  <2> HIDE DEF a, b
  <2> QED BY <1>2, SumSaid
<1>4. f' = o.f /\ (i.op \in NoResult => R' = R)
  BY ALUDoes
<1>5. Shows(v % m, m) /\ (f'.V <=> ~Fits(v, m)) /\ (f'.C <=> ExactCarry(i.op, u, m))
      /\ o.alu % m = v % m
  <2> HIDE DEF o, v, u, m
  <2> QED BY <1>3, <1>4 DEF Said, Shows
<1>6. ASSUME i.op \notin NoResult, i.op # "MOV"
      PROVE  Becomes(i, v % m)
  <2>1. Becomes(i, o.alu % m)
    BY <1>6, ALUBecomes
  <2> HIDE DEF o, v
  <2> QED BY <1>5, <2>1
<1>7. ASSUME i.op = "MOV"
      PROVE  Becomes([i EXCEPT !.m = Word], v % Word)
  <2> DEFINE j == [i EXCEPT !.m = Word]
             d == i.dst
  <2>1. j.dst = d /\ j.m = Word
    BY DEF Instruction
  <2>2. o = MOV(a, b, f, m) /\ v = Signed(b, m)
    BY <1>7 DEF ALU, Exact, Logic
  <2>3. o.alu % Word = v % Word
    <3> HIDE DEF a, b, m
    <3> QED BY <1>1, <1>2, <2>2, MoveExtends
  <2>4. /\ o.alu \in Int /\ R' \in [Registers -> 0 .. Word - 1]
        /\ R'[d] = Stored(i, R[d], o.alu) /\ \A q \in Registers \ {d} : R'[q] = R[q]
    BY <1>7, ALUDoes DEF NoResult
  <2>5. Stored(i, R[d], o.alu) = o.alu % Word
    BY <1>7 DEF Stored, WholeWord
  <2>6. R'[d] \in 0 .. Word - 1 /\ R[d] \in 0 .. Word - 1
    BY <1>1, <1>2, <2>4
  <2> HIDE DEF o, v, j, d
  <2>7. R'[d] % Word = v % Word /\ R'[d] \div Word = R[d] \div Word
    <3>1. R'[d] % Word = R'[d] /\ R'[d] \div Word = R[d] \div Word
      BY <2>6, WordStays
    <3> QED BY <2>3, <2>4, <2>5, <3>1
  <2>8. Becomes(j, v % Word)
    BY <2>1, <2>4, <2>7 DEF Becomes
  <2> QED BY <2>8 DEF j
<1> HIDE DEF v, u, m
<1> QED BY <1>4, <1>5, <1>6, <1>7 DEF m

\* ASR and ROR.
LEMMA HalvesRight ==
  ASSUME TypeOK, NEW i \in Instruction, ExecuteALU(i)
  PROVE  HalfRight(i)
<1> DEFINE m == i.m
           a == Argument(i.dst, i.m)
           b == Argument(i.src, i.m)
           x == R'[i.dst] % m
           o == ALU(i, a, b)
<1> SUFFICES ASSUME i.op \in {"ASR", "ROR"}
    PROVE  /\ IF i.op = "ASR" THEN x = (Signed(a, m) \div 2) % m
              ELSE 2 * x + One(f'.C) = a + One(f.C) * m
           /\ Becomes(i, x) /\ Shows(x, m)
           /\ (f'.C <=> a % 2 = 1) /\ (f'.V <=> f'.N # f'.C)
  BY DEF HalfRight
<1>1. m \in {Byte, Word} /\ i.src \in Registers /\ i.dst \in Registers
  BY InstructionFields
<1>2. a \in 0 .. m - 1 /\ b \in 0 .. m - 1 /\ f \in Conditions
  BY <1>1, ArgumentTyped DEF TypeOK
<1>3. f' = o.f /\ f' \in Conditions /\ o.alu \in Int
  BY ALUDoes
<1>4. Becomes(i, o.alu % m)
  BY ALUBecomes DEF NoResult
<1>5. x = o.alu % m
  BY <1>4 DEF Becomes
<1> DEFINE r == IF i.op = "ASR" THEN (a \div 2) + One(Sign(a, m)) * (m \div 2)
                ELSE (a \div 2) + One(f.C) * (m \div 2)
           c == (a % 2 = 1)
           w == ~(Sign(r, m) <=> c)
<1>6. o = Outcome(r, m, w, c)
  BY DEF ALU, ASR, ROR, Shifted, Logic
<1>7. ShiftRight(a, b, f, m)
  <2> HIDE DEF a, b, m
  <2> QED BY <1>1, <1>2, ShiftsTell
<1>8. PICK h : Half(m, h)
  BY <1>1, SizesHalf
<1>9. /\ o.alu = r /\ (o.f.N <=> Sign(r, m)) /\ (o.f.Z <=> r % m = 0)
      /\ o.f.V = w /\ o.f.C = c
  <2> HIDE DEF r, c, w, o, m
  <2> QED BY <1>6, OutcomeFields
<1>10. r \in Int
  BY <1>3, <1>9
<1>11. Sign(r, m) <=> Signed(r % m, m) < 0
  <2> HIDE DEF r, m
  <2> QED BY <1>8, <1>10, SignOf
<1>12. Shows(x, m) /\ (f'.C <=> a % 2 = 1) /\ (f'.V <=> f'.N # f'.C)
  <2>1. f'.N <=> Sign(r, m)
    BY <1>3, <1>9
  <2>2. f'.V <=> ~(f'.N <=> f'.C)
    BY <1>3, <1>9
  <2>3. f'.N \in BOOLEAN /\ f'.C \in BOOLEAN
    BY <1>3 DEF Conditions
  <2>4. f'.C <=> a % 2 = 1
    BY <1>3, <1>9
  <2>5. f'.V <=> f'.N # f'.C
    BY <2>2, <2>3
  <2>6. f'.Z <=> x = 0
    BY <1>3, <1>5, <1>9
  <2>7. f'.N <=> Signed(x, m) < 0
    BY <1>5, <1>9, <1>11, <2>1
  <2> QED BY <2>4, <2>5, <2>6, <2>7 DEF Shows
<1>13. CASE i.op = "ASR"
  <2>1. o = ASR(a, b, f, m)
    BY <1>13 DEF ALU, Logic
  <2>2. o.alu = (Signed(a, m) \div 2) % m
    BY <1>7, <2>1 DEF ShiftRight
  <2>3. x = (Signed(a, m) \div 2) % m
    <3>1. Signed(a, m) \in Int /\ m \in Nat \ {0}
      <4> HIDE DEF a, m
      <4> QED BY <1>1, <1>2, SignedFits, Sizes
    <3> DEFINE s == Signed(a, m) \div 2
    <3>2. s \in Int
      BY <3>1
    <3> HIDE DEF s, m
    <3>3. s % m \in 0 .. m - 1
      BY <3>1, <3>2
    <3>4. (s % m) % m = s % m
      BY <3>1, <3>3, SelfRemainder
    <3> QED BY <1>5, <2>2, <3>4 DEF s
  <2> QED BY <1>4, <1>5, <1>12, <1>13, <2>3
<1>14. CASE i.op = "ROR"
  <2>1. o = ROR(a, b, f, m)
    BY <1>14 DEF ALU, Logic
  <2>2. 2 * o.alu + One(o.f.C) = a + One(f.C) * m
    BY <1>7, <2>1 DEF ShiftRight
  <2>3. o.alu \in 0 .. m - 1
    <3>1. One(o.f.C) \in 0 .. 1 /\ One(f.C) \in 0 .. 1
      BY DEF One
    <3>2. m \in Nat \ {0}
      BY <1>1, Sizes
    <3> DEFINE y == o.alu
               p == One(o.f.C)
               q == One(f.C)
    <3>3. q * m \in {0, m}
      BY <3>1, <3>2
    <3>4. 2 * y + p = a + q * m /\ y \in Int
      BY <1>3, <2>2
    <3> DEFINE e == q * m
    <3> HIDE DEF y, p, q, e, m, a
    <3> QED BY <1>2, <3>1, <3>2, <3>3, <3>4 DEF y, p, q, e
  <2>4. x = o.alu
    <3>1. m \in Nat \ {0}
      BY <1>1, Sizes
    <3> HIDE DEF o, m
    <3> QED BY <1>5, <2>3, <3>1, SelfRemainder
  <2> QED BY <1>3, <1>4, <1>5, <1>12, <1>14, <2>2, <2>4
<1> QED BY <1>13, <1>14

\* Division towards zero: of p by d, with quotient n and remainder r.
Truncation(p, d, n, r, k, e) ==
  /\ n = Quotient(p, d) /\ Magnitude(n) = k
  /\ Magnitude(p) = k * Magnitude(d) + e /\ e < Magnitude(d)
  /\ p = n * d + r /\ Magnitude(r) = e /\ (r < 0 => p < 0) /\ (r > 0 => p > 0)

\* The quotient of the magnitudes, signed as C does it, and the remainder it leaves.
LEMMA Truncates ==
  ASSUME NEW p \in Int, NEW d \in Int, d # 0
  PROVE  \E n, r \in Int, k, e \in Nat : Truncation(p, d, n, r, k, e)
<1> DEFINE N == Magnitude(p)
           D == Magnitude(d)
           k == N \div D
           e == N % D
           n == Quotient(p, d)
<1>1. N \in Nat /\ D \in Nat \ {0} /\ N = (IF p < 0 THEN -p ELSE p) /\ D = (IF d < 0 THEN -d ELSE d)
  BY DEF Magnitude
<1>2. n \in Int /\ k \in Nat /\ Magnitude(n) = k
  BY QuotientTyped
<1>3. n = IF (p < 0) <=> (d < 0) THEN k ELSE -k
  BY DEF Quotient
<1>4. e \in 0 .. D - 1 /\ N = k * D + e
  <2>1. N \in Int
    BY <1>1
  <2> HIDE DEF N, D
  <2> QED BY <1>1, <2>1, Divided
<1> HIDE DEF N, D, k, e, n
<1> DEFINE r == IF p < 0 THEN -e ELSE e
<1>5. r \in Int /\ Magnitude(r) = e /\ (r < 0 => p < 0)
  BY <1>1, <1>4 DEF Magnitude
<1>6. p = n * d + r
  <2>1. CASE p >= 0 /\ d > 0
    BY <1>1, <1>2, <1>3, <1>4, <2>1
  <2>2. CASE p >= 0 /\ d < 0
    <3>1. n = -k /\ D = -d /\ N = p
      BY <1>1, <1>3, <2>2
    <3>2. (-k) * d = k * (-d)
      BY <1>2
    <3> QED BY <1>1, <1>4, <2>2, <3>1, <3>2
  <2>3. CASE p < 0 /\ d > 0
    <3>1. n = -k /\ D = d /\ N = -p
      BY <1>1, <1>3, <2>3
    <3> DEFINE u == k * d
               v == n * d
    <3>2. u \in Int /\ v = -u /\ N = u + e /\ r = -e
      BY <1>2, <1>4, <2>3, <3>1
    <3> HIDE DEF u, v
    <3>3. p = v + r
      BY <1>1, <1>4, <3>1, <3>2
    <3> QED BY <3>3 DEF v
  <2>4. CASE p < 0 /\ d < 0
    <3>1. n = k /\ D = -d /\ N = -p
      BY <1>1, <1>3, <2>4
    <3> DEFINE u == k * D
               v == n * d
    <3>2. u \in Int /\ v = -u /\ N = u + e /\ r = -e
      BY <1>1, <1>2, <1>4, <2>4, <3>1
    <3> HIDE DEF u, v
    <3>3. p = v + r
      BY <1>1, <1>4, <3>1, <3>2
    <3> QED BY <3>3 DEF v
  <2> QED BY <2>1, <2>2, <2>3, <2>4
<1>8. r > 0 => p > 0
  <2>1. ASSUME e > 0 PROVE N > 0
    <3>1. k * D \in Nat
      BY <1>1, <1>2
    <3> QED BY <1>4, <2>1, <3>1
  <2> QED BY <1>1, <1>4, <2>1
<1> HIDE DEF r
<1>7. e \in Nat /\ e < D
  BY <1>1, <1>4
<1>9. Truncation(p, d, n, r, k, e)
  BY <1>2, <1>4, <1>5, <1>6, <1>7, <1>8, Zenon DEF Truncation, N, D, n
<1>10. e \in Nat
  BY <1>7
<1> QED BY <1>2, <1>5, <1>9, <1>10

\* The high byte of a word.
LEMMA HighByte ==
  ASSUME NEW a \in 0 .. Word - 1
  PROVE  a \div Byte \in 0 .. Byte - 1 /\ a % Byte \in 0 .. Byte - 1
<1> DEFINE q == a \div Byte
           r == a % Byte
<1>1. Byte \in Nat \ {0} /\ Word = Byte * Byte /\ a \in Int
  BY Sizes
<1>2. q \in Int /\ r \in 0 .. Byte - 1 /\ a = q * Byte + r
  BY <1>1, Divided
<1> HIDE DEF q, r
<1>3. ASSUME q >= Byte PROVE FALSE
  <2>1. q * Byte >= Byte * Byte
    BY <1>1, <1>2, <1>3
  <2> QED BY <1>1, <1>2, <2>1
<1>4. ASSUME q <= -1 PROVE FALSE
  <2>1. q * Byte <= (-1) * Byte
    BY <1>1, <1>2, <1>4
  <2> QED BY <1>1, <1>2, <2>1
<1>5. q \in 0 .. Byte - 1
  BY <1>1, <1>2, <1>3, <1>4
<1> QED BY <1>2, <1>5 DEF q, r

\* SWAB and SXT are of words.
LEMMA BytesRight ==
  ASSUME TypeOK, NEW i \in Instruction, ExecuteALU(i)
  PROVE  ByteRight(i)
<1> DEFINE d == i.dst
           a == Argument(d, i.m)
           b == Argument(i.src, i.m)
           o == ALU(i, a, b)
           x == R'[d]
<1>1. i.m \in {Byte, Word} /\ i.src \in Registers /\ d \in Registers
  BY InstructionFields
<1>2. Byte \in Nat \ {0} /\ Word \in Nat \ {0} /\ Wide \in Nat \ {0} /\ Wide = Word * Word
      /\ Word = Byte * Byte
  BY Sizes
<1>3. R[d] \in 0 .. Word - 1 /\ f \in Conditions
  BY <1>1 DEF TypeOK
<1>4. f' = o.f /\ o.alu \in Int /\ x \in 0 .. Word - 1
  BY <1>1, ALUDoes
<1>5. ASSUME i.op \in {"SWAB", "SXT"}
      PROVE  i.m = Word /\ a = R[d] /\ Becomes(i, x) /\ x = o.alu % Word
  <2>1. i.m = Word
    BY <1>5, InstructionFields DEF OfBoth
  <2>2. a = R[d]
    BY <1>1, <2>1, ArgumentTyped
  <2>3. Becomes(i, o.alu % Word)
    BY <1>5, <2>1, ALUBecomes DEF NoResult
  <2>4. x % Word = x
    BY <1>4, WordStays
  <2>5. x = o.alu % Word
    BY <2>1, <2>3, <2>4 DEF Becomes
  <2> QED BY <2>1, <2>2, <2>3, <2>5
<1>6. ASSUME i.op = "SWAB"
      PROVE  /\ Becomes(i, x) /\ x \div Byte = R[d] % Byte /\ x % Byte = R[d] \div Byte
             /\ Shows(x % Byte, Byte) /\ f'.V = FALSE /\ f'.C = FALSE
  <2> DEFINE h == R[d] \div Byte
             l == R[d] % Byte
             y == h + Byte * l
             n == Sign(y % Byte, Byte)
             z == (y % Byte = 0)
  <2>1. h \in 0 .. Byte - 1 /\ l \in 0 .. Byte - 1
    BY <1>3, HighByte
  <2>2. o = [alu |-> y, f |-> [N |-> n, Z |-> z, V |-> FALSE, C |-> FALSE]]
    BY <1>5, <1>6 DEF ALU, SWAB, Logic
  <2> HIDE DEF h, l, o
  <2>3. y = l * Byte + h
    BY <1>2, <2>1
  <2> HIDE DEF y, n, z
  <2>4. o.alu = y /\ o.f.N = n /\ o.f.Z = z /\ o.f.V = FALSE /\ o.f.C = FALSE
    BY <2>2
  <2>5. y \div Byte = l /\ y % Byte = h
    BY <1>2, <2>1, <2>3, DivMod
  <2>6. y \in 0 .. Word - 1
    <3>1. l * Byte \in Nat /\ l * Byte <= (Byte - 1) * Byte /\ (Byte - 1) * Byte = Word - Byte
      BY <1>2, <2>1
    <3> QED BY <1>2, <2>1, <2>3, <3>1
  <2>7. x = y
    BY <1>5, <1>6, <2>4, <2>6, WordStays
  <2>8. Sign(h, Byte) <=> Signed(h, Byte) < 0
    <3>1. PICK e : Half(Byte, e)
      BY SizesHalf
    <3>2. h % Byte = h /\ h \in Int
      BY <1>2, <2>1, SelfRemainder
    <3> QED BY <3>1, <3>2, SignOf
  <2>9. Shows(x % Byte, Byte)
    BY <1>4, <2>4, <2>5, <2>7, <2>8 DEF Shows, n, z
  <2> QED BY <1>4, <1>5, <1>6, <2>4, <2>5, <2>7, <2>9 DEF h, l
<1>7. ASSUME i.op = "SXT"
      PROVE  /\ Becomes(i, x) /\ Signed(x, Word) = (IF f.N THEN -1 ELSE 0)
             /\ f' = [f EXCEPT !.Z = ~f.N, !.V = FALSE]
  <2> DEFINE y == IF f.N THEN Wide - 1 ELSE 0
             g == [f EXCEPT !.Z = ~f.N, !.V = FALSE]
  <2>1. o = [alu |-> y, f |-> g]
    BY <1>5, <1>7 DEF ALU, SXT, Logic
  <2>2. o.alu = y /\ o.f = g
    <3> HIDE DEF y, g, o
    <3> QED BY <2>1
  <2>3. PICK h \in Nat \ {0} : Half(Word, h)
    BY SizesHalf
  <2>4. -1 \in -h .. h - 1 /\ 0 \in -h .. h - 1
    OBVIOUS
  <2>5. Signed((-1) % Word, Word) = -1 /\ Signed(0 % Word, Word) = 0
    BY <2>3, <2>4, SignedBack
  <2>6. (Wide - 1) % Word = (-1) % Word
    <3> DEFINE u == Wide - 1
               k == -1
    <3>1. u \in Int /\ u = k + Word * Word /\ k \in Int /\ Word \in Int /\ Word \in Nat \ {0}
      BY <1>2
    <3> HIDE DEF u, k
    <3>2. u % Word = k % Word
      BY ONLY <3>1, SameRemainder
    <3> QED BY <3>2 DEF u, k
  <2>7. Signed(x, Word) = (IF f.N THEN -1 ELSE 0)
    BY <1>5, <1>7, <2>2, <2>5, <2>6
  <2> QED BY <1>4, <1>5, <1>7, <2>2, <2>7
<1> QED BY <1>6, <1>7 DEF ByteRight

LEMMA PairBecame ==
  ASSUME TypeOK, NEW i \in Instruction, NEW w \in 0 .. Wide - 1, StorePair(i.dst, w)
  PROVE  PairBecomes(i, w)
<1> DEFINE d == i.dst
           p == Partner(d)
           x == w \div Word
           y == w % Word
<1>1. d \in Registers /\ R \in [Registers -> 0 .. Word - 1]
  BY InstructionFields DEF TypeOK
<1>2. \A q \in Registers : R'[q] = IF q = p THEN y ELSE IF q = d THEN x ELSE R[q]
  BY <1>1, PairStored
<1>3. p \in Registers /\ (p = d <=> d % 2 # 0)
  BY <1>1 DEF Partner, Registers
<1>4. w = x * Word + y
  BY HalvesOfPair
<1> HIDE DEF x, y, d, p
<1>5. Pair(R', d) = R'[d] * Word + R'[p]
  BY DEF Pair, p
<1>6. IF d % 2 = 0 THEN Pair(R', d) = w ELSE R'[d] = y
  BY <1>1, <1>2, <1>3, <1>4, <1>5
<1>7. \A r \in Registers \ {d, p} : R'[r] = R[r]
  BY <1>2
<1> QED BY <1>6, <1>7 DEF PairBecomes, d, p, y

LEMMA ProductsRight ==
  ASSUME TypeOK, NEW i \in Instruction, ExecuteMUL(i)
  PROVE  ProductRight(i)
<1> DEFINE a == R[i.dst]
           b == R[i.src]
           v == Signed(a, Word) * Signed(b, Word)
           h == Word \div 2
           n == v < 0
           z == (v = 0)
           c == Magnitude(v) >= h
           o == MUL(a, b, f)
<1>1. StorePair(i.dst, o.pair) /\ o.pair \in 0 .. Wide - 1 /\ f' = o.f
  BY MULDoes DEF ExecuteMUL
<1>2. a \in 0 .. Word - 1 /\ b \in 0 .. Word - 1
  BY InstructionFields DEF TypeOK
<1>3. v \in Int
  BY <1>2, SignedTyped
<1>4. h \in Int
  BY Sizes
<1>5. o = [pair |-> v % Wide, f |-> [N |-> n, Z |-> z, V |-> FALSE, C |-> c]]
  BY DEF MUL
<1>6. PairBecomes(i, o.pair)
  <2> HIDE DEF o
  <2> QED BY <1>1, PairBecame
<1>7. c <=> ~Fits(v, Word) \/ v = -h
  <2> HIDE DEF v, h
  <2>1. c <=> v >= h \/ v <= -h
    BY <1>3, <1>4 DEF Magnitude
  <2>2. Fits(v, Word) <=> v >= -h /\ v <= h - 1
    BY <1>3, <1>4 DEF Fits, h
  <2> QED BY <1>3, <1>4, <2>1, <2>2
<1>8. o.pair = v % Wide /\ o.f.N = n /\ o.f.Z = z /\ o.f.V = FALSE /\ o.f.C = c
  <2> HIDE DEF v, n, z, c, o
  <2> QED BY <1>5
<1> HIDE DEF o
<1> QED BY <1>1, <1>6, <1>7, <1>8 DEF ProductRight

LEMMA QuotientsRight ==
  ASSUME TypeOK, NEW i \in Instruction, ExecuteDIV(i)
  PROVE  QuotientRight(i)
<1> DEFINE a == Pair(R, i.dst)
           b == R[i.src]
           o == DIV(a, b, f)
           p == Signed(a, Wide)
           d == Signed(b, Word)
           P == Magnitude(p)
           D == Magnitude(d)
           None == d = 0 \/ P >= Word * D
           Has(q, r) ==
             /\ Magnitude(r) < D /\ (r < 0 => p < 0) /\ (r > 0 => p > 0)
             /\ PairBecomes(i, (q % Word) * Word + (r % Word))
             /\ f' = [N |-> q < 0, Z |-> q = 0, V |-> FALSE, C |-> FALSE]
<1> SUFFICES IF None THEN R' = R /\ f' = [N |-> FALSE, Z |-> FALSE, V |-> TRUE, C |-> d = 0]
             ELSE \E q \in -(Word - 1) .. Word - 1 : Has(q, p - q * d)
  BY DEF QuotientRight
<1>1. i.src \in Registers /\ i.dst \in Registers /\ R \in [Registers -> 0 .. Word - 1]
  BY InstructionFields DEF TypeOK
<1>2. a \in 0 .. Wide - 1 /\ b \in 0 .. Word - 1
  BY <1>1, PairTyped
<1>3. /\ f' = o.f
      /\ IF o.f.V THEN R' = R ELSE StorePair(i.dst, o.pair)
      /\ o.pair \in 0 .. Wide - 1
  BY DIVDoes
<1>4. p \in Int /\ d \in Int
  BY <1>2, SignedTyped
<1>5. PICK h \in Nat \ {0}, w \in Nat \ {0} : Half(Word, h) /\ Half(Wide, w) /\ w = h * Word
  BY SizesHalf
<1>6. Word = 2 * h /\ Word \div 2 = h /\ Wide = 2 * w /\ Wide \div 2 = w /\ Word \in Nat \ {0}
  BY <1>5, HalfOf DEF Half
<1>7. P \in Nat /\ D \in Nat /\ D <= h /\ (D = 0 <=> d = 0)
  <2>1. d \in -h .. h - 1
    BY <1>2, <1>5, SignedOf
  <2> QED BY <1>4, <1>6, <2>1 DEF Magnitude
<1>8. CASE d = 0
  <2>1. o = [pair |-> a, f |-> [N |-> FALSE, Z |-> FALSE, V |-> TRUE, C |-> TRUE]]
    BY <1>8 DEF DIV
  <2>2. o.f = [N |-> FALSE, Z |-> FALSE, V |-> TRUE, C |-> TRUE] /\ o.f.V
    <3> HIDE DEF o
    <3> QED BY <2>1
  <2> HIDE DEF o, d
  <2> QED BY <1>3, <1>8, <2>2
<1>9. CASE d # 0
  <2>9. PICK n, s \in Int, k, e \in Nat : Truncation(p, d, n, s, k, e)
    <3> HIDE DEF p, d
    <3> QED BY <1>4, <1>9, Truncates
  <2>1. /\ n = Quotient(p, d) /\ Magnitude(n) = k
        /\ P = k * D + e /\ e < D
        /\ p = n * d + s /\ Magnitude(s) = e /\ (s < 0 => p < 0) /\ (s > 0 => p > 0)
    BY <2>9, Zenon DEF Truncation
  <2>2. k >= Word <=> P >= Word * D
    <3> HIDE DEF P, D, p, d, o
    <3>1. k * D \in Nat /\ Word * D \in Nat
      BY <1>6, <1>7
    <3>2. ASSUME k >= Word PROVE k * D >= Word * D
      BY <1>6, <1>7, <3>2
    <3>3. ASSUME k < Word PROVE k * D + D <= Word * D
      <4>1. (k + 1) * D <= Word * D
        BY <1>6, <1>7, <3>3
      <4>2. (k + 1) * D = k * D + D
        BY <1>7
      <4> QED BY <4>1, <4>2
    <3> DEFINE kd == k * D
               wd == Word * D
    <3>4. P = kd + e /\ kd \in Nat /\ wd \in Nat
      BY <2>1, <3>1
    <3>5. (k >= Word => kd >= wd) /\ (k < Word => kd + D <= wd)
      BY <3>2, <3>3
    <3> HIDE DEF kd, wd
    <3>6. k >= Word <=> P >= wd
      BY <1>6, <1>7, <2>1, <3>4, <3>5
    <3> QED BY <3>6 DEF wd
  <2>3. a = w => P >= Word * D
    <3>1. p = IF a < w THEN a ELSE a - Wide
      BY <1>2, <1>5, SignedOf
    <3>2. a = w => P = w
      BY <1>6, <3>1 DEF Magnitude
    <3>3. Word * D <= w
      <4> HIDE DEF D
      <4>1. Word * D <= Word * h
        BY <1>6, <1>7
      <4> QED BY <1>5, <1>6, <4>1
    <3> HIDE DEF P, D, a, p, d
    <3> QED BY <3>2, <3>3
  <2>4. CASE None
    <3>1. o = [pair |-> a, f |-> [N |-> FALSE, Z |-> FALSE, V |-> TRUE, C |-> FALSE]]
      BY <1>9, <2>1, <2>2, <2>4 DEF DIV
    <3>2. o.f = [N |-> FALSE, Z |-> FALSE, V |-> TRUE, C |-> FALSE] /\ o.f.V
      <4> HIDE DEF o
      <4> QED BY <3>1
    <3> HIDE DEF o, d
    <3> QED BY <1>3, <1>9, <2>4, <3>2
  <2>5. CASE ~None
    <3>1. ~(a = w \/ k >= Word)
      BY <2>2, <2>3, <2>5
    <3> DEFINE x == n % Word
               y == (p - n * d) % Word
               z == n < 0
               t == n = 0
    <3>2. o = [pair |-> x * Word + y, f |-> [N |-> z, Z |-> t, V |-> FALSE, C |-> FALSE]]
      BY <1>6, <1>9, <2>1, <3>1 DEF DIV
    <3>3. o.pair = x * Word + y /\ o.f = [N |-> z, Z |-> t, V |-> FALSE, C |-> FALSE] /\ ~o.f.V
      <4> HIDE DEF o, x, y, z, t
      <4> QED BY <3>2
    <3>4. p - n * d = s
      <4> DEFINE v == n * d
      <4>1. v \in Int
        BY <1>4, <2>1
      <4>2. p = v + s
        BY <2>1
      <4> HIDE DEF v, p, d
      <4>3. p - v = s
        BY <1>4, <4>1, <4>2
      <4> QED BY <4>3 DEF v
    <3>5. PairBecomes(i, x * Word + y)
      <4>1. StorePair(i.dst, o.pair) /\ o.pair \in 0 .. Wide - 1
        BY <1>3, <3>3
      <4> HIDE DEF o, x, y
      <4>2. PairBecomes(i, o.pair)
        BY <4>1, PairBecame
      <4> QED BY <3>3, <4>2
    <3>6. n \in -(Word - 1) .. Word - 1
      BY <1>6, <2>1, <3>1 DEF Magnitude
    <3>7. Has(n, p - n * d)
      <4>1. Magnitude(p - n * d) < D /\ (p - n * d < 0 => p < 0) /\ (p - n * d > 0 => p > 0)
        BY <2>1, <3>4
      <4>2. f' = [N |-> n < 0, Z |-> n = 0, V |-> FALSE, C |-> FALSE]
        BY <1>3, <3>3
      <4> HIDE DEF p, d, D
      <4> QED BY <3>5, <4>1, <4>2
    <3> HIDE DEF Has, p, d
    <3> QED BY <2>5, <3>6, <3>7
  <2> QED BY <2>4, <2>5
<1> QED BY <1>8, <1>9

\* The bit that a turn to the left takes out.
LEMMA LeftCarries ==
  ASSUME NEW m, NEW h, Half(m, h), NEW x \in Int, NEW u \in Int, x % m = u % m
  PROVE  Sign(x, m) <=> ((2 * u) \div m) % 2 = 1
<1>1. m = 2 * h /\ h \in Nat \ {0} /\ m \in Nat \ {0}
  BY HalfOf DEF Half
<1> DEFINE k == u \div m
           r == u % m
<1>2. k \in Int /\ r \in 0 .. m - 1 /\ u = k * m + r
  BY <1>1, Divided
<1>3. Sign(x, m) <=> r >= h
  BY SignOf
<1> HIDE DEF k, r
<1> DEFINE e == IF r >= h THEN 1 ELSE 0
           d == 2 * r - e * m
           q == 2 * k + e
<1>4. d \in 0 .. m - 1
  BY <1>1, <1>2
<1>5. q \in Int /\ e \in 0 .. 1 /\ 2 * u = q * m + d
  <2>1. q \in Int /\ e \in 0 .. 1
    BY <1>2
  <2> DEFINE km == k * m
             em == e * m
  <2>2. km \in Int /\ em \in Int /\ (2 * k + e) * m = 2 * km + em
    BY <1>1, <1>2, <2>1
  <2>3. u = km + r
    BY <1>2
  <2>4. d = 2 * r - em
    OBVIOUS
  <2> HIDE DEF km, em, d
  <2>5. 2 * u = (2 * km + em) + d
    BY <1>2, <2>2, <2>3, <2>4
  <2> QED BY <2>1, <2>2, <2>5
<1> HIDE DEF e, d, q
<1>6. (q * m + d) \div m = q
  BY ONLY <1>1, <1>4, <1>5, DivMod
<1>7. q % 2 = e
  <2>1. (k * 2 + e) % 2 = e
    <3>1. 2 \in Nat \ {0} /\ e \in 0 .. 2 - 1 /\ k \in Int
      BY <1>2, <1>5
    <3> QED BY ONLY <3>1, DivMod
  <2>2. q = k * 2 + e
    BY <1>2, <1>5 DEF q
  <2> QED BY <2>1, <2>2
<1>8. ((2 * u) \div m) % 2 = e
  BY <1>5, <1>6, <1>7
<1> QED BY <1>3, <1>8 DEF e

\* What the conditions tell after a shift of v by n that has left w.
ShiftTold(f1, f0, v, n, w, m) ==
  /\ (f1.N <=> Signed(w, m) < 0) /\ (f1.Z <=> w = 0)
  /\ f1.V <=> IF n = 0 THEN f0.V ELSE n > 0 /\ ~Fits(v * Power(n), m)
  /\ f1.C <=> IF n = 0 THEN f0.C
              ELSE IF n > 0 THEN ((v * Power(n)) \div m) % 2 = 1
              ELSE Bit(v, -n - 1)

\* What ShiftRightBy says of a shift by a count holds of what Shift returns.
LEMMA ShiftTells ==
  ASSUME NEW m \in {Word, Wide}, NEW a \in 0 .. m - 1, NEW b \in Int, NEW g
  PROVE  LET s == Signed(a, m)
             n == Signed(b % (2 * Shifts), 2 * Shifts)
             o == Shift(a, b, g, m) IN
         /\ o.alu % m = ShiftedBy(s, n, m)
         /\ ShiftTold(o.f, g, s, n, ShiftedBy(s, n, m), m)
<1> DEFINE N == Times(b)
           c == b % (2 * Shifts)
           n == Signed(c, 2 * Shifts)
           s == Signed(a, m)
           o == Shift(a, b, g, m)
           w == ShiftedBy(s, n, m)
<1>1. Shifts \in Nat \ {0} /\ Half(2 * Shifts, Shifts) /\ c \in 0 .. 2 * Shifts - 1
  BY ArithmeticAssumption DEF Half
<1>2. n = IF c < Shifts THEN c ELSE c - 2 * Shifts
  <2> HIDE DEF c
  <2>1. \A k : Half(k, Shifts) /\ c \in 0 .. k - 1 => Signed(c, k) = IF c < Shifts THEN c ELSE c - k
    BY SignedOf
  <2> QED BY <1>1, <2>1
<1>3. PICK t \in [0 .. N -> Turned] :
        /\ Turns(t, a, m, Rightward(b), N)
        /\ o = [alu |-> t[N].x,
                f |-> [N |-> Sign(t[N].x, m), Z |-> t[N].x % m = 0,
                       V |-> IF N = 0 THEN g.V ELSE t[N].v, C |-> IF N = 0 THEN g.C ELSE t[N].c]]
  BY ShiftTurns
<1> DEFINE x == t[N].x
           sg == Sign(x, m)
           zr == (x % m = 0)
           ov == IF N = 0 THEN g.V ELSE t[N].v
           cy == IF N = 0 THEN g.C ELSE t[N].c
<1>4. o.alu = x /\ o.f.N = sg /\ o.f.Z = zr /\ o.f.V = ov /\ o.f.C = cy
  <2>1. o = [alu |-> x, f |-> [N |-> sg, Z |-> zr, V |-> ov, C |-> cy]]
    BY <1>3
  <2> HIDE DEF o, x, sg, zr, ov, cy
  <2> QED BY <2>1
<1>5. o.alu % m = w
  BY ShiftMeans
<1>6. N \in Nat /\ N \in 0 .. N /\ x \in Int
  <2>1. N \in Nat /\ N \in 0 .. N
    BY <1>1 DEF Times, Rightward
  <2> HIDE DEF N
  <2>2. t[N] \in Turned
    BY <1>3, <2>1
  <2>3. t[N].x \in 0 .. Wide - 1
    BY <2>2 DEF Turned
  <2> QED BY <2>1, <2>3
<1>7. PICK h : Half(m, h)
  BY SizesHalf
<1>8. m \in Nat \ {0} /\ m = 2 * h /\ h \in Nat \ {0} /\ s \in Int
  <2>1. m \in Nat \ {0} /\ m = 2 * h /\ h \in Nat \ {0}
    BY <1>7, HalfOf DEF Half
  <2>2. s \in -h .. h - 1
    BY <1>7, SignedOf
  <2> HIDE DEF s
  <2> QED BY <2>1, <2>2
<1>9. (o.f.N <=> Signed(w, m) < 0) /\ (o.f.Z <=> w = 0)
  <2>1. sg <=> Signed(x % m, m) < 0
    <3> HIDE DEF x
    <3> QED BY <1>6, <1>7, SignOf
  <2>2. x % m = w
    BY <1>4, <1>5
  <2> HIDE DEF w, x, o
  <2> QED BY <1>4, <2>1, <2>2
<1> HIDE DEF n, o, w
<1>10. CASE c < Shifts
  <2>1. Rightward(b) = FALSE /\ N = c /\ N = n
    BY <1>1, <1>2, <1>10 DEF Rightward, Times
  <2> HIDE DEF N, s, c
  <2>2. Turns(t, a, m, FALSE, N)
    BY <1>3, <2>1
  <2>3. \A k \in 0 .. N : t[k].x % m = (s * Power(k)) % m /\ (t[k].v <=> ~Fits(s * Power(k), m))
    BY <1>6, <2>2, LeftMeans DEF s
  <2>4. ASSUME N = 0 PROVE ShiftTold(o.f, g, s, n, w, m)
    <3>1. n = 0 /\ (o.f.V <=> g.V) /\ (o.f.C <=> g.C)
      BY <1>4, <2>1, <2>4
    <3>2. o.f.V <=> IF n = 0 THEN g.V ELSE n > 0 /\ ~Fits(s * Power(n), m)
      BY <3>1, Zenon
    <3>3. o.f.C <=> IF n = 0 THEN g.C
                    ELSE IF n > 0 THEN ((s * Power(n)) \div m) % 2 = 1
                    ELSE Bit(s, -n - 1)
      BY <3>1, Zenon
    <3> QED BY <1>9, <3>2, <3>3, Zenon DEF ShiftTold
  <2>5. ASSUME N # 0 PROVE ShiftTold(o.f, g, s, n, w, m)
    <3> DEFINE j == N - 1
               u == s * Power(j)
    <3>1. j \in Nat /\ j \in 0 .. N /\ N = j + 1
      BY <1>6, <2>5
    <3>2. t[N] = Left(t[j], m)
      <4>1. \A k \in 0 .. N : t[k] = IF k = 0 THEN Begun(a) ELSE Turn(t[k - 1], a, m, FALSE)
        BY <2>2, Zenon DEF Turns
      <4> QED BY <1>6, <2>5, <4>1 DEF Turn
    <3> HIDE DEF j
    <3>3. t[j].x % m = u % m
      BY <2>3, <3>1
    <3>4. t[j].x \in Int
      <4>1. t[j] \in Turned
        BY <1>3, <3>1
      <4>2. t[j].x \in 0 .. Wide - 1
        BY <4>1 DEF Turned
      <4> QED BY <4>2
    <3>5. u \in Int /\ 2 * u = s * Power(N)
      <4>1. Power(j) \in Nat /\ Power(N) = 2 * Power(j)
        BY <3>1, Powers
      <4> DEFINE p == Power(j)
      <4> HIDE DEF p
      <4>2. s * p \in Int /\ 2 * (s * p) = s * (2 * p)
        BY <1>8, <4>1 DEF p
      <4> QED BY <4>1, <4>2 DEF p
    <3>6. t[N].c = Sign(t[j].x, m)
      BY <3>2 DEF Left
    <3> DEFINE y == t[j].x
    <3> HIDE DEF y, u
    <3>7. Sign(y, m) <=> ((2 * u) \div m) % 2 = 1
      BY <1>7, <3>3, <3>4, <3>5, LeftCarries DEF y
    <3>8. o.f.C <=> ((s * Power(N)) \div m) % 2 = 1
      BY <1>4, <2>5, <3>5, <3>6, <3>7 DEF y
    <3>9. o.f.V <=> ~Fits(s * Power(N), m)
      BY <1>4, <1>6, <2>3, <2>5
    <3>10. n > 0 /\ n # 0
      BY <1>6, <2>1, <2>5
    <3>11. o.f.V <=> IF n = 0 THEN g.V ELSE n > 0 /\ ~Fits(s * Power(n), m)
      BY <2>1, <3>9, <3>10, Zenon
    <3>12. o.f.C <=> IF n = 0 THEN g.C
                     ELSE IF n > 0 THEN ((s * Power(n)) \div m) % 2 = 1
                     ELSE Bit(s, -n - 1)
      BY <2>1, <3>8, <3>10, Zenon
    <3> QED BY <1>9, <3>11, <3>12, Zenon DEF ShiftTold
  <2> QED BY <1>5, <2>4, <2>5 DEF n, o, w, s, c
<1>11. CASE c >= Shifts
  <2>1. Rightward(b) = TRUE /\ N = -n /\ n < 0 /\ N # 0 /\ n \in Int
    BY <1>1, <1>2, <1>11 DEF Rightward, Times
  <2> HIDE DEF N, s, c
  <2>2. Turns(t, a, m, TRUE, N)
    BY <1>3, <2>1
  <2>3. \A k \in 0 .. N : t[k].x = (s \div Power(k)) % m /\ ~t[k].v
    BY <1>6, <2>2, RightMeans DEF s
  <2> DEFINE j == N - 1
             z == s \div Power(j)
  <2>4. j \in Nat /\ j \in 0 .. N /\ N = j + 1 /\ j = -n - 1
    BY <1>6, <2>1
  <2>5. t[N] = Right(t[j], m, Sign(a, m))
    <3>1. \A k \in 0 .. N : t[k] = IF k = 0 THEN Begun(a) ELSE Turn(t[k - 1], a, m, TRUE)
      BY <2>2, Zenon DEF Turns
    <3> QED BY <1>6, <2>1, <3>1 DEF Turn
  <2> HIDE DEF j
  <2>6. t[N].c = (t[j].x % 2 = 1)
    BY <2>5 DEF Right
  <2>7. t[j].x = z % m
    BY <2>3, <2>4
  <2>8. z \in Int
    <3>1. Power(j) \in Nat \ {0}
      BY <2>4, Powers
    <3> QED BY <1>8, <3>1, Divided
  <2>9. (z % m) % 2 = z % 2
    <3> HIDE DEF z
    <3>1. m = h * 2 /\ 2 \in Nat \ {0}
      BY <1>8
    <3>2. (z % (h * 2)) % 2 = z % 2
      BY <1>8, <2>8, <3>1, RemainderTwice
    <3> QED BY <3>1, <3>2
  <2>10. o.f.C <=> Bit(s, -n - 1)
    BY <1>4, <2>1, <2>4, <2>6, <2>7, <2>9 DEF Bit
  <2>11. ~o.f.V
    BY <1>4, <1>6, <2>1, <2>3
  <2>12. ~(n > 0) /\ n # 0
    BY <2>1
  <2> QED BY <1>5, <1>9, <2>10, <2>11, <2>12 DEF ShiftTold, n, o, w, s, c
<1> QED BY <1>1, <1>10, <1>11

LEMMA ShiftsRight ==
  ASSUME TypeOK, NEW i \in Instruction, ExecuteASH(i) \/ ExecuteASHC(i)
  PROVE  ShiftRightBy(i)
<1> DEFINE d == i.dst
           b == R[i.src]
           n == Signed(b % (2 * Shifts), 2 * Shifts)
<1>1. d \in Registers /\ b \in 0 .. Word - 1 /\ b \in Int /\ R[d] \in 0 .. Word - 1
      /\ R \in [Registers -> 0 .. Word - 1]
  BY InstructionFields, Sizes DEF TypeOK
<1>2. Word \in Nat \ {0} /\ Wide \in Nat \ {0}
  BY Sizes
<1>3. CASE ExecuteASH(i)
  <2> DEFINE v == Signed(R[d], Word)
             w == ShiftedBy(v, n, Word)
             o == Shift(R[d], b, f, Word)
             y == o.alu % Word
  <2>1. i.op = "ASH" /\ R' = [R EXCEPT ![d] = y] /\ f' = o.f
        /\ R' \in [Registers -> 0 .. Word - 1]
    BY <1>3, ASHDoes DEF ExecuteASH
  <2>2. y = w /\ ShiftTold(o.f, f, v, n, w, Word)
    BY <1>1, ShiftTells
  <2>3. i.m = Word
    BY <2>1, InstructionFields DEF OfBoth
  <2> HIDE DEF y, o, d
  <2>4. R'[d] = y /\ R'[d] \in 0 .. Word - 1 /\ \A q \in Registers \ {d} : R'[q] = R[q]
    BY <1>1, <2>1
  <2> HIDE DEF v, w, n, b
  <2>5. Becomes(i, w)
    <3>1. R'[d] % Word = R'[d] /\ R'[d] \div Word = R[d] \div Word
      BY <1>1, <2>4, WordStays
    <3> QED BY <2>2, <2>3, <2>4, <3>1 DEF Becomes, d
  <2>6. ShiftTold(f', f, v, n, w, Word)
    BY <2>1, <2>2
  <2> QED BY <2>1, <2>5, <2>6 DEF ShiftRightBy, ShiftTold, Shows, v, w, n, b, d
<1>4. CASE ExecuteASHC(i)
  <2> DEFINE p == Pair(R, d)
             v == Signed(p, Wide)
             w == ShiftedBy(v, n, Wide)
             o == Shift(p, b, f, Wide)
             y == o.alu
  <2>1. i.op = "ASHC" /\ StorePair(d, y) /\ y \in 0 .. Wide - 1 /\ f' = o.f
    BY <1>4, ASHCDoes DEF ExecuteASHC
  <2>2. p \in 0 .. Wide - 1
    BY <1>1, PairTyped
  <2>3. y % Wide = w /\ ShiftTold(o.f, f, v, n, w, Wide)
    <3> HIDE DEF p
    <3> QED BY <1>1, <2>2, ShiftTells
  <2>4. y = w
    <3> HIDE DEF y, w
    <3> QED BY <1>2, <2>1, <2>3, SelfRemainder
  <2> HIDE DEF y, o
  <2>5. PairBecomes(i, y)
    BY <2>1, PairBecame
  <2> HIDE DEF w, v, n, b
  <2>6. ShiftTold(f', f, v, n, w, Wide)
    BY <2>1, <2>3
  <2> QED BY <2>1, <2>4, <2>5, <2>6 DEF ShiftRightBy, ShiftTold, Shows, v, w, n, b
<1> QED BY <1>3, <1>4

(* The logical instructions, bit by bit.                                    *)

LEMMA PowerAdds ==
  ASSUME NEW k \in Nat, NEW l \in Nat
  PROVE  Power(k + l) = Power(k) * Power(l) /\ Power(k + l) \in Nat \ {0}
<1> DEFINE S == {n \in 0 .. l : Power(k + n) = Power(k) * Power(n)}
<1>1. 0 \in S
  <2>1. Power(k) * 1 = Power(k)
    BY Powers
  <2>2. k + 0 = k
    OBVIOUS
  <2> QED BY <2>1, <2>2, PowerZero
<1>2. ASSUME NEW n \in 1 .. l, n - 1 \in S PROVE n \in S
  <2> DEFINE j == n - 1
             e == k + j
             p == Power(k)
             q == Power(j)
  <2>1. j \in Nat /\ n = j + 1 /\ e \in Nat /\ k + n = e + 1
    OBVIOUS
  <2>2. Power(e) = p * q
    BY <1>2
  <2> HIDE DEF j, e
  <2>3. Power(n) = 2 * q /\ q \in Nat /\ p \in Nat /\ Power(k + n) = 2 * Power(e)
    BY <2>1, Powers
  <2> HIDE DEF p, q
  <2>4. 2 * (p * q) = p * (2 * q)
    BY <2>3
  <2>5. Power(k + n) = p * Power(n)
    BY <2>2, <2>3, <2>4
  <2> QED BY <2>5 DEF p
<1>3. S = 0 .. l
  <2> HIDE DEF S
  <2>1. S \in SUBSET (0 .. l)
    BY DEF S
  <2> QED BY <1>1, <1>2, <2>1, Stepwise
<1>4. l \in S
  BY <1>3
<1>5. Power(k + l) \in Nat \ {0}
  <2>1. k + l \in Nat
    OBVIOUS
  <2> QED BY <2>1, Powers
<1> QED BY <1>4, <1>5

LEMMA PowersRise ==
  ASSUME NEW k \in Nat, NEW l \in Nat, k <= l
  PROVE  Power(k) <= Power(l)
<1> DEFINE d == l - k
           p == Power(k)
           q == Power(d)
<1>1. d \in Nat /\ k + d = l
  OBVIOUS
<1> HIDE DEF d
<1>2. Power(l) = p * q /\ p \in Nat \ {0} /\ q \in Nat \ {0}
  <2>1. Power(k + d) = Power(k) * Power(d)
    BY <1>1, PowerAdds
  <2> QED BY <1>1, <2>1, Powers
<1> HIDE DEF p, q
<1>3. p * q >= p
  BY <1>2
<1> QED BY <1>2, <1>3 DEF p

LEMMA BelowPower ==
  ASSUME NEW n \in Nat
  PROVE  n < Power(n)
<1> DEFINE S == {k \in 0 .. n : k < Power(k)}
<1>1. 0 \in S
  BY PowerZero
<1>2. ASSUME NEW k \in 1 .. n, k - 1 \in S PROVE k \in S
  <2> DEFINE j == k - 1
  <2>1. j \in Nat /\ k = j + 1 /\ j < Power(j)
    BY <1>2
  <2> HIDE DEF j
  <2>2. Power(k) = 2 * Power(j) /\ Power(j) \in Nat
    BY <2>1, Powers
  <2> QED BY <2>1, <2>2
<1>3. S = 0 .. n
  <2> HIDE DEF S
  <2>1. S \in SUBSET (0 .. n)
    BY DEF S
  <2> QED BY <1>1, <1>2, <2>1, Stepwise
<1> QED BY <1>3

\* There is no bit above a power that is greater.
LEMMA NoBit ==
  ASSUME NEW j \in Nat, NEW x \in 0 .. Power(j) - 1, NEW k \in Nat, k >= j
  PROVE  ~Bit(x, k)
<1>1. Power(j) <= Power(k) /\ Power(k) \in Nat \ {0} /\ Power(j) \in Nat
  BY PowersRise, Powers
<1> DEFINE p == Power(k)
<1>2. p \in Nat \ {0} /\ x \in 0 .. p - 1
  BY <1>1
<1> HIDE DEF p
<1>3. x \div p = 0
  BY <1>2, SelfRemainder
<1> QED BY <1>3 DEF Bit, p

\* A number with one more bit.
LEMMA OneMoreBit ==
  ASSUME NEW j \in Nat, NEW r \in 0 .. Power(j) - 1, NEW bit \in BOOLEAN
  PROVE  /\ r + Power(j) * One(bit) \in 0 .. Power(j + 1) - 1
         /\ \A k \in Nat : Bit(r + Power(j) * One(bit), k)
                             <=> IF k = j THEN bit ELSE k < j /\ Bit(r, k)
<1> DEFINE p == Power(j)
           e == One(bit)
           x == r + p * e
<1>1. p \in Nat \ {0} /\ Power(j + 1) = 2 * p /\ e \in 0 .. 1 /\ r \in 0 .. p - 1 /\ r \in Int
  BY Powers DEF One
<1>2. p * e \in {0, p} /\ x \in 0 .. 2 * p - 1 /\ x \in Int
  <2> HIDE DEF p, e
  <2>1. p * e \in {0, p}
    BY <1>1
  <2> QED BY <1>1, <2>1
<1>3. ASSUME NEW k \in Nat
      PROVE  Bit(x, k) <=> IF k = j THEN bit ELSE k < j /\ Bit(r, k)
  <2>1. CASE k = j
    <3> HIDE DEF p, e
    <3>1. x = e * p + r
      BY <1>1
    <3>2. (e * p + r) \div p = e
      <4>1. e \in Int
        BY <1>1
      <4> QED BY ONLY <1>1, <4>1, DivMod
    <3>3. x \div p = e
      BY <3>1, <3>2
    <3>4. e % 2 = 1 <=> bit
      BY DEF e, One
    <3> HIDE DEF x
    <3>5. Bit(x, j) <=> bit
      BY <3>3, <3>4 DEF Bit, p
    <3> QED BY <2>1, <3>5
  <2>2. CASE k > j
    <3>1. j + 1 \in Nat /\ k >= j + 1
      BY <2>2
    <3>2. x \in 0 .. Power(j + 1) - 1
      BY <1>1, <1>2
    <3> HIDE DEF x
    <3>3. ~Bit(x, k)
      BY <3>1, <3>2, NoBit
    <3> QED BY <2>2, <3>3
  <2>3. CASE k < j
    <3> DEFINE l == j - k - 1
               q == Power(k)
               s == Power(l)
               t == 2 * (s * e)
    <3>1. l \in Nat /\ j = (k + 1) + l /\ k + 1 \in Nat
      BY <2>3
    <3>2. p = (2 * q) * s /\ q \in Nat \ {0} /\ s \in Nat \ {0}
      <4> HIDE DEF l
      <4>1. Power((k + 1) + l) = Power(k + 1) * Power(l)
        BY <3>1, PowerAdds
      <4>2. Power(k + 1) = 2 * Power(k) /\ Power(k) \in Nat \ {0} /\ Power(l) \in Nat \ {0}
        BY <3>1, Powers
      <4> QED BY <3>1, <4>1, <4>2
    <3> HIDE DEF p, q, s, e
    <3>3. t \in Int /\ s * e \in Int /\ x = r + t * q
      <4> DEFINE se == s * e
      <4>1. se \in Int
        BY <1>1, <3>2
      <4>2. p * e = ((2 * q) * s) * e
        BY <3>2
      <4>3. ((2 * q) * s) * e = (2 * se) * q
        BY <1>1, <3>2
      <4> QED BY <4>1, <4>2, <4>3
    <3>4. x \div q = (r \div q) + t
      <4> HIDE DEF x, t
      <4>1. q \in Nat \ {0}
        BY <3>2
      <4> QED BY ONLY <1>1, <1>2, <3>3, <4>1, SameRemainder
    <3>5. (x \div q) % 2 = (r \div q) % 2
      <4> DEFINE u == r \div q
                 v == x \div q
                 w == s * e
      <4>1. u \in Int /\ v \in Int /\ w \in Int /\ 2 \in Nat \ {0}
        BY <1>1, <1>2, <3>2, <3>3, Divided
      <4>2. v = u + w * 2
        BY <3>4, <4>1
      <4> HIDE DEF u, v, w
      <4>3. v % 2 = u % 2
        BY ONLY <4>1, <4>2, SameRemainder
      <4> QED BY <4>3 DEF u, v
    <3> HIDE DEF x
    <3>6. Bit(x, k) <=> Bit(r, k)
      BY <3>5 DEF Bit, q
    <3> QED BY <2>3, <3>6
  <2> QED BY <2>1, <2>2, <2>3
<1> QED BY <1>1, <1>2, <1>3

\* The result of a logical instruction, of the bits both operands have.
FromBoth(op, x, y, both) ==
  CASE op = "BIT" -> both
    [] op = "BIC" -> x - both
    [] op = "BIS" -> x + y - both
    [] op = "XOR" -> x + y - 2 * both

\* The results on the lowest j bits of a and b, of which c are in both.
LowBits(a, b, j, c) ==
  /\ c \in Int
  /\ \A op \in Logic :
       LET r == FromBoth(op, a % Power(j), b % Power(j), c) IN
       /\ r \in 0 .. Power(j) - 1
       /\ \A k \in Nat : Bit(r, k) <=> k < j /\ LogicOf(op, Bit(a, k), Bit(b, k))

\* One more of the lowest bits of a number.
LEMMA LowerBit ==
  ASSUME NEW a \in Nat, NEW j \in Nat
  PROVE  /\ a % Power(j + 1) = (a % Power(j)) + Power(j) * One(Bit(a, j))
         /\ a \div Power(j + 1) = (a \div Power(j)) \div 2
         /\ a % Power(j) \in 0 .. Power(j) - 1
         /\ One(Bit(a, j)) = (a \div Power(j)) % 2
<1> DEFINE p == Power(j)
           d == a \div p
           r == a % p
           q == d \div 2
           e == d % 2
<1>1. p \in Nat \ {0} /\ Power(j + 1) = 2 * p
  BY Powers
<1>2. d \in Int /\ r \in 0 .. p - 1 /\ a = d * p + r
  <2> HIDE DEF p
  <2>1. a \in Int
    OBVIOUS
  <2> QED BY <1>1, <2>1, Divided
<1>3. q \in Int /\ e \in 0 .. 1 /\ d = 2 * q + e
  <2> HIDE DEF d
  <2> QED BY <1>2
<1>4. One(Bit(a, j)) = e
  <2>1. Bit(a, j) <=> e = 1
    BY DEF Bit
  <2> HIDE DEF e
  <2> QED BY <1>3, <2>1 DEF One
<1> HIDE DEF p, d, r, q, e
<1> DEFINE w == 2 * p
           x == r + p * e
<1>5. w \in Nat \ {0} /\ x \in 0 .. w - 1
  <2>1. p * e \in {0, p}
    BY <1>1, <1>3
  <2> QED BY <1>1, <1>2, <2>1
<1>6. a = q * w + x
  <2>1. (2 * q + e) * p = q * (2 * p) + p * e /\ q * (2 * p) \in Int /\ p * e \in Int
    BY <1>1, <1>3
  <2> DEFINE u == q * (2 * p)
             v == p * e
  <2> HIDE DEF u, v
  <2>2. d * p = u + v /\ u \in Int /\ v \in Int
    BY <1>3, <2>1 DEF u, v
  <2>3. a = u + (r + v)
    BY <1>2, <2>2
  <2> QED BY <2>3 DEF u, v
<1> HIDE DEF w, x
<1>7. (q * w + x) \div w = q /\ (q * w + x) % w = x
  BY ONLY <1>3, <1>5, DivMod
<1>8. a \div w = q /\ a % w = x
  BY <1>6, <1>7
<1>9. a % Power(j + 1) = r + p * e /\ a \div Power(j + 1) = q
  BY <1>1, <1>8 DEF w, x
<1> QED BY <1>2, <1>4, <1>9 DEF p, d, r, q, e

\* One more of the lowest bits of what two numbers share.
LEMMA MoreLowBits ==
  ASSUME NEW a \in Nat, NEW b \in Nat, NEW j \in Nat, NEW c, LowBits(a, b, j, c)
  PROVE  LowBits(a, b, j + 1, c + Power(j) * One(Bit(a, j) /\ Bit(b, j)))
<1> DEFINE P == Power(j)
           p == Bit(a, j)
           q == Bit(b, j)
           x == a % P
           y == b % P
           d == c + P * One(p /\ q)
<1>1. /\ a % Power(j + 1) = x + P * One(p) /\ b % Power(j + 1) = y + P * One(q)
      /\ x \in 0 .. P - 1 /\ y \in 0 .. P - 1 /\ P \in Nat \ {0}
  BY LowerBit, Powers
<1>2. c \in Int /\ p \in BOOLEAN /\ q \in BOOLEAN
  BY DEF LowBits, Bit
<1>3. d \in Int
  <2> HIDE DEF P, p, q
  <2>1. P * One(p /\ q) \in Int
    BY <1>1 DEF One
  <2> QED BY <1>2, <2>1
<1>4. ASSUME NEW op \in Logic
      PROVE  LET r == FromBoth(op, a % Power(j + 1), b % Power(j + 1), d) IN
             /\ r \in 0 .. Power(j + 1) - 1
             /\ \A k \in Nat : Bit(r, k) <=> k < j + 1 /\ LogicOf(op, Bit(a, k), Bit(b, k))
  <2> DEFINE r == FromBoth(op, x, y, c)
             s == FromBoth(op, a % Power(j + 1), b % Power(j + 1), d)
             bit == LogicOf(op, p, q)
  <2>1. r \in 0 .. P - 1 /\ \A k \in Nat : Bit(r, k) <=> k < j /\ LogicOf(op, Bit(a, k), Bit(b, k))
    BY DEF LowBits
  <2>2. bit \in BOOLEAN
    <3> HIDE DEF p, q
    <3> QED BY <1>2 DEF LogicOf, Logic
  <2>3. s = r + P * One(bit)
    <3> DEFINE u == P * One(p)
               v == P * One(q)
               w == P * One(p /\ q)
    <3>1. s = FromBoth(op, x + u, y + v, c + w)
      BY <1>1
    <3> HIDE DEF P, p, q, x, y, d
    <3>2. x \in Int /\ y \in Int /\ P \in Int
      BY <1>1
    <3>3. /\ u = (IF p THEN P ELSE 0) /\ v = (IF q THEN P ELSE 0)
          /\ w = IF p /\ q THEN P ELSE 0
      BY <3>2 DEF One
    <3>4. P * One(bit) = IF bit THEN P ELSE 0
      BY <3>2 DEF One
    <3> HIDE DEF u, v, w, s
    <3>5. CASE op = "BIT"
      <4>1. s = c + w /\ r = c /\ (bit <=> p /\ q)
        BY <3>1, <3>5 DEF FromBoth, LogicOf
      <4> HIDE DEF bit, r
      <4> QED BY <1>2, <3>2, <3>3, <3>4, <4>1
    <3>6. CASE op = "BIC"
      <4>1. s = (x + u) - (c + w) /\ r = x - c /\ (bit <=> p /\ ~q)
        BY <3>1, <3>6 DEF FromBoth, LogicOf
      <4> HIDE DEF bit, r
      <4> QED BY <1>2, <3>2, <3>3, <3>4, <4>1
    <3>7. CASE op = "BIS"
      <4>1. s = (x + u) + ((y + v) - (c + w)) /\ r = x + y - c /\ (bit <=> p \/ q)
        BY <3>1, <3>7 DEF FromBoth, LogicOf
      <4> HIDE DEF bit, r
      <4> QED BY <1>2, <3>2, <3>3, <3>4, <4>1
    <3>8. CASE op = "XOR"
      <4>1. s = (x + u) + ((y + v) - 2 * (c + w)) /\ r = x + y - 2 * c /\ (bit <=> ~(p <=> q))
        BY <3>1, <3>8 DEF FromBoth, LogicOf
      <4> HIDE DEF bit, r
      <4> QED BY <1>2, <3>2, <3>3, <3>4, <4>1
    <3> QED BY <3>5, <3>6, <3>7, <3>8 DEF Logic
  <2> HIDE DEF r, s
  <2>4. s \in 0 .. Power(j + 1) - 1
    <3> HIDE DEF bit
    <3> QED BY <2>1, <2>2, <2>3, OneMoreBit
  <2>5. ASSUME NEW k \in Nat
        PROVE  Bit(s, k) <=> k < j + 1 /\ LogicOf(op, Bit(a, k), Bit(b, k))
    <3>1. Bit(s, k) <=> IF k = j THEN bit ELSE k < j /\ Bit(r, k)
      <4> HIDE DEF bit
      <4> QED BY <2>1, <2>2, <2>3, OneMoreBit
    <3>2. CASE k = j
      BY <3>1, <3>2
    <3>3. CASE k # j
      <4>1. k < j + 1 <=> k < j
        BY <3>3
      <4>2. Bit(s, k) <=> k < j /\ Bit(r, k)
        BY <3>1, <3>3
      <4>3. Bit(r, k) <=> k < j /\ LogicOf(op, Bit(a, k), Bit(b, k))
        BY <2>1
      <4> HIDE DEF bit
      <4> QED BY <4>1, <4>2, <4>3
    <3> QED BY <3>2, <3>3
  <2> QED BY <2>4, <2>5 DEF s
<1> HIDE DEF d
<1>5. LowBits(a, b, j + 1, d)
  BY <1>3, <1>4 DEF LowBits
<1> QED BY <1>5 DEF d

\* There are no more bits in both when there are none in a.
LEMMA NoMoreBits ==
  ASSUME NEW a \in Nat, NEW b \in Nat, NEW j \in Nat, NEW n \in Nat, NEW c,
         LowBits(a, b, j, c), a < Power(j)
  PROVE  LowBits(a, b, j + n, c)
<1> DEFINE S == {k \in 0 .. n : LowBits(a, b, j + k, c)}
<1>1. 0 \in S
  <2>1. j + 0 = j
    OBVIOUS
  <2> QED BY <2>1
<1>2. ASSUME NEW k \in 1 .. n, k - 1 \in S PROVE k \in S
  <2> DEFINE i == j + (k - 1)
             P == Power(i)
  <2>1. i \in Nat /\ j + k = i + 1 /\ i >= j /\ LowBits(a, b, i, c)
    BY <1>2
  <2> HIDE DEF i
  <2>2. ~Bit(a, i)
    <3>1. a \in 0 .. Power(j) - 1
      BY Powers
    <3> QED BY <2>1, <3>1, NoBit
  <2>3. LowBits(a, b, i + 1, c + P * One(Bit(a, i) /\ Bit(b, i)))
    BY <2>1, MoreLowBits
  <2>4. One(Bit(a, i) /\ Bit(b, i)) = 0
    BY <2>2 DEF One
  <2>5. P * 0 = 0 /\ P \in Nat
    BY <2>1, Powers
  <2>6. c \in Int
    BY DEF LowBits
  <2> HIDE DEF P
  <2>7. c + P * One(Bit(a, i) /\ Bit(b, i)) = c
    BY <2>4, <2>5, <2>6
  <2> QED BY <2>1, <2>3, <2>7
<1>3. S = 0 .. n
  <2> HIDE DEF S
  <2>1. S \in SUBSET (0 .. n)
    BY DEF S
  <2> QED BY <1>1, <1>2, <2>1, Stepwise
<1>4. n \in S
  BY <1>3
<1> QED BY <1>4

\* The lowest n bits of numbers below a power of two give the whole result.
LEMMA BothBits ==
  ASSUME NEW a \in Nat, NEW b \in Nat, NEW n \in Nat, a < Power(n)
  PROVE  LowBits(a, b, n, Both(a, b))
<1> DEFINE x == [a |-> a, b |-> b, place |-> 1, both |-> 0]
           B == CHOOSE g : BitsOf(g, a, b)
           low(k) == IF k < n THEN k ELSE n
           T == {k \in 0 .. a : LET s == B[k] IN
                   /\ s.place = Power(k) /\ s.a = a \div Power(k) /\ s.b = b \div Power(k)
                   /\ LowBits(a, b, low(k), s.both)}
<1>1. BitsOf(B, a, b)
  BY BitsExist
<1>2. Both(a, b) = B[a].both
  BY DEF Both, BitsOf
<1> HIDE DEF B
<1>3. \A k \in 0 .. a : B[k] = IF k = 0 THEN x ELSE NextBit(B[k - 1])
  BY <1>1, Zenon DEF BitsOf
<1>4. 0 \in T
  <2>1. B[0] = x /\ 0 \in 0 .. a
    BY <1>3
  <2>2. /\ x.place = Power(0) /\ x.a = a \div Power(0) /\ x.b = b \div Power(0) /\ x.both = 0
    BY PowerZero
  <2>3. LowBits(a, b, 0, 0)
    <3>1. a % Power(0) = 0 /\ b % Power(0) = 0 /\ Power(0) = 1
      BY PowerZero
    <3>2. ASSUME NEW op \in Logic PROVE FromBoth(op, 0, 0, 0) = 0
      BY <3>2 DEF FromBoth, Logic
    <3>3. ASSUME NEW k \in Nat PROVE ~Bit(0, k)
      <4>1. 0 \in 0 .. Power(0) - 1 /\ k >= 0
        BY <3>1
      <4> QED BY <4>1, NoBit
    <3>4. \A k \in Nat : ~(k < 0)
      OBVIOUS
    <3> QED BY <3>1, <3>2, <3>3, <3>4 DEF LowBits
  <2>4. low(0) = 0
    OBVIOUS
  <2> HIDE DEF x
  <2> QED BY <2>1, <2>2, <2>3, <2>4
<1> HIDE DEF x
<1>5. ASSUME NEW k \in 1 .. a, k - 1 \in T PROVE k \in T
  <2> DEFINE j == k - 1
             s == B[j]
             t == B[k]
             bit == Bit(a, j) /\ Bit(b, j)
  <2>1. j \in Nat /\ k = j + 1 /\ k \in 0 .. a
    OBVIOUS
  <2>2. /\ s.place = Power(j) /\ s.a = a \div Power(j) /\ s.b = b \div Power(j)
        /\ LowBits(a, b, low(j), s.both)
    BY <1>5
  <2>3. t = NextBit(s)
    BY <1>3
  <2> HIDE DEF s, t, j
  <2>4. /\ t.place = 2 * s.place /\ t.a = s.a \div 2 /\ t.b = s.b \div 2
        /\ t.both = s.both + s.place * One(s.a % 2 = 1 /\ s.b % 2 = 1)
    BY <2>3 DEF NextBit
  <2>5. t.place = Power(k) /\ t.a = a \div Power(k) /\ t.b = b \div Power(k)
    BY <2>1, <2>2, <2>4, Powers, LowerBit
  <2>6. t.both = s.both + Power(j) * One(bit)
    BY <2>2, <2>4 DEF Bit
  <2>7. LowBits(a, b, low(k), t.both)
    <3>1. CASE j < n
      <4>1. low(j) = j /\ low(k) = j + 1
        BY <2>1, <3>1
      <4>2. LowBits(a, b, j, s.both)
        BY <2>2, <4>1
      <4>3. LowBits(a, b, j + 1, s.both + Power(j) * One(bit))
        BY <2>1, <4>2, MoreLowBits
      <4> HIDE DEF low, bit
      <4> QED BY <2>6, <4>1, <4>3
    <3>2. CASE ~(j < n)
      <4>1. low(j) = n /\ low(k) = n /\ j >= n
        BY <2>1, <3>2
      <4>2. ~Bit(a, j)
        <5>1. a \in 0 .. Power(n) - 1
          BY Powers
        <5> QED BY <2>1, <4>1, <5>1, NoBit
      <4>3. One(bit) = 0
        BY <4>2 DEF One
      <4>4. s.both \in Int
        BY <2>2 DEF LowBits
      <4> DEFINE p == Power(j)
                 c == s.both
      <4>5. p \in Nat
        BY <2>1, Powers
      <4> HIDE DEF p, bit, c
      <4>6. c + p * One(bit) = c
        BY <4>3, <4>4, <4>5 DEF c
      <4>7. t.both = c
        BY <2>6, <4>6 DEF c, p
      <4> HIDE DEF low
      <4> QED BY <2>2, <4>1, <4>7 DEF c
    <3> QED BY <3>1, <3>2
  <2> HIDE DEF low
  <2> QED BY <2>1, <2>5, <2>7 DEF t
<1>6. T = 0 .. a
  <2> HIDE DEF T
  <2>1. T \in SUBSET (0 .. a)
    BY DEF T
  <2> QED BY <1>4, <1>5, <2>1, Stepwise
<1>7. LowBits(a, b, low(a), Both(a, b))
  BY <1>2, <1>6
<1>8. CASE a >= n
  BY <1>7, <1>8
<1>9. CASE a < n
  <2> DEFINE d == n - a
             c == Both(a, b)
  <2>1. d \in Nat /\ a + d = n /\ LowBits(a, b, a, c)
    BY <1>7, <1>9
  <2>2. a < Power(a)
    BY BelowPower
  <2> HIDE DEF d, c
  <2>3. LowBits(a, b, a + d, c)
    BY <2>1, <2>2, NoMoreBits
  <2> QED BY <2>1, <2>3 DEF c
<1> QED BY <1>8, <1>9

\* Bytes and words are powers of two.
LEMMA SizesArePowers ==
  ASSUME NEW m \in {Byte, Word}
  PROVE  \E n \in Nat : m = Power(n)
<1>1. PICK k \in Nat : Byte = Power(k)
  BY BytesOfBits
<1>2. Word = Power(k + k) /\ k + k \in Nat
  BY <1>1, PowerAdds DEF Word
<1> QED BY <1>1, <1>2

LEMMA LogicBits ==
  ASSUME NEW m \in {Byte, Word}, NEW a \in 0 .. m - 1, NEW b \in 0 .. m - 1, NEW op \in Logic
  PROVE  /\ LogicALU(op, a, b) \in 0 .. m - 1
         /\ \A k \in Nat : Bit(LogicALU(op, a, b), k) <=> LogicOf(op, Bit(a, k), Bit(b, k))
<1>1. PICK n \in Nat : m = Power(n)
  BY SizesArePowers
<1>2. m \in Nat \ {0} /\ a \in Nat /\ b \in Nat /\ a < Power(n)
  BY <1>1, Powers
<1>3. LowBits(a, b, n, Both(a, b))
  BY <1>2, BothBits
<1>4. a % Power(n) = a /\ b % Power(n) = b
  BY <1>1, <1>2, SelfRemainder
<1> DEFINE r == LogicALU(op, a, b)
<1>5. r = FromBoth(op, a % Power(n), b % Power(n), Both(a, b))
  BY <1>4 DEF LogicALU, FromBoth
<1> HIDE DEF r
<1>6. r \in 0 .. m - 1 /\ \A k \in Nat : Bit(r, k) <=> k < n /\ LogicOf(op, Bit(a, k), Bit(b, k))
  BY <1>1, <1>3, <1>5 DEF LowBits
<1>7. ASSUME NEW k \in Nat, ~(k < n)
      PROVE  ~LogicOf(op, Bit(a, k), Bit(b, k))
  <2>1. ~Bit(a, k) /\ ~Bit(b, k)
    BY <1>1, <1>7, NoBit
  <2> QED BY <2>1 DEF LogicOf, Logic
<1> QED BY <1>6, <1>7 DEF r

LEMMA LogicsRight ==
  ASSUME TypeOK, NEW i \in Instruction, ExecuteALU(i)
  PROVE  LogicRight(i)
<1> DEFINE m == i.m
           a == Argument(i.dst, m)
           b == Argument(i.src, m)
           o == ALU(i, a, b)
           x == LogicALU(i.op, a, b)
           w == FALSE
           c == f.C
<1> SUFFICES ASSUME i.op \in Logic
    PROVE  /\ x \in 0 .. m - 1
           /\ \A k \in 0 .. m - 1 : Bit(x, k) <=> LogicOf(i.op, Bit(a, k), Bit(b, k))
           /\ IF i.op \in NoResult THEN R' = R ELSE Becomes(i, x)
           /\ Shows(x, m) /\ f'.V = FALSE /\ f'.C = f.C
  BY DEF LogicRight
<1>1. m \in {Byte, Word} /\ i.src \in Registers /\ i.dst \in Registers /\ m \in Nat \ {0}
  BY InstructionFields, Sizes
<1>2. a \in 0 .. m - 1 /\ b \in 0 .. m - 1
  BY <1>1, ArgumentTyped
<1>3. f' = o.f /\ (i.op \in NoResult => R' = R)
  BY ALUDoes
<1>4. x \in 0 .. m - 1 /\ \A k \in Nat : Bit(x, k) <=> LogicOf(i.op, Bit(a, k), Bit(b, k))
  <2> HIDE DEF a, b, m
  <2> QED BY <1>1, <1>2, LogicBits
<1>5. o = Outcome(x, m, w, c)
  BY DEF ALU, Logic
<1>6. o.alu = x /\ (o.f.N <=> Sign(x, m)) /\ (o.f.Z <=> x % m = 0) /\ o.f.V = w /\ o.f.C = c
  <2> HIDE DEF o, x, m, w, c
  <2> QED BY <1>5, OutcomeFields
<1>7. x % m = x /\ x \in Int
  <2> HIDE DEF x, m
  <2> QED BY <1>1, <1>4, SelfRemainder
<1>8. Sign(x, m) <=> Signed(x, m) < 0
  <2>1. PICK h : Half(m, h)
    BY <1>1, SizesHalf
  <2> HIDE DEF x, m
  <2> QED BY <1>7, <2>1, SignOf
<1>9. ASSUME i.op \notin NoResult PROVE Becomes(i, x)
  <2>1. Becomes(i, o.alu % m)
    BY <1>9, ALUBecomes DEF Logic
  <2> HIDE DEF o, x
  <2> QED BY <1>6, <1>7, <2>1
<1>10. \A k \in 0 .. m - 1 : k \in Nat
  BY <1>1
<1> HIDE DEF x, o, m, a, b
<1> QED BY <1>3, <1>4, <1>6, <1>7, <1>8, <1>9, <1>10 DEF Shows

\* The other instructions do not touch what a part speaks of.
LEMMA ALURight ==
  ASSUME TypeOK, NEW i \in Instruction, ExecuteALU(i), CharSigned
  PROVE  /\ SumRight(i) /\ HalfRight(i) /\ LogicRight(i) /\ ByteRight(i)
         /\ ProductRight(i) /\ QuotientRight(i) /\ ShiftRightBy(i)
<1>1. i.op \notin EIS
  BY DEF ExecuteALU
<1>2. SumRight(i)
  BY SumsRight
<1>3. HalfRight(i)
  BY HalvesRight
<1>4. LogicRight(i)
  BY LogicsRight
<1>5. ByteRight(i)
  BY BytesRight
<1>6. ProductRight(i)
  BY <1>1 DEF ProductRight, EIS
<1>7. QuotientRight(i)
  BY <1>1 DEF QuotientRight, EIS
<1>8. ShiftRightBy(i)
  BY <1>1 DEF ShiftRightBy, EIS
<1> QED BY <1>2, <1>3, <1>4, <1>5, <1>6, <1>7, <1>8

LEMMA OthersRight ==
  ASSUME TypeOK, NEW i \in Instruction, Execute(i), i.op \in EIS \cup Branches \cup {"SOB"}
  PROVE  /\ SumRight(i) /\ HalfRight(i) /\ LogicRight(i) /\ ByteRight(i)
         /\ ProductRight(i) /\ QuotientRight(i) /\ ShiftRightBy(i)
<1> DEFINE op == i.op
<1>1. op \in EIS \cup Branches \cup {"SOB"}
  OBVIOUS
<1> HIDE DEF op
<1>2. op \notin Sums \cup Logic \cup {"ASR", "ROR", "SWAB", "SXT"}
  BY <1>1 DEF EIS, Branches, Sums, Logic
<1>3. SumRight(i)
  BY <1>2 DEF SumRight, op
<1>4. HalfRight(i)
  BY <1>2 DEF HalfRight, op
<1>5. LogicRight(i)
  BY <1>2 DEF LogicRight, op
<1>6. ByteRight(i)
  BY <1>2 DEF ByteRight, op
<1>7. ~ExecuteALU(i)
  BY DEF ExecuteALU
<1>8. ExecuteBranch(i) => op \notin EIS
  BY DEF ExecuteBranch, Branches, EIS, op
<1>9. ProductRight(i)
  <2>1. CASE op = "MUL"
    <3>1. ExecuteMUL(i)
      BY <1>7, <1>8, <2>1 DEF Execute, ExecuteDIV, ExecuteASH, ExecuteASHC, ExecuteSOB, EIS, op
    <3> QED BY <3>1, ProductsRight
  <2>2. CASE op # "MUL"
    BY <2>2 DEF ProductRight, op
  <2> QED BY <2>1, <2>2
<1>10. QuotientRight(i)
  <2>1. CASE op = "DIV"
    <3>1. ExecuteDIV(i)
      BY <1>7, <1>8, <2>1 DEF Execute, ExecuteMUL, ExecuteASH, ExecuteASHC, ExecuteSOB, EIS, op
    <3> QED BY <3>1, QuotientsRight
  <2>2. CASE op # "DIV"
    BY <2>2 DEF QuotientRight, op
  <2> QED BY <2>1, <2>2
<1>11. ShiftRightBy(i)
  <2>1. CASE op \in {"ASH", "ASHC"}
    <3>1. ExecuteASH(i) \/ ExecuteASHC(i)
      BY <1>7, <1>8, <2>1 DEF Execute, ExecuteMUL, ExecuteDIV, ExecuteSOB, EIS, op
    <3> QED BY <3>1, ShiftsRight
  <2>2. CASE op \notin {"ASH", "ASHC"}
    BY <2>2 DEF ShiftRightBy, op
  <2> QED BY <2>1, <2>2
<1> QED BY <1>3, <1>4, <1>5, <1>6, <1>9, <1>10, <1>11

\* Where char is signed, every instruction leaves in registers and conditions what
\* it is for, for bytes and words of every size and all operands: the exact sum,
\* product or quotient as far as it goes, the shifted number, the bits of the
\* logical operation, N and Z of what is stored, V and C of what was lost, and
\* every register that is not its destination as it was.
THEOREM EachInstructionRight ==
  ASSUME CharSigned
  PROVE  Spec => InstructionsRight
<1> DEFINE Step ==
      LET i == program.code[pc] IN
      /\ SumRight(i) /\ HalfRight(i) /\ LogicRight(i) /\ ByteRight(i)
      /\ ProductRight(i) /\ QuotientRight(i) /\ ShiftRightBy(i)
<1>1. ASSUME TypeOK, Next PROVE Step
  <2> DEFINE i == program.code[pc]
  <2>1. i \in Instruction
    BY <1>1, CodeTyped DEF TypeOK, Next
  <2>2. Execute(i)
    BY <1>1 DEF Next
  <2> HIDE DEF i
  <2>3. CASE i.op \in EIS \cup Branches \cup {"SOB"}
    <3>1. /\ SumRight(i) /\ HalfRight(i) /\ LogicRight(i) /\ ByteRight(i)
          /\ ProductRight(i) /\ QuotientRight(i) /\ ShiftRightBy(i)
      BY <1>1, <2>1, <2>2, <2>3, OthersRight
    <3> QED BY <3>1 DEF i
  <2>4. CASE i.op \notin EIS \cup Branches \cup {"SOB"}
    <3>1. ExecuteALU(i)
      BY <2>2, <2>4 DEF Execute, ExecuteMUL, ExecuteDIV, ExecuteASH, ExecuteASHC,
                        ExecuteBranch, ExecuteSOB, EIS
    <3>2. /\ SumRight(i) /\ HalfRight(i) /\ LogicRight(i) /\ ByteRight(i)
          /\ ProductRight(i) /\ QuotientRight(i) /\ ShiftRightBy(i)
      BY <1>1, <2>1, <3>1, ALURight
    <3> QED BY <3>2 DEF i
  <2> QED BY <2>3, <2>4
<1>2. TypeOK /\ [Next]_vars => [Step]_vars
  BY <1>1
<1> HIDE DEF Step
<1>3. Spec => [][Step]_vars
  BY <1>2, TypeCorrect, PTL DEF Spec
<1> QED BY <1>3, Zenon DEF InstructionsRight, Step
=============================================================================
