---------------------------- MODULE CPUArithmetic ----------------------------
(***************************************************************************)
(* The arithmetic of the instructions in BK/devemu/CPU.cpp.  m_ALU is      *)
(* wider than the operands, and the condition bits are taken from it       *)
(* before it is cut to a byte or a word; each operator gives what is left  *)
(* in m_ALU and the condition bits.  The second half says what the         *)
(* instructions are for, in terms of the signed and unsigned numbers that  *)
(* the operands stand for.                                                 *)
(***************************************************************************)
EXTENDS Integers

CONSTANTS
  Byte,       \* a byte counts modulo Byte: 2^8
  Shifts,     \* a shift count is one of -Shifts .. Shifts - 1: 32
  CharSigned  \* char is signed, as the branches need

ASSUME ArithmeticAssumption ==
  /\ Byte \in Nat /\ \E half \in 1 .. Byte : Byte = 2 * half
  /\ Shifts \in Nat \ {0}
  /\ CharSigned \in BOOLEAN

Word == Byte * Byte
Wide == Word * Word     \* m_ALU: 2^32

Conditions == [N : BOOLEAN, Z : BOOLEAN, V : BOOLEAN, C : BOOLEAN]

\* The bit m_Nbit of m_ALU, for operands modulo m, and the bits above them.
Sign(x, m)  == (x \div (m \div 2)) % 2 = 1
Carry(x, m) == x \div m # 0

\* m_ALU holds x, of which Set_NZ takes N and Z; V and C become v and c.
Outcome(x, m, v, c) ==
  [alu |-> x, f |-> [N |-> Sign(x, m), Z |-> x % m = 0, V |-> v, C |-> c]]

\* The sign went up (Set_V) or down (Set_IV).
Rose(old, x, m) == ~Sign(old, m) /\ Sign(x, m)
Fell(old, x, m) == Sign(old, m) /\ ~Sign(x, m)
-----------------------------------------------------------------------------
\* The operands are a, the destination, and b, the source; f are the condition
\* bits before.
One(bit) == IF bit THEN 1 ELSE 0

ADD(a, b, f, m) ==
  LET x == a + b IN
  Outcome(x, m, (Sign(b, m) <=> Sign(a, m)) /\ ~(Sign(a, m) <=> Sign(x, m)), Carry(x, m))

SUB(a, b, f, m) ==
  LET x == (a - b) % Wide IN
  Outcome(x, m, ~(Sign(b, m) <=> Sign(a, m)) /\ (Sign(b, m) <=> Sign(x, m)), Carry(x, m))

\* Mutant: the overflow of SUB, whose operands are the other way round.
CMPAsSUB(a, b, f, m) ==
  LET x == (b - a) % Wide IN
  Outcome(x, m, ~(Sign(b, m) <=> Sign(a, m)) /\ (Sign(b, m) <=> Sign(x, m)), Carry(x, m))

CMP(a, b, f, m) ==
  LET x == (b - a) % Wide IN
  Outcome(x, m, ~(Sign(b, m) <=> Sign(a, m)) /\ (Sign(a, m) <=> Sign(x, m)), Carry(x, m))

INC(a, b, f, m) == LET x == a + 1 IN Outcome(x, m, Rose(a, x, m), f.C)
DEC(a, b, f, m) == LET x == (a - 1) % Wide IN Outcome(x, m, Fell(a, x, m), f.C)

NEG(a, b, f, m) ==
  LET x == (Wide - a) % Wide IN Outcome(x, m, x % m = m \div 2, x % m # 0)

ADC(a, b, f, m) ==
  LET x == a + One(f.C) IN Outcome(x, m, Rose(a, x, m), Carry(x, m))

SBC(a, b, f, m) ==
  LET x == (a - One(f.C)) % Wide IN Outcome(x, m, Fell(a, x, m), Carry(x, m))

TST(a, b, f, m) == Outcome(a, m, FALSE, FALSE)
CLR(a, b, f, m) == Outcome(0, m, FALSE, FALSE)
COM(a, b, f, m) == Outcome(Wide - 1 - a, m, FALSE, TRUE)

\* A shift by one: V is N xor C.
Shifted(x, m, c) == Outcome(x, m, ~(Sign(x, m) <=> c), c)

ROR(a, b, f, m) == Shifted((a \div 2) + One(f.C) * (m \div 2), m, a % 2 = 1)
ROL(a, b, f, m) == Shifted(2 * a + One(f.C), m, Sign(a, m))
ASR(a, b, f, m) == Shifted((a \div 2) + One(Sign(a, m)) * (m \div 2), m, a % 2 = 1)
ASL(a, b, f, m) == Shifted(2 * a, m, Sign(a, m))

SXT(a, b, f, m) ==
  [alu |-> IF f.N THEN Wide - 1 ELSE 0, f |-> [f EXCEPT !.Z = ~f.N, !.V = FALSE]]

\* The sign of the low byte; Z looks at that byte alone.
SWAB(a, b, f, m) ==
  LET x == (a \div Byte) + Byte * (a % Byte) IN
  [alu |-> x, f |-> [N |-> Sign(x % Byte, Byte), Z |-> x % Byte = 0, V |-> FALSE, C |-> FALSE]]

\* A byte that goes to a register takes the high byte with its sign.
MOV(a, b, f, m) ==
  Outcome(IF m = Byte /\ CharSigned /\ Sign(b, Byte) THEN Wide - Byte + b ELSE b, m, FALSE, f.C)
-----------------------------------------------------------------------------
\* EIS: a is the register, or the pair as one number modulo Wide.
Signed(x, m) == IF x < m \div 2 THEN x ELSE x - m

Magnitude(v) == IF v < 0 THEN -v ELSE v

\* The pair gets the product.
MUL(a, b, f) ==
  LET v == Signed(a, Word) * Signed(b, Word) IN
  [pair |-> v % Wide,
   f |-> [N |-> v < 0, Z |-> v = 0, V |-> FALSE, C |-> Magnitude(v) >= Word \div 2]]

\* Division of C: towards zero.
Quotient(p, q) ==
  LET n == Magnitude(p) \div Magnitude(q) IN IF (p < 0) <=> (q < 0) THEN n ELSE -n

\* The pair a becomes the quotient and the remainder.
DIV(a, b, f) ==
  LET p == Signed(a, Wide)
      q == Signed(b, Word)
      n == Quotient(p, q) IN
  IF q = 0 THEN [pair |-> a, f |-> [N |-> FALSE, Z |-> FALSE, V |-> TRUE, C |-> TRUE]]
  ELSE IF a = Wide \div 2 \/ Magnitude(n) >= Word
  THEN [pair |-> a, f |-> [N |-> FALSE, Z |-> FALSE, V |-> TRUE, C |-> FALSE]]
  ELSE [pair |-> ((n % Word) * Word) + ((p - n * q) % Word),
        f |-> [N |-> n < 0, Z |-> n = 0, V |-> FALSE, C |-> FALSE]]

\* Mutant: only the last turn counts for V.
LeftLast(s, m) ==
  [x |-> (2 * s.x) % Wide, c |-> Sign(s.x, m),
   v |-> ~(Sign(s.x, m) <=> Sign((2 * s.x) % Wide, m))]

\* One turn of the loops of ASH (m = Word) and ASHC (m = Wide).
Left(s, m) ==
  [x |-> (2 * s.x) % Wide, c |-> Sign(s.x, m),
   v |-> s.v \/ ~(Sign(s.x, m) <=> Sign((2 * s.x) % Wide, m))]

Right(s, m, n) ==
  [x |-> (s.x \div 2) + One(n) * (m \div 2), c |-> s.x % 2 = 1, v |-> s.v]

\* The count is in the low bits of b; a negative one shifts to the right.
Shift(a, b, f, m) ==
  LET s == b % (2 * Shifts)
      right == s >= Shifts
      times == IF right THEN 2 * Shifts - s ELSE s
      after[n \in 0 .. times] ==
        IF n = 0 THEN [x |-> a, c |-> FALSE, v |-> FALSE]
        ELSE IF right THEN Right(after[n - 1], m, Sign(a, m)) ELSE Left(after[n - 1], m)
      end == after[times] IN
  [alu |-> end.x,
   f |-> [N |-> Sign(end.x, m), Z |-> end.x % m = 0,
          V |-> IF times = 0 THEN f.V ELSE end.v, C |-> IF times = 0 THEN f.C ELSE end.c]]
-----------------------------------------------------------------------------
\* What the instructions are for.

\* The outcome o has the result whose exact values, taken of signed and of
\* unsigned operands, are v and u; V and C tell which of them does not fit.
Tells(o, v, u, m) ==
  /\ o.alu % m = v % m
  /\ o.f.N <=> Signed(o.alu % m, m) < 0
  /\ o.f.Z <=> o.alu % m = 0
  /\ o.f.V <=> v \notin -(m \div 2) .. (m \div 2) - 1
  /\ o.f.C <=> u \notin 0 .. m - 1

\* The same of an instruction that leaves C as it was.
TellsKeepingC(o, v, c, m) ==
  Tells([o EXCEPT !.f.C = FALSE], v, 0, m) /\ (o.f.C <=> c)

\* The condition bits after adding and subtracting say whether the result is
\* right for signed (V) and for unsigned (C) numbers.
AdditionRight(a, b, f, m) ==
  LET x == Signed(a, m)
      y == Signed(b, m)
      c == One(f.C) IN
  /\ Tells(ADD(a, b, f, m), x + y, a + b, m)
  /\ Tells(SUB(a, b, f, m), x - y, a - b, m)
  /\ Tells(CMP(a, b, f, m), y - x, b - a, m)
  /\ Tells(ADC(a, b, f, m), x + c, a + c, m)
  /\ Tells(SBC(a, b, f, m), x - c, a - c, m)
  /\ Tells(NEG(a, b, f, m), -x, -a, m)
  /\ TellsKeepingC(INC(a, b, f, m), x + 1, f.C, m)
  /\ TellsKeepingC(DEC(a, b, f, m), x - 1, f.C, m)

\* The shifts double, or halve towards the smaller number, and C has the bit
\* that went out.
ShiftRight(a, b, f, m) ==
  LET x == Signed(a, m) IN
  /\ Tells(ASL(a, b, f, m), 2 * x, 2 * a, m)
  /\ Tells(ROL(a, b, f, m), 2 * x + One(f.C), 2 * a + One(f.C), m)
  /\ ASR(a, b, f, m).alu = (x \div 2) % m /\ (ASR(a, b, f, m).f.C <=> a % 2 = 1)
  /\ 2 * ROR(a, b, f, m).alu + One(ROR(a, b, f, m).f.C) = a + One(f.C) * m
=============================================================================
