--------------------------- MODULE CPUInstructions ---------------------------
(***************************************************************************)
(* Instructions of BK/devemu/CPU.cpp on registers: where the operands come *)
(* from, what becomes of the result, and the branches that follow.  Short  *)
(* programs are run from any registers, since what the guest relies on is  *)
(* mostly the effect of several instructions: numbers of two words, a      *)
(* comparison and its branch, a loop.  Operands in memory, the register PC *)
(* and interrupts are left out.                                            *)
(***************************************************************************)
EXTENDS CPUArithmetic, Sequences

CONSTANTS
  Programs,        \* programs: a name and a sequence of instructions
  Inputs(_),       \* the registers and conditions a program is started with
  EmulateCBug      \* the configuration's m_bEmulateCBug

\* Two to the power of n.
Power(n) == LET power[k \in 0 .. n] == IF k = 0 THEN 1 ELSE 2 * power[k - 1] IN power[n]

ASSUME BytesOfBits == \E bits \in 1 .. Byte : Byte = Power(bits)

Registers == 0 .. 3

Logic == {"BIT", "BIC", "BIS", "XOR"}
EIS == {"MUL", "DIV", "ASH", "ASHC"}
Branches == {"BNE", "BEQ", "BGE", "BLT", "BGT", "BLE", "BPL", "BMI", "BHI", "BLOS",
             "BVC", "BVS", "BHIS", "BLO"}
NoResult == {"CMP", "TST", "BIT"}

\* Operations of bytes and of words, and of words alone.
OfBoth == {"CLR", "COM", "INC", "DEC", "NEG", "ADC", "SBC", "TST", "ROR", "ROL", "ASR",
           "ASL", "MOV", "CMP", "BIT", "BIC", "BIS"}
OfWords == {"SWAB", "SXT", "ADD", "SUB", "XOR", "SOB"} \cup EIS \cup Branches

\* An instruction: its operation, the modulus of its operands, and the
\* registers of source and destination.
Instruction ==
  [op : OfBoth, m : {Byte}, src : Registers, dst : Registers]
    \cup [op : OfBoth \cup OfWords, m : {Word}, src : Registers, dst : Registers]

Op(op, src, dst)  == [op |-> op, m |-> Word, src |-> src, dst |-> dst]
OpB(op, src, dst) == [op |-> op, m |-> Byte, src |-> src, dst |-> dst]

\* Programs whose effect is known in advance, and stated below.
Comparisons ==
  {[name |-> "compare", code |-> <<cmp, Op(op, 0, 0)>>] :
     cmp \in {Op("CMP", 1, 0), OpB("CMP", 1, 0)}, op \in Branches}

Longer ==
  {[name |-> "add", code |-> <<Op("ADD", 3, 1), Op("ADC", 0, 0), Op("ADD", 2, 0)>>],
   [name |-> "subtract", code |-> <<Op("SUB", 3, 1), Op("SBC", 0, 0), Op("SUB", 2, 0)>>],
   [name |-> "negate", code |-> <<Op("NEG", 0, 0), Op("NEG", 1, 1), Op("SBC", 0, 0)>>],
   [name |-> "double", code |-> <<Op("ASL", 1, 1), Op("ROL", 0, 0)>>],
   [name |-> "halve", code |-> <<Op("ASR", 0, 0), Op("ROR", 1, 1)>>],
   [name |-> "extend", code |-> <<Op("TST", 1, 1), Op("SXT", 0, 0)>>],
   [name |-> "product", code |-> <<Op("MUL", 2, 0), Op("DIV", 2, 0)>>],
   [name |-> "loop", code |-> <<Op("ADD", 2, 0), Op("SOB", 1, 1)>>],
   [name |-> "shift", code |-> <<Op("ASH", 2, 0)>>],
   [name |-> "shift_pair", code |-> <<Op("ASHC", 2, 0)>>]}

ASSUME ProgramsAssumption ==
  /\ \A p \in Programs :
       /\ p.code \in Seq(Instruction)
       /\ p.name = "single" \/ p \in Comparisons \cup Longer
       /\ \A in \in Inputs(p) : in.R \in [Registers -> 0 .. Word - 1] /\ in.f \in Conditions
  /\ EmulateCBug \in BOOLEAN

VARIABLES
  R,         \* m_RON
  f,         \* the condition bits of the PSW
  m_bCBug,
  program,
  pc,        \* the next instruction of the program
  taken,     \* the last branch was taken
  start      \* history: R when the program began

vars == <<R, f, m_bCBug, program, pc, taken, start>>

Init ==
  /\ program \in Programs
  /\ \E in \in Inputs(program) : R = in.R /\ f = in.f
  /\ m_bCBug = FALSE /\ pc = 1 /\ taken = FALSE
  /\ start = R
-----------------------------------------------------------------------------
\* The lowest bits are compared, and the next ones become the lowest.
NextBit(s) ==
  [a |-> s.a \div 2, b |-> s.b \div 2, place |-> 2 * s.place,
   both |-> s.both + s.place * One(s.a % 2 = 1 /\ s.b % 2 = 1)]

\* The bits that both numbers have.
Both(a, b) ==
  LET bits[n \in 0 .. a] ==
        IF n = 0 THEN [a |-> a, b |-> b, place |-> 1, both |-> 0] ELSE NextBit(bits[n - 1])
  IN bits[a].both

\* BIC and BIS and XOR by way of the bits both operands have.
LogicALU(op, a, b) ==
  LET both == Both(a, b) IN
  CASE op = "BIT" -> both
    [] op = "BIC" -> a - both
    [] op = "BIS" -> a + b - both
    [] op = "XOR" -> a + b - 2 * both

\* What an instruction leaves in m_ALU and the conditions.
ALU(i, a, b) ==
  CASE i.op = "ADD" -> ADD(a, b, f, i.m) [] i.op = "SUB" -> SUB(a, b, f, i.m)
    [] i.op = "CMP" -> CMP(a, b, f, i.m) [] i.op = "INC" -> INC(a, b, f, i.m)
    [] i.op = "DEC" -> DEC(a, b, f, i.m) [] i.op = "NEG" -> NEG(a, b, f, i.m)
    [] i.op = "ADC" -> ADC(a, b, f, i.m) [] i.op = "SBC" -> SBC(a, b, f, i.m)
    [] i.op = "TST" -> TST(a, b, f, i.m) [] i.op = "CLR" -> CLR(a, b, f, i.m)
    [] i.op = "COM" -> COM(a, b, f, i.m) [] i.op = "ROR" -> ROR(a, b, f, i.m)
    [] i.op = "ROL" -> ROL(a, b, f, i.m) [] i.op = "ASR" -> ASR(a, b, f, i.m)
    [] i.op = "ASL" -> ASL(a, b, f, i.m) [] i.op = "SXT" -> SXT(a, b, f, i.m)
    [] i.op = "SWAB" -> SWAB(a, b, f, i.m) [] i.op = "MOV" -> MOV(a, b, f, i.m)
    [] i.op \in Logic -> Outcome(LogicALU(i.op, a, b), i.m, FALSE, f.C)

\* get_dst_arg and get_src_arg, of registers.
Argument(r, m) == R[r] % m

\* A byte that is moved to a register fills the word.
WholeWord(i) == i.m = Word \/ i.op = "MOV"

\* Mutant: the word is not cut from m_ALU.
set_dst_argUncut(i, x) ==
  R' = [R EXCEPT ![i.dst] = IF WholeWord(i) THEN x ELSE (@ - (@ % Byte)) + (x % Byte)]

set_dst_arg(i, x) ==
  R' = [R EXCEPT ![i.dst] = IF WholeWord(i) THEN x % Word ELSE (@ - (@ % Byte)) + (x % Byte)]

Go(next) == pc' = next /\ UNCHANGED <<program, start>>

ExecuteALU(i) ==
  LET o == ALU(i, Argument(i.dst, i.m), Argument(i.src, i.m)) IN
  /\ i.op \notin EIS \cup Branches \cup {"SOB"}
  /\ IF i.op \in NoResult THEN UNCHANGED R ELSE set_dst_arg(i, o.alu)
  /\ f' = o.f
  /\ m_bCBug' = (i.op = "SWAB" \/ (i.op = "MOV" /\ i.m = Byte))
  /\ Go(pc + 1) /\ UNCHANGED taken

\* The register after an even one; an odd one is its own.
Partner(r) == IF r % 2 = 0 THEN r + 1 ELSE r

Pair(regs, r) == regs[r] * Word + regs[Partner(r)]

\* Both halves are stored, the low one last.
StorePair(r, v) == R' = [R EXCEPT ![r] = v \div Word, ![Partner(r)] = v % Word]

ExecuteMUL(i) ==
  LET o == MUL(R[i.dst], R[i.src], f) IN
  /\ i.op = "MUL"
  /\ StorePair(i.dst, o.pair) /\ f' = o.f
  /\ m_bCBug' = FALSE /\ Go(pc + 1) /\ UNCHANGED taken

\* The register is left alone unless there is a quotient.
ExecuteDIV(i) ==
  LET o == DIV(Pair(R, i.dst), R[i.src], f) IN
  /\ i.op = "DIV"
  /\ IF o.f.V THEN UNCHANGED R ELSE StorePair(i.dst, o.pair)
  /\ f' = o.f
  /\ m_bCBug' = FALSE /\ Go(pc + 1) /\ UNCHANGED taken

ExecuteASH(i) ==
  LET o == Shift(R[i.dst], R[i.src], f, Word) IN
  /\ i.op = "ASH"
  /\ R' = [R EXCEPT ![i.dst] = o.alu % Word] /\ f' = o.f
  /\ m_bCBug' = FALSE /\ Go(pc + 1) /\ UNCHANGED taken

ExecuteASHC(i) ==
  LET o == Shift(Pair(R, i.dst), R[i.src], f, Wide) IN
  /\ i.op = "ASHC"
  /\ StorePair(i.dst, o.alu) /\ f' = o.f
  /\ m_bCBug' = FALSE /\ Go(pc + 1) /\ UNCHANGED taken

\* The condition bits a branch sees.
m_Freg == IF m_bCBug /\ EmulateCBug THEN [f EXCEPT !.C = FALSE] ELSE f

Condition(op, g) ==
  CASE op = "BNE" -> ~g.Z [] op = "BEQ" -> g.Z
    [] op = "BGE" -> g.N = g.V [] op = "BLT" -> g.N # g.V
    [] op = "BGT" -> ~(g.Z \/ g.N # g.V) [] op = "BLE" -> g.Z \/ g.N # g.V
    [] op = "BPL" -> ~g.N [] op = "BMI" -> g.N
    [] op = "BHI" -> ~(g.Z \/ g.C) [] op = "BLOS" -> g.Z \/ g.C
    [] op = "BVC" -> ~g.V [] op = "BVS" -> g.V
    [] op = "BHIS" -> ~g.C [] op = "BLO" -> g.C

\* A branch of a program only notes which way it goes.
ExecuteBranch(i) ==
  /\ i.op \in Branches
  /\ taken' = Condition(i.op, m_Freg)
  /\ m_bCBug' = FALSE /\ Go(pc + 1) /\ UNCHANGED <<R, f>>

\* SOB goes back to the start of the program.
ExecuteSOB(i) ==
  /\ i.op = "SOB"
  /\ R' = [R EXCEPT ![i.dst] = (@ - 1) % Word]
  /\ taken' = (R'[i.dst] # 0)
  /\ m_bCBug' = FALSE /\ Go(IF taken' THEN 1 ELSE pc + 1) /\ UNCHANGED f

Execute(i) ==
  \/ ExecuteALU(i) \/ ExecuteMUL(i) \/ ExecuteDIV(i) \/ ExecuteASH(i) \/ ExecuteASHC(i)
  \/ ExecuteBranch(i) \/ ExecuteSOB(i)

Next == pc <= Len(program.code) /\ Execute(program.code[pc])

Spec == Init /\ [][Next]_vars
-----------------------------------------------------------------------------
TypeOK ==
  /\ R \in [Registers -> 0 .. Word - 1] /\ f \in Conditions
  /\ m_bCBug \in BOOLEAN /\ taken \in BOOLEAN
  /\ program \in Programs /\ pc \in 1 .. Len(program.code) + 1
  /\ start \in [Registers -> 0 .. Word - 1]

\* The destination has become x; the other byte of its register and the other
\* registers have stayed.
Becomes(i, x) ==
  /\ R'[i.dst] % i.m = x /\ R'[i.dst] \div i.m = R[i.dst] \div i.m
  /\ \A r \in Registers \ {i.dst} : R'[r] = R[r]

\* The pair of the destination has become w; an odd register is left with the
\* low word.
PairBecomes(i, w) ==
  /\ IF i.dst % 2 = 0 THEN Pair(R', i.dst) = w ELSE R'[i.dst] = w % Word
  /\ \A r \in Registers \ {i.dst, Partner(i.dst)} : R'[r] = R[r]

\* N and Z tell of x, a number modulo m.
Shows(x, m) == (f'.N <=> Signed(x, m) < 0) /\ (f'.Z <=> x = 0)

Fits(v, m) == v \in -(m \div 2) .. (m \div 2) - 1

\* What these instructions are to compute of a destination x, a source y and a
\* carry c, all taken as signed or all as unsigned numbers.
Exact(op, x, y, c) ==
  CASE op = "ADD" -> x + y [] op = "SUB" -> x - y [] op = "CMP" -> y - x
    [] op = "ADC" -> x + c [] op = "SBC" -> x - c [] op = "NEG" -> -x
    [] op = "INC" -> x + 1 [] op = "DEC" -> x - 1 [] op = "COM" -> -x - 1
    [] op = "ASL" -> 2 * x [] op = "ROL" -> 2 * x + c
    [] op = "CLR" -> 0     [] op = "TST" -> x       [] op = "MOV" -> y

Sums == {"ADD", "SUB", "CMP", "ADC", "SBC", "NEG", "INC", "DEC", "COM", "ASL", "ROL",
         "CLR", "TST", "MOV"}

\* The exact result is stored as far as it goes, N and Z tell of what is stored, V
\* tells that the signed result does not fit and C that the unsigned one does
\* not, or C stays.  What is moved to a register is the same signed number there.
SumRight(i) ==
  LET a == Argument(i.dst, i.m)
      b == Argument(i.src, i.m)
      v == Exact(i.op, Signed(a, i.m), Signed(b, i.m), One(f.C))
      u == Exact(i.op, a, b, One(f.C)) IN
  i.op \in Sums =>
    /\ IF i.op \in NoResult THEN R' = R
       ELSE IF i.op = "MOV" THEN Becomes([i EXCEPT !.m = Word], v % Word)
       ELSE Becomes(i, v % i.m)
    /\ Shows(v % i.m, i.m) /\ (f'.V <=> ~Fits(v, i.m))
    /\ f'.C <=> IF i.op \in {"INC", "DEC", "MOV"} THEN f.C ELSE u \notin 0 .. i.m - 1

\* ASR halves a signed number towards the smaller one, ROR halves with the carry
\* as the highest bit; the bit that goes out is in C.
HalfRight(i) ==
  LET a == Argument(i.dst, i.m)
      x == R'[i.dst] % i.m IN
  i.op \in {"ASR", "ROR"} =>
    /\ IF i.op = "ASR" THEN x = (Signed(a, i.m) \div 2) % i.m
       ELSE 2 * x + One(f'.C) = a + One(f.C) * i.m
    /\ Becomes(i, x) /\ Shows(x, i.m)
    /\ (f'.C <=> a % 2 = 1) /\ (f'.V <=> f'.N # f'.C)

Bit(x, k) == (x \div Power(k)) % 2 = 1

\* A bit of the result, by the same bits of destination and source.
LogicOf(op, p, q) ==
  CASE op = "BIT" -> p /\ q [] op = "BIC" -> p /\ ~q
    [] op = "BIS" -> p \/ q [] op = "XOR" -> ~(p <=> q)

\* The logical instructions work bit by bit; C stays.
LogicRight(i) ==
  LET a == Argument(i.dst, i.m)
      b == Argument(i.src, i.m) IN
  i.op \in Logic =>
    \E x \in 0 .. i.m - 1 :
      /\ \A k \in 0 .. i.m - 1 : Bit(x, k) <=> LogicOf(i.op, Bit(a, k), Bit(b, k))
      /\ IF i.op \in NoResult THEN R' = R ELSE Becomes(i, x)
      /\ Shows(x, i.m) /\ f'.V = FALSE /\ f'.C = f.C

\* SWAB exchanges the bytes, and N and Z are those of the low one; SXT fills the
\* word with N.
ByteRight(i) ==
  LET x == R'[i.dst] IN
  /\ i.op = "SWAB" =>
       /\ Becomes(i, x) /\ x \div Byte = R[i.dst] % Byte /\ x % Byte = R[i.dst] \div Byte
       /\ Shows(x % Byte, Byte) /\ f'.V = FALSE /\ f'.C = FALSE
  /\ i.op = "SXT" =>
       /\ Becomes(i, x) /\ Signed(x, Word) = (IF f.N THEN -1 ELSE 0)
       /\ f' = [f EXCEPT !.Z = ~f.N, !.V = FALSE]

\* The pair gets the product; C tells that a word cannot hold it, and is also up
\* for the smallest word.
ProductRight(i) ==
  LET v == Signed(R[i.dst], Word) * Signed(R[i.src], Word) IN
  i.op = "MUL" =>
    /\ PairBecomes(i, v % Wide)
    /\ (f'.N <=> v < 0) /\ (f'.Z <=> v = 0) /\ f'.V = FALSE
    /\ f'.C <=> ~Fits(v, Word) \/ v = -(Word \div 2)

\* A quotient below a whole word comes with its remainder, cut to words (from half
\* a word on it is no longer a signed number); if there is none the registers stay.
QuotientRight(i) ==
  LET p == Signed(Pair(R, i.dst), Wide)
      d == Signed(R[i.src], Word) IN
  i.op = "DIV" =>
    IF d = 0 \/ Magnitude(p) >= Word * Magnitude(d)
    THEN R' = R /\ f' = [N |-> FALSE, Z |-> FALSE, V |-> TRUE, C |-> d = 0]
    ELSE \E q \in -(Word - 1) .. Word - 1 :
           LET r == p - q * d IN
           /\ Magnitude(r) < Magnitude(d) /\ (r < 0 => p < 0) /\ (r > 0 => p > 0)
           /\ PairBecomes(i, (q % Word) * Word + (r % Word))
           /\ f' = [N |-> q < 0, Z |-> q = 0, V |-> FALSE, C |-> FALSE]

\* A shift of v by n, of numbers modulo m.
ShiftedBy(v, n, m) == IF n >= 0 THEN (v * Power(n)) % m ELSE (v \div Power(-n)) % m

\* ASH and ASHC multiply and divide by powers of two: V tells that a bit beside the
\* sign was lost, C is the last bit that went out; without a shift they stay.
ShiftRightBy(i) ==
  LET m == IF i.op = "ASH" THEN Word ELSE Wide
      v == Signed(IF i.op = "ASH" THEN R[i.dst] ELSE Pair(R, i.dst), m)
      n == Signed(R[i.src] % (2 * Shifts), 2 * Shifts)
      w == ShiftedBy(v, n, m) IN
  i.op \in {"ASH", "ASHC"} =>
    /\ IF i.op = "ASH" THEN Becomes(i, w) ELSE PairBecomes(i, w)
    /\ Shows(w, m)
    /\ f'.V <=> IF n = 0 THEN f.V ELSE n > 0 /\ ~Fits(v * Power(n), m)
    /\ f'.C <=> IF n = 0 THEN f.C
                ELSE IF n > 0 THEN ((v * Power(n)) \div m) % 2 = 1
                ELSE Bit(v, -n - 1)

\* What each instruction leaves in the registers and the conditions is what it is
\* for, in signed and unsigned numbers or bit by bit.
InstructionsRight ==
  [][LET i == program.code[pc] IN
     /\ SumRight(i) /\ HalfRight(i) /\ LogicRight(i) /\ ByteRight(i)
     /\ ProductRight(i) /\ QuotientRight(i) /\ ShiftRightBy(i)]_vars

\* CPU.cpp says that no division is done when the result does not fit into 16
\* bits.  A quotient from -65535 to -32769 does not, and is stored.
DivisionFits ==
  [][LET i == program.code[pc]
         q == Quotient(Signed(Pair(R, i.dst), Wide), Signed(R[i.src], Word)) IN
     (i.op = "DIV" /\ ~f'.V) => q \in {R'[i.dst], Signed(R'[i.dst], Word)}]_vars

\* What a comparison of x with y and a branch ask.
Relation(op, x, y, m) ==
  CASE op = "BEQ" -> x = y [] op = "BNE" -> x # y
    [] op = "BLO" -> x < y [] op = "BHIS" -> x >= y
    [] op = "BLOS" -> x <= y [] op = "BHI" -> x > y
    [] op = "BLT" -> Signed(x, m) < Signed(y, m) [] op = "BGE" -> Signed(x, m) >= Signed(y, m)
    [] op = "BLE" -> Signed(x, m) <= Signed(y, m) [] op = "BGT" -> Signed(x, m) > Signed(y, m)
    [] op \in {"BMI", "BPL"} -> (Signed((x - y) % m, m) < 0) = (op = "BMI")
    [] op \in {"BVS", "BVC"} ->
         (Signed(x, m) - Signed(y, m) \notin -(m \div 2) .. (m \div 2) - 1) = (op = "BVS")

\* What the programs are written for: arithmetic of two words, a comparison and
\* its branch, repeated addition, shifts by a count.
Computes ==
  LET p == Pair(start, 0)
      q == Pair(start, 2)
      n == Signed(start[2] % (2 * Shifts), 2 * Shifts)
      s == Signed(start[0], Word)
      w == Signed(p, Wide)
      first == program.code[1] IN
  CASE program.name = "add" -> Pair(R, 0) = (p + q) % Wide
    [] program.name = "subtract" -> Pair(R, 0) = (p - q) % Wide
    [] program.name = "negate" -> Pair(R, 0) = (-p) % Wide
    [] program.name = "double" -> Pair(R, 0) = (2 * p) % Wide /\ (f.C <=> 2 * p >= Wide)
    [] program.name = "halve" -> Pair(R, 0) = (w \div 2) % Wide /\ (f.C <=> p % 2 = 1)
    [] program.name = "extend" -> Signed(Pair(R, 0), Wide) = Signed(start[1], Word)
    [] program.name = "product" -> start[2] # 0 => (R[0] = start[0] /\ R[1] = 0)
    [] program.name = "loop" ->
         R[0] = (start[0] + (start[2] * (IF start[1] = 0 THEN Word ELSE start[1]))) % Word
    [] program.name = "compare" ->
         taken = Relation(program.code[2].op, start[first.src] % first.m,
                          start[first.dst] % first.m, first.m)
    [] program.name = "shift" ->
         R[0] = ShiftedBy(s, n, Word) /\ (n > 0 => (f.V <=> ~Fits(s * Power(n), Word)))
    [] program.name = "shift_pair" ->
         Pair(R, 0) = ShiftedBy(w, n, Wide) /\ (n > 0 => (f.V <=> ~Fits(w * Power(n), Wide)))
    [] OTHER -> TRUE

ProgramsCompute == pc > Len(program.code) => Computes
=============================================================================
