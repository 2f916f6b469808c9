-------------------------- MODULE CPUInstructionsMC --------------------------
(***************************************************************************)
(* The programs for TLC, and the registers they start with.                *)
(***************************************************************************)
EXTENDS CPUInstructions, Bitwise

Singles ==
  {[name |-> "single", code |-> <<Op(op, 1, 0)>>] :
     op \in OfBoth \cup {"SWAB", "SXT", "ADD", "SUB", "XOR", "MUL"}}
    \cup {[name |-> "single", code |-> <<OpB(op, 1, 0)>>] : op \in OfBoth}
    \cup {[name |-> "single", code |-> <<Op("MUL", 0, 1)>>],
          [name |-> "single", code |-> <<Op("DIV", 2, 0)>>],
          [name |-> "single", code |-> <<Op("DIV", 2, 1)>>],
          [name |-> "single", code |-> <<Op("ASHC", 2, 1)>>],
          [name |-> "single", code |-> <<OpB("MOV", 1, 0), Op("BLO", 0, 0)>>]}

AllPrograms == Singles \cup Comparisons \cup Longer

\* Both is the operator & of the source.
ASSUME BothIsAnd == \A a, b \in 0 .. Word - 1 : Both(a, b) = a & b

\* Only the registers a program looks at are chosen.
Reads(p) ==
  UNION {{p.code[k].src, p.code[k].dst} : k \in DOMAIN p.code}
    \cup (IF p.name \in {"shift_pair", "single"} THEN {0, 1} ELSE {})

Start(p) ==
  [R : {[r \in Registers |-> IF r \in Reads(p) THEN g[r] ELSE 0] :
          g \in [Reads(p) -> 0 .. Word - 1]},
   f : [N : BOOLEAN, Z : {FALSE}, V : {FALSE}, C : BOOLEAN]]
=============================================================================
