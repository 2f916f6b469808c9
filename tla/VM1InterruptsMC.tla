--------------------------- MODULE VM1InterruptsMC ---------------------------
(***************************************************************************)
(* Boards for TLC: values of the constants of VM1Interrupts.               *)
(***************************************************************************)
EXTENDS VM1Interrupts

\* Six words of stack: two that do not answer, a ROM word, three of RAM.
RamWords      == {3, 4, 5}
ReadableWords == {2, 3, 4, 5}

\* A plain BK has no words at 0177674 and its ROM holds the HALT vectors.
PlainModes == {[rd |-> FALSE, wr |-> FALSE, rom |-> TRUE]}

\* The SMK512 controller: the STD modes, the HLT modes, and SYS or ALL.
SmkModes == {[rd |-> FALSE, wr |-> FALSE, rom |-> TRUE],
             [rd |-> FALSE, wr |-> TRUE,  rom |-> TRUE],
             [rd |-> TRUE,  wr |-> FALSE, rom |-> TRUE]}

AnyLowByte == LowByte
AnyPSW     == Psw
NoTrace    == {p \in LowByte : ~p.T}

=============================================================================
