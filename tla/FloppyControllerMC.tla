-------------------------- MODULE FloppyControllerMC --------------------------
(***************************************************************************)
(* Disks and guests for TLC: values of the constants of FloppyController.  *)
(***************************************************************************)
EXTENDS FloppyController

\* Any checksum would do; this one is cheap and sees the order of the bytes.
LinearStep(a, b) == (a * 31 + b + 7) % 65536

RECURSIVE Fold(_, _)
Fold(ws, n) ==
  IF n = 0 THEN 65535
  ELSE CrcStep(CrcStep(Fold(ws, n - 1), Hi(ws[n])), Lo(ws[n]))

A1A1 == 161 * 257
A1FE == 161 * 256 + 254
A1FB == 161 * 256 + 251
Gap  == 78 * 257

Block(ws) == Append(ws, Fold(ws, Len(ws)))

\* A sector: its header and a word of data; the damage falls on what the guest
\* is after.
Header(track, side) == Block(<<A1A1, A1FE, track * 256 + side, 256 + 2>>)
Data      == Block(<<A1A1, A1FB, 772>>)
Damage(b) == [b EXCEPT ![3] = @ + 1]

Track(words) ==
  [word   |-> [p \in Pos |-> IF p < Len(words) THEN words[p + 1] ELSE Gap],
   marker |-> [p \in Pos |-> p < Len(words) /\ words[p + 1] = A1A1]]

Sizes == [t \in 0 .. 3 |-> IF t = 2 THEN 2 ELSE 4]

\* Track 0: a good header and damaged data.  Track 1: gap and a good block.
Disk == [t \in (0 .. MaxTrack) \X {0, 1} |->
  IF t[1] = 0 THEN Track(<<Gap, Gap>> \o Header(0, 0) \o Damage(Data))
  ELSE Track(<<Gap, Gap>> \o Data)]

Cmd(d, e, s, st, i, r, m) ==
  [drive |-> d, engine |-> e, side |-> s, step |-> st, inward |-> i,
   read |-> r, mark |-> m]

\* A guest that reads: it starts and stops the search, steps in on the other
\* side, and steps back out as it stops the motor.
ReaderCommands ==
  {Cmd("A", TRUE, 0, FALSE, FALSE, r, FALSE) : r \in BOOLEAN}
   \cup {Cmd("A", TRUE, 1, TRUE, TRUE, FALSE, FALSE),
         Cmd("A", FALSE, 0, TRUE, FALSE, FALSE, FALSE)}

\* A guest that does nothing but start and stop the search.
PulseCommands == {Cmd("A", TRUE, 0, FALSE, FALSE, r, FALSE) : r \in BOOLEAN}

\* A damaged sector that begins with the checksum of three bytes A1, which is the
\* word CD B4 with the polynomial of add_crc_16.
Marks == CrcStep(CrcStep(CrcStep(65535, 161), 161), 161)
Unlucky == [Block(<<A1A1, A1FB, Marks>>) EXCEPT ![4] = 0]
UnluckyDisk == [d \in {"A"} |-> [t \in {0} \X {0, 1} |-> Track(Unlucky)]]
OneDisk == [d \in {"A"} |-> Disk]

\* A guest that writes markers and words, and selects a drive without a disk
\* and one that does not exist.
WriterCommands ==
  {Cmd("A", TRUE, 0, FALSE, FALSE, FALSE, m) : m \in BOOLEAN}
   \cup {Cmd("B", FALSE, 0, FALSE, FALSE, FALSE, TRUE),
         Cmd("C", FALSE, 0, FALSE, FALSE, FALSE, FALSE)}
BlankDisk == [d \in {"A"} |-> [t \in {0} \X {0, 1} |-> Track(<<>>)]]

=============================================================================
