---------------------------- MODULE HardDiskProofs ----------------------------
(***************************************************************************)
(* Theorems about the drives, for every geometry, every width of their     *)
(* registers, every set of failing accesses and every guest.               *)
(***************************************************************************)
EXTENDS HardDisk, WellFoundedInduction, TLAPS

-----------------------------------------------------------------------------
(* Induction.  The provers cannot instantiate a predicate, but they can     *)
(* reason about the set of the numbers for which it holds.                  *)

NatLess == {p \in Nat \X Nat : p[1] < p[2]}

LEMMA NatLessWellFounded == IsWellFoundedOn(NatLess, Nat)
<1>1. NatLess = OpToRel(<, Nat)
  BY DEF NatLess, OpToRel
<1> QED BY <1>1, NatLessThanWellFounded

LEMMA Least ==
  ASSUME NEW T \in SUBSET Nat, T # {}
  PROVE  \E x \in T : \A y \in T : x <= y
<1>1. \E x \in T : \A y \in T : <<y, x>> \notin NatLess
  BY NatLessWellFounded, WFMin
<1>2. ASSUME NEW x \in T, NEW y \in T, <<y, x>> \notin NatLess PROVE x <= y
  <2>1. x \in Nat /\ y \in Nat
    OBVIOUS
  <2>2. ~ (y < x)
    BY <1>2, <2>1 DEF NatLess
  <2> QED BY <2>1, <2>2
<1> QED BY <1>1, <1>2, Zenon

LEMMA SetInduction ==
  ASSUME NEW N \in Nat, NEW S \in SUBSET (0 .. N), 0 \in S,
         \A n \in 1 .. N : n - 1 \in S => n \in S
  PROVE  S = 0 .. N
<1> SUFFICES ASSUME (0 .. N) \ S # {} PROVE FALSE
  OBVIOUS
<1> DEFINE U == (0 .. N) \ S
<1>1. U \in SUBSET Nat /\ U # {}
  OBVIOUS
<1>2. PICK x \in U : \A y \in U : x <= y
  BY <1>1, Least
<1>3. x \in 1 .. N /\ x \notin S
  BY <1>2
<1>4. x - 1 \in 0 .. N /\ x - 1 \notin U
  BY <1>2, <1>3
<1> QED BY <1>3, <1>4

-----------------------------------------------------------------------------
(* The loop of read_verify_sector keeps every set that one round keeps.      *)

Round(f, h, bad, n) == IF n = 0 THEN h ELSE VerifyOne(f[n - 1], bad)

Rounds(f, h, bad, N) == f = [n \in 0 .. N |-> Round(f, h, bad, n)]

LEMMA RoundsExist ==
  ASSUME NEW h, NEW bad, NEW N \in Nat
  PROVE  \E f : Rounds(f, h, bad, N)
<1> DEFINE Upto(k) == \E f : Rounds(f, h, bad, k)
           S == {k \in 0 .. N : Upto(k)}
<1>1. 0 \in S
  <2>1. [n \in 0 .. 0 |-> h] = [n \in 0 .. 0 |-> Round([m \in 0 .. 0 |-> h], h, bad, n)]
    BY DEF Round
  <2>2. Upto(0)
    BY <2>1 DEF Rounds
  <2> QED BY <2>2
<1>2. ASSUME NEW k \in 1 .. N, k - 1 \in S PROVE k \in S
  <2>1. PICK f : f = [n \in 0 .. k - 1 |-> Round(f, h, bad, n)]
    BY <1>2 DEF Rounds
  <2> DEFINE g == [n \in 0 .. k |-> IF n = k THEN VerifyOne(f[k - 1], bad) ELSE f[n]]
  <2>2. ASSUME NEW n \in 0 .. k PROVE g[n] = Round(g, h, bad, n)
    <3>1. CASE n = 0
      BY <3>1, <2>1 DEF Round
    <3>2. CASE n = k
      <4>1. g[k - 1] = f[k - 1]
        OBVIOUS
      <4> QED BY <3>2, <4>1 DEF Round
    <3>3. CASE n \in 1 .. k - 1
      <4>1. g[n - 1] = f[n - 1] /\ g[n] = f[n]
        BY <3>3
      <4>2. f[n] = Round(f, h, bad, n)
        BY <3>3, <2>1
      <4> QED BY <3>3, <4>1, <4>2 DEF Round
    <3> QED BY <3>1, <3>2, <3>3
  <2>3. g = [n \in 0 .. k |-> Round(g, h, bad, n)]
    BY <2>2
  <2>4. Upto(k)
    BY <2>3 DEF Rounds
  <2> QED BY <2>4
<1>3. S = 0 .. N
  <2> HIDE DEF S
  <2>1. S \in SUBSET (0 .. N)
    BY DEF S
  <2> QED BY <1>1, <1>2, <2>1, SetInduction
<1> QED BY <1>3

LEMMA VerifyingRounds ==
  ASSUME NEW h, NEW bad
  PROVE  Verifying(h, bad) = [n \in 0 .. Byte |-> Round(Verifying(h, bad), h, bad, n)]
<1>0. Byte \in Nat
  BY HardDiskAssumption
<1> DEFINE F == CHOOSE f : Rounds(f, h, bad, Byte)
<1>1. Rounds(F, h, bad, Byte)
  BY <1>0, RoundsExist
<1>2. Verifying(h, bad) = F
  BY DEF Verifying, Round, Rounds
<1> QED BY <1>1, <1>2 DEF Rounds

LEMMA VerifyingKeeps ==
  ASSUME NEW D, NEW bad, NEW h \in D, \A g \in D : VerifyOne(g, bad) \in D
  PROVE  Verifying(h, bad)[Byte] \in D
<1> DEFINE F == Verifying(h, bad)
           S == {n \in 0 .. Byte : F[n] \in D}
<1>0. Byte \in Nat
  BY HardDiskAssumption
<1>a. F = [n \in 0 .. Byte |-> Round(F, h, bad, n)]
  BY VerifyingRounds
<1> HIDE DEF F
<1>1. \A n \in 0 .. Byte : F[n] = Round(F, h, bad, n)
  BY <1>a
<1>2. 0 \in S
  BY <1>0, <1>1 DEF Round
<1>3. \A n \in 1 .. Byte : n - 1 \in S => n \in S
  BY <1>0, <1>1 DEF Round
<1>4. S \in SUBSET (0 .. Byte)
  OBVIOUS
<1>5. S = 0 .. Byte
  <2> HIDE DEF S
  <2> QED BY <1>0, <1>2, <1>3, <1>4, SetInduction
<1> QED BY <1>0, <1>5 DEF F

-----------------------------------------------------------------------------
(* Arithmetic of the registers.                                             *)

LEMMA Mod ==
  ASSUME NEW a \in Int, NEW n \in Nat \ {0}
  PROVE  a % n \in 0 .. n - 1
OBVIOUS

LEMMA Radix ==
  /\ Byte \in Nat \ {0} /\ HeadByte \in Nat \ {0} /\ Heads \in Nat \ {0}
  /\ Sectors \in Nat \ {0} /\ Cylinders \in Nat \ {0}
  /\ SECTOR_SIZEW \in Nat \ {0}
  /\ Ones \in Nat /\ Byte - 1 <= Ones /\ Sectors <= Ones /\ Heads <= HeadByte
  /\ Byte <= Ones
<1>1. Byte \in Nat /\ Byte >= 2
  BY HardDiskAssumption
<1>2. 2 * Byte <= Byte * Byte
  BY <1>1
<1>3. Ones \in Nat /\ Byte <= Ones
  BY <1>1, <1>2 DEF Ones
<1> QED BY <1>1, <1>3, HardDiskAssumption

LEMMA Wraps ==
  ASSUME NEW a \in Int
  PROVE  /\ a % Byte \in 0 .. Ones /\ a % HeadByte \in 0 .. HeadByte - 1
         /\ (a % HeadByte) % Heads \in 0 .. HeadByte - 1 /\ (a % Sectors) + 1 \in 0 .. Ones
<1>1. a % Byte \in 0 .. Byte - 1 /\ a % HeadByte \in 0 .. HeadByte - 1
      /\ a % Sectors \in 0 .. Sectors - 1
  BY Mod, Radix
<1> DEFINE r == a % HeadByte
<1>2. r \in Int
  BY <1>1
<1>3. r % Heads \in 0 .. Heads - 1
  <2> HIDE DEF r
  <2> QED BY <1>2, Mod, Radix
<1> QED BY <1>1, <1>3, Radix

LEMMA Registers ==
  ASSUME NEW h \in Drive
  PROVE  /\ h.sector \in Int /\ h.sector + 1 \in Int /\ h.cyl_lo + 1 \in Int
         /\ h.cyl_hi + 1 \in Int /\ h.HEAD + 1 \in Int /\ h.count - 1 \in Int
BY Radix DEF Drive

\* A pair of digits below their radices names a number below the product.
LEMMA Digits ==
  ASSUME NEW A \in Nat, NEW B \in Nat, NEW a \in 0 .. A - 1, NEW b \in 0 .. B - 1
  PROVE  a * B + b \in 0 .. A * B - 1
<1>1. (A - 1 - a) * B \in Nat
  OBVIOUS
<1>2. (A - 1 - a) * B = A * B - B - a * B
  OBVIOUS
<1>3. a * B \in Nat
  OBVIOUS
<1> QED BY <1>1, <1>2, <1>3

LEMMA AddressedSector ==
  ASSUME NEW h \in Drive, Addressable(h)
  PROVE  SectorNumber(h) \in 0 .. Size - 1
<1>1. Cylinder(h) \in Nat /\ h.HEAD \in Nat /\ h.sector \in Nat
  BY Radix DEF Drive, Cylinder
<1>2. CASE h.LBA
  <2>1. h.HEAD * Byte * Byte + Cylinder(h) \in Nat
    BY <1>1, Radix
  <2>2. SectorNumber(h) \in Nat
    BY <1>1, <1>2, <2>1, Radix DEF SectorNumber
  <2>3. Size \in Nat
    BY Radix DEF Size
  <2> QED BY <1>2, <2>2, <2>3 DEF Addressable
<1>3. CASE ~h.LBA
  <2> DEFINE track == Cylinder(h) * Heads + h.HEAD
  <2>1. Cylinder(h) \in 0 .. Cylinders - 1 /\ h.HEAD \in 0 .. Heads - 1
        /\ h.sector - 1 \in 0 .. Sectors - 1
    BY <1>1, <1>3, Radix DEF Addressable
  <2>2. track \in 0 .. Cylinders * Heads - 1 /\ Cylinders * Heads \in Nat
    BY <2>1, Digits, Radix
  <2>3. track * Sectors + (h.sector - 1) \in 0 .. (Cylinders * Heads) * Sectors - 1
    BY <2>1, <2>2, Digits, Radix
  <2>4. SectorNumber(h) = track * Sectors + (h.sector - 1)
    BY <1>3, <2>1, <2>2, <1>1, Radix DEF SectorNumber
  <2> QED BY <2>3, <2>4 DEF Size
<1> QED BY <1>2, <1>3

-----------------------------------------------------------------------------
(* One sector.                                                              *)

\* What a move of the address leaves alone.
Same(g, h) ==
  /\ g.m_nPhase = h.m_nPhase /\ g.m_nSectIdx_Word = h.m_nSectIdx_Word /\ g.at = h.at
  /\ g.error = h.error /\ g.DEV = h.DEV

LEMMA NextLBAType ==
  ASSUME NEW h \in Drive
  PROVE  /\ NextLBA(h) \in Drive /\ Same(NextLBA(h), h) /\ NextLBA(h).count = h.count
         /\ NextLBA(h).m_nSectorCounter = h.m_nSectorCounter /\ NextLBA(h).status = h.status
<1>1. /\ (h.sector + 1) % Byte \in 0 .. Ones /\ (h.cyl_lo + 1) % Byte \in 0 .. Ones
      /\ (h.cyl_hi + 1) % Byte \in 0 .. Ones /\ (h.HEAD + 1) % HeadByte \in 0 .. HeadByte - 1
  BY Wraps, Registers
<1> QED BY <1>1 DEF NextLBA, Drive, Same

LEMMA NextCHSType ==
  ASSUME NEW h \in Drive
  PROVE  /\ NextCHS(h) \in Drive /\ Same(NextCHS(h), h) /\ NextCHS(h).count = h.count
         /\ NextCHS(h).m_nSectorCounter = h.m_nSectorCounter /\ NextCHS(h).status = h.status
<1>1. /\ (h.sector % Sectors) + 1 \in 0 .. Ones /\ (h.cyl_lo + 1) % Byte \in 0 .. Ones
      /\ (h.cyl_hi + 1) % Byte \in 0 .. Ones
      /\ ((h.HEAD + 1) % HeadByte) % Heads \in 0 .. HeadByte - 1
  BY Wraps, Registers
<1> QED BY <1>1 DEF NextCHS, Drive, Same

LEMMA SoughtType ==
  ASSUME NEW h \in Drive
  PROVE  /\ Sought(h) \in Drive /\ Same(Sought(h), h)
         /\ Sought(h).m_nSectorCounter = h.m_nSectorCounter - 1
         /\ Sought(h).count = (h.count - 1) % Byte
         /\ Sought(h).status \in {h.status \cup {"DSC"}, (h.status \cup {"DSC"}) \ {"DRQ"}}
<1> DEFINE g == [h EXCEPT !.count = (@ - 1) % Byte, !.m_nSectorCounter = @ - 1]
<1>1. g \in Drive /\ Same(g, h)
  <2> DEFINE c == (h.count - 1) % Byte
  <2>1. c \in 0 .. Ones
    BY Wraps, Registers
  <2>2. h.m_nSectorCounter - 1 \in Int
    BY DEF Drive
  <2> HIDE DEF c
  <2>3. [h EXCEPT !.count = c, !.m_nSectorCounter = @ - 1] \in Drive
    BY <2>1, <2>2 DEF Drive
  <2>4. Same([h EXCEPT !.count = c, !.m_nSectorCounter = @ - 1], h)
    BY DEF Drive, Same
  <2> QED BY <2>3, <2>4 DEF c
<1>2. g.count = (h.count - 1) % Byte /\ g.m_nSectorCounter = h.m_nSectorCounter - 1
      /\ g.status = h.status
  BY DEF Drive
<1> DEFINE n == IF h.LBA THEN NextLBA(g) ELSE NextCHS(g)
<1>3. /\ n \in Drive /\ Same(n, h) /\ n.count = g.count
      /\ n.m_nSectorCounter = g.m_nSectorCounter /\ n.status = h.status
  BY <1>1, <1>2, NextLBAType, NextCHSType DEF Same
<1> HIDE DEF n
<1>4. CASE g.m_nSectorCounter > 0
  <2>1. Sought(h) = [n EXCEPT !.status = @ \cup {"DSC"}]
    BY <1>4 DEF Sought, n
  <2> QED BY <2>1, <1>2, <1>3 DEF Drive, Same, Status
<1>5. CASE ~(g.m_nSectorCounter > 0)
  <2>1. Sought(h) = [g EXCEPT !.status = (@ \cup {"DSC"}) \ {"DRQ"}]
    BY <1>5 DEF Sought
  <2> HIDE DEF g
  <2> QED BY <2>1, <1>1, <1>2 DEF Drive, Same, Status
<1> QED BY <1>4, <1>5

-----------------------------------------------------------------------------
(* The count shown and the working counter.                                 *)

LEMMA Remainder ==
  ASSUME NEW n \in Nat \ {0}, NEW q \in Int, NEW r \in 0 .. n - 1
  PROVE  (n * q + r) % n = r
OBVIOUS

LEMMA OneLess ==
  ASSUME NEW a \in Int, NEW n \in Nat \ {0}
  PROVE  ((a % n) - 1) % n = (a - 1) % n
<1> DEFINE q == a \div n
           r == a % n
<1>1. q \in Int /\ r \in 0 .. n - 1 /\ a = n * q + r
  OBVIOUS
<1> HIDE DEF q, r
<1>2. CASE r > 0
  <2>1. r - 1 \in 0 .. n - 1 /\ a - 1 = n * q + (r - 1) /\ r - 1 = n * 0 + (r - 1)
    BY <1>1, <1>2
  <2>2. (a - 1) % n = r - 1
    BY <2>1, <1>1, Remainder
  <2>3. (r - 1) % n = r - 1
    BY <2>1, Remainder
  <2> QED BY <2>2, <2>3 DEF r
<1>3. CASE r = 0
  <2>1. n - 1 \in 0 .. n - 1 /\ a - 1 = n * (q - 1) + (n - 1) /\ -1 = n * (-1) + (n - 1)
    BY <1>1, <1>3
  <2>2. (a - 1) % n = n - 1
    BY <2>1, <1>1, Remainder
  <2>3. (-1) % n = n - 1
    BY <2>1, Remainder
  <2> QED BY <2>2, <2>3, <1>3 DEF r
<1> QED BY <1>1, <1>2, <1>3

Agree(h) == h.count = h.m_nSectorCounter % Byte

LEMMA SoughtAgrees ==
  ASSUME NEW h \in Drive, Agree(h)
  PROVE  Agree(Sought(h))
<1>1. h.m_nSectorCounter \in Int
  BY DEF Drive
<1>2. ((h.m_nSectorCounter % Byte) - 1) % Byte = (h.m_nSectorCounter - 1) % Byte
  BY <1>1, OneLess, Radix
<1> QED BY <1>2, SoughtType DEF Agree

-----------------------------------------------------------------------------
(* The invariant of one drive.  A drive that shows BSY has been silenced.   *)

Asking(h) ==
  /\ "BSY" \in h.status => h.m_nPhase = "FAILURE"
  /\ h.m_nPhase \in {"PIO_IN", "PIO_OUT"} =>
       "DRQ" \in h.status /\ h.m_nSectIdx_Word < SECTOR_SIZEW
  /\ "DRQ" \in h.status /\ "BSY" \notin h.status => h.m_nPhase # "FAILURE"
  /\ "BSY" \in h.status \/ Agree(h)

DriveInv(h) == h \in Drive /\ Asking(h)

\* Within a command the drive may already have left its phase.
Running == {h \in Drive : "BSY" \notin h.status /\ Agree(h)}
Loop    == {h \in Running : "DRQ" \notin h.status}

LEMMA SoughtRuns ==
  ASSUME NEW h \in Running
  PROVE  Sought(h) \in Running /\ Sought(h).DEV = h.DEV
BY SoughtType, SoughtAgrees DEF Running, Same

LEMMA OkInv ==
  ASSUME NEW h \in Running
  PROVE  DriveInv(command_ok(h)) /\ command_ok(h) \in Running /\ command_ok(h).DEV = h.DEV
<1> DEFINE f == command_ok(h)
<1>1. 0 \in 0 .. SECTOR_SIZEW
  BY Radix
<1>2. f \in Drive /\ f.m_nPhase = "READY" /\ f.status = {"DRDY", "DSC"}
      /\ f.count = h.count /\ f.m_nSectorCounter = h.m_nSectorCounter /\ f.DEV = h.DEV
  BY <1>1 DEF command_ok, Drive, Running, Status
<1> HIDE DEF f
<1> QED BY <1>2 DEF f, DriveInv, Asking, Agree, Running

LEMMA FailedInv ==
  ASSUME NEW h \in Drive, NEW bits \in SUBSET Errors, "BSY" \in h.status \/ Agree(h)
  PROVE  /\ DriveInv(Failed(h, bits)) /\ Failed(h, bits).DEV = h.DEV
         /\ Failed(h, bits).status = (h.status \cup {"ERR"}) \ {"DRQ"}
         /\ h \in Running => Failed(h, bits) \in Loop
<1> DEFINE f == Failed(h, bits)
<1>1. f \in Drive /\ f.m_nPhase = "FAILURE" /\ f.status = (h.status \cup {"ERR"}) \ {"DRQ"}
      /\ f.count = h.count /\ f.m_nSectorCounter = h.m_nSectorCounter /\ f.DEV = h.DEV
  BY DEF Failed, Drive, Status
<1> HIDE DEF f
<1> QED BY <1>1 DEF f, DriveInv, Asking, Agree, Running, Loop

LEMMA ErrorBits ==
  /\ {"ABRT", "IDNF"} \in SUBSET Errors /\ {"ABRT", "AMNF", "UNC"} \in SUBSET Errors
  /\ {"ABRT", "AMNF"} \in SUBSET Errors /\ {"ABRT", "UNC"} \in SUBSET Errors
BY DEF Errors

\* The sector found, the drive begins to move it.
Begun(h, phase, asks) ==
  [Sought(h) EXCEPT !.m_nPhase = phase, !.error = {}, !.m_nSectIdx_Word = 0,
                    !.at = SectorNumber(h),
                    !.status = IF asks THEN @ \cup {"DRQ"} ELSE @]

LEMMA BegunInv ==
  ASSUME NEW h \in Running, Addressable(h), NEW phase \in {"PIO_IN", "PIO_OUT"},
         NEW asks \in BOOLEAN
  PROVE  /\ Begun(h, phase, asks) \in Running /\ Begun(h, phase, asks).DEV = h.DEV
         /\ asks => DriveInv(Begun(h, phase, asks))
         /\ ~asks /\ h \in Loop => Begun(h, phase, asks) \in Loop
<1> DEFINE g == Sought(h)
           b == Begun(h, phase, asks)
<1>1. /\ g \in Drive /\ Agree(g) /\ g.DEV = h.DEV
      /\ g.status \in {h.status \cup {"DSC"}, (h.status \cup {"DSC"}) \ {"DRQ"}}
  BY SoughtType, SoughtAgrees DEF Running, Same
<1>2. SectorNumber(h) \in Service .. Size - 1
  BY AddressedSector DEF Running, Service
<1>3. 0 \in 0 .. SECTOR_SIZEW
  BY Radix
<1>4. "BSY" \notin g.status /\ (h \in Loop => "DRQ" \notin g.status)
  BY <1>1 DEF Running, Loop
<1> HIDE DEF g
<1>5. /\ b \in Drive /\ b.m_nPhase = phase /\ b.DEV = g.DEV /\ b.m_nSectIdx_Word = 0
      /\ b.count = g.count /\ b.m_nSectorCounter = g.m_nSectorCounter
      /\ b.status = IF asks THEN g.status \cup {"DRQ"} ELSE g.status
  BY <1>1, <1>2, <1>3 DEF Begun, g, Drive, Status
<1> HIDE DEF b
<1>6. Agree(b)
  BY <1>1, <1>5 DEF Agree
<1> QED BY <1>1, <1>4, <1>5, <1>6, Radix DEF b, Running, Loop, DriveInv, Asking

LEMMA readsectorInv ==
  ASSUME NEW h \in Running, NEW bad
  PROVE  /\ DriveInv(readsector(h, FALSE, bad)) /\ readsector(h, FALSE, bad) \in Running
         /\ readsector(h, FALSE, bad).DEV = h.DEV
         /\ h \in Loop => /\ readsector(h, TRUE, bad) \in Loop
                          /\ readsector(h, TRUE, bad).DEV = h.DEV
<1>1. CASE ~Addressable(h)
  BY <1>1, FailedInv, ErrorBits DEF readsector, Running, Loop
<1>2. CASE Addressable(h) /\ SectorNumber(h) \in bad
  <2>1. Sought(h) \in Running /\ Sought(h).DEV = h.DEV
    BY SoughtRuns
  <2> QED BY <1>2, <2>1, FailedInv, ErrorBits DEF readsector, Running, Loop
<1>3. CASE Addressable(h) /\ SectorNumber(h) \notin bad
  <2>1. readsector(h, FALSE, bad) = Begun(h, "PIO_IN", TRUE)
    BY <1>3 DEF readsector, Begun
  <2>2. readsector(h, TRUE, bad) = Begun(h, "PIO_IN", FALSE)
    BY <1>3 DEF readsector, Begun
  <2> QED BY <1>3, <2>1, <2>2, BegunInv
<1> QED BY <1>1, <1>2, <1>3

LEMMA writesectorInv ==
  ASSUME NEW h \in Running
  PROVE  /\ DriveInv(writesector(h)) /\ writesector(h) \in Running
         /\ writesector(h).DEV = h.DEV
<1>1. CASE ~Addressable(h)
  BY <1>1, FailedInv, ErrorBits DEF writesector, Running, Loop
<1>2. CASE Addressable(h)
  <2>1. writesector(h) = Begun(h, "PIO_OUT", TRUE)
    BY <1>2 DEF writesector, Begun
  <2> QED BY <1>2, <2>1, BegunInv
<1> QED BY <1>1, <1>2

LEMMA VerifyOneKeeps ==
  ASSUME NEW h \in Loop, NEW bad
  PROVE  VerifyOne(h, bad) \in Loop /\ VerifyOne(h, bad).DEV = h.DEV
BY readsectorInv DEF VerifyOne, Loop

LEMMA VerifyingInv ==
  ASSUME NEW h \in Loop, NEW bad
  PROVE  Verifying(h, bad)[Byte] \in Loop /\ Verifying(h, bad)[Byte].DEV = h.DEV
<1> DEFINE D == {g \in Loop : g.DEV = h.DEV}
<1>1. h \in D /\ \A g \in D : VerifyOne(g, bad) \in D
  BY VerifyOneKeeps
<1> HIDE DEF D
<1>2. Verifying(h, bad)[Byte] \in D
  BY <1>1, VerifyingKeeps
<1> QED BY <1>2 DEF D

-----------------------------------------------------------------------------
(* The commands.                                                            *)

\* What follows a command: the invariant, and the drive still knows who it is.
Keeps(g, h) == DriveInv(g) /\ "BSY" \notin g.status /\ g.DEV = h.DEV

LEMMA ReadyKeeps ==
  ASSUME NEW g, NEW h, Keeps(g, h)
  PROVE  Keeps(Ready(g), h)
<1> DEFINE f == Ready(g)
<1>1. f \in Drive /\ f.m_nPhase = g.m_nPhase /\ f.status = g.status \cup {"DSC", "DRDY"}
      /\ f.count = g.count /\ f.m_nSectorCounter = g.m_nSectorCounter /\ f.DEV = g.DEV
      /\ f.m_nSectIdx_Word = g.m_nSectIdx_Word
  BY DEF Ready, Keeps, DriveInv, Drive, Status
<1> HIDE DEF f
<1> QED BY <1>1 DEF f, Keeps, DriveInv, Asking, Agree

LEMMA FailedKeeps ==
  ASSUME NEW h \in Running, NEW bits \in SUBSET Errors
  PROVE  Keeps(Failed(h, bits), h)
BY FailedInv DEF Keeps, Running

LEMMA VerifyKeeps ==
  ASSUME NEW h \in Loop, NEW bad
  PROVE  Keeps(read_verify_sector(h, bad), h)
<1>1. CASE h.m_nPhase # "READY"
  BY <1>1, FailedKeeps, ErrorBits DEF read_verify_sector, Loop
<1>2. CASE h.m_nPhase = "READY"
  <2> DEFINE g == Verifying(h, bad)[Byte]
             f == [g EXCEPT !.m_nPhase = "READY", !.m_nSectIdx_Word = 0, !.error = {}]
  <2>1. g \in Loop /\ g.DEV = h.DEV
    BY VerifyingInv
  <2>2. read_verify_sector(h, bad) = f
    BY <1>2 DEF read_verify_sector
  <2> HIDE DEF g
  <2>3. f \in Drive /\ f.m_nPhase = "READY" /\ f.status = g.status
        /\ f.count = g.count /\ f.m_nSectorCounter = g.m_nSectorCounter /\ f.DEV = g.DEV
    <3>1. 0 \in 0 .. SECTOR_SIZEW
      BY Radix
    <3> QED BY <2>1, <3>1 DEF Loop, Running, Drive
  <2> HIDE DEF f
  <2> QED BY <2>1, <2>2, <2>3 DEF Keeps, DriveInv, Asking, Agree, Loop, Running
<1> QED BY <1>1, <1>2

LEMMA Zero == 0 \in Int /\ 1 \in Int
OBVIOUS

LEMMA IdentifyKeeps ==
  ASSUME NEW h \in Loop, NEW bad
  PROVE  Keeps(identifydevice(h, bad), h)
<1> DEFINE f == identifydevice(h, bad)
<1>1. 0 % Byte = 0
  <2>1. 0 \in 0 .. Byte - 1 /\ 0 = Byte * 0 + 0
    BY Radix
  <2> QED BY <2>1, Remainder, Radix
<1>2. /\ 0 \in 0 .. SECTOR_SIZEW /\ 0 \in 0 .. Ones /\ 1 \in 0 .. Ones
      /\ 0 \in 0 .. HeadByte - 1
  BY HardDiskAssumption, Radix
<1>3. Service \in Service .. Size - 1
  BY Radix DEF Service, Size
<1>4. CASE Service \in bad
  <2>1. f \in Drive /\ f.m_nPhase = "FAILURE" /\ f.status = h.status \cup {"ERR"}
        /\ f.count = 0 /\ f.m_nSectorCounter = 0 /\ f.DEV = h.DEV
    <3> DEFINE v == h.status \cup {"ERR"}
               g == [h EXCEPT !.count = 0, !.m_nSectorCounter = 0, !.m_nSectIdx_Word = 0]
    <3>1. v \in SUBSET Status
      BY DEF Loop, Running, Drive, Status
    <3>2. g \in Drive /\ g.status = h.status /\ g.count = 0 /\ g.m_nSectorCounter = 0
          /\ g.DEV = h.DEV
      BY <1>2, Zero DEF Loop, Running, Drive
    <3>3. f = [g EXCEPT !.m_nPhase = "FAILURE", !.error = {"ABRT", "UNC"}, !.status = v]
      BY <1>4, <3>2 DEF identifydevice
    <3> HIDE DEF f, g, v
    <3>4. f \in Drive
      BY <3>1, <3>2, <3>3, ErrorBits DEF Drive
    <3> QED BY <3>2, <3>3, <3>4 DEF v, Drive
  <2> HIDE DEF f
  <2> QED BY <1>1, <2>1 DEF f, Keeps, DriveInv, Asking, Agree, Loop, Running
<1>5. CASE Service \notin bad
  <2>1. f \in Drive /\ f.m_nPhase = "PIO_IN" /\ f.status = h.status \cup {"DRQ"}
        /\ f.count = 0 /\ f.m_nSectorCounter = 0 /\ f.DEV = h.DEV
        /\ f.m_nSectIdx_Word = 0
    <3> DEFINE v == h.status \cup {"DRQ"}
               g == [h EXCEPT !.count = 0, !.m_nSectorCounter = 0, !.m_nSectIdx_Word = 0]
               k == [g EXCEPT !.m_nPhase = "PIO_IN", !.at = Service, !.status = v]
    <3>1. v \in SUBSET Status
      BY DEF Loop, Running, Drive, Status
    <3>2. g \in Drive /\ g.status = h.status /\ g.count = 0 /\ g.m_nSectorCounter = 0
          /\ g.DEV = h.DEV /\ g.m_nSectIdx_Word = 0
      BY <1>2, Zero DEF Loop, Running, Drive
    <3>3. f = [k EXCEPT !.sector = 1, !.cyl_lo = 0, !.cyl_hi = 0, !.HEAD = 0]
      BY <1>5, <3>2 DEF identifydevice, Drive
    <3> HIDE DEF f, g, v
    <3>4. k \in Drive /\ k.m_nPhase = "PIO_IN" /\ k.status = v
          /\ k.count = 0 /\ k.m_nSectorCounter = 0 /\ k.DEV = h.DEV
          /\ k.m_nSectIdx_Word = 0
      BY <1>3, <3>1, <3>2 DEF Drive
    <3> HIDE DEF k
    <3>5. f \in Drive
      BY <1>2, <3>3, <3>4 DEF Drive
    <3> QED BY <3>3, <3>4, <3>5 DEF v, Drive
  <2> HIDE DEF f
  <2> QED BY <1>1, <2>1, Radix DEF f, Keeps, DriveInv, Asking, Agree, Loop, Running
<1> QED BY <1>4, <1>5

LEMMA UnsetInv ==
  ASSUME NEW h \in Drive
  PROVE  DriveInv(unset(h)) /\ "BSY" \in unset(h).status
<1> DEFINE f == unset(h)
<1>1. Ones \in 0 .. Ones /\ HeadByte - 1 \in 0 .. HeadByte - 1
  BY Radix
<1>2. f \in Drive /\ f.m_nPhase = "FAILURE" /\ f.status = Status
  <2> DEFINE k == [h EXCEPT !.m_nPhase = "FAILURE", !.m_nSectorCounter = 0,
                            !.status = Status, !.error = Errors]
             l == [k EXCEPT !.count = Ones, !.sector = Ones, !.cyl_lo = Ones,
                            !.cyl_hi = Ones]
  <2>1. f = [l EXCEPT !.DEV = TRUE, !.LBA = TRUE, !.HEAD = HeadByte - 1]
    BY DEF unset, Drive
  <2>2. k \in Drive /\ k.m_nPhase = "FAILURE" /\ k.status = Status
    BY Zero DEF Drive
  <2> HIDE DEF k
  <2>3. l \in Drive /\ l.m_nPhase = "FAILURE" /\ l.status = Status
    BY <1>1, <2>2 DEF Drive
  <2> HIDE DEF l
  <2>4. f \in Drive
    BY <1>1, <2>1, <2>3 DEF Drive
  <2> QED BY <2>1, <2>3, <2>4 DEF Drive
<1>3. "BSY" \in Status
  BY DEF Status
<1> HIDE DEF f
<1> QED BY <1>2, <1>3 DEF f, DriveInv, Asking

LEMMA SignatureType ==
  ASSUME NEW h \in Drive, h.m_nPhase # "FAILURE"
  PROVE  LET f == reset_signature(h) IN
         /\ f \in Drive /\ f.m_nPhase = h.m_nPhase /\ f.status = {"DRDY"}
         /\ f.count = 1 /\ f.m_nSectorCounter = 1 /\ f.DEV = FALSE /\ 1 % Byte = 1
<1> DEFINE f == reset_signature(h)
           k == [h EXCEPT !.m_nSectorCounter = 1, !.count = 1, !.sector = 1,
                          !.error = {"AMNF"}]
           l == [k EXCEPT !.cyl_lo = 0, !.cyl_hi = 0, !.DEV = FALSE]
<1>1. 0 \in 0 .. Ones /\ 1 \in 0 .. Ones /\ 0 \in 0 .. HeadByte - 1
  BY HardDiskAssumption, Radix
<1>2. {"AMNF"} \in SUBSET Errors /\ {"DRDY"} \in SUBSET Status
  BY DEF Errors, Status
<1>3. f = [l EXCEPT !.LBA = FALSE, !.HEAD = 0, !.status = {"DRDY"}]
  BY DEF reset_signature, Drive
<1>4. k \in Drive /\ k.m_nPhase = h.m_nPhase /\ k.count = 1 /\ k.m_nSectorCounter = 1
  BY <1>1, <1>2, Zero DEF Drive
<1> HIDE DEF k
<1>5. l \in Drive /\ l.m_nPhase = h.m_nPhase /\ l.count = 1 /\ l.m_nSectorCounter = 1
      /\ l.DEV = FALSE
  BY <1>1, <1>4 DEF Drive
<1> HIDE DEF l
<1>6. f \in Drive
  BY <1>1, <1>2, <1>3, <1>5 DEF Drive
<1>7. 1 % Byte = 1
  <2>1. 1 \in 0 .. Byte - 1 /\ 1 = Byte * 0 + 1
    BY HardDiskAssumption
  <2> QED BY <2>1, Remainder, Radix
<1> QED BY <1>3, <1>5, <1>6, <1>7 DEF Drive

\* A reset silences the drive or makes it drive 0.
LEMMA SignatureInv ==
  ASSUME NEW h \in Drive, h.m_nPhase \notin {"PIO_IN", "PIO_OUT"}
  PROVE  /\ DriveInv(reset_signature(h))
         /\ "BSY" \in reset_signature(h).status \/ reset_signature(h).DEV = FALSE
<1> DEFINE f == reset_signature(h)
<1>1. CASE h.m_nPhase = "FAILURE"
  BY <1>1, UnsetInv DEF reset_signature
<1>2. CASE h.m_nPhase = "READY"
  <2>1. f \in Drive /\ f.m_nPhase = "READY" /\ f.status = {"DRDY"}
        /\ f.count = 1 /\ f.m_nSectorCounter = 1 /\ f.DEV = FALSE /\ 1 % Byte = 1
    BY <1>2, SignatureType
  <2> HIDE DEF f
  <2> QED BY <2>1 DEF f, DriveInv, Asking, Agree
<1> QED BY <1>1, <1>2 DEF Drive

LEMMA ResetInv ==
  ASSUME NEW h \in Drive
  PROVE  /\ DriveInv(reset(h))
         /\ "BSY" \in reset(h).status \/ reset(h).DEV = FALSE
<1> DEFINE f == reset(h)
<1>1. CASE h.m_nPhase = "FAILURE"
  BY <1>1, UnsetInv DEF reset
<1>2. CASE h.m_nPhase # "FAILURE"
  <2> DEFINE g == reset_signature(h)
  <2>1. g \in Drive /\ g.status = {"DRDY"} /\ g.count = 1 /\ g.m_nSectorCounter = 1
        /\ g.DEV = FALSE /\ 1 % Byte = 1
    BY <1>2, SignatureType
  <2>2. 0 \in 0 .. SECTOR_SIZEW
    BY Radix
  <2>3. f = [g EXCEPT !.m_nPhase = "READY", !.m_nSectIdx_Word = 0]
    BY <1>2 DEF reset
  <2> HIDE DEF f, g
  <2>4. f \in Drive /\ f.m_nPhase = "READY" /\ f.status = {"DRDY"}
        /\ f.count = 1 /\ f.m_nSectorCounter = 1 /\ f.DEV = FALSE
    BY <2>1, <2>2, <2>3 DEF Drive
  <2> QED BY <2>1, <2>4 DEF f, DriveInv, Asking, Agree
<1> QED BY <1>1, <1>2

\* What a drive does that is never reset: it stays silent, or stays who it is.
Faithful(g, h) == "BSY" \in g.status \/ ("BSY" \notin h.status /\ g.DEV = h.DEV)

LEMMA CommandInv ==
  ASSUME NEW h0, DriveInv(h0), Takes(h0), NEW cmd \in Commands, NEW bad
  PROVE  LET g == execute_command(h0, cmd, bad) IN
         /\ DriveInv(g)
         /\ cmd # "DIAGNOSTICS" => Faithful(g, h0)
         /\ cmd = "DIAGNOSTICS" => "BSY" \in g.status \/ g.DEV = FALSE
<1> DEFINE h == [h0 EXCEPT !.error = {}, !.status = {}]
           g == execute_command(h0, cmd, bad)
<1>1. /\ h \in Loop /\ h.m_nPhase = h0.m_nPhase /\ h.DEV = h0.DEV
      /\ h.m_nPhase \notin {"PIO_IN", "PIO_OUT"} /\ "BSY" \notin h0.status
  <2>1. h0 \in Drive /\ "BSY" \notin h0.status /\ "DRQ" \notin h0.status
    BY DEF DriveInv, Takes
  <2>2. h \in Drive /\ h.m_nPhase = h0.m_nPhase /\ h.DEV = h0.DEV /\ h.status = {}
        /\ h.count = h0.count /\ h.m_nSectorCounter = h0.m_nSectorCounter
    BY <2>1 DEF Drive
  <2> HIDE DEF h
  <2> QED BY <2>1, <2>2 DEF DriveInv, Asking, Loop, Running, Agree
<1>2. h \in Running /\ h \in Drive
  BY <1>1 DEF Loop, Running
<1> SUFFICES \/ cmd # "DIAGNOSTICS" /\ Keeps(g, h)
             \/ cmd = "DIAGNOSTICS" /\ DriveInv(g) /\ ("BSY" \in g.status \/ g.DEV = FALSE)
  BY <1>1 DEF Keeps, Faithful
<1>3. Keeps(h, h)
  BY <1>1 DEF Keeps, DriveInv, Asking, Loop, Running
<1>4. Keeps(command_ok(h), h)
  BY <1>2, OkInv DEF Keeps, Running
<1>5. CASE cmd = "NOP"
  BY <1>4, <1>5 DEF execute_command
<1>6. CASE cmd = "VERIFY"
  <2>1. Keeps(Ready(read_verify_sector(h, bad)), h)
    BY <1>1, VerifyKeeps, ReadyKeeps
  <2>2. g = Ready(read_verify_sector(h, bad))
    BY <1>6 DEF execute_command
  <2> QED BY <1>6, <2>1, <2>2
<1>7. CASE cmd = "SEEK"
  <2>1. CASE Addressable(h)
    <3>1. Sought(h) \in Running /\ Sought(h).DEV = h.DEV
      BY <1>2, SoughtRuns
    <3>2. Keeps(command_ok(Sought(h)), h)
      BY <3>1, OkInv DEF Keeps, Running
    <3>3. g = command_ok(Sought(h))
      BY <1>7, <2>1 DEF execute_command
    <3> QED BY <1>7, <3>2, <3>3
  <2>2. CASE ~Addressable(h)
    <3>1. Keeps(Ready(Failed(h, {"ABRT", "IDNF"})), h)
      BY <1>2, FailedKeeps, ReadyKeeps, ErrorBits
    <3>2. g = Ready(Failed(h, {"ABRT", "IDNF"}))
      BY <1>7, <2>2 DEF execute_command
    <3> QED BY <1>7, <3>1, <3>2
  <2> QED BY <2>1, <2>2
<1>8. CASE cmd = "FORMAT_TRACK"
  <2> DEFINE k == command_ok(h)
  <2>1. k \in Drive /\ k.m_nPhase = "READY" /\ k.status = {"DRDY", "DSC"} /\ Agree(k)
        /\ k.DEV = h.DEV
    <3>1. k \in Running /\ k.DEV = h.DEV
      BY <1>2, OkInv
    <3>2. k.m_nPhase = "READY" /\ k.status = {"DRDY", "DSC"}
      BY <1>2 DEF command_ok, Drive
    <3> QED BY <3>1, <3>2 DEF Running
  <2>2. g = [k EXCEPT !.status = @ \cup {"DRQ"}]
    BY <1>8 DEF execute_command
  <2> HIDE DEF g, k
  <2>3. g \in Drive /\ g.m_nPhase = "READY" /\ g.status = {"DRDY", "DSC", "DRQ"}
        /\ g.DEV = h.DEV /\ g.count = k.count /\ g.m_nSectorCounter = k.m_nSectorCounter
    BY <2>1, <2>2 DEF Drive, Status
  <2> QED BY <1>8, <2>1, <2>3 DEF Keeps, DriveInv, Asking, Agree
<1>9. CASE cmd = "DIAGNOSTICS"
  <2>1. g = reset_signature(h)
    BY <1>9 DEF execute_command
  <2> QED BY <1>1, <1>2, <1>9, <2>1, SignatureInv
<1>10. CASE cmd = "READ"
  <2>1. Keeps(Ready(readsector(h, FALSE, bad)), h)
    <3>1. Keeps(readsector(h, FALSE, bad), h)
      BY <1>2, readsectorInv DEF Keeps, Running
    <3> QED BY <3>1, ReadyKeeps
  <2>2. g = Ready(readsector(h, FALSE, bad))
    BY <1>10 DEF execute_command
  <2> QED BY <1>10, <2>1, <2>2
<1>11. CASE cmd = "WRITE"
  <2>1. Keeps(Ready(writesector(h)), h)
    <3>1. Keeps(writesector(h), h)
      BY <1>2, writesectorInv DEF Keeps, Running
    <3> QED BY <3>1, ReadyKeeps
  <2>2. g = Ready(writesector(h))
    BY <1>11 DEF execute_command
  <2> QED BY <1>11, <2>1, <2>2
<1>12. CASE cmd = "INITIALIZE"
  <2>1. g = Ready(h)
    BY <1>12 DEF execute_command
  <2> QED BY <1>3, <1>12, <2>1, ReadyKeeps
<1>13. CASE cmd = "IDENTIFY"
  <2>1. Keeps(Ready(identifydevice(h, bad)), h)
    BY <1>1, IdentifyKeeps, ReadyKeeps
  <2>2. g = Ready(identifydevice(h, bad))
    BY <1>13 DEF execute_command
  <2> QED BY <1>13, <2>1, <2>2
<1>14. CASE cmd = "unknown"
  <2> DEFINE k == Ready(h)
  <2>1. Keeps(k, h) /\ k \in Drive /\ "DRQ" \notin k.status /\ Agree(k)
    <3>1. Keeps(k, h)
      BY <1>3, ReadyKeeps
    <3>2. k.status = {"DSC", "DRDY"} \cup h.status
      BY <1>2 DEF Ready, Drive
    <3> QED BY <1>1, <3>1, <3>2 DEF Keeps, DriveInv, Asking, Loop
  <2>2. g = [k EXCEPT !.m_nPhase = "READY"]
    BY <1>14 DEF execute_command
  <2> HIDE DEF g, k
  <2>3. g \in Drive /\ g.m_nPhase = "READY" /\ g.status = k.status
        /\ g.DEV = k.DEV /\ g.count = k.count /\ g.m_nSectorCounter = k.m_nSectorCounter
    BY <2>1, <2>2 DEF Drive
  <2> QED BY <1>14, <2>1, <2>3 DEF Keeps, DriveInv, Asking, Agree
<1> QED BY <1>5, <1>6, <1>7, <1>8, <1>9, <1>10, <1>11, <1>12, <1>13, <1>14 DEF Commands

-----------------------------------------------------------------------------
(* The data register.  A dead drive only adds ERR and drops its DRQ.        *)

LEMMA NextWordRuns ==
  ASSUME NEW h, DriveInv(h), h.m_nPhase \in {"PIO_IN", "PIO_OUT"}
  PROVE  /\ NextWord(h) \in Running /\ NextWord(h).DEV = h.DEV /\ h \in Running
         /\ ~SectorDone(NextWord(h)) => DriveInv(NextWord(h))
<1> DEFINE f == NextWord(h)
<1>1. h.m_nSectIdx_Word + 1 \in 0 .. SECTOR_SIZEW
  BY Radix DEF DriveInv, Asking, Drive
<1>2. f \in Drive /\ f.m_nPhase = h.m_nPhase /\ f.status = h.status /\ f.DEV = h.DEV
      /\ f.count = h.count /\ f.m_nSectorCounter = h.m_nSectorCounter
      /\ f.m_nSectIdx_Word = h.m_nSectIdx_Word + 1
  BY <1>1 DEF NextWord, DriveInv, Drive
<1> HIDE DEF f
<1>3. ~SectorDone(f) => f.m_nSectIdx_Word < SECTOR_SIZEW
  BY <1>1, <1>2, Radix DEF SectorDone
<1> QED BY <1>2, <1>3 DEF f, DriveInv, Asking, Agree, Running

LEMMA RefusedInv ==
  ASSUME NEW h, DriveInv(h)
  PROVE  /\ DriveInv(Failed(h, {"ABRT", "IDNF"}))
         /\ Faithful(Failed(h, {"ABRT", "IDNF"}), h)
<1>1. h \in Drive /\ ("BSY" \in h.status \/ Agree(h))
  BY DEF DriveInv, Asking
<1> QED BY <1>1, FailedInv, ErrorBits DEF Faithful

LEMMA ReadDataInv ==
  ASSUME NEW h, DriveInv(h), NEW bad
  PROVE  DriveInv(read_data(h, bad)) /\ Faithful(read_data(h, bad), h)
<1> DEFINE g == NextWord(h)
<1>1. CASE h.m_nPhase # "PIO_IN"
  BY <1>1, RefusedInv DEF read_data
<1>2. CASE h.m_nPhase = "PIO_IN"
  <2>1. g \in Running /\ g.DEV = h.DEV /\ h \in Running /\ (~SectorDone(g) => DriveInv(g))
    BY <1>2, NextWordRuns
  <2>2. \/ read_data(h, bad) = g /\ ~SectorDone(g)
        \/ read_data(h, bad) = readsector(g, FALSE, bad)
        \/ read_data(h, bad) = command_ok(g)
    BY <1>2 DEF read_data
  <2> HIDE DEF g
  <2>3. DriveInv(readsector(g, FALSE, bad)) /\ Faithful(readsector(g, FALSE, bad), h)
    BY <2>1, readsectorInv DEF Faithful, Running
  <2>4. DriveInv(command_ok(g)) /\ Faithful(command_ok(g), h)
    BY <2>1, OkInv DEF Faithful, Running
  <2>5. Faithful(g, h)
    BY <2>1 DEF Faithful, Running
  <2> QED BY <2>1, <2>2, <2>3, <2>4, <2>5
<1> QED BY <1>1, <1>2

LEMMA WriteFileInv ==
  ASSUME NEW h \in Running, NEW bad
  PROVE  write_file(h, bad) \in Running /\ write_file(h, bad).DEV = h.DEV
<1>1. CASE h.at \in bad
  <2> DEFINE v == h.status \cup {"ERR", "DWF"}
             f == [h EXCEPT !.status = v, !.error = {"ABRT", "AMNF"}]
  <2>1. v \in SUBSET Status /\ "BSY" \notin v
    BY DEF Running, Drive, Status
  <2>2. write_file(h, bad) = f
    BY <1>1 DEF write_file
  <2> HIDE DEF v
  <2>3. f \in Drive /\ f.status = v /\ f.DEV = h.DEV
        /\ f.count = h.count /\ f.m_nSectorCounter = h.m_nSectorCounter
    BY <2>1, ErrorBits DEF Running, Drive
  <2> HIDE DEF f
  <2> QED BY <2>1, <2>2, <2>3 DEF Running, Agree
<1>2. CASE h.at \notin bad
  BY <1>2 DEF write_file
<1> QED BY <1>1, <1>2

LEMMA WriteDataInv ==
  ASSUME NEW h, DriveInv(h), NEW bad
  PROVE  DriveInv(write_data(h, bad)) /\ Faithful(write_data(h, bad), h)
<1> DEFINE g == NextWord(h)
           f == write_file(g, bad)
<1>1. CASE h.m_nPhase # "PIO_OUT"
  BY <1>1, RefusedInv DEF write_data
<1>2. CASE h.m_nPhase = "PIO_OUT"
  <2>1. g \in Running /\ g.DEV = h.DEV /\ h \in Running /\ (~SectorDone(g) => DriveInv(g))
    BY <1>2, NextWordRuns
  <2>2. f \in Running /\ f.DEV = h.DEV
    BY <2>1, WriteFileInv
  <2>3. \/ write_data(h, bad) = g /\ ~SectorDone(g)
        \/ write_data(h, bad) = writesector(f)
        \/ write_data(h, bad) = command_ok(f)
    BY <1>2 DEF write_data
  <2> HIDE DEF g, f
  <2>4. DriveInv(writesector(f)) /\ Faithful(writesector(f), h)
    BY <2>1, <2>2, writesectorInv DEF Faithful, Running
  <2>5. DriveInv(command_ok(f)) /\ Faithful(command_ok(f), h)
    BY <2>1, <2>2, OkInv DEF Faithful, Running
  <2>6. Faithful(g, h)
    BY <2>1 DEF Faithful, Running
  <2> QED BY <2>1, <2>3, <2>4, <2>5, <2>6
<1> QED BY <1>1, <1>2

-----------------------------------------------------------------------------
(* The registers.                                                           *)

Counted(h, v) ==
  [h EXCEPT !.count = v, !.m_nSectorCounter = IF v = 0 THEN Byte ELSE v]

LEMMA CountInv ==
  ASSUME NEW h, DriveInv(h), Takes(h), NEW v \in 0 .. Byte - 1
  PROVE  DriveInv(Counted(h, v)) /\ Faithful(Counted(h, v), h)
<1> DEFINE c == IF v = 0 THEN Byte ELSE v
           g == [h EXCEPT !.count = v, !.m_nSectorCounter = c]
<1>1. v \in 0 .. Ones /\ c \in Int
  BY Radix
<1>2. c % Byte = v
  <2>1. v = Byte * 0 + v /\ Byte = Byte * 1 + 0 /\ 0 \in 0 .. Byte - 1
    BY Radix
  <2>2. v % Byte = v /\ Byte % Byte = 0
    BY <2>1, Remainder, Radix
  <2> QED BY <2>2
<1> HIDE DEF c
<1>3. g \in Drive /\ g.m_nPhase = h.m_nPhase /\ g.status = h.status /\ g.DEV = h.DEV
      /\ g.count = v /\ g.m_nSectorCounter = c
  BY <1>1 DEF DriveInv, Drive
<1>4. DriveInv(g) /\ Faithful(g, h)
  <2> HIDE DEF g
  <2> QED BY <1>2, <1>3 DEF DriveInv, Asking, Agree, Faithful, Takes
<1> QED BY <1>4 DEF c, Counted

LEMMA AddressInv ==
  ASSUME NEW h, DriveInv(h), Takes(h), NEW v \in 0 .. Byte - 1
  PROVE  /\ DriveInv([h EXCEPT !.sector = v]) /\ Faithful([h EXCEPT !.sector = v], h)
         /\ DriveInv([h EXCEPT !.cyl_lo = v]) /\ Faithful([h EXCEPT !.cyl_lo = v], h)
         /\ DriveInv([h EXCEPT !.cyl_hi = v]) /\ Faithful([h EXCEPT !.cyl_hi = v], h)
<1>1. v \in 0 .. Ones
  BY Radix
<1>2. ASSUME NEW g, g \in {[h EXCEPT !.sector = v], [h EXCEPT !.cyl_lo = v],
                           [h EXCEPT !.cyl_hi = v]}
      PROVE  DriveInv(g) /\ Faithful(g, h)
  <2>1. g \in Drive /\ g.m_nPhase = h.m_nPhase /\ g.status = h.status /\ g.DEV = h.DEV
        /\ g.count = h.count /\ g.m_nSectorCounter = h.m_nSectorCounter
    BY <1>1, <1>2 DEF DriveInv, Drive
  <2> QED BY <2>1 DEF DriveInv, Asking, Agree, Faithful, Takes
<1> QED BY <1>2

Selection(h, dev, lba, n) == [h EXCEPT !.DEV = dev, !.LBA = lba, !.HEAD = n]

LEMMA SelectionInv ==
  ASSUME NEW h, DriveInv(h), Takes(h), NEW dev \in BOOLEAN, NEW lba \in BOOLEAN,
         NEW n \in 0 .. HeadByte - 1
  PROVE  DriveInv(Selection(h, dev, lba, n)) /\ Selection(h, dev, lba, n).DEV = dev
<1> DEFINE g == [h EXCEPT !.DEV = dev, !.LBA = lba, !.HEAD = n]
<1>1. g \in Drive /\ g.m_nPhase = h.m_nPhase /\ g.status = h.status /\ g.DEV = dev
      /\ g.count = h.count /\ g.m_nSectorCounter = h.m_nSectorCounter
      /\ g.m_nSectIdx_Word = h.m_nSectIdx_Word
  BY DEF DriveInv, Drive
<1> HIDE DEF g
<1>2. DriveInv(g) /\ g.DEV = dev
  BY <1>1 DEF DriveInv, Asking, Agree
<1> QED BY <1>2 DEF g, Selection

LEMMA FreshInv == DriveInv(Fresh) /\ Fresh.DEV = FALSE
<1>1. 1 % Byte = 1
  <2>1. 1 \in 0 .. Byte - 1 /\ 1 = Byte * 0 + 1
    BY HardDiskAssumption
  <2> QED BY <2>1, Remainder, Radix
<1>2. /\ 0 \in 0 .. Ones /\ 1 \in 0 .. Ones /\ 0 \in 0 .. HeadByte - 1
      /\ 0 \in 0 .. SECTOR_SIZEW /\ Service \in Service .. Size - 1
  BY HardDiskAssumption, Radix DEF Service, Size
<1>3. {"DRDY", "DSC"} \in SUBSET Status /\ {} \in SUBSET Errors
  BY DEF Status
<1>4. Fresh \in Drive
  BY <1>2, <1>3, Zero DEF Fresh, Drive
<1> QED BY <1>1, <1>4 DEF Fresh, DriveInv, Asking, Agree

-----------------------------------------------------------------------------
(* Both drives.                                                             *)

Each == drive = [d \in Attached |-> drive[d]] /\ \A d \in Attached : DriveInv(drive[d])

\* What a step does to the drives that take part in it: each of them is
\* faithful, or they all hear the same selection.
Told(dev) == \A d \in Attached : "BSY" \in drive'[d].status \/ drive'[d].DEV = dev

Tells == \/ \A d \in Attached : Faithful(drive'[d], drive[d])
         \/ \E dev \in BOOLEAN : Told(dev)

LEMMA InitEach == Init => Each
BY FreshInv DEF Init, Each

LEMMA Unchanged ==
  ASSUME Each, NEW d \in Attached
  PROVE  DriveInv(drive[d]) /\ Faithful(drive[d], drive[d])
BY DEF Each, Faithful

\* The register writes and the data register leave each drive faithful.
LEMMA RegisterStep ==
  ASSUME Each,
         \/ \E v \in Counts : WriteCount(v)
         \/ \E v \in Numbers : WriteSectorNumber(v)
         \/ \E v \in CylLows : WriteCylinderLow(v)
         \/ \E v \in CylHighs : WriteCylinderHigh(v)
         \/ \E bad \in Damage : ReadData(bad)
         \/ \E bad \in Damage : WriteData(bad)
  PROVE  Each' /\ Tells
<1> SUFFICES /\ drive' = [d \in Attached |-> drive'[d]]
             /\ \A d \in Attached : DriveInv(drive'[d]) /\ Faithful(drive'[d], drive[d])
  BY DEF Each, Tells
<1>1. CASE \E v \in Counts : WriteCount(v)
  <2>1. PICK v \in Counts : WriteCount(v)
    BY <1>1
  <2>2. v \in 0 .. Byte - 1
    BY HardDiskAssumption
  <2>3. ASSUME NEW d \in Attached PROVE DriveInv(drive'[d]) /\ Faithful(drive'[d], drive[d])
    <3>1. DriveInv(drive[d]) /\ Faithful(drive[d], drive[d])
      BY Unchanged
    <3>2. CASE Takes(drive[d])
      <4>1. drive'[d] = Counted(drive[d], v)
        BY <2>1, <3>2 DEF WriteCount, Counted
      <4> QED BY <2>2, <3>1, <3>2, <4>1, CountInv
    <3>3. CASE ~Takes(drive[d])
      BY <2>1, <3>1, <3>3 DEF WriteCount
    <3> QED BY <3>2, <3>3
  <2>4. drive' = [d \in Attached |-> drive'[d]]
    BY <2>1 DEF WriteCount
  <2> QED BY <2>3, <2>4
<1>2. ASSUME NEW v \in 0 .. Byte - 1, \/ WriteSectorNumber(v) \/ WriteCylinderLow(v)
                                      \/ WriteCylinderHigh(v)
      PROVE  /\ drive' = [d \in Attached |-> drive'[d]]
             /\ \A d \in Attached : DriveInv(drive'[d]) /\ Faithful(drive'[d], drive[d])
  <2>1. ASSUME NEW d \in Attached PROVE DriveInv(drive'[d]) /\ Faithful(drive'[d], drive[d])
    <3>1. DriveInv(drive[d]) /\ Faithful(drive[d], drive[d])
      BY Unchanged
    <3>2. CASE Takes(drive[d])
      <4>1. \/ drive'[d] = [drive[d] EXCEPT !.sector = v]
            \/ drive'[d] = [drive[d] EXCEPT !.cyl_lo = v]
            \/ drive'[d] = [drive[d] EXCEPT !.cyl_hi = v]
        BY <1>2, <3>2 DEF WriteSectorNumber, WriteCylinderLow, WriteCylinderHigh
      <4> QED BY <3>1, <3>2, <4>1, AddressInv
    <3>3. CASE ~Takes(drive[d])
      BY <1>2, <3>1, <3>3 DEF WriteSectorNumber, WriteCylinderLow, WriteCylinderHigh
    <3> QED BY <3>2, <3>3
  <2>2. drive' = [d \in Attached |-> drive'[d]]
    BY <1>2 DEF WriteSectorNumber, WriteCylinderLow, WriteCylinderHigh
  <2> QED BY <2>1, <2>2
<1>3. ASSUME NEW bad, \/ ReadData(bad) \/ WriteData(bad)
      PROVE  /\ drive' = [d \in Attached |-> drive'[d]]
             /\ \A d \in Attached : DriveInv(drive'[d]) /\ Faithful(drive'[d], drive[d])
  <2>1. ASSUME NEW d \in Attached PROVE DriveInv(drive'[d]) /\ Faithful(drive'[d], drive[d])
    <3>1. DriveInv(drive[d]) /\ Faithful(drive[d], drive[d])
      BY Unchanged
    <3>2. \/ drive'[d] = drive[d]
          \/ drive'[d] = read_data(drive[d], bad)
          \/ drive'[d] = write_data(drive[d], bad)
      BY <1>3 DEF ReadData, WriteData
    <3> QED BY <3>1, <3>2, ReadDataInv, WriteDataInv
  <2>2. drive' = [d \in Attached |-> drive'[d]]
    BY <1>3 DEF ReadData, WriteData
  <2> QED BY <2>1, <2>2
<1>4. CASE \E v \in Numbers : WriteSectorNumber(v)
  <2>1. PICK v \in Numbers : WriteSectorNumber(v)
    BY <1>4
  <2> QED BY <1>2, <2>1, HardDiskAssumption
<1>5. CASE \E v \in CylLows : WriteCylinderLow(v)
  <2>1. PICK v \in CylLows : WriteCylinderLow(v)
    BY <1>5
  <2> QED BY <1>2, <2>1, HardDiskAssumption
<1>6. CASE \E v \in CylHighs : WriteCylinderHigh(v)
  <2>1. PICK v \in CylHighs : WriteCylinderHigh(v)
    BY <1>6
  <2> QED BY <1>2, <2>1, HardDiskAssumption
<1> QED BY <1>1, <1>3, <1>4, <1>5, <1>6

\* A selection reaches every drive that is not silent, if the guest has waited.
LEMMA HeadStep ==
  ASSUME Each, NEW b \in HeadBytes, WriteHead(b[1], b[2], b[3])
  PROVE  Each' /\ (Careful => Tells)
<1>1. b[1] \in BOOLEAN /\ b[2] \in BOOLEAN /\ b[3] \in 0 .. HeadByte - 1
  BY HardDiskAssumption
<1>2. ASSUME NEW d \in Attached
      PROVE  DriveInv(drive'[d])
             /\ (Careful => "BSY" \in drive'[d].status \/ drive'[d].DEV = b[1])
  <2>1. DriveInv(drive[d])
    BY Unchanged
  <2>2. CASE Takes(drive[d])
    <3>1. drive'[d] = Selection(drive[d], b[1], b[2], b[3])
      BY <2>2 DEF WriteHead, Selection
    <3> QED BY <1>1, <2>1, <2>2, <3>1, SelectionInv
  <2>3. CASE ~Takes(drive[d])
    <3>1. drive'[d] = drive[d]
      BY <2>3 DEF WriteHead
    <3>2. Careful => "BSY" \in drive[d].status
      BY <2>3 DEF WriteHead, Quiet, Transfers, Dead, Takes
    <3> QED BY <2>1, <3>1, <3>2
  <2> QED BY <2>2, <2>3
<1>3. drive' = [d \in Attached |-> drive'[d]]
  BY DEF WriteHead
<1>4. Careful => Told(b[1])
  BY <1>2 DEF Told
<1> QED BY <1>1, <1>2, <1>3, <1>4 DEF Each, Tells

LEMMA CommandStep ==
  ASSUME Each, NEW cmd \in Commands, NEW bad \in Damage, WriteCommand(cmd, bad)
  PROVE  Each' /\ (Careful => Tells)
<1>1. ASSUME NEW d \in Attached
      PROVE  /\ DriveInv(drive'[d])
             /\ cmd # "DIAGNOSTICS" => Faithful(drive'[d], drive[d])
             /\ cmd = "DIAGNOSTICS" /\ Careful =>
                  "BSY" \in drive'[d].status \/ drive'[d].DEV = FALSE
  <2>1. DriveInv(drive[d]) /\ Faithful(drive[d], drive[d])
    BY Unchanged
  <2>2. CASE Starts(d, cmd)
    <3>1. drive'[d] = execute_command(drive[d], cmd, bad)
      BY <2>2 DEF WriteCommand
    <3>2. Takes(drive[d])
      BY <2>2 DEF Starts
    <3> QED BY <2>1, <3>1, <3>2, CommandInv
  <2>3. CASE ~Starts(d, cmd)
    <3>1. drive'[d] = drive[d]
      BY <2>3 DEF WriteCommand
    <3>2. cmd = "DIAGNOSTICS" /\ Careful => "BSY" \in drive[d].status
      BY <2>3 DEF WriteCommand, Starts, Quiet, Transfers, Dead, Takes
    <3> QED BY <2>1, <3>1, <3>2
  <2> QED BY <2>2, <2>3
<1>2. drive' = [d \in Attached |-> drive'[d]]
  BY DEF WriteCommand
<1>3. CASE cmd = "DIAGNOSTICS"
  BY <1>1, <1>2, <1>3 DEF Each, Tells, Told
<1>4. CASE cmd # "DIAGNOSTICS"
  BY <1>1, <1>2, <1>4 DEF Each, Tells
<1> QED BY <1>3, <1>4

LEMMA ResetStep ==
  ASSUME Each, SoftReset \/ AttachDrives
  PROVE  Each' /\ Tells
<1>1. ASSUME NEW d \in Attached
      PROVE  DriveInv(drive'[d]) /\ ("BSY" \in drive'[d].status \/ drive'[d].DEV = FALSE)
  <2>1. drive[d] \in Drive
    BY Unchanged DEF DriveInv
  <2>2. drive'[d] = reset(drive[d]) \/ drive'[d] = Fresh
    BY DEF SoftReset, AttachDrives
  <2> QED BY <2>1, <2>2, ResetInv, FreshInv
<1>2. drive' = [d \in Attached |-> drive'[d]]
  BY DEF SoftReset, AttachDrives
<1> QED BY <1>1, <1>2 DEF Each, Tells, Told

LEMMA NextEach ==
  ASSUME Each, Next
  PROVE  Each' /\ (Careful => Tells)
BY RegisterStep, HeadStep, CommandStep, ResetStep DEF Next

LEMMA StepEach == Each /\ [Next]_drive => Each'
<1>1. Each /\ UNCHANGED drive => Each'
  BY DEF Each
<1> QED BY <1>1, NextEach

LEMMA InvariantEach == Spec => []Each
BY InitEach, StepEach, PTL DEF Spec

-----------------------------------------------------------------------------
(* The theorems.                                                            *)

\* Whatever the guest writes, in whatever order, and whichever accesses fail,
\* every register of a drive stays within its width, the word index at most one
\* past the sector and the sector in the buffer within the image (CATA_IDE).
THEOREM HardDiskTypeCorrect == Spec => []TypeOK
<1>1. Each => TypeOK
  BY DEF Each, DriveInv, TypeOK
<1> QED BY <1>1, InvariantEach, PTL

\* DRQ and the phase never part: a drive that moves a sector asks for its words,
\* through every carry to the next sector (seek drops DRQ on the last one and
\* readsector or writesector raises it again), the words lie within the sector
\* buffer, and a drive whose command failed asks for none.
THEOREM RequestTransfers == Spec => []RequestMeansTransfer
<1>1. Each => RequestMeansTransfer
  BY DEF Each, DriveInv, Asking, RequestMeansTransfer, Transfers, Dead
<1> QED BY <1>1, InvariantEach, PTL

\* Register 1F2 always shows the working counter modulo 256, also when the
\* counter has gone below zero, so the guest is never shown another number of
\* sectors than the drive counts (writes of 1F2, seek, identifydevice, resets).
THEOREM CountShown == Spec => []CountShowsCounter
<1>1. Each => CountShowsCounter
  BY DEF Each, DriveInv, Asking, Agree, CountShowsCounter, Dead
<1> QED BY <1>1, InvariantEach, PTL

\* Two drives that are not silenced never differ on which of them is selected,
\* as long as the guest waits for the end of a transfer before it selects or
\* commands.
THEOREM OneDriveAnswers == Careful => (Spec => []OneAnswers)
<1> SUFFICES ASSUME Careful PROVE Spec => []OneAnswers
  OBVIOUS
<1>1. Init => OneAnswers
  BY DEF Init, OneAnswers
<1>2. Each /\ OneAnswers /\ [Next]_drive => OneAnswers'
  <2>1. ASSUME Each, OneAnswers, Next PROVE OneAnswers'
    <3>1. CASE \A d \in Attached : Faithful(drive'[d], drive[d])
      BY <2>1, <3>1 DEF OneAnswers, Dead, Faithful
    <3>2. CASE \E dev \in BOOLEAN : Told(dev)
      BY <3>2 DEF OneAnswers, Dead, Told
    <3> QED BY <2>1, <3>1, <3>2, NextEach DEF Tells
  <2>2. ASSUME OneAnswers, UNCHANGED drive PROVE OneAnswers'
    BY <2>2 DEF OneAnswers, Dead
  <2> QED BY <2>1, <2>2
<1> QED BY <1>1, <1>2, InvariantEach, PTL DEF Spec
=============================================================================
