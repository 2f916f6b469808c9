------------------------ MODULE HardDiskTransferProofs ------------------------
(***************************************************************************)
(* The sectors of a command.  First its addresses, for every geometry and  *)
(* every width of the registers: each carry of seek takes the registers    *)
(* exactly one sector on, or off the disk after the last one.  Then the     *)
(* transfer: the drives implement SectorTransfer, for a guest that writes   *)
(* the count before each command that uses it up.                          *)
(***************************************************************************)
EXTENDS HardDiskProofs

-----------------------------------------------------------------------------
(* Arithmetic.                                                              *)

LEMMA Wrap ==
  ASSUME NEW n \in Nat \ {0}, NEW a \in 0 .. n - 1
  PROVE  (a + 1) % n = IF a + 1 = n THEN 0 ELSE a + 1
<1>1. CASE a + 1 = n
  <2>1. n = n * 1 + 0 /\ 0 \in 0 .. n - 1
    OBVIOUS
  <2>2. n % n = 0
    BY <2>1, Remainder
  <2> QED BY <1>1, <2>2
<1>2. CASE a + 1 # n
  <2>1. a + 1 \in 0 .. n - 1 /\ a + 1 = n * 0 + (a + 1)
    BY <1>2
  <2>2. (a + 1) % n = a + 1
    BY <2>1, Remainder
  <2> QED BY <1>2, <2>2
<1> QED BY <1>1, <1>2

LEMMA WrapHead ==
  ASSUME NEW n \in Nat \ {0}, NEW m \in 1 .. n, NEW a \in 0 .. m - 1
  PROVE  ((a + 1) % n) % m = IF a + 1 = m THEN 0 ELSE a + 1
<1> DEFINE r == (a + 1) % n
<1>1. r = IF a + 1 = n THEN 0 ELSE a + 1
  BY Wrap
<1> HIDE DEF r
<1>2. (a + 1) % m = IF a + 1 = m THEN 0 ELSE a + 1
  BY Wrap
<1>3. 0 % m = 0
  <2>1. 0 = m * 0 + 0 /\ 0 \in 0 .. m - 1
    OBVIOUS
  <2> QED BY <2>1, Remainder
<1>4. CASE a + 1 = n
  BY <1>1, <1>3, <1>4
<1>5. CASE a + 1 # n
  BY <1>1, <1>2, <1>5
<1> QED BY <1>4, <1>5 DEF r

\* A sector counted from 1, as CHS does.
LEMMA WrapSector ==
  ASSUME NEW n \in Nat \ {0}, NEW a \in 1 .. n
  PROVE  (a % n) + 1 = IF a = n THEN 1 ELSE a + 1
<1>1. a - 1 \in 0 .. n - 1 /\ (a - 1) + 1 = a
  OBVIOUS
<1> DEFINE b == a - 1
<1>2. (b + 1) % n = IF b + 1 = n THEN 0 ELSE b + 1
  <2>1. b \in 0 .. n - 1
    BY <1>1
  <2> HIDE DEF b
  <2> QED BY <2>1, Wrap
<1> QED BY <1>1, <1>2

LEMMA Monotone ==
  ASSUME NEW a \in Nat, NEW b \in Nat, NEW c \in Nat, a <= b
  PROVE  a * c <= b * c
<1>1. (b - a) * c \in Nat /\ (b - a) * c = b * c - a * c
  OBVIOUS
<1>2. a * c \in Int /\ b * c \in Int
  OBVIOUS
<1> QED BY <1>1, <1>2

\* The geometry has fewer sectors than LBA has numbers, so the carry out of the
\* head never happens.
LEMMA LBACovers == Size < HeadByte * Byte * Byte * Byte
<1> DEFINE P == Cylinders * Heads
           W == Byte * Byte
<1>1. W \in Nat /\ Cylinders <= W /\ Heads <= HeadByte /\ Sectors <= Byte - 1
      /\ HeadByte \in Nat \ {0} /\ Byte \in Nat \ {0} /\ W >= 1
  BY HardDiskAssumption, Radix DEF Ones
<1> HIDE DEF W
<1>2. Cylinders * Heads <= W * Heads
  BY <1>1, Radix, Monotone
<1>3. Heads * W <= HeadByte * W
  BY <1>1, Radix, Monotone
<1>4. P \in Nat /\ W * Heads = Heads * W /\ HeadByte * W \in Nat /\ HeadByte * W >= 1
  BY <1>1, Radix
<1>5. P <= HeadByte * W
  <2>1. Cylinders * Heads \in Int /\ W * Heads \in Int
    BY <1>1, Radix
  <2> QED BY <1>2, <1>3, <1>4, <2>1
<1> DEFINE Q == HeadByte * W
<1>6. Q \in Nat /\ Q >= 1 /\ P <= Q
  BY <1>4, <1>5
<1> HIDE DEF P, Q
<1>7. P \in Nat
  BY <1>4
<1>8. P * Sectors <= Q * Sectors
  BY <1>6, <1>7, Radix, Monotone
<1>9. Sectors * Q <= (Byte - 1) * Q
  <2>1. Byte - 1 \in Nat
    BY <1>1
  <2> QED BY <1>1, <1>6, <2>1, Radix, Monotone
<1>10. (Byte - 1) * Q < Q * Byte /\ Sectors * Q = Q * Sectors
  BY <1>1, <1>6, Radix
<1>11. P * Sectors < Q * Byte
  <2>1. P * Sectors \in Int /\ Q * Sectors \in Int /\ Q * Byte \in Int /\ (Byte - 1) * Q \in Int
    BY <1>1, <1>6, <1>7, Radix
  <2> QED BY <1>8, <1>9, <1>10, <2>1
<1>12. Q * Byte = HeadByte * Byte * Byte * Byte
  BY <1>1, Radix DEF Q, W
<1> QED BY <1>11, <1>12 DEF P, Size

-----------------------------------------------------------------------------
(* The registers move on.                                                   *)

\* The registers hold bytes: only a silenced drive has more in them.
Fits(h) == h.sector \in 0 .. Byte - 1 /\ h.cyl_lo \in 0 .. Byte - 1 /\ h.cyl_hi \in 0 .. Byte - 1

\* g names the sector after a, or none.
Follows(g, a) == IF a + 1 < Size THEN Addressable(g) /\ SectorNumber(g) = a + 1
                 ELSE ~Addressable(g)

Moving(h) == h.m_nPhase \in {"PIO_IN", "PIO_OUT"} /\ h.m_nSectorCounter > 0

\* What holds of a drive that is not silenced: the registers hold bytes, and
\* between two sectors they name the one after the buffer's.
Good(h) == Fits(h) /\ (Moving(h) => Follows(h, h.at))

LEMMA NextCHSFollows ==
  ASSUME NEW h \in Drive, Fits(h), Addressable(h), ~h.LBA
  PROVE  Fits(NextCHS(h)) /\ Follows(NextCHS(h), SectorNumber(h))
<1> DEFINE g == NextCHS(h)
           s == (h.sector % Sectors) + 1
           n == ((h.HEAD + 1) % HeadByte) % Heads
           cl == (h.cyl_lo + 1) % Byte
           ch == (h.cyl_hi + 1) % Byte
           C == Cylinder(h)
<1>1. /\ h.sector \in 1 .. Sectors /\ h.HEAD \in 0 .. Heads - 1 /\ C \in 0 .. Cylinders - 1
      /\ h.cyl_lo \in 0 .. Byte - 1 /\ h.cyl_hi \in 0 .. Byte - 1
      /\ C = h.cyl_hi * Byte + h.cyl_lo
  <2>1. h.HEAD \in Nat /\ C \in Nat
    BY Radix DEF Drive, Fits, Cylinder
  <2> QED BY <2>1, Radix DEF Addressable, Fits, Cylinder
<1>2. s = IF h.sector = Sectors THEN 1 ELSE h.sector + 1
  BY <1>1, WrapSector, Radix
<1>3. n = IF h.HEAD + 1 = Heads THEN 0 ELSE h.HEAD + 1
  BY <1>1, WrapHead, HardDiskAssumption, Radix
<1>4. /\ cl = IF h.cyl_lo + 1 = Byte THEN 0 ELSE h.cyl_lo + 1
      /\ ch = IF h.cyl_hi + 1 = Byte THEN 0 ELSE h.cyl_hi + 1
  BY <1>1, Wrap, Radix
<1>5. g \in Drive
  BY NextCHSType
<1>6. /\ g.sector = s /\ g.LBA = h.LBA
      /\ g.HEAD = IF s = 1 THEN n ELSE h.HEAD
      /\ g.cyl_lo = IF s = 1 /\ g.HEAD = 0 THEN cl ELSE h.cyl_lo
      /\ g.cyl_hi = IF s = 1 /\ g.HEAD = 0 /\ g.cyl_lo = 0 THEN ch ELSE h.cyl_hi
  BY DEF NextCHS, Drive
<1> HIDE DEF s, n, cl, ch, g
<1>7. SectorNumber(h) = (C * Heads + h.HEAD) * Sectors + h.sector - 1
  BY DEF SectorNumber
<1>8. Sectors <= Byte - 1
  BY HardDiskAssumption
<1>9. SectorNumber(h) \in 0 .. Size - 1
  BY AddressedSector
<1> HIDE DEF C
<1>10. CASE h.sector # Sectors
  <2>1. g.sector = h.sector + 1 /\ g.HEAD = h.HEAD /\ g.cyl_lo = h.cyl_lo /\ g.cyl_hi = h.cyl_hi
        /\ s # 1
    BY <1>1, <1>2, <1>6, <1>10
  <2>2. Cylinder(g) = C
    BY <2>1 DEF Cylinder, C
  <2>3. Addressable(g)
    BY <1>1, <1>6, <1>10, <2>1, <2>2, Radix DEF Addressable
  <2>4. SectorNumber(g) = SectorNumber(h) + 1
    <3>1. SectorNumber(g) = (C * Heads + h.HEAD) * Sectors + (h.sector + 1) - 1
      BY <1>6, <2>1, <2>2 DEF SectorNumber
    <3>2. (C * Heads + h.HEAD) * Sectors \in Int
      BY <1>1, Radix
    <3> QED BY <1>1, <1>7, <3>1, <3>2
  <2>5. Fits(g)
    <3>1. h.sector + 1 \in 0 .. Byte - 1
      <4>1. Sectors \in Nat /\ Byte \in Nat
        BY Radix
      <4>2. h.sector \in 1 .. Sectors
        BY <1>1
      <4> DEFINE a == h.sector
      <4>3. a \in 1 .. Sectors /\ a # Sectors
        BY <1>10, <4>2
      <4> HIDE DEF a
      <4>4. a + 1 \in 0 .. Byte - 1
        BY <1>8, <4>1, <4>3
      <4> QED BY <4>4 DEF a
    <3> QED BY <1>1, <2>1, <3>1 DEF Fits
  <2>6. SectorNumber(g) \in 0 .. Size - 1
    BY <1>5, <2>3, AddressedSector
  <2>7. Size \in Int
    BY Radix DEF Size
  <2> QED BY <1>9, <2>3, <2>4, <2>5, <2>6, <2>7 DEF Follows, g
<1>11. CASE h.sector = Sectors /\ h.HEAD + 1 # Heads
  <2>1. g.sector = 1 /\ g.HEAD = h.HEAD + 1 /\ g.HEAD # 0
        /\ g.cyl_lo = h.cyl_lo /\ g.cyl_hi = h.cyl_hi
    BY <1>1, <1>2, <1>3, <1>6, <1>11
  <2>2. Cylinder(g) = C
    BY <2>1 DEF Cylinder, C
  <2>3. Addressable(g)
    <3>1. C < Cylinders /\ h.HEAD + 1 < Heads /\ 1 \in 1 .. Sectors
      BY <1>1, <1>11, Radix
    <3> QED BY <1>6, <2>1, <2>2, <3>1 DEF Addressable
  <2>4. SectorNumber(g) = SectorNumber(h) + 1
    <3>1. SectorNumber(g) = (C * Heads + (h.HEAD + 1)) * Sectors + 1 - 1
      BY <1>6, <2>1, <2>2 DEF SectorNumber
    <3>2. (C * Heads + (h.HEAD + 1)) * Sectors = (C * Heads + h.HEAD) * Sectors + Sectors
      BY <1>1, Radix
    <3>3. (C * Heads + h.HEAD) * Sectors \in Int
      BY <1>1, Radix
    <3> QED BY <1>1, <1>7, <1>11, <3>1, <3>2, <3>3, Radix
  <2>5. Fits(g)
    BY <1>1, <2>1, HardDiskAssumption DEF Fits
  <2>6. SectorNumber(g) \in 0 .. Size - 1
    BY <1>5, <2>3, AddressedSector
  <2>7. Size \in Int
    BY Radix DEF Size
  <2> QED BY <1>9, <2>3, <2>4, <2>5, <2>6, <2>7 DEF Follows, g
<1>12. CASE h.sector = Sectors /\ h.HEAD + 1 = Heads
  <2>1. g.sector = 1 /\ g.HEAD = 0 /\ g.cyl_lo = cl
        /\ g.cyl_hi = IF cl = 0 THEN ch ELSE h.cyl_hi
    BY <1>1, <1>2, <1>3, <1>6, <1>12
  <2>2. Cylinder(g) = C + 1
    <3>1. CASE h.cyl_lo + 1 # Byte
      <4>1. cl = h.cyl_lo + 1 /\ cl # 0
        BY <1>1, <1>4, <3>1
      <4>2. h.cyl_hi * Byte \in Int
        BY <1>1, Radix
      <4>3. Cylinder(g) = h.cyl_hi * Byte + (h.cyl_lo + 1)
        BY <2>1, <4>1 DEF Cylinder
      <4> QED BY <1>1, <4>2, <4>3
    <3>2. CASE h.cyl_lo + 1 = Byte
      <4>1. cl = 0 /\ h.cyl_hi * Byte \in Int
        BY <1>1, <1>4, <3>2, Radix
      <4>2. h.cyl_hi + 1 # Byte
        <5>1. SUFFICES ASSUME h.cyl_hi + 1 = Byte PROVE FALSE
          OBVIOUS
        <5>2. C = (Byte - 1) * Byte + (Byte - 1)
          BY <1>1, <3>2, <5>1, Radix
        <5>3. C = Ones
          BY <5>2, Radix DEF Ones
        <5> QED BY <1>1, <5>3, HardDiskAssumption
      <4>3. Cylinder(g) = (h.cyl_hi + 1) * Byte + 0
        BY <1>4, <2>1, <4>1, <4>2 DEF Cylinder
      <4>4. (h.cyl_hi + 1) * Byte = h.cyl_hi * Byte + Byte
        BY <1>1, Radix
      <4> QED BY <1>1, <3>2, <4>1, <4>3, <4>4, Radix
    <3> QED BY <3>1, <3>2
  <2>3. SectorNumber(g) = SectorNumber(h) + 1
    <3>1. SectorNumber(g) = ((C + 1) * Heads + 0) * Sectors + 1 - 1
      BY <1>6, <2>1, <2>2 DEF SectorNumber
    <3>2. ((C + 1) * Heads + 0) * Sectors = (C * Heads + h.HEAD) * Sectors + Sectors
      BY <1>1, <1>12, Radix
    <3>3. (C * Heads + h.HEAD) * Sectors \in Int
      BY <1>1, Radix
    <3> QED BY <1>1, <1>7, <1>12, <3>1, <3>2, <3>3, Radix
  <2>4. Fits(g)
    BY <1>1, <1>4, <2>1, HardDiskAssumption DEF Fits
  <2>5. CASE C + 1 < Cylinders
    <3>1. Addressable(g)
      BY <1>6, <2>1, <2>2, <2>5, Radix DEF Addressable
    <3>2. SectorNumber(g) \in 0 .. Size - 1
      BY <1>5, <3>1, AddressedSector
    <3>3. Size \in Int
      BY Radix DEF Size
    <3> QED BY <1>9, <2>3, <2>4, <3>1, <3>2, <3>3 DEF Follows, g
  <2>6. CASE ~(C + 1 < Cylinders)
    <3>1. C + 1 = Cylinders
      BY <1>1, <2>6, Radix
    <3>2. ~Addressable(g)
      BY <1>6, <2>2, <2>6 DEF Addressable
    <3>3. SectorNumber(g) = (Cylinders * Heads) * Sectors
      <4>1. SectorNumber(g) = (Cylinders * Heads + 0) * Sectors + 1 - 1
        BY <1>6, <2>1, <2>2, <3>1 DEF SectorNumber
      <4> QED BY <4>1, Radix
    <3>4. SectorNumber(h) + 1 = Size
      BY <2>3, <3>3 DEF Size
    <3>5. Size \in Int
      BY Radix DEF Size
    <3> QED BY <2>4, <3>2, <3>4, <3>5 DEF Follows, g
  <2> QED BY <2>5, <2>6
<1> QED BY <1>10, <1>11, <1>12

\* Each carry of a number of four digits, the radix of three of them B.
LEMMA Carries ==
  ASSUME NEW B \in Int, NEW k \in Int, NEW hi \in Int, NEW lo \in Int
  PROVE  /\ (k * B * B + (hi * B + (lo + 1))) * B + 0
              = (k * B * B + (hi * B + lo)) * B + (B - 1) + 1
         /\ (k * B * B + ((hi + 1) * B + 0)) * B + 0
              = (k * B * B + (hi * B + (B - 1))) * B + (B - 1) + 1
         /\ ((k + 1) * B * B + (0 * B + 0)) * B + 0
              = (k * B * B + ((B - 1) * B + (B - 1))) * B + (B - 1) + 1
         /\ ((k + 1) * B * B + (0 * B + 0)) * B + 0 = (k + 1) * B * B * B
<1> DEFINE K == k * B * B
<1>1. K \in Int /\ (k + 1) * B * B = K + B * B
  OBVIOUS
<1>2. (K + (hi * B + (lo + 1))) * B = (K + (hi * B + lo)) * B + B
  BY <1>1
<1>3. (hi + 1) * B + 0 = (hi * B + (B - 1)) + 1
  OBVIOUS
<1>4. (K + ((hi + 1) * B + 0)) * B = (K + (hi * B + (B - 1))) * B + B
  BY <1>1, <1>3
<1>5. (K + B * B) * B = (K + ((B - 1) * B + (B - 1))) * B + B
  BY <1>1
<1>6. /\ (K + (hi * B + lo)) * B \in Int /\ (K + (hi * B + (B - 1))) * B \in Int
      /\ (K + ((B - 1) * B + (B - 1))) * B \in Int
  BY <1>1
<1>7. (k + 1) * B * B + (0 * B + 0) = (k + 1) * B * B
  BY <1>1
<1> QED BY <1>1, <1>2, <1>4, <1>5, <1>6, <1>7

LEMMA NextLBAFollows ==
  ASSUME NEW h \in Drive, Fits(h), Addressable(h), h.LBA
  PROVE  Fits(NextLBA(h)) /\ Follows(NextLBA(h), SectorNumber(h))
<1> DEFINE g == NextLBA(h)
           s == (h.sector + 1) % Byte
           cl == (h.cyl_lo + 1) % Byte
           ch == (h.cyl_hi + 1) % Byte
           n == (h.HEAD + 1) % HeadByte
<1>1. /\ h.sector \in 0 .. Byte - 1 /\ h.cyl_lo \in 0 .. Byte - 1
      /\ h.cyl_hi \in 0 .. Byte - 1 /\ h.HEAD \in 0 .. HeadByte - 1
  BY DEF Fits, Drive
<1>2. /\ s = IF h.sector + 1 = Byte THEN 0 ELSE h.sector + 1
      /\ cl = IF h.cyl_lo + 1 = Byte THEN 0 ELSE h.cyl_lo + 1
      /\ ch = IF h.cyl_hi + 1 = Byte THEN 0 ELSE h.cyl_hi + 1
      /\ n = IF h.HEAD + 1 = HeadByte THEN 0 ELSE h.HEAD + 1
  BY <1>1, Wrap, Radix
<1>3. /\ g.sector = s /\ g.LBA = h.LBA
      /\ g.cyl_lo = IF s = 0 THEN cl ELSE h.cyl_lo
      /\ g.cyl_hi = IF s = 0 /\ g.cyl_lo = 0 THEN ch ELSE h.cyl_hi
      /\ g.HEAD = IF s = 0 /\ g.cyl_lo = 0 /\ g.cyl_hi = 0 THEN n ELSE h.HEAD
  BY DEF NextLBA, Drive
<1> HIDE DEF s, n, cl, ch, g
<1>4. Fits(g)
  BY <1>1, <1>2, <1>3, Radix DEF Fits
<1> DEFINE Number(k, hi, lo, sec) == (k * Byte * Byte + (hi * Byte + lo)) * Byte + sec
<1>5. /\ SectorNumber(h) = Number(h.HEAD, h.cyl_hi, h.cyl_lo, h.sector)
      /\ SectorNumber(g) = Number(g.HEAD, g.cyl_hi, g.cyl_lo, g.sector)
  BY <1>3 DEF SectorNumber, Cylinder
<1>6. Byte \in Int /\ h.HEAD \in Int /\ h.cyl_hi \in Int /\ h.cyl_lo \in Int
  BY <1>1, Radix
<1>7. SectorNumber(g) = SectorNumber(h) + 1
  <2>0. /\ h.sector + 1 = Byte => h.sector = Byte - 1
        /\ h.cyl_lo + 1 = Byte => h.cyl_lo = Byte - 1
        /\ h.cyl_hi + 1 = Byte => h.cyl_hi = Byte - 1
    BY <1>1, Radix
  <2>1. CASE h.sector + 1 # Byte
    <3>1. g.sector = h.sector + 1 /\ g.cyl_lo = h.cyl_lo /\ g.cyl_hi = h.cyl_hi
          /\ g.HEAD = h.HEAD
      BY <1>1, <1>2, <1>3, <2>1
    <3>2. (h.HEAD * Byte * Byte + (h.cyl_hi * Byte + h.cyl_lo)) * Byte \in Int
      BY <1>1, Radix
    <3> QED BY <1>1, <1>5, <3>1, <3>2
  <2>2. CASE h.sector + 1 = Byte /\ h.cyl_lo + 1 # Byte
    <3>1. g.sector = 0 /\ g.cyl_lo = h.cyl_lo + 1 /\ g.cyl_hi = h.cyl_hi
          /\ g.HEAD = h.HEAD
      BY <1>1, <1>2, <1>3, <2>2
    <3>2. Number(h.HEAD, h.cyl_hi, h.cyl_lo + 1, 0)
            = Number(h.HEAD, h.cyl_hi, h.cyl_lo, Byte - 1) + 1
      <4> DEFINE k == h.HEAD
                 hi == h.cyl_hi
                 lo == h.cyl_lo
      <4>1. k \in Int /\ hi \in Int /\ lo \in Int
        BY <1>6
      <4> HIDE DEF k, hi, lo
      <4>2. Number(k, hi, lo + 1, 0) = Number(k, hi, lo, Byte - 1) + 1
        BY <1>6, <4>1, Carries
      <4> QED BY <4>2 DEF k, hi, lo
    <3> QED BY <1>5, <2>0, <2>2, <3>1, <3>2
  <2>3. CASE h.sector + 1 = Byte /\ h.cyl_lo + 1 = Byte /\ h.cyl_hi + 1 # Byte
    <3>1. g.sector = 0 /\ g.cyl_lo = 0 /\ g.cyl_hi = h.cyl_hi + 1 /\ g.HEAD = h.HEAD
      BY <1>1, <1>2, <1>3, <2>3
    <3>2. Number(h.HEAD, h.cyl_hi + 1, 0, 0)
            = Number(h.HEAD, h.cyl_hi, Byte - 1, Byte - 1) + 1
      BY <1>6, Carries
    <3> QED BY <1>5, <2>0, <2>3, <3>1, <3>2
  <2>4. CASE h.sector + 1 = Byte /\ h.cyl_lo + 1 = Byte /\ h.cyl_hi + 1 = Byte
    <3>1. g.sector = 0 /\ g.cyl_lo = 0 /\ g.cyl_hi = 0 /\ g.HEAD = n
      BY <1>1, <1>2, <1>3, <2>4
    <3>2. /\ Number(h.HEAD + 1, 0, 0, 0) = Number(h.HEAD, Byte - 1, Byte - 1, Byte - 1) + 1
          /\ Number(h.HEAD + 1, 0, 0, 0) = (h.HEAD + 1) * Byte * Byte * Byte
      <4> DEFINE k == h.HEAD
      <4>1. k \in Int
        BY <1>6
      <4> HIDE DEF k
      <4>2. /\ Number(k + 1, 0, 0, 0) = Number(k, Byte - 1, Byte - 1, Byte - 1) + 1
            /\ Number(k + 1, 0, 0, 0) = (k + 1) * Byte * Byte * Byte
        BY <1>6, <4>1, Carries, Zero
      <4> QED BY <4>2 DEF k
    <3>3. CASE h.HEAD + 1 # HeadByte
      <4>1. n = h.HEAD + 1
        BY <1>2, <3>3
      <4> QED BY <1>5, <2>0, <2>4, <3>1, <3>2, <4>1
    <3>4. CASE h.HEAD + 1 = HeadByte
      <4>1. SectorNumber(h) + 1 = HeadByte * Byte * Byte * Byte
        BY <1>5, <2>0, <2>4, <3>2, <3>4
      <4>2. SectorNumber(h) \in 0 .. Size - 1 /\ Size \in Int
        BY AddressedSector, Radix DEF Size
      <4> QED BY <4>1, <4>2, LBACovers, Radix
    <3> QED BY <3>3, <3>4
  <2> QED BY <2>1, <2>2, <2>3, <2>4
<1>8. Addressable(g) <=> SectorNumber(g) < Size
  BY <1>3 DEF Addressable
<1> QED BY <1>4, <1>7, <1>8 DEF Follows, g

-----------------------------------------------------------------------------
(* The operations.                                                          *)

SameAddress(g, h) ==
  /\ g.sector = h.sector /\ g.cyl_lo = h.cyl_lo /\ g.cyl_hi = h.cyl_hi
  /\ g.HEAD = h.HEAD /\ g.LBA = h.LBA

LEMMA SameAddressKeeps ==
  ASSUME NEW g, NEW h, SameAddress(g, h)
  PROVE  /\ Fits(h) => Fits(g)
         /\ \A a : Follows(h, a) => Follows(g, a)
<1>1. SectorNumber(g) = SectorNumber(h) /\ (Addressable(g) <=> Addressable(h))
  BY DEF SameAddress, SectorNumber, Addressable, Cylinder
<1>2. Fits(h) => Fits(g)
  BY DEF SameAddress, Fits
<1>3. ASSUME NEW a, Follows(h, a) PROVE Follows(g, a)
  BY <1>1, <1>3 DEF Follows
<1> QED BY <1>2, <1>3

LEMMA SoughtFollows ==
  ASSUME NEW h \in Drive, Fits(h), Addressable(h)
  PROVE  /\ Fits(Sought(h))
         /\ Sought(h).m_nSectorCounter > 0 => Follows(Sought(h), SectorNumber(h))
<1> DEFINE g == [h EXCEPT !.count = (@ - 1) % Byte, !.m_nSectorCounter = @ - 1]
<1>1. g \in Drive /\ SameAddress(g, h) /\ g.m_nSectorCounter = h.m_nSectorCounter - 1
  <2> DEFINE c == (h.count - 1) % Byte
  <2>1. c \in 0 .. Ones
    BY Wraps, Registers
  <2>2. h.m_nSectorCounter - 1 \in Int
    BY DEF Drive
  <2> HIDE DEF c
  <2>3. g = [h EXCEPT !.count = c, !.m_nSectorCounter = @ - 1]
    BY DEF c
  <2> HIDE DEF g
  <2> QED BY <2>1, <2>2, <2>3 DEF Drive, SameAddress
<1>2. /\ Fits(g) /\ Addressable(g) /\ SectorNumber(g) = SectorNumber(h) /\ g.LBA = h.LBA
  BY <1>1 DEF SameAddress, SectorNumber, Addressable, Cylinder, Fits
<1> DEFINE n == IF h.LBA THEN NextLBA(g) ELSE NextCHS(g)
<1>3. n \in Drive /\ Fits(n) /\ Follows(n, SectorNumber(h))
  <2> HIDE DEF g
  <2> QED BY <1>1, <1>2, NextLBAFollows, NextCHSFollows, NextLBAType, NextCHSType
<1>4. Sought(h).m_nSectorCounter = h.m_nSectorCounter - 1
  BY SoughtType
<1> HIDE DEF n
<1>5. CASE g.m_nSectorCounter > 0
  <2>1. Sought(h) = [n EXCEPT !.status = @ \cup {"DSC"}]
    BY <1>5 DEF Sought, n
  <2>2. SameAddress(Sought(h), n)
    BY <1>3, <2>1 DEF Drive, SameAddress
  <2> QED BY <1>3, <2>2, SameAddressKeeps
<1>6. CASE ~(g.m_nSectorCounter > 0)
  <2>1. Sought(h) = [g EXCEPT !.status = (@ \cup {"DSC"}) \ {"DRQ"}]
    BY <1>6 DEF Sought
  <2>2. SameAddress(Sought(h), g)
    <3> HIDE DEF g
    <3> QED BY <1>1, <2>1 DEF Drive, SameAddress
  <2> HIDE DEF g
  <2> QED BY <1>1, <1>2, <1>4, <1>6, <2>2, SameAddressKeeps
<1> QED BY <1>5, <1>6

\* A drive that moves nothing only has to keep its registers.
LEMMA StillGood ==
  ASSUME NEW h, NEW g, Fits(h), SameAddress(g, h), ~Moving(g)
  PROVE  Good(g)
BY SameAddressKeeps DEF Good

LEMMA AsBeforeGood ==
  ASSUME NEW h, NEW g, Good(h), SameAddress(g, h), g.m_nPhase = h.m_nPhase, g.at = h.at,
         g.m_nSectorCounter = h.m_nSectorCounter
  PROVE  Good(g)
<1>1. Moving(g) <=> Moving(h)
  BY DEF Moving
<1> QED BY <1>1, SameAddressKeeps DEF Good

LEMMA OkGood ==
  ASSUME NEW h \in Drive, Fits(h)
  PROVE  Good(command_ok(h))
<1>1. SameAddress(command_ok(h), h) /\ command_ok(h).m_nPhase = "READY"
  BY DEF command_ok, Drive, SameAddress
<1> QED BY <1>1, StillGood DEF Moving

LEMMA FailedGood ==
  ASSUME NEW h \in Drive, NEW bits, Fits(h)
  PROVE  Good(Failed(h, bits))
<1>1. SameAddress(Failed(h, bits), h) /\ Failed(h, bits).m_nPhase = "FAILURE"
  BY DEF Failed, Drive, SameAddress
<1> QED BY <1>1, StillGood DEF Moving

LEMMA ReadyGood ==
  ASSUME NEW h \in Drive, Good(h)
  PROVE  Good(Ready(h))
<1>1. /\ SameAddress(Ready(h), h) /\ Ready(h).m_nPhase = h.m_nPhase /\ Ready(h).at = h.at
      /\ Ready(h).m_nSectorCounter = h.m_nSectorCounter
  BY DEF Ready, Drive, SameAddress
<1> QED BY <1>1, AsBeforeGood

LEMMA BegunGood ==
  ASSUME NEW h \in Drive, Fits(h), Addressable(h), NEW phase, NEW asks
  PROVE  Good(Begun(h, phase, asks))
<1> DEFINE g == Sought(h)
           b == Begun(h, phase, asks)
<1>1. g \in Drive /\ Fits(g) /\ (g.m_nSectorCounter > 0 => Follows(g, SectorNumber(h)))
  BY SoughtType, SoughtFollows
<1> DEFINE a == SectorNumber(h)
           v == IF asks THEN g.status \cup {"DRQ"} ELSE g.status
<1>2. b = [g EXCEPT !.m_nPhase = phase, !.error = {}, !.m_nSectIdx_Word = 0,
                    !.at = a, !.status = v]
  BY <1>1 DEF Begun, Drive
<1> HIDE DEF g, a, v, b
<1>3. SameAddress(b, g) /\ b.at = a /\ b.m_nSectorCounter = g.m_nSectorCounter
  BY <1>1, <1>2 DEF Drive, SameAddress
<1>4. Moving(b) => Follows(g, a)
  BY <1>1, <1>3 DEF Moving, a
<1> QED BY <1>1, <1>3, <1>4, SameAddressKeeps DEF Good, b

LEMMA readsectorGood ==
  ASSUME NEW h \in Drive, Fits(h), NEW verify \in BOOLEAN, NEW bad
  PROVE  Good(readsector(h, verify, bad))
<1>1. CASE ~Addressable(h)
  BY <1>1, FailedGood DEF readsector
<1>2. CASE Addressable(h) /\ SectorNumber(h) \in bad
  <2>1. Sought(h) \in Drive /\ Fits(Sought(h))
    BY <1>2, SoughtType, SoughtFollows
  <2> QED BY <1>2, <2>1, FailedGood DEF readsector
<1>3. CASE Addressable(h) /\ SectorNumber(h) \notin bad
  <2>1. readsector(h, verify, bad) = Begun(h, "PIO_IN", ~verify)
    BY <1>3 DEF readsector, Begun
  <2> QED BY <1>3, <2>1, BegunGood
<1> QED BY <1>1, <1>2, <1>3

LEMMA writesectorGood ==
  ASSUME NEW h \in Drive, Fits(h)
  PROVE  Good(writesector(h))
<1>1. CASE ~Addressable(h)
  BY <1>1, FailedGood DEF writesector
<1>2. CASE Addressable(h)
  <2>1. writesector(h) = Begun(h, "PIO_OUT", TRUE)
    BY <1>2 DEF writesector, Begun
  <2> QED BY <1>2, <2>1, BegunGood
<1> QED BY <1>1, <1>2

LEMMA VerifyGood ==
  ASSUME NEW h \in Loop, NEW bad, Fits(h)
  PROVE  Good(read_verify_sector(h, bad))
<1>1. CASE h.m_nPhase # "READY"
  BY <1>1, FailedGood DEF read_verify_sector, Loop, Running
<1>2. CASE h.m_nPhase = "READY"
  <2> DEFINE D == {g \in Loop : Fits(g)}
             g == Verifying(h, bad)[Byte]
  <2>1. ASSUME NEW k \in D PROVE VerifyOne(k, bad) \in D
    <3>1. VerifyOne(k, bad) \in Loop
      BY VerifyOneKeeps
    <3>2. k \in Drive /\ Fits(k)
      BY DEF Loop, Running
    <3>3. Fits(readsector(k, TRUE, bad))
      BY <3>2, readsectorGood DEF Good
    <3> QED BY <3>1, <3>2, <3>3 DEF VerifyOne
  <2>2. h \in D
    OBVIOUS
  <2>3. g \in D
    <3> HIDE DEF D
    <3> QED BY <2>1, <2>2, VerifyingKeeps
  <2>4. read_verify_sector(h, bad)
          = [g EXCEPT !.m_nPhase = "READY", !.m_nSectIdx_Word = 0, !.error = {}]
    BY <1>2 DEF read_verify_sector
  <2>5. g \in Drive /\ Fits(g)
    BY <2>3 DEF Loop, Running
  <2> HIDE DEF g, D
  <2>6. /\ SameAddress(read_verify_sector(h, bad), g)
        /\ read_verify_sector(h, bad).m_nPhase = "READY"
    BY <2>4, <2>5 DEF Drive, SameAddress
  <2> QED BY <2>5, <2>6, StillGood DEF Moving
<1> QED BY <1>1, <1>2

LEMMA Bytes == 0 \in 0 .. Byte - 1 /\ 1 \in 0 .. Byte - 1
BY HardDiskAssumption

LEMMA IdentifyGood ==
  ASSUME NEW h \in Drive, NEW bad, Fits(h)
  PROVE  Good(identifydevice(h, bad))
<1> DEFINE f == identifydevice(h, bad)
           g == [h EXCEPT !.count = 0, !.m_nSectorCounter = 0, !.m_nSectIdx_Word = 0]
<1>1. 0 \in 0 .. Ones /\ 0 \in 0 .. SECTOR_SIZEW
  BY Radix
<1>2. g \in Drive /\ SameAddress(g, h) /\ g.m_nSectorCounter = 0
  BY <1>1, Zero DEF Drive, SameAddress
<1>3. CASE Service \in bad
  <2>1. f = [g EXCEPT !.m_nPhase = "FAILURE", !.error = {"ABRT", "UNC"},
                      !.status = @ \cup {"ERR"}]
    BY <1>3 DEF identifydevice
  <2> HIDE DEF g, f
  <2>2. SameAddress(f, g) /\ f.m_nPhase = "FAILURE"
    BY <1>2, <2>1 DEF Drive, SameAddress
  <2>3. SameAddress(f, h)
    BY <1>2, <2>2 DEF SameAddress
  <2> QED BY <2>2, <2>3, StillGood DEF Moving, f
<1>4. CASE Service \notin bad
  <2>1. f = [g EXCEPT !.m_nPhase = "PIO_IN", !.at = Service, !.sector = 1,
                      !.cyl_lo = 0, !.cyl_hi = 0, !.HEAD = 0, !.status = @ \cup {"DRQ"}]
    BY <1>4 DEF identifydevice
  <2> HIDE DEF g, f
  <2>2. f.sector = 1 /\ f.cyl_lo = 0 /\ f.cyl_hi = 0 /\ f.m_nSectorCounter = 0
    BY <1>2, <2>1 DEF Drive
  <2> QED BY <2>2, Bytes DEF Good, Fits, Moving, f
<1> QED BY <1>3, <1>4

Aligned(h) == "BSY" \in h.status \/ Good(h)

LEMMA SignatureFits ==
  ASSUME NEW h \in Drive, h.m_nPhase # "FAILURE"
  PROVE  Fits(reset_signature(h)) /\ reset_signature(h).m_nPhase = h.m_nPhase
<1> DEFINE f == reset_signature(h)
           k == [h EXCEPT !.m_nSectorCounter = 1, !.count = 1, !.sector = 1,
                          !.error = {"AMNF"}, !.cyl_lo = 0, !.cyl_hi = 0]
<1>1. f = [k EXCEPT !.DEV = FALSE, !.LBA = FALSE, !.HEAD = 0, !.status = {"DRDY"}]
  BY DEF reset_signature, Drive
<1>2. /\ k.sector = 1 /\ k.cyl_lo = 0 /\ k.cyl_hi = 0 /\ k.m_nPhase = h.m_nPhase
      /\ DOMAIN k = DOMAIN h
  BY DEF Drive
<1>3. f.sector = k.sector /\ f.cyl_lo = k.cyl_lo /\ f.cyl_hi = k.cyl_hi
      /\ f.m_nPhase = k.m_nPhase
  <2> HIDE DEF k, f
  <2> QED BY <1>1, <1>2 DEF Drive
<1> QED BY <1>2, <1>3, Bytes DEF Fits

LEMMA SignatureAligned ==
  ASSUME NEW h \in Drive, h.m_nPhase \notin {"PIO_IN", "PIO_OUT"}
  PROVE  Aligned(reset_signature(h))
<1>1. CASE h.m_nPhase = "FAILURE"
  BY <1>1, UnsetInv DEF reset_signature, Aligned
<1>2. CASE h.m_nPhase # "FAILURE"
  BY <1>2, SignatureFits DEF Aligned, Good, Moving
<1> QED BY <1>1, <1>2

LEMMA ResetAligned ==
  ASSUME NEW h \in Drive
  PROVE  Aligned(reset(h))
<1>1. CASE h.m_nPhase = "FAILURE"
  BY <1>1, UnsetInv DEF reset, Aligned
<1>2. CASE h.m_nPhase # "FAILURE"
  <2> DEFINE g == reset_signature(h)
             f == reset(h)
  <2>1. g \in Drive /\ Fits(g)
    BY <1>2, SignatureType, SignatureFits
  <2>2. f = [g EXCEPT !.m_nPhase = "READY", !.m_nSectIdx_Word = 0]
    BY <1>2 DEF reset
  <2> HIDE DEF g, f
  <2>3. SameAddress(f, g) /\ f.m_nPhase = "READY"
    BY <2>1, <2>2 DEF Drive, SameAddress
  <2> QED BY <2>1, <2>3, StillGood DEF Moving, Aligned, f
<1> QED BY <1>1, <1>2

\* A command begins on a drive that moves no words, so it only has to leave the
\* registers where the buffer says.
LEMMA CommandAligned ==
  ASSUME NEW h0, DriveInv(h0), Aligned(h0), Takes(h0), NEW cmd \in Commands, NEW bad
  PROVE  Aligned(execute_command(h0, cmd, bad))
<1> DEFINE h == [h0 EXCEPT !.error = {}, !.status = {}]
           g == execute_command(h0, cmd, bad)
<1>1. /\ h \in Loop /\ h \in Running /\ h \in Drive /\ Fits(h)
      /\ h.m_nPhase \notin {"PIO_IN", "PIO_OUT"}
  <2>1. h0 \in Drive /\ "BSY" \notin h0.status /\ "DRQ" \notin h0.status
    BY DEF DriveInv, Takes
  <2>2. h \in Drive /\ h.m_nPhase = h0.m_nPhase /\ h.status = {} /\ SameAddress(h, h0)
        /\ h.count = h0.count /\ h.m_nSectorCounter = h0.m_nSectorCounter
    BY <2>1 DEF Drive, SameAddress
  <2>3. Fits(h0)
    BY <2>1 DEF Aligned, Good
  <2> HIDE DEF h
  <2>4. Fits(h)
    BY <2>2, <2>3, SameAddressKeeps
  <2> QED BY <2>1, <2>2, <2>4 DEF DriveInv, Asking, Loop, Running, Agree
<1>2. g = CASE cmd = "NOP"          -> command_ok(h)
            [] cmd = "VERIFY"       -> Ready(read_verify_sector(h, bad))
            [] cmd = "SEEK"         -> IF Addressable(h) THEN command_ok(Sought(h))
                                       ELSE Ready(Failed(h, {"ABRT", "IDNF"}))
            [] cmd = "FORMAT_TRACK" -> [command_ok(h) EXCEPT !.status = @ \cup {"DRQ"}]
            [] cmd = "DIAGNOSTICS"  -> reset_signature(h)
            [] cmd = "READ"         -> Ready(readsector(h, FALSE, bad))
            [] cmd = "WRITE"        -> Ready(writesector(h))
            [] cmd = "INITIALIZE"   -> Ready(h)
            [] cmd = "IDENTIFY"     -> Ready(identifydevice(h, bad))
            [] cmd = "unknown"      -> [Ready(h) EXCEPT !.m_nPhase = "READY"]
  BY DEF execute_command
<1> HIDE DEF h, g
<1> SUFFICES Good(g) \/ Aligned(g)
  BY DEF Aligned, g
<1>3. Good(h)
  BY <1>1 DEF Good, Moving
<1>4. command_ok(h) \in Drive /\ Good(command_ok(h)) /\ command_ok(h).m_nPhase = "READY"
  <2>1. command_ok(h).m_nPhase = "READY"
    BY <1>1 DEF command_ok, Drive
  <2> QED BY <1>1, <2>1, OkInv, OkGood DEF DriveInv
<1>5. CASE cmd = "NOP"
  BY <1>2, <1>4, <1>5
<1>6. CASE cmd = "VERIFY"
  <2>1. read_verify_sector(h, bad) \in Drive
    BY <1>1, VerifyKeeps DEF Keeps, DriveInv
  <2> QED BY <1>1, <1>2, <1>6, <2>1, VerifyGood, ReadyGood
<1>7. CASE cmd = "SEEK"
  <2>1. CASE Addressable(h)
    <3>1. Sought(h) \in Drive /\ Fits(Sought(h))
      BY <1>1, <2>1, SoughtType, SoughtFollows
    <3> QED BY <1>2, <1>7, <2>1, <3>1, OkGood
  <2>2. CASE ~Addressable(h)
    <3>1. Failed(h, {"ABRT", "IDNF"}) \in Drive /\ Good(Failed(h, {"ABRT", "IDNF"}))
      BY <1>1, FailedInv, FailedGood, ErrorBits DEF DriveInv, Running
    <3> QED BY <1>2, <1>7, <2>2, <3>1, ReadyGood
  <2> QED BY <2>1, <2>2
<1>8. CASE cmd = "FORMAT_TRACK"
  <2> DEFINE k == command_ok(h)
  <2>1. g = [k EXCEPT !.status = @ \cup {"DRQ"}]
    BY <1>2, <1>8
  <2> HIDE DEF k
  <2>2. SameAddress(g, k) /\ g.m_nPhase = k.m_nPhase
    BY <1>4, <2>1 DEF k, Drive, SameAddress
  <2> QED BY <1>4, <2>2, StillGood DEF k, Good, Moving
<1>9. CASE cmd = "DIAGNOSTICS"
  BY <1>1, <1>2, <1>9, SignatureAligned
<1>10. CASE cmd = "READ"
  <2>1. readsector(h, FALSE, bad) \in Drive /\ Good(readsector(h, FALSE, bad))
    BY <1>1, readsectorInv, readsectorGood DEF DriveInv
  <2> QED BY <1>2, <1>10, <2>1, ReadyGood
<1>11. CASE cmd = "WRITE"
  <2>1. writesector(h) \in Drive /\ Good(writesector(h))
    BY <1>1, writesectorInv, writesectorGood DEF DriveInv
  <2> QED BY <1>2, <1>11, <2>1, ReadyGood
<1>12. CASE cmd = "INITIALIZE"
  BY <1>1, <1>2, <1>3, <1>12, ReadyGood
<1>13. CASE cmd = "IDENTIFY"
  <2>1. identifydevice(h, bad) \in Drive /\ Good(identifydevice(h, bad))
    BY <1>1, IdentifyKeeps, IdentifyGood DEF Keeps, DriveInv
  <2> QED BY <1>2, <1>13, <2>1, ReadyGood
<1>14. CASE cmd = "unknown"
  <2> DEFINE k == Ready(h)
  <2>1. k \in Drive /\ Fits(k)
    <3>1. k \in Drive
      BY <1>1 DEF Ready, Drive, Status
    <3> QED BY <1>1, <1>3, <3>1, ReadyGood DEF Good
  <2>2. g = [k EXCEPT !.m_nPhase = "READY"]
    BY <1>2, <1>14
  <2> HIDE DEF k
  <2>3. SameAddress(g, k) /\ g.m_nPhase = "READY"
    BY <2>1, <2>2 DEF Drive, SameAddress
  <2> QED BY <2>1, <2>3, StillGood DEF Moving
<1> QED BY <1>5, <1>6, <1>7, <1>8, <1>9, <1>10, <1>11, <1>12, <1>13, <1>14 DEF Commands

-----------------------------------------------------------------------------
(* The data register.  A drive that is silenced stays so.                   *)

LEMMA NextWordGood ==
  ASSUME NEW h \in Drive, Good(h)
  PROVE  Good(NextWord(h))
<1>1. /\ SameAddress(NextWord(h), h) /\ NextWord(h).m_nPhase = h.m_nPhase
      /\ NextWord(h).at = h.at /\ NextWord(h).m_nSectorCounter = h.m_nSectorCounter
  BY DEF NextWord, Drive, SameAddress
<1> QED BY <1>1, AsBeforeGood

LEMMA RefusedAligned ==
  ASSUME NEW h, DriveInv(h), Aligned(h)
  PROVE  Aligned(Failed(h, {"ABRT", "IDNF"}))
<1>1. CASE "BSY" \in h.status
  <2>1. Failed(h, {"ABRT", "IDNF"}).status = (h.status \cup {"ERR"}) \ {"DRQ"}
    BY DEF DriveInv, Drive, Failed
  <2> QED BY <1>1, <2>1 DEF Aligned
<1>2. CASE "BSY" \notin h.status
  BY <1>2, FailedGood DEF DriveInv, Aligned, Good
<1> QED BY <1>1, <1>2

\* In a transfer a drive is not silenced.
LEMMA TransferGood ==
  ASSUME NEW h, DriveInv(h), Aligned(h), h.m_nPhase \in {"PIO_IN", "PIO_OUT"}
  PROVE  /\ NextWord(h) \in Running /\ NextWord(h) \in Drive /\ Good(NextWord(h))
<1>1. NextWord(h) \in Running /\ h \in Running
  BY NextWordRuns
<1>2. h \in Drive /\ Good(h)
  BY <1>1 DEF Running, Aligned
<1> QED BY <1>1, <1>2, NextWordGood DEF Running

LEMMA ReadDataAligned ==
  ASSUME NEW h, DriveInv(h), Aligned(h), NEW bad
  PROVE  Aligned(read_data(h, bad))
<1> DEFINE g == NextWord(h)
<1>1. CASE h.m_nPhase # "PIO_IN"
  BY <1>1, RefusedAligned DEF read_data
<1>2. CASE h.m_nPhase = "PIO_IN"
  <2>1. g \in Drive /\ Good(g)
    BY <1>2, TransferGood
  <2>2. \/ read_data(h, bad) = g
        \/ read_data(h, bad) = readsector(g, FALSE, bad)
        \/ read_data(h, bad) = command_ok(g)
    BY <1>2 DEF read_data
  <2> HIDE DEF g
  <2>3. Good(readsector(g, FALSE, bad)) /\ Good(command_ok(g))
    BY <2>1, readsectorGood, OkGood DEF Good
  <2> QED BY <2>1, <2>2, <2>3 DEF Aligned
<1> QED BY <1>1, <1>2

LEMMA WriteDataAligned ==
  ASSUME NEW h, DriveInv(h), Aligned(h), NEW bad
  PROVE  Aligned(write_data(h, bad))
<1> DEFINE g == NextWord(h)
           f == write_file(g, bad)
<1>1. CASE h.m_nPhase # "PIO_OUT"
  BY <1>1, RefusedAligned DEF write_data
<1>2. CASE h.m_nPhase = "PIO_OUT"
  <2>1. g \in Running /\ g \in Drive /\ Good(g)
    BY <1>2, TransferGood
  <2>2. \/ write_data(h, bad) = g
        \/ write_data(h, bad) = writesector(f)
        \/ write_data(h, bad) = command_ok(f)
    BY <1>2 DEF write_data
  <2> HIDE DEF g
  <2>3. f \in Drive
    BY <2>1, WriteFileInv DEF Running
  <2>4. SameAddress(f, g)
    BY <2>1 DEF write_file, Drive, SameAddress
  <2> HIDE DEF f
  <2>5. Fits(f)
    BY <2>1, <2>4, SameAddressKeeps DEF Good
  <2>6. Good(writesector(f)) /\ Good(command_ok(f))
    BY <2>3, <2>5, writesectorGood, OkGood
  <2> QED BY <2>1, <2>2, <2>6 DEF Aligned
<1> QED BY <1>1, <1>2

-----------------------------------------------------------------------------
(* The other registers: they are heard only between two commands.           *)

\* What a drive that moves nothing is written keeps it so.
LEMMA WrittenAligned ==
  ASSUME NEW h, DriveInv(h), Takes(h), NEW g, g.m_nPhase = h.m_nPhase, Fits(g)
  PROVE  Aligned(g)
<1>1. h.m_nPhase \notin {"PIO_IN", "PIO_OUT"}
  BY DEF DriveInv, Asking, Takes
<1> QED BY <1>1 DEF Aligned, Good, Moving

LEMMA RegisterAligned ==
  ASSUME NEW h, DriveInv(h), Aligned(h), Takes(h), NEW v \in 0 .. Byte - 1
  PROVE  /\ Aligned(Counted(h, v))
         /\ Aligned([h EXCEPT !.sector = v])
         /\ Aligned([h EXCEPT !.cyl_lo = v])
         /\ Aligned([h EXCEPT !.cyl_hi = v])
<1>1. h \in Drive /\ Fits(h)
  BY DEF DriveInv, Aligned, Takes, Good
<1>2. ASSUME NEW g, g \in {Counted(h, v), [h EXCEPT !.sector = v], [h EXCEPT !.cyl_lo = v],
                           [h EXCEPT !.cyl_hi = v]}
      PROVE  Aligned(g)
  <2>1. /\ g.m_nPhase = h.m_nPhase /\ g.sector \in {h.sector, v}
        /\ g.cyl_lo \in {h.cyl_lo, v} /\ g.cyl_hi \in {h.cyl_hi, v}
    BY <1>1, <1>2 DEF Counted, Drive
  <2>2. Fits(g)
    BY <1>1, <2>1 DEF Fits
  <2> QED BY <2>1, <2>2, WrittenAligned
<1> QED BY <1>2

LEMMA SelectionAligned ==
  ASSUME NEW h, DriveInv(h), Aligned(h), Takes(h), NEW dev, NEW lba, NEW n
  PROVE  Aligned(Selection(h, dev, lba, n))
<1>1. h \in Drive /\ Fits(h)
  BY DEF DriveInv, Aligned, Takes, Good
<1>2. /\ Selection(h, dev, lba, n).m_nPhase = h.m_nPhase
      /\ Selection(h, dev, lba, n).sector = h.sector
      /\ Selection(h, dev, lba, n).cyl_lo = h.cyl_lo
      /\ Selection(h, dev, lba, n).cyl_hi = h.cyl_hi
  BY <1>1 DEF Selection, Drive
<1>3. Fits(Selection(h, dev, lba, n))
  BY <1>1, <1>2 DEF Fits
<1> QED BY <1>2, <1>3, WrittenAligned

LEMMA FreshAligned == Aligned(Fresh)
BY Bytes DEF Fresh, Aligned, Good, Fits, Moving

-----------------------------------------------------------------------------
AllAligned == \A d \in Attached : Aligned(drive[d])

LEMMA AlignedStep ==
  ASSUME Each, AllAligned, Next
  PROVE  AllAligned'
<1> SUFFICES ASSUME NEW d \in Attached PROVE Aligned(drive'[d])
  BY DEF AllAligned
<1>1. DriveInv(drive[d]) /\ Aligned(drive[d]) /\ drive[d] \in Drive
  BY DEF Each, AllAligned, DriveInv
<1>2. CASE drive'[d] = drive[d]
  BY <1>1, <1>2
<1>3. ASSUME drive'[d] # drive[d],
             \/ \E v \in 0 .. Byte - 1 : \/ WriteCount(v) \/ WriteSectorNumber(v)
                                          \/ WriteCylinderLow(v) \/ WriteCylinderHigh(v)
      PROVE  Aligned(drive'[d])
  <2>1. PICK v \in 0 .. Byte - 1 : \/ WriteCount(v) \/ WriteSectorNumber(v)
                                  \/ WriteCylinderLow(v) \/ WriteCylinderHigh(v)
    BY <1>3
  <2>2. Takes(drive[d])
    BY <1>3, <2>1 DEF WriteCount, WriteSectorNumber, WriteCylinderLow, WriteCylinderHigh
  <2>3. drive'[d] \in {Counted(drive[d], v), [drive[d] EXCEPT !.sector = v],
                       [drive[d] EXCEPT !.cyl_lo = v], [drive[d] EXCEPT !.cyl_hi = v]}
    BY <2>1, <2>2 DEF WriteCount, WriteSectorNumber, WriteCylinderLow, WriteCylinderHigh,
                      Counted
  <2>4. /\ Aligned(Counted(drive[d], v)) /\ Aligned([drive[d] EXCEPT !.sector = v])
        /\ Aligned([drive[d] EXCEPT !.cyl_lo = v])
        /\ Aligned([drive[d] EXCEPT !.cyl_hi = v])
    BY <1>1, <2>2, RegisterAligned
  <2> QED BY <2>3, <2>4, Zenon
<1>4. ASSUME drive'[d] # drive[d], NEW b \in HeadBytes, WriteHead(b[1], b[2], b[3])
      PROVE  Aligned(drive'[d])
  <2>1. Takes(drive[d]) /\ drive'[d] = Selection(drive[d], b[1], b[2], b[3])
    BY <1>4 DEF WriteHead, Selection
  <2> QED BY <1>1, <2>1, SelectionAligned
<1>5. ASSUME drive'[d] # drive[d], NEW cmd \in Commands, NEW bad, WriteCommand(cmd, bad)
      PROVE  Aligned(drive'[d])
  <2>1. Takes(drive[d]) /\ drive'[d] = execute_command(drive[d], cmd, bad)
    BY <1>5 DEF WriteCommand, Starts
  <2> QED BY <1>1, <2>1, CommandAligned
<1>6. ASSUME drive'[d] # drive[d], NEW bad, ReadData(bad) \/ WriteData(bad)
      PROVE  Aligned(drive'[d])
  <2>1. drive'[d] \in {read_data(drive[d], bad), write_data(drive[d], bad)}
    BY <1>6 DEF ReadData, WriteData
  <2> QED BY <1>1, <2>1, ReadDataAligned, WriteDataAligned
<1>7. ASSUME SoftReset \/ AttachDrives PROVE Aligned(drive'[d])
  <2>1. drive'[d] = reset(drive[d]) \/ drive'[d] = Fresh
    BY <1>7 DEF SoftReset, AttachDrives
  <2> QED BY <1>1, <2>1, ResetAligned, FreshAligned
<1>8. Counts \cup Numbers \cup CylLows \cup CylHighs \subseteq 0 .. Byte - 1
  BY HardDiskAssumption
<1> QED BY <1>2, <1>3, <1>4, <1>5, <1>6, <1>7, <1>8 DEF Next

\* For every geometry, every width of the registers, both ways of addressing, any
\* guest and any failing accesses: while a command has sectors left, the task
\* file names the sector after the one in the buffer, or no sector of the disk
\* when that was the last one (seek, HDD.cpp:595-695).
THEOREM NextSectorAddressed == Spec => []NextAddress
<1>1. Init => AllAligned
  BY FreshAligned DEF Init, AllAligned
<1>2. Each /\ AllAligned /\ [Next]_drive => AllAligned'
  <2>1. AllAligned /\ UNCHANGED drive => AllAligned'
    BY DEF AllAligned
  <2> QED BY <2>1, AlignedStep
<1>3. Each /\ AllAligned => NextAddress
  <2> SUFFICES ASSUME Each, AllAligned, NEW d \in Attached, Moving(drive[d])
               PROVE  Follows(drive[d], drive[d].at)
    BY DEF NextAddress, Follows, Moving
  <2>1. "BSY" \notin drive[d].status
    BY DEF Each, DriveInv, Asking, Moving
  <2> QED BY <2>1 DEF AllAligned, Aligned, Good
<1> QED BY <1>1, <1>2, <1>3, InvariantEach, PTL DEF Spec

-----------------------------------------------------------------------------
(* The refinement: every step of read_data and write_data, of the commands  *)
(* and of the resets is one of the steps that SectorTransfer allows.         *)

Phases == {"PIO_IN", "PIO_OUT"}

\* What the refinement needs of a drive that is not silenced, beyond DriveInv and
\* Aligned: the counter is in range and a transfer has no error to show.
Counting(h) == h.m_nSectorCounter \in 0 .. Byte /\ (h.m_nPhase \in Phases => h.error = {})

Bounded(h) == "BSY" \in h.status \/ Counting(h)

\* The first word of a sector.
Begins(g) == g.m_nPhase \in Phases => g.m_nSectIdx_Word = 0 /\ g.m_nSectorCounter < Byte

-----------------------------------------------------------------------------
(* The steps of SectorTransfer, in terms of the drive's fields.             *)

Promised(s, t) ==
  \/ t = s
  \/ Abstract!Start(s, t) \/ Abstract!Word(s, t) \/ Abstract!Sector(s, t)
  \/ Abstract!End(s, t) \/ Abstract!Error(s, t) \/ Abstract!Reset(t)

Shown(state, sector, word, left, signature) ==
  [state |-> state, sector |-> sector, word |-> word, left |-> left,
   signature |-> signature]

\* The fields of a step that changes several are changed one after the other.
LEMMA SectorSteps ==
  ASSUME NEW S \in Abstract!Moving, NEW a \in Int, NEW w, NEW l \in Int, NEW b, NEW s, NEW t,
         w = SECTOR_SIZEW - 1, l > 0,
         s = Shown(S, a, w, l, b), t = Shown(S, a + 1, 0, l - 1, b)
  PROVE  Abstract!Sector(s, t)
<1> DEFINE x == a + 1
           y == 0
           z == l - 1
           s1 == [s EXCEPT !.sector = x]
           s2 == [s1 EXCEPT !.word = y]
           s3 == [s2 EXCEPT !.left = z]
<1>1. t = Shown(S, x, y, z, b) /\ s.sector + 1 = x /\ s.left - 1 = z /\ y = 0
  BY DEF Shown
<1> HIDE DEF x, y, z
<1>2. s1 = Shown(S, x, w, l, b)
  BY DEF Shown
<1> HIDE DEF s1
<1>3. s2 = Shown(S, x, y, l, b)
  BY <1>2 DEF Shown
<1> HIDE DEF s2
<1>4. s3 = Shown(S, x, y, z, b)
  BY <1>3 DEF Shown
<1>5. t = [s EXCEPT !.sector = x, !.word = y, !.left = z]
  BY <1>1, <1>4 DEF s1, s2
<1>6. t = [s EXCEPT !.sector = @ + 1, !.word = 0, !.left = @ - 1]
  BY <1>1, <1>5
<1>7. s.state \in Abstract!Moving /\ s.word = SECTOR_SIZEW - 1 /\ s.left > 0
  BY DEF Shown
<1> QED BY <1>6, <1>7 DEF Abstract!Sector

LEMMA EndSteps ==
  ASSUME NEW S \in Abstract!Moving, NEW a, NEW w, NEW b, NEW s, NEW t,
         w = SECTOR_SIZEW - 1,
         s = Shown(S, a, w, 0, b), t = Shown("idle", a, 0, 0, b)
  PROVE  Abstract!End(s, t)
<1> DEFINE x == "idle"
           y == 0
           s1 == [s EXCEPT !.state = x]
           s2 == [s1 EXCEPT !.word = y]
<1>1. s = Shown(S, a, w, y, b) /\ t = Shown(x, a, y, y, b)
  OBVIOUS
<1>2. s.state \in Abstract!Moving /\ s.word = SECTOR_SIZEW - 1 /\ s.left = 0
  BY DEF Shown
<1> HIDE DEF x, y
<1>3. s1 = Shown(x, a, w, y, b)
  BY <1>1 DEF Shown
<1> HIDE DEF s1
<1>4. s2 = Shown(x, a, y, y, b)
  BY <1>3 DEF Shown
<1>5. t = [s EXCEPT !.state = x, !.word = y]
  BY <1>1, <1>4 DEF s1
<1> QED BY <1>2, <1>5 DEF x, y, Abstract!End

LEMMA SeenShown ==
  ASSUME NEW h
  PROVE  Seen(h) = Shown(State[h.m_nPhase], h.at, h.m_nSectIdx_Word, h.m_nSectorCounter,
                         h.error = {"AMNF"})
BY DEF Seen, Shown

LEMMA SeenState ==
  ASSUME NEW h \in Drive
  PROVE  /\ Seen(h).state \in {"idle", "failed", "in", "out"}
         /\ Seen(h).state \in Abstract!Moving <=> h.m_nPhase \in Phases
         /\ Seen(h).state \in Abstract!Idle <=> h.m_nPhase \notin Phases
         /\ Seen(h).state = "idle" <=> h.m_nPhase = "READY"
         /\ Seen(h).state = "failed" <=> h.m_nPhase = "FAILURE"
         /\ Seen(h).sector = h.at /\ Seen(h).word = h.m_nSectIdx_Word
         /\ Seen(h).left = h.m_nSectorCounter
         /\ Seen(h).signature <=> h.error = {"AMNF"}
<1>1. h.m_nPhase \in {"FAILURE", "READY", "PIO_OUT", "PIO_IN"}
  BY DEF Drive
<1>2. /\ Seen(h).state = State[h.m_nPhase]
      /\ Seen(h).sector = h.at /\ Seen(h).word = h.m_nSectIdx_Word
      /\ Seen(h).left = h.m_nSectorCounter
      /\ Seen(h).signature <=> h.error = {"AMNF"}
  BY DEF Seen
<1>3. /\ State["FAILURE"] = "failed" /\ State["READY"] = "idle"
      /\ State["PIO_OUT"] = "out" /\ State["PIO_IN"] = "in"
  BY DEF State
<1>4. CASE h.m_nPhase = "FAILURE"
  BY <1>2, <1>3, <1>4 DEF Phases, Abstract!Moving, Abstract!Idle
<1>5. CASE h.m_nPhase = "READY"
  BY <1>2, <1>3, <1>5 DEF Phases, Abstract!Moving, Abstract!Idle
<1>6. CASE h.m_nPhase \in Phases
  BY <1>2, <1>3, <1>6 DEF Phases, Abstract!Moving, Abstract!Idle
<1> QED BY <1>1, <1>4, <1>5, <1>6 DEF Phases

LEMMA SeenType ==
  ASSUME NEW h \in Drive
  PROVE  Seen(h) \in Abstract!Transfer
<1>1. h.m_nPhase \in {"FAILURE", "READY", "PIO_OUT", "PIO_IN"}
  BY DEF Drive
<1>2. State[h.m_nPhase] \in {"idle", "in", "out", "failed"}
  BY <1>1 DEF State
<1> QED BY <1>2 DEF Seen, Drive, Abstract!Transfer

LEMMA StartsPromised ==
  ASSUME NEW h \in Drive, NEW g \in Drive, h.m_nPhase \notin Phases, Begins(g)
  PROVE  Promised(Seen(h), Seen(g))
BY SeenState DEF Promised, Begins, Abstract!Start

LEMMA ErrorPromised ==
  ASSUME NEW h \in Drive, NEW g \in Drive, g.m_nPhase = "FAILURE"
  PROVE  Promised(Seen(h), Seen(g))
<1>1. CASE h.m_nPhase \in Phases
  BY <1>1, SeenState DEF Promised, Abstract!Error
<1>2. CASE h.m_nPhase \notin Phases
  BY <1>2, StartsPromised DEF Begins, Phases
<1> QED BY <1>1, <1>2

LEMMA ResetPromised ==
  ASSUME NEW h, NEW g \in Drive, g.m_nPhase = "READY", g.m_nSectIdx_Word = 0,
         g.m_nSectorCounter = 1, g.error = {"AMNF"} \/ g.at = Service
  PROVE  Promised(Seen(h), Seen(g))
BY SeenState DEF Promised, Abstract!Reset

LEMMA WordPromised ==
  ASSUME NEW h \in Drive, h.m_nPhase \in Phases, ~SectorDone(NextWord(h))
  PROVE  Promised(Seen(h), Seen(NextWord(h)))
<1>1. Seen(NextWord(h)) = [Seen(h) EXCEPT !.word = @ + 1]
  <2> DEFINE n == NextWord(h)
  <2>1. /\ n.m_nPhase = h.m_nPhase /\ n.at = h.at /\ n.error = h.error
        /\ n.m_nSectIdx_Word = h.m_nSectIdx_Word + 1
        /\ n.m_nSectorCounter = h.m_nSectorCounter
    BY DEF NextWord, Drive
  <2> HIDE DEF n
  <2> DEFINE S == State[h.m_nPhase]
             b == h.error = {"AMNF"}
  <2>2. /\ Seen(h) = Shown(S, h.at, h.m_nSectIdx_Word, h.m_nSectorCounter, b)
        /\ Seen(n) = Shown(S, h.at, h.m_nSectIdx_Word + 1, h.m_nSectorCounter, b)
    BY <2>1, SeenShown, Zenon
  <2> DEFINE s == Seen(h)
             x == h.m_nSectIdx_Word + 1
  <2>3. s.word + 1 = x
    BY SeenState
  <2> HIDE DEF S, b, s, x
  <2>4. Seen(n) = [s EXCEPT !.word = x]
    BY <2>2 DEF s, x, Shown
  <2> QED BY <2>3, <2>4 DEF n, s
<1>2. NextWord(h).m_nSectIdx_Word = h.m_nSectIdx_Word + 1
  BY DEF NextWord, Drive
<1>3. h.m_nSectIdx_Word \in Nat /\ h.m_nSectIdx_Word + 1 < SECTOR_SIZEW
  BY <1>2, Radix DEF SectorDone, Drive
<1>4. Seen(h).word < SECTOR_SIZEW - 1
  BY <1>3, SeenState, Radix
<1> QED BY <1>1, <1>4, SeenState DEF Promised, Abstract!Word

\* The end of a sector whose last word has just gone.
LEMMA SectorPromised ==
  ASSUME NEW h \in Drive, NEW g \in Drive, h.m_nPhase \in Phases, Counting(h), Counting(g),
         h.m_nSectIdx_Word = SECTOR_SIZEW - 1, h.m_nSectorCounter > 0,
         g.m_nPhase = h.m_nPhase, g.at = h.at + 1, g.m_nSectIdx_Word = 0,
         g.m_nSectorCounter = h.m_nSectorCounter - 1
  PROVE  Promised(Seen(h), Seen(g))
<1>1. h.error = {} /\ g.error = {}
  BY DEF Counting
<1> DEFINE S == State[h.m_nPhase]
           b == {} = {"AMNF"}
<1>2. /\ Seen(h) = Shown(S, h.at, h.m_nSectIdx_Word, h.m_nSectorCounter, b)
      /\ Seen(g) = Shown(S, h.at + 1, 0, h.m_nSectorCounter - 1, b)
  BY <1>1, SeenShown, Zenon
<1>3. S \in Abstract!Moving /\ h.at \in Int /\ h.m_nSectorCounter \in Int
  BY SeenState, Radix DEF Drive, Seen, Service
<1> HIDE DEF S, b
<1>4. Abstract!Sector(Seen(h), Seen(g))
  BY <1>2, <1>3, SectorSteps
<1> QED BY <1>4 DEF Promised

LEMMA EndPromised ==
  ASSUME NEW h \in Drive, NEW g \in Drive, h.m_nPhase \in Phases, Counting(h),
         h.m_nSectIdx_Word = SECTOR_SIZEW - 1, h.m_nSectorCounter = 0,
         g.m_nPhase = "READY", g.at = h.at, g.m_nSectIdx_Word = 0, g.error = {},
         g.m_nSectorCounter = 0
  PROVE  Promised(Seen(h), Seen(g))
<1>1. h.error = {}
  BY DEF Counting
<1> DEFINE S == State[h.m_nPhase]
           b == {} = {"AMNF"}
<1>2. State["READY"] = "idle"
  BY DEF State
<1>3. /\ Seen(h) = Shown(S, h.at, h.m_nSectIdx_Word, 0, b)
      /\ Seen(g) = Shown("idle", h.at, 0, 0, b)
  BY <1>1, <1>2, SeenShown, Zenon
<1>4. S \in Abstract!Moving
  BY SeenState DEF Seen
<1> HIDE DEF S, b
<1>5. Abstract!End(Seen(h), Seen(g))
  BY <1>3, <1>4, EndSteps
<1> QED BY <1>5 DEF Promised

-----------------------------------------------------------------------------
(* One sector.                                                              *)

\* What readsector or writesector makes of a drive that has sectors to move.
Moved(g, h, phase) ==
  \/ /\ g.m_nPhase = "FAILURE"
     /\ g.m_nSectorCounter \in 0 .. Byte
  \/ /\ g.m_nPhase = phase /\ g.error = {} /\ g.m_nSectIdx_Word = 0
     /\ Addressable(h) /\ g.at = SectorNumber(h)
     /\ g.m_nSectorCounter = h.m_nSectorCounter - 1

LEMMA FailedMoved ==
  ASSUME NEW h \in Drive, NEW bits
  PROVE  /\ Failed(h, bits).m_nPhase = "FAILURE"
         /\ Failed(h, bits).m_nSectorCounter = h.m_nSectorCounter
BY DEF Failed, Drive

LEMMA BegunMoved ==
  ASSUME NEW h \in Drive, NEW phase, NEW asks
  PROVE  LET b == Begun(h, phase, asks) IN
         /\ b.m_nPhase = phase /\ b.error = {} /\ b.m_nSectIdx_Word = 0
         /\ b.at = SectorNumber(h) /\ b.m_nSectorCounter = h.m_nSectorCounter - 1
<1> DEFINE g == Sought(h)
           b == Begun(h, phase, asks)
           a == SectorNumber(h)
           v == IF asks THEN g.status \cup {"DRQ"} ELSE g.status
<1>1. g \in Drive /\ g.m_nSectorCounter = h.m_nSectorCounter - 1
  BY SoughtType
<1>2. b = [g EXCEPT !.m_nPhase = phase, !.error = {}, !.m_nSectIdx_Word = 0,
                    !.at = a, !.status = v]
  BY <1>1 DEF Begun, Drive
<1> HIDE DEF g, a, v, b
<1>3. b.m_nPhase = phase /\ b.error = {} /\ b.m_nSectIdx_Word = 0 /\ b.at = a
      /\ b.m_nSectorCounter = g.m_nSectorCounter
  BY <1>1, <1>2 DEF Drive
<1> QED BY <1>1, <1>3 DEF a, b

LEMMA readsectorMoved ==
  ASSUME NEW h \in Drive, h.m_nSectorCounter \in 1 .. Byte, NEW verify \in BOOLEAN, NEW bad
  PROVE  Moved(readsector(h, verify, bad), h, "PIO_IN")
<1>0. h.m_nSectorCounter \in 0 .. Byte /\ h.m_nSectorCounter - 1 \in 0 .. Byte
  BY Radix
<1>1. CASE ~Addressable(h)
  BY <1>0, <1>1, FailedMoved DEF readsector, Moved
<1>2. CASE Addressable(h) /\ SectorNumber(h) \in bad
  <2>1. Sought(h) \in Drive /\ Sought(h).m_nSectorCounter = h.m_nSectorCounter - 1
    BY SoughtType
  <2> QED BY <1>0, <1>2, <2>1, FailedMoved DEF readsector, Moved
<1>3. CASE Addressable(h) /\ SectorNumber(h) \notin bad
  <2> DEFINE asks == ~verify
  <2>1. readsector(h, verify, bad) = Begun(h, "PIO_IN", asks)
    BY <1>3 DEF readsector, Begun
  <2> HIDE DEF asks
  <2> QED BY <1>3, <2>1, BegunMoved DEF Moved
<1> QED BY <1>1, <1>2, <1>3

LEMMA writesectorMoved ==
  ASSUME NEW h \in Drive, h.m_nSectorCounter \in 1 .. Byte
  PROVE  Moved(writesector(h), h, "PIO_OUT")
<1>0. h.m_nSectorCounter \in 0 .. Byte
  BY Radix
<1>1. CASE ~Addressable(h)
  BY <1>0, <1>1, FailedMoved DEF writesector, Moved
<1>2. CASE Addressable(h)
  <2> DEFINE asks == TRUE
  <2>1. writesector(h) = Begun(h, "PIO_OUT", asks)
    BY <1>2 DEF writesector, Begun
  <2> HIDE DEF asks
  <2> QED BY <1>2, <2>1, BegunMoved DEF Moved
<1> QED BY <1>1, <1>2

LEMMA MovedCounts ==
  ASSUME NEW h \in Drive, h.m_nSectorCounter \in 1 .. Byte, NEW phase \in Phases, NEW g,
         Moved(g, h, phase)
  PROVE  Counting(g) /\ Begins(g)
<1>1. h.m_nSectorCounter - 1 \in 0 .. Byte /\ h.m_nSectorCounter - 1 < Byte
  BY Radix
<1> QED BY <1>1 DEF Moved, Counting, Begins, Phases

\* The loop of read_verify_sector stops at zero.
LEMMA VerifyCounts ==
  ASSUME NEW h \in Loop, NEW bad, h.m_nSectorCounter \in 0 .. Byte
  PROVE  LET g == read_verify_sector(h, bad) IN
         g.m_nPhase \notin Phases /\ g.m_nSectorCounter \in 0 .. Byte
<1>1. CASE h.m_nPhase # "READY"
  BY <1>1, FailedMoved DEF read_verify_sector, Loop, Running, Phases
<1>2. CASE h.m_nPhase = "READY"
  <2> DEFINE D == {g \in Loop : g.m_nSectorCounter \in 0 .. Byte}
             g == Verifying(h, bad)[Byte]
  <2>1. ASSUME NEW k \in D PROVE VerifyOne(k, bad) \in D
    <3>1. VerifyOne(k, bad) \in Loop
      BY VerifyOneKeeps
    <3>2. k \in Drive /\ k.m_nSectorCounter \in 0 .. Byte
      BY DEF Loop, Running
    <3>3. CASE k.m_nSectorCounter = 0 \/ "ERR" \in k.status
      BY <3>2, <3>3, <3>1 DEF VerifyOne
    <3>4. CASE k.m_nSectorCounter # 0 /\ "ERR" \notin k.status
      <4>1. k.m_nSectorCounter \in 1 .. Byte
        BY <3>2, <3>4, Radix
      <4>2. Counting(readsector(k, TRUE, bad))
        BY <3>2, <4>1, readsectorMoved, MovedCounts DEF Phases
      <4>3. VerifyOne(k, bad) = readsector(k, TRUE, bad)
        BY <3>4 DEF VerifyOne
      <4> QED BY <3>1, <4>2, <4>3 DEF Counting
    <3> QED BY <3>3, <3>4
  <2>2. h \in D
    OBVIOUS
  <2>3. g \in D
    <3> HIDE DEF D
    <3> QED BY <2>1, <2>2, VerifyingKeeps
  <2>4. read_verify_sector(h, bad)
          = [g EXCEPT !.m_nPhase = "READY", !.m_nSectIdx_Word = 0, !.error = {}]
    BY <1>2 DEF read_verify_sector
  <2>5. g \in Drive /\ g.m_nSectorCounter \in 0 .. Byte
    BY <2>3 DEF Loop, Running
  <2> HIDE DEF g, D
  <2>6. /\ read_verify_sector(h, bad).m_nPhase = "READY"
        /\ read_verify_sector(h, bad).m_nSectorCounter = g.m_nSectorCounter
    BY <2>4, <2>5 DEF Drive
  <2> QED BY <2>5, <2>6 DEF Phases
<1> QED BY <1>1, <1>2

-----------------------------------------------------------------------------
(* Commands.                                                                *)

\* What a command makes of a drive.
Sets(g) == Counting(g) /\ Begins(g)

LEMMA StillSets ==
  ASSUME NEW h, NEW g, h.m_nSectorCounter \in 0 .. Byte, g.m_nPhase \notin Phases,
         g.m_nSectorCounter = h.m_nSectorCounter
  PROVE  Sets(g)
BY DEF Sets, Counting, Begins

LEMMA ReadySets ==
  ASSUME NEW h \in Drive, Sets(h)
  PROVE  Sets(Ready(h))
<1>1. /\ Ready(h).m_nPhase = h.m_nPhase /\ Ready(h).error = h.error
      /\ Ready(h).m_nSectIdx_Word = h.m_nSectIdx_Word
      /\ Ready(h).m_nSectorCounter = h.m_nSectorCounter
  BY DEF Ready, Drive
<1> QED BY <1>1 DEF Sets, Counting, Begins

LEMMA OkCounts ==
  ASSUME NEW h \in Drive
  PROVE  /\ command_ok(h).m_nPhase = "READY" /\ command_ok(h).m_nSectIdx_Word = 0
         /\ command_ok(h).error = {} /\ command_ok(h).at = h.at
         /\ command_ok(h).m_nSectorCounter = h.m_nSectorCounter
BY DEF command_ok, Drive

LEMMA OkSets ==
  ASSUME NEW h \in Drive, h.m_nSectorCounter \in 0 .. Byte
  PROVE  Sets(command_ok(h))
BY OkCounts, StillSets DEF Phases

LEMMA FailedSets ==
  ASSUME NEW h \in Drive, h.m_nSectorCounter \in 0 .. Byte, NEW bits
  PROVE  Sets(Failed(h, bits))
BY FailedMoved, StillSets DEF Phases

LEMMA IdentifySets ==
  ASSUME NEW h \in Drive, NEW bad, h.error = {}
  PROVE  Sets(identifydevice(h, bad))
<1> DEFINE f == identifydevice(h, bad)
           g == [h EXCEPT !.count = 0, !.m_nSectorCounter = 0, !.m_nSectIdx_Word = 0]
<1>1. 0 \in 0 .. Ones /\ 0 \in 0 .. SECTOR_SIZEW
  BY Radix
<1>2. g \in Drive /\ g.m_nSectorCounter = 0 /\ g.m_nSectIdx_Word = 0 /\ g.error = {}
  BY <1>1, Zero DEF Drive
<1>3. CASE Service \in bad
  <2>1. f = [g EXCEPT !.m_nPhase = "FAILURE", !.error = {"ABRT", "UNC"},
                      !.status = @ \cup {"ERR"}]
    BY <1>3 DEF identifydevice
  <2> HIDE DEF g, f
  <2>2. f.m_nSectorCounter = 0 /\ f.m_nPhase = "FAILURE"
    BY <1>2, <2>1 DEF Drive
  <2> QED BY <2>2, Radix DEF f, Sets, Counting, Begins, Phases
<1>4. CASE Service \notin bad
  <2>1. f = [g EXCEPT !.m_nPhase = "PIO_IN", !.at = Service, !.sector = 1,
                      !.cyl_lo = 0, !.cyl_hi = 0, !.HEAD = 0, !.status = @ \cup {"DRQ"}]
    BY <1>4 DEF identifydevice
  <2> HIDE DEF g, f
  <2>2. f.m_nSectorCounter = 0 /\ f.m_nSectIdx_Word = 0 /\ f.error = {}
    BY <1>2, <2>1 DEF Drive
  <2> QED BY <2>2, Radix DEF f, Sets, Counting, Begins
<1> QED BY <1>3, <1>4

\* The signature leaves a counter of one.
LEMMA SignatureBounded ==
  ASSUME NEW h \in Drive, h.m_nPhase \notin Phases
  PROVE  Bounded(reset_signature(h)) /\ Begins(reset_signature(h))
<1>1. CASE h.m_nPhase = "FAILURE"
  <2>1. reset_signature(h) = unset(h)
    BY <1>1 DEF reset_signature
  <2>2. "BSY" \in unset(h).status /\ unset(h).m_nPhase = "FAILURE"
    BY UnsetInv DEF DriveInv, Asking
  <2> QED BY <2>1, <2>2 DEF Bounded, Begins, Phases
<1>2. CASE h.m_nPhase # "FAILURE"
  <2> DEFINE f == reset_signature(h)
  <2>1. f.m_nPhase \notin Phases /\ f.m_nSectorCounter = 1
    BY <1>2, SignatureType
  <2>2. 1 \in 0 .. Byte
    BY Radix
  <2> HIDE DEF f
  <2>3. Bounded(f) /\ Begins(f)
    BY <2>1, <2>2 DEF Bounded, Counting, Begins
  <2> QED BY <2>3 DEF f
<1> QED BY <1>1, <1>2

LEMMA CommandSets ==
  ASSUME NEW h0, DriveInv(h0), Bounded(h0), Takes(h0), NEW cmd \in Commands, NEW bad,
         cmd \in Moves => h0.m_nSectorCounter > 0
  PROVE  Bounded(execute_command(h0, cmd, bad)) /\ Begins(execute_command(h0, cmd, bad))
<1> DEFINE h == [h0 EXCEPT !.error = {}, !.status = {}]
           g == execute_command(h0, cmd, bad)
<1>1. /\ h \in Loop /\ h \in Running /\ h \in Drive /\ h.error = {}
      /\ h.m_nPhase \notin Phases
      /\ h.m_nSectorCounter \in 0 .. Byte /\ h.m_nSectorCounter \in Int
      /\ cmd \in Moves => h.m_nSectorCounter \in 1 .. Byte
  <2>1. h0 \in Drive /\ "BSY" \notin h0.status /\ "DRQ" \notin h0.status
    BY DEF DriveInv, Takes
  <2>2. h \in Drive /\ h.m_nPhase = h0.m_nPhase /\ h.status = {} /\ h.error = {}
        /\ h.count = h0.count /\ h.m_nSectorCounter = h0.m_nSectorCounter
    BY <2>1 DEF Drive
  <2>3. h0.m_nSectorCounter \in 0 .. Byte
    BY <2>1 DEF Bounded, Counting
  <2> HIDE DEF h
  <2> QED BY <2>1, <2>2, <2>3, Radix DEF DriveInv, Asking, Loop, Running, Agree, Phases
<1>2. g = CASE cmd = "NOP"          -> command_ok(h)
            [] cmd = "VERIFY"       -> Ready(read_verify_sector(h, bad))
            [] cmd = "SEEK"         -> IF Addressable(h) THEN command_ok(Sought(h))
                                       ELSE Ready(Failed(h, {"ABRT", "IDNF"}))
            [] cmd = "FORMAT_TRACK" -> [command_ok(h) EXCEPT !.status = @ \cup {"DRQ"}]
            [] cmd = "DIAGNOSTICS"  -> reset_signature(h)
            [] cmd = "READ"         -> Ready(readsector(h, FALSE, bad))
            [] cmd = "WRITE"        -> Ready(writesector(h))
            [] cmd = "INITIALIZE"   -> Ready(h)
            [] cmd = "IDENTIFY"     -> Ready(identifydevice(h, bad))
            [] cmd = "unknown"      -> [Ready(h) EXCEPT !.m_nPhase = "READY"]
  BY DEF execute_command
<1> HIDE DEF h, g
<1> SUFFICES Sets(g) \/ (Bounded(g) /\ Begins(g))
  BY DEF Sets, Bounded, g
<1>3. Sets(h)
  BY <1>1, StillSets
<1>4. command_ok(h) \in Drive /\ Sets(command_ok(h)) /\ command_ok(h).m_nPhase = "READY"
  BY <1>1, OkInv, OkSets, OkCounts DEF DriveInv
<1>5. CASE cmd = "NOP"
  BY <1>2, <1>4, <1>5
<1>6. CASE cmd = "VERIFY"
  <2> DEFINE k == read_verify_sector(h, bad)
  <2>1. k \in Drive
    BY <1>1, VerifyKeeps DEF Keeps, DriveInv
  <2>2. Sets(k)
    BY <1>1, VerifyCounts DEF Sets, Counting, Begins
  <2> QED BY <1>2, <1>6, <2>1, <2>2, ReadySets
<1>7. CASE cmd = "SEEK"
  <2>1. CASE Addressable(h)
    <3>1. Sought(h) \in Drive /\ Sought(h).m_nSectorCounter = h.m_nSectorCounter - 1
      BY <1>1, SoughtType
    <3>2. Sought(h).m_nSectorCounter \in 0 .. Byte
      BY <1>1, <1>7, <3>1, Radix DEF Moves
    <3> QED BY <1>2, <1>7, <2>1, <3>1, <3>2, OkSets
  <2>2. CASE ~Addressable(h)
    <3>1. Failed(h, {"ABRT", "IDNF"}) \in Drive
      BY <1>1, FailedInv, ErrorBits DEF DriveInv, Running
    <3>2. Sets(Failed(h, {"ABRT", "IDNF"}))
      BY <1>1, FailedSets
    <3> QED BY <1>2, <1>7, <2>2, <3>1, <3>2, ReadySets
  <2> QED BY <2>1, <2>2
<1>8. CASE cmd = "FORMAT_TRACK"
  <2> DEFINE k == command_ok(h)
  <2>1. g = [k EXCEPT !.status = @ \cup {"DRQ"}]
    BY <1>2, <1>8
  <2> HIDE DEF k
  <2>2. g.m_nPhase = "READY" /\ g.m_nSectorCounter = k.m_nSectorCounter
    BY <1>4, <2>1 DEF k, Drive
  <2> QED BY <1>4, <2>2, StillSets DEF k, Sets, Counting, Phases
<1>9. CASE cmd = "DIAGNOSTICS"
  BY <1>1, <1>2, <1>9, SignatureBounded
<1>10. CASE cmd = "READ"
  <2>1. readsector(h, FALSE, bad) \in Drive
    BY <1>1, readsectorInv DEF DriveInv
  <2>2. h.m_nSectorCounter \in 1 .. Byte
    BY <1>1, <1>10 DEF Moves
  <2>3. Sets(readsector(h, FALSE, bad))
    BY <1>1, <2>2, readsectorMoved, MovedCounts DEF Sets, Phases
  <2> QED BY <1>2, <1>10, <2>1, <2>3, ReadySets
<1>11. CASE cmd = "WRITE"
  <2>1. writesector(h) \in Drive
    BY <1>1, writesectorInv DEF DriveInv
  <2>2. h.m_nSectorCounter \in 1 .. Byte
    BY <1>1, <1>11 DEF Moves
  <2>3. Sets(writesector(h))
    BY <1>1, <2>2, writesectorMoved, MovedCounts DEF Sets, Phases
  <2> QED BY <1>2, <1>11, <2>1, <2>3, ReadySets
<1>12. CASE cmd = "INITIALIZE"
  BY <1>1, <1>2, <1>3, <1>12, ReadySets
<1>13. CASE cmd = "IDENTIFY"
  <2>1. identifydevice(h, bad) \in Drive /\ Sets(identifydevice(h, bad))
    BY <1>1, IdentifyKeeps, IdentifySets DEF Keeps, DriveInv
  <2> QED BY <1>2, <1>13, <2>1, ReadySets
<1>14. CASE cmd = "unknown"
  <2> DEFINE k == Ready(h)
  <2>1. k \in Drive /\ k.m_nSectorCounter = h.m_nSectorCounter
    BY <1>1 DEF Ready, Drive, Status
  <2>2. g = [k EXCEPT !.m_nPhase = "READY"]
    BY <1>2, <1>14
  <2> HIDE DEF k
  <2>3. g.m_nPhase = "READY" /\ g.m_nSectorCounter = h.m_nSectorCounter
    BY <2>1, <2>2 DEF Drive
  <2> QED BY <1>1, <2>3, StillSets DEF Phases
<1> QED BY <1>5, <1>6, <1>7, <1>8, <1>9, <1>10, <1>11, <1>12, <1>13, <1>14 DEF Commands

-----------------------------------------------------------------------------
(* Each of the guest's accesses.                                            *)

\* What an access makes of a drive: still bounded, by a step that is promised.
Does(h, g) == Bounded(g) /\ Promised(Seen(h), Seen(g))

LEMMA CommandDoes ==
  ASSUME NEW h, DriveInv(h), Bounded(h), Takes(h), NEW cmd \in Commands, NEW bad,
         cmd \in Moves => h.m_nSectorCounter > 0
  PROVE  Does(h, execute_command(h, cmd, bad))
<1>1. h \in Drive /\ h.m_nPhase \notin Phases
  BY DEF DriveInv, Asking, Takes, Phases
<1>2. execute_command(h, cmd, bad) \in Drive
  BY CommandInv DEF DriveInv
<1> QED BY <1>1, <1>2, CommandSets, StartsPromised DEF Does

LEMMA RefusedDoes ==
  ASSUME NEW h, DriveInv(h), Bounded(h)
  PROVE  Does(h, Failed(h, {"ABRT", "IDNF"}))
<1> DEFINE g == Failed(h, {"ABRT", "IDNF"})
<1>1. h \in Drive /\ g \in Drive
  BY RefusedInv DEF DriveInv
<1>2. g.m_nPhase = "FAILURE" /\ g.m_nSectorCounter = h.m_nSectorCounter
  BY <1>1, FailedMoved
<1>3. "BSY" \in h.status => "BSY" \in g.status
  BY <1>1 DEF Failed, Drive
<1> QED BY <1>1, <1>2, <1>3, ErrorPromised DEF Does, Bounded, Counting, Phases

\* The drive after a word of a transfer.
LEMMA NextWordCounts ==
  ASSUME NEW h, DriveInv(h), Bounded(h), h.m_nPhase \in Phases
  PROVE  LET g == NextWord(h) IN
         /\ h \in Drive /\ Counting(h) /\ Counting(g)
         /\ g.m_nPhase = h.m_nPhase /\ g.at = h.at
         /\ g.m_nSectorCounter = h.m_nSectorCounter
         /\ SectorDone(g) => h.m_nSectIdx_Word = SECTOR_SIZEW - 1
<1> DEFINE g == NextWord(h)
<1>1. h \in Drive /\ "BSY" \notin h.status /\ h.m_nSectIdx_Word < SECTOR_SIZEW
  BY DEF DriveInv, Asking, Phases
<1>2. g.m_nPhase = h.m_nPhase /\ g.at = h.at /\ g.error = h.error
      /\ g.m_nSectorCounter = h.m_nSectorCounter
      /\ g.m_nSectIdx_Word = h.m_nSectIdx_Word + 1
  BY <1>1 DEF NextWord, Drive
<1>3. Counting(h) /\ Counting(g)
  BY <1>1, <1>2 DEF Bounded, Counting
<1>4. h.m_nSectIdx_Word \in Int /\ SECTOR_SIZEW \in Int
  BY <1>1, Radix DEF Drive
<1>5. SectorDone(g) => h.m_nSectIdx_Word = SECTOR_SIZEW - 1
  BY <1>1, <1>2, <1>4 DEF SectorDone
<1> QED BY <1>1, <1>2, <1>3, <1>5

\* The next sector that readsector or writesector moves is the next one of the disk.
LEMMA SectorDoes ==
  ASSUME NEW h \in Drive, Counting(h), h.m_nPhase \in Phases,
         h.m_nSectIdx_Word = SECTOR_SIZEW - 1, h.m_nSectorCounter # 0,
         NEW f \in Drive, Follows(f, h.at), f.m_nSectorCounter = h.m_nSectorCounter,
         NEW g \in Drive, Moved(g, f, h.m_nPhase)
  PROVE  Does(h, g)
<1>1. h.m_nSectorCounter \in 1 .. Byte /\ h.m_nSectorCounter > 0
  BY Radix DEF Counting
<1>2. CASE g.m_nPhase = "FAILURE"
  BY <1>2, ErrorPromised DEF Moved, Does, Bounded, Counting, Phases
<1>3. CASE g.m_nPhase # "FAILURE"
  <2>1. Counting(g)
    BY <1>1, MovedCounts
  <2>2. /\ g.m_nPhase = h.m_nPhase /\ g.m_nSectIdx_Word = 0
        /\ Addressable(f) /\ g.at = SectorNumber(f)
        /\ g.m_nSectorCounter = h.m_nSectorCounter - 1
    BY <1>3 DEF Moved
  <2>3. g.at = h.at + 1
    BY <2>2 DEF Follows
  <2> QED BY <1>1, <2>1, <2>2, <2>3, SectorPromised DEF Does, Bounded
<1> QED BY <1>2, <1>3

LEMMA EndDoes ==
  ASSUME NEW h \in Drive, Counting(h), h.m_nPhase \in Phases,
         h.m_nSectIdx_Word = SECTOR_SIZEW - 1, h.m_nSectorCounter = 0,
         NEW f \in Drive, f.at = h.at, f.m_nSectorCounter = 0, command_ok(f) \in Drive
  PROVE  Does(h, command_ok(f))
<1>1. Counting(command_ok(f))
  BY OkCounts, Radix DEF Counting
<1> QED BY <1>1, OkCounts, EndPromised DEF Does, Bounded

LEMMA ReadDataDoes ==
  ASSUME NEW h, DriveInv(h), Bounded(h), Aligned(h), NEW bad
  PROVE  Does(h, read_data(h, bad))
<1> DEFINE g == NextWord(h)
<1>1. CASE h.m_nPhase # "PIO_IN"
  BY <1>1, RefusedDoes DEF read_data
<1>2. CASE h.m_nPhase = "PIO_IN"
  <2>1. h.m_nPhase \in Phases /\ h.m_nPhase \in {"PIO_IN", "PIO_OUT"}
    BY <1>2 DEF Phases
  <2>2. h \in Drive /\ g \in Running /\ g \in Drive /\ Good(g) /\ Counting(h) /\ Counting(g)
    BY <2>1, TransferGood, NextWordCounts
  <2>3. /\ g.m_nPhase = h.m_nPhase /\ g.at = h.at /\ g.m_nSectorCounter = h.m_nSectorCounter
        /\ SectorDone(g) => h.m_nSectIdx_Word = SECTOR_SIZEW - 1
    BY <2>1, NextWordCounts
  <2>4. CASE ~SectorDone(g)
    BY <1>2, <2>1, <2>2, <2>4, WordPromised DEF read_data, Does, Bounded
  <2>5. CASE SectorDone(g) /\ g.m_nSectorCounter # 0
    <3> DEFINE r == readsector(g, FALSE, bad)
    <3>1. read_data(h, bad) = r
      BY <1>2, <2>5 DEF read_data
    <3> HIDE DEF g
    <3>2. r \in Drive
      BY <2>2, readsectorInv DEF DriveInv
    <3>3. g.m_nSectorCounter \in 1 .. Byte /\ g.m_nSectorCounter > 0
      BY <2>2, <2>5, Radix DEF Counting
    <3>4. Moved(r, g, "PIO_IN")
      BY <2>2, <3>3, readsectorMoved
    <3>5. Follows(g, h.at)
      BY <2>1, <2>2, <2>3, <3>3 DEF Good, Moving
    <3> HIDE DEF r
    <3> QED BY <1>2, <2>1, <2>2, <2>3, <2>5, <3>1, <3>2, <3>4, <3>5, SectorDoes
  <2>6. CASE SectorDone(g) /\ g.m_nSectorCounter = 0
    <3>1. read_data(h, bad) = command_ok(g)
      BY <1>2, <2>6 DEF read_data
    <3> HIDE DEF g
    <3>2. command_ok(g) \in Drive
      BY <2>2, OkInv DEF DriveInv
    <3> QED BY <2>1, <2>2, <2>3, <2>6, <3>1, <3>2, EndDoes
  <2> QED BY <2>4, <2>5, <2>6
<1> QED BY <1>1, <1>2

LEMMA WriteDataDoes ==
  ASSUME NEW h, DriveInv(h), Bounded(h), Aligned(h), NEW bad
  PROVE  Does(h, write_data(h, bad))
<1> DEFINE g == NextWord(h)
           f == write_file(g, bad)
<1>1. CASE h.m_nPhase # "PIO_OUT"
  BY <1>1, RefusedDoes DEF write_data
<1>2. CASE h.m_nPhase = "PIO_OUT"
  <2>1. h.m_nPhase \in Phases /\ h.m_nPhase \in {"PIO_IN", "PIO_OUT"}
    BY <1>2 DEF Phases
  <2>2. h \in Drive /\ g \in Running /\ g \in Drive /\ Good(g) /\ Counting(h) /\ Counting(g)
    BY <2>1, TransferGood, NextWordCounts
  <2>3. /\ g.m_nPhase = h.m_nPhase /\ g.at = h.at /\ g.m_nSectorCounter = h.m_nSectorCounter
        /\ SectorDone(g) => h.m_nSectIdx_Word = SECTOR_SIZEW - 1
    BY <2>1, NextWordCounts
  <2>4. CASE ~SectorDone(g)
    BY <1>2, <2>1, <2>2, <2>4, WordPromised DEF write_data, Does, Bounded
  <2>5. CASE SectorDone(g)
    <3>1. \/ f.m_nSectorCounter # 0 /\ write_data(h, bad) = writesector(f)
          \/ f.m_nSectorCounter = 0 /\ write_data(h, bad) = command_ok(f)
      BY <1>2, <2>5 DEF write_data
    <3> HIDE DEF g
    <3>2. f \in Running /\ f \in Drive
      BY <2>2, WriteFileInv DEF Running
    <3>3. SameAddress(f, g) /\ f.at = g.at /\ f.m_nSectorCounter = g.m_nSectorCounter
      BY <2>2 DEF write_file, Drive, SameAddress
    <3> HIDE DEF f
    <3>4. CASE f.m_nSectorCounter # 0
      <4> DEFINE r == writesector(f)
      <4>1. r \in Drive
        BY <3>2, writesectorInv DEF DriveInv
      <4>2. f.m_nSectorCounter \in 1 .. Byte /\ f.m_nSectorCounter > 0
        BY <2>2, <3>3, <3>4, Radix DEF Counting
      <4>3. Moved(r, f, "PIO_OUT")
        BY <3>2, <4>2, writesectorMoved
      <4>4. Follows(g, h.at)
        BY <2>1, <2>2, <2>3, <3>3, <4>2 DEF Good, Moving
      <4>5. Follows(f, h.at)
        BY <3>3, <4>4, SameAddressKeeps
      <4> HIDE DEF r
      <4>6. Does(h, r)
        BY <1>2, <2>1, <2>2, <2>3, <2>5, <3>2, <3>3, <3>4, <4>1, <4>3, <4>5, SectorDoes
      <4> QED BY <3>1, <3>4, <4>6 DEF r
    <3>5. CASE f.m_nSectorCounter = 0
      <4>1. command_ok(f) \in Drive
        BY <3>2, OkInv DEF DriveInv
      <4> QED BY <2>1, <2>2, <2>3, <2>5, <3>1, <3>2, <3>3, <3>5, <4>1, EndDoes
    <3> QED BY <3>4, <3>5
  <2> QED BY <2>4, <2>5
<1> QED BY <1>1, <1>2

-----------------------------------------------------------------------------
(* The other registers and the resets.                                      *)

\* A register is heard only by a drive that moves nothing.
LEMMA WrittenDoes ==
  ASSUME NEW h, DriveInv(h), Takes(h), NEW g \in Drive, g.m_nPhase = h.m_nPhase,
         g.m_nSectorCounter \in 0 .. Byte
  PROVE  Does(h, g)
<1>1. h \in Drive /\ h.m_nPhase \notin Phases
  BY DEF DriveInv, Asking, Takes, Phases
<1> QED BY <1>1, StartsPromised DEF Does, Bounded, Counting, Begins

LEMMA CountDoes ==
  ASSUME NEW h, DriveInv(h), Takes(h), NEW v \in 0 .. Byte - 1
  PROVE  Does(h, Counted(h, v))
<1> DEFINE c == IF v = 0 THEN Byte ELSE v
           g == [h EXCEPT !.count = v, !.m_nSectorCounter = c]
<1>1. c \in 0 .. Byte
  BY Radix
<1>2. g \in Drive
  BY CountInv DEF Counted, DriveInv
<1> HIDE DEF c
<1>3. g.m_nPhase = h.m_nPhase /\ g.m_nSectorCounter = c
  BY DEF DriveInv, Drive
<1> HIDE DEF g
<1>4. Does(h, g)
  BY <1>1, <1>2, <1>3, WrittenDoes
<1> QED BY <1>4 DEF g, c, Counted

LEMMA AddressDoes ==
  ASSUME NEW h, DriveInv(h), Bounded(h), Takes(h), NEW v \in 0 .. Byte - 1,
         NEW g, g \in {[h EXCEPT !.sector = v], [h EXCEPT !.cyl_lo = v],
                       [h EXCEPT !.cyl_hi = v]}
  PROVE  Does(h, g)
<1>1. g \in Drive
  <2>1. v \in 0 .. Ones
    BY Radix
  <2> QED BY <2>1 DEF DriveInv, Drive
<1>2. g.m_nPhase = h.m_nPhase /\ g.m_nSectorCounter = h.m_nSectorCounter
  BY DEF DriveInv, Drive
<1>3. h.m_nSectorCounter \in 0 .. Byte
  BY DEF Bounded, Counting, Takes
<1> QED BY <1>1, <1>2, <1>3, WrittenDoes

LEMMA SelectionDoes ==
  ASSUME NEW h, DriveInv(h), Bounded(h), Takes(h), NEW dev \in BOOLEAN,
         NEW lba \in BOOLEAN, NEW n \in 0 .. HeadByte - 1
  PROVE  Does(h, Selection(h, dev, lba, n))
<1>1. Selection(h, dev, lba, n) \in Drive
  BY SelectionInv DEF DriveInv
<1>2. /\ Selection(h, dev, lba, n).m_nPhase = h.m_nPhase
      /\ Selection(h, dev, lba, n).m_nSectorCounter = h.m_nSectorCounter
  BY DEF Selection, DriveInv, Drive
<1>3. h.m_nSectorCounter \in 0 .. Byte
  BY DEF Bounded, Counting, Takes
<1> QED BY <1>1, <1>2, <1>3, WrittenDoes

\* A silenced drive fails; any other shows the signature.
LEMMA ResetDoes ==
  ASSUME NEW h \in Drive
  PROVE  Does(h, reset(h))
<1>0. reset(h) \in Drive
  BY ResetInv DEF DriveInv
<1>1. CASE h.m_nPhase = "FAILURE"
  <2>1. "BSY" \in reset(h).status /\ reset(h).m_nPhase = "FAILURE"
    BY <1>1, UnsetInv DEF reset, DriveInv, Asking
  <2> QED BY <1>0, <2>1, ErrorPromised DEF Does, Bounded
<1>2. CASE h.m_nPhase # "FAILURE"
  <2> DEFINE g == reset_signature(h)
             f == reset(h)
  <2>1. g \in Drive /\ g.m_nSectorCounter = 1
    BY <1>2, SignatureType
  <2>2. g.error = {"AMNF"}
    BY <1>2 DEF reset_signature, Drive
  <2>3. f = [g EXCEPT !.m_nPhase = "READY", !.m_nSectIdx_Word = 0]
    BY <1>2 DEF reset
  <2> HIDE DEF g, f
  <2>4. /\ f.m_nPhase = "READY" /\ f.m_nSectIdx_Word = 0 /\ f.m_nSectorCounter = 1
        /\ f.error = {"AMNF"}
    BY <2>1, <2>2, <2>3 DEF Drive
  <2>5. f \in Drive
    BY <1>0 DEF f
  <2>6. Promised(Seen(h), Seen(f))
    BY <2>4, <2>5, ResetPromised
  <2>7. Bounded(f)
    BY <2>4, Radix DEF Bounded, Counting, Phases
  <2> QED BY <2>6, <2>7 DEF Does, f
<1> QED BY <1>1, <1>2

LEMMA FreshDoes ==
  ASSUME NEW h
  PROVE  Does(h, Fresh) /\ Bounded(Fresh)
<1>1. Fresh \in Drive
  BY FreshInv DEF DriveInv
<1>2. /\ Fresh.m_nPhase = "READY" /\ Fresh.m_nSectIdx_Word = 0
      /\ Fresh.m_nSectorCounter = 1 /\ Fresh.at = Service
  BY DEF Fresh
<1>3. Promised(Seen(h), Seen(Fresh))
  BY <1>1, <1>2, ResetPromised
<1> QED BY <1>2, <1>3, Radix DEF Does, Bounded, Counting, Phases

-----------------------------------------------------------------------------
(* Both drives.                                                             *)

AllBounded == \A d \in Attached : Bounded(drive[d])

LEMMA EachDoes ==
  ASSUME Careful, Each, AllAligned, AllBounded, Next, NEW d \in Attached,
         drive'[d] # drive[d]
  PROVE  Does(drive[d], drive'[d])
<1>1. /\ DriveInv(drive[d]) /\ Aligned(drive[d]) /\ Bounded(drive[d])
      /\ drive[d] \in Drive
  BY DEF Each, AllAligned, AllBounded, DriveInv
<1>2. ASSUME NEW v \in 0 .. Byte - 1,
             \/ WriteCount(v) \/ WriteSectorNumber(v)
             \/ WriteCylinderLow(v) \/ WriteCylinderHigh(v)
      PROVE  Does(drive[d], drive'[d])
  <2>1. Takes(drive[d])
    BY <1>2 DEF WriteCount, WriteSectorNumber, WriteCylinderLow, WriteCylinderHigh
  <2>2. \/ drive'[d] = Counted(drive[d], v)
        \/ drive'[d] \in {[drive[d] EXCEPT !.sector = v], [drive[d] EXCEPT !.cyl_lo = v],
                          [drive[d] EXCEPT !.cyl_hi = v]}
    BY <1>2, <2>1 DEF WriteCount, WriteSectorNumber, WriteCylinderLow, WriteCylinderHigh,
                      Counted
  <2>3. CASE drive'[d] = Counted(drive[d], v)
    BY <1>1, <2>1, <2>3, CountDoes
  <2>4. CASE drive'[d] \in {[drive[d] EXCEPT !.sector = v], [drive[d] EXCEPT !.cyl_lo = v],
                            [drive[d] EXCEPT !.cyl_hi = v]}
    BY <1>1, <2>1, <2>4, AddressDoes
  <2> QED BY <2>2, <2>3, <2>4
<1>3. ASSUME NEW b \in HeadBytes, WriteHead(b[1], b[2], b[3])
      PROVE  Does(drive[d], drive'[d])
  <2>1. Takes(drive[d]) /\ drive'[d] = Selection(drive[d], b[1], b[2], b[3])
    BY <1>3 DEF WriteHead, Selection
  <2>2. b[1] \in BOOLEAN /\ b[2] \in BOOLEAN /\ b[3] \in 0 .. HeadByte - 1
    BY HardDiskAssumption
  <2> QED BY <1>1, <2>1, <2>2, SelectionDoes
<1>4. ASSUME NEW cmd \in Commands, NEW bad, WriteCommand(cmd, bad)
      PROVE  Does(drive[d], drive'[d])
  <2>1. /\ Starts(d, cmd) /\ Takes(drive[d])
        /\ drive'[d] = execute_command(drive[d], cmd, bad)
    BY <1>4 DEF WriteCommand, Starts
  <2>2. cmd \in Moves => drive[d].m_nSectorCounter > 0
    BY <1>4, <2>1 DEF WriteCommand, Proper
  <2> QED BY <1>1, <2>1, <2>2, CommandDoes
<1>5. ASSUME NEW bad, ReadData(bad) \/ WriteData(bad) PROVE Does(drive[d], drive'[d])
  <2>1. drive'[d] = read_data(drive[d], bad) \/ drive'[d] = write_data(drive[d], bad)
    BY <1>5 DEF ReadData, WriteData
  <2> QED BY <1>1, <2>1, ReadDataDoes, WriteDataDoes
<1>6. ASSUME SoftReset \/ AttachDrives PROVE Does(drive[d], drive'[d])
  <2>1. drive'[d] = reset(drive[d]) \/ drive'[d] = Fresh
    BY <1>6 DEF SoftReset, AttachDrives
  <2> QED BY <1>1, <2>1, ResetDoes, FreshDoes
<1>7. Counts \cup Numbers \cup CylLows \cup CylHighs \subseteq 0 .. Byte - 1
  BY HardDiskAssumption
<1> QED BY <1>2, <1>3, <1>4, <1>5, <1>6, <1>7 DEF Next

\* What SectorTransfer sees of the drives.
Transferring == [d \in Attached |-> Seen(drive[d])]

LEMMA TransferStep ==
  ASSUME Careful, Each, AllAligned, AllBounded, Next, Each'
  PROVE  AllBounded' /\ Abstract!Next
<1>1. ASSUME NEW d \in Attached
      PROVE  Bounded(drive'[d]) /\ Promised(Seen(drive[d]), Seen(drive'[d]))
  <2>1. CASE drive'[d] = drive[d]
    BY <2>1 DEF AllBounded, Promised
  <2>2. CASE drive'[d] # drive[d]
    BY <2>2, EachDoes DEF Does
  <2> QED BY <2>1, <2>2
<1>2. AllBounded'
  BY <1>1 DEF AllBounded
<1>3. Transferring' \in [Attached -> Abstract!Transfer]
  <2>1. ASSUME NEW d \in Attached PROVE Seen(drive'[d]) \in Abstract!Transfer
    <3>1. drive'[d] \in Drive
      BY DEF Each, DriveInv
    <3> QED BY <3>1, SeenType
  <2>2. Transferring' = [d \in Attached |-> Seen(drive'[d])]
    BY DEF Transferring, Seen
  <2> QED BY <2>1, <2>2
<1>4. \A d \in Attached : Transferring[d] = Seen(drive[d]) /\ Transferring'[d] = Seen(drive'[d])
  BY DEF Transferring, Seen
<1>5. \A d \in Attached : Promised(Transferring[d], Transferring'[d])
  BY <1>1, <1>4
<1> QED BY <1>2, <1>3, <1>5 DEF Abstract!Next, Transferring, Promised

LEMMA TransferBegins == Init => Abstract!Init
<1>1. Seen(Fresh) = [state |-> "idle", sector |-> Service, word |-> 0, left |-> 1,
                     signature |-> FALSE]
  <2>1. State["READY"] = "idle" /\ ({} = {"AMNF"}) = FALSE
    BY DEF State
  <2> QED BY <2>1 DEF Seen, Fresh
<1> SUFFICES ASSUME Init PROVE Abstract!Init
  OBVIOUS
<1>2. [d \in Attached |-> Seen(drive[d])] = [d \in Attached |-> Seen(Fresh)]
  BY DEF Init
<1> QED BY <1>1, <1>2 DEF Abstract!Init

\* For every geometry, any failing accesses and any guest that writes the count
\* before each command that uses it up: the words that go through the data register
\* are those of whole sectors, one after the other on the disk, as many as the
\* command was given, and only an error or a reset ends them early (read_data and
\* write_data, HDD.cpp:480 and 336, with every handler that can come between).
THEOREM SectorsTransferred == Careful => (Spec => SectorTransferred)
<1> SUFFICES ASSUME Careful PROVE Spec => SectorTransferred
  OBVIOUS
<1> DEFINE IInv == Each /\ AllAligned /\ AllBounded
<1>1. Init => IInv /\ Abstract!Init
  BY InitEach, FreshAligned, FreshDoes, TransferBegins DEF Init, AllAligned, AllBounded
<1>2. IInv /\ [Next]_drive => IInv' /\ [Abstract!Next]_Transferring
  <2>1. ASSUME IInv, Next PROVE IInv' /\ Abstract!Next
    <3>1. Each'
      BY <2>1, NextEach
    <3> QED BY <2>1, <3>1, AlignedStep, TransferStep
  <2>2. ASSUME IInv, UNCHANGED drive PROVE IInv' /\ UNCHANGED Transferring
    <3>1. Each'
      BY <2>2, StepEach
    <3> QED BY <2>2, <3>1 DEF AllAligned, AllBounded, Transferring, Seen
  <2> QED BY <2>1, <2>2
<1> HIDE DEF IInv
<1> QED BY <1>1, <1>2, PTL DEF Spec, SectorTransferred, Abstract!Spec, Transferring
=============================================================================
