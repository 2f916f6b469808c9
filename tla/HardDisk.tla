------------------------------- MODULE HardDisk -------------------------------
(***************************************************************************)
(* The two ATA drives of SMK512 and SAMARA: CATA_IDE and CHDD in           *)
(* BK/devemu/HDD.cpp.  The guest writes the registers of both drives at    *)
(* once and each drive decides for itself whether it listens; a command    *)
(* runs to its end inside the write that starts it (THREADED_MODEL is 0),  *)
(* and the sectors then go word by word through the data register.         *)
(*                                                                         *)
(* Left out: features, control and 3F7, which nothing reads back into the  *)
(* drive, and m_bReadOnly, which is never set while an image is attached:  *)
(* the port's CFile opens every image for reading, whatever it is asked    *)
(* for, and refuses every write without an exception.  So write_file fails *)
(* only when it cannot seek, and no sector of the image ever changes.      *)
(***************************************************************************)
EXTENDS Integers

CONSTANTS
  Attached,                      \* the drives that have an image
  Cylinders, Heads, Sectors,     \* their geometry, of the service sector
  Byte, HeadByte,                \* 256 and 16: what a register and HEAD hold
  SECTOR_SIZEW,                  \* words in a sector
  Damage,                        \* what may be unreadable during one access
  Careful,                       \* the guest follows the protocol, see Proper
  Counts, Numbers, CylLows, CylHighs, HeadBytes  \* what it writes to 1F2 to 1F6

Drives  == {"master", "slave"}
Size    == Cylinders * Heads * Sectors
Service == -1                    \* the sector before the data, see DATA_OFFSET
Commands == {"NOP", "VERIFY", "SEEK", "FORMAT_TRACK", "DIAGNOSTICS", "READ",
             "WRITE", "INITIALIZE", "IDENTIFY", "unknown"}
Moves  == {"VERIFY", "SEEK", "READ", "WRITE"}
Status == {"BSY", "DRDY", "DWF", "DSC", "DRQ", "ERR"}
Errors == {"BBK", "UNC", "IDNF", "ABRT", "TK0NF", "AMNF"}
Ones   == Byte * Byte - 1        \* a register after unset

\* The geometry of a drive the registers can address.  configure() takes it from the
\* service sector of the image as it is there: heads beyond HeadByte and sectors
\* beyond Byte - 1 are not refused, and no command reaches them by CHS.
ASSUME HardDiskAssumption ==
  /\ Attached \subseteq Drives
  /\ Byte \in Nat \ {0, 1} /\ HeadByte \in 1 .. Byte
  /\ Sectors \in 1 .. Byte - 1 /\ Heads \in 1 .. HeadByte /\ Cylinders \in 1 .. Ones
  /\ SECTOR_SIZEW \in Nat \ {0}
  /\ Damage \subseteq SUBSET (Service .. Size - 1)
  /\ Careful \in BOOLEAN
  /\ Counts \cup Numbers \cup CylLows \cup CylHighs \subseteq 0 .. Byte - 1
  /\ HeadBytes \subseteq BOOLEAN \X BOOLEAN \X (0 .. HeadByte - 1)

VARIABLE drive   \* the drives' state

\* at is the sector that the buffer was read from, or is to be written to.
Drive == [m_nPhase : {"FAILURE", "READY", "PIO_OUT", "PIO_IN"},
          m_nSectIdx_Word : 0 .. SECTOR_SIZEW,
          m_nSectorCounter : Int,
          at : Service .. Size - 1,
          status : SUBSET Status, error : SUBSET Errors,
          count : 0 .. Ones, sector : 0 .. Ones, cyl_lo : 0 .. Ones,
          cyl_hi : 0 .. Ones,
          DEV : BOOLEAN, LBA : BOOLEAN, HEAD : 0 .. HeadByte - 1]

\* attach of an image and the hard reset after it.
Fresh == [m_nPhase |-> "READY", m_nSectIdx_Word |-> 0, m_nSectorCounter |-> 1,
          at |-> Service, status |-> {"DRDY", "DSC"}, error |-> {},
          count |-> 1, sector |-> 1, cyl_lo |-> 0, cyl_hi |-> 0,
          DEV |-> FALSE, LBA |-> FALSE, HEAD |-> 0]

Init == drive = [d \in Attached |-> Fresh]

command_ok(h) == [h EXCEPT !.m_nPhase = "READY", !.m_nSectIdx_Word = 0,
                           !.error = {}, !.status = {"DRDY", "DSC"}]

\* Mutant: a failed command leaves DRQ up.
FailedAsking(h, bits) == [h EXCEPT !.m_nPhase = "FAILURE", !.error = bits,
                                   !.status = @ \cup {"ERR"}]

Failed(h, bits) == [h EXCEPT !.m_nPhase = "FAILURE", !.error = bits,
                             !.status = (@ \cup {"ERR"}) \ {"DRQ"}]

(***************************************************************************)
(* The addressed sector, and the registers moved on to the next one.       *)
(***************************************************************************)
Cylinder(h) == h.cyl_hi * Byte + h.cyl_lo

\* The code keeps the place in the file, 512 bytes for each sector in an int, which
\* is too small from 2 GB on; the model is about smaller images.
SectorNumber(h) ==
  IF h.LBA THEN (h.HEAD * Byte * Byte + Cylinder(h)) * Byte + h.sector
  ELSE (Cylinder(h) * Heads + h.HEAD) * Sectors + h.sector - 1

Addressable(h) ==
  IF h.LBA THEN SectorNumber(h) < Size
  ELSE Cylinder(h) < Cylinders /\ h.HEAD < Heads /\ h.sector \in 1 .. Sectors

NextLBA(h) ==
  LET s  == (h.sector + 1) % Byte
      cl == IF s = 0 THEN (h.cyl_lo + 1) % Byte ELSE h.cyl_lo
      ch == IF s = 0 /\ cl = 0 THEN (h.cyl_hi + 1) % Byte ELSE h.cyl_hi
      n  == IF s = 0 /\ cl = 0 /\ ch = 0 THEN (h.HEAD + 1) % HeadByte ELSE h.HEAD
  IN  [h EXCEPT !.sector = s, !.cyl_lo = cl, !.cyl_hi = ch, !.HEAD = n]

\* Mutant: every track begins a cylinder.
NextCHSEachTrack(h) ==
  LET s  == (h.sector % Sectors) + 1
      n  == IF s = 1 THEN ((h.HEAD + 1) % HeadByte) % Heads ELSE h.HEAD
      cl == IF s = 1 THEN (h.cyl_lo + 1) % Byte ELSE h.cyl_lo
      ch == IF s = 1 /\ cl = 0 THEN (h.cyl_hi + 1) % Byte ELSE h.cyl_hi
  IN  [h EXCEPT !.sector = s, !.cyl_lo = cl, !.cyl_hi = ch, !.HEAD = n]

NextCHS(h) ==
  LET s  == (h.sector % Sectors) + 1
      n  == IF s = 1 THEN ((h.HEAD + 1) % HeadByte) % Heads ELSE h.HEAD
      cl == IF s = 1 /\ n = 0 THEN (h.cyl_lo + 1) % Byte ELSE h.cyl_lo
      ch == IF s = 1 /\ n = 0 /\ cl = 0 THEN (h.cyl_hi + 1) % Byte ELSE h.cyl_hi
  IN  [h EXCEPT !.sector = s, !.cyl_lo = cl, !.cyl_hi = ch, !.HEAD = n]

\* seek when the sector exists; DRQ falls with the last sector.
Sought(h) ==
  LET g == [h EXCEPT !.count = (@ - 1) % Byte, !.m_nSectorCounter = @ - 1]
  IN  IF g.m_nSectorCounter > 0
      THEN [(IF h.LBA THEN NextLBA(g) ELSE NextCHS(g)) EXCEPT !.status = @ \cup {"DSC"}]
      ELSE [g EXCEPT !.status = (@ \cup {"DSC"}) \ {"DRQ"}]

(***************************************************************************)
(* One sector.  bad is what the file cannot reach this time.               *)
(***************************************************************************)
readsector(h, verify, bad) ==
  IF ~Addressable(h) THEN Failed(h, {"ABRT", "IDNF"})
  ELSE IF SectorNumber(h) \in bad THEN Failed(Sought(h), {"ABRT", "AMNF", "UNC"})
  ELSE [Sought(h) EXCEPT !.m_nPhase = "PIO_IN", !.error = {}, !.m_nSectIdx_Word = 0,
                         !.at = SectorNumber(h),
                         !.status = IF verify THEN @ ELSE @ \cup {"DRQ"}]

writesector(h) ==
  IF ~Addressable(h) THEN Failed(h, {"ABRT", "IDNF"})
  ELSE [Sought(h) EXCEPT !.m_nPhase = "PIO_OUT", !.error = {}, !.m_nSectIdx_Word = 0,
                         !.at = SectorNumber(h), !.status = @ \cup {"DRQ"}]

\* write_file, and what write_data makes of its failure.
write_file(h, bad) ==
  IF h.at \notin bad THEN h
  ELSE [h EXCEPT !.status = @ \cup {"ERR", "DWF"}, !.error = {"ABRT", "AMNF"}]

\* The loop of read_verify_sector after n rounds; it runs at most once for each
\* sector that the counter holds.
VerifyOne(h, bad) ==
  IF h.m_nSectorCounter = 0 \/ "ERR" \in h.status THEN h ELSE readsector(h, TRUE, bad)

Verifying(h, bad) ==
  LET after[n \in 0 .. Byte] == IF n = 0 THEN h ELSE VerifyOne(after[n - 1], bad)
  IN  after

read_verify_sector(h, bad) ==
  IF h.m_nPhase # "READY" THEN Failed(h, {"ABRT", "IDNF"})
  ELSE [Verifying(h, bad)[Byte] EXCEPT !.m_nPhase = "READY", !.m_nSectIdx_Word = 0,
                                       !.error = {}]

\* Mutant: the working counter is not reset with the register.
identifydeviceCounting(h, bad) ==
  LET g == [h EXCEPT !.count = 0, !.m_nSectIdx_Word = 0]
  IN  IF Service \in bad
      THEN [g EXCEPT !.m_nPhase = "FAILURE", !.error = {"ABRT", "UNC"},
                     !.status = @ \cup {"ERR"}]
      ELSE [g EXCEPT !.m_nPhase = "PIO_IN", !.at = Service, !.sector = 1,
                     !.cyl_lo = 0, !.cyl_hi = 0, !.HEAD = 0, !.status = @ \cup {"DRQ"}]

identifydevice(h, bad) ==
  LET g == [h EXCEPT !.count = 0, !.m_nSectorCounter = 0, !.m_nSectIdx_Word = 0]
  IN  IF Service \in bad
      THEN [g EXCEPT !.m_nPhase = "FAILURE", !.error = {"ABRT", "UNC"},
                     !.status = @ \cup {"ERR"}]
      ELSE [g EXCEPT !.m_nPhase = "PIO_IN", !.at = Service, !.sector = 1,
                     !.cyl_lo = 0, !.cyl_hi = 0, !.HEAD = 0, !.status = @ \cup {"DRQ"}]

(***************************************************************************)
(* Resets.  A drive in the phase FAILURE does not take them: all its       *)
(* registers become ones, BSY and DRQ among them.                          *)
(***************************************************************************)
unset(h) == [h EXCEPT !.m_nPhase = "FAILURE", !.m_nSectorCounter = 0,
                      !.status = Status, !.error = Errors,
                      !.count = Ones, !.sector = Ones, !.cyl_lo = Ones,
                      !.cyl_hi = Ones, !.DEV = TRUE, !.LBA = TRUE,
                      !.HEAD = HeadByte - 1]

\* reset_signature(false)
reset_signature(h) ==
  IF h.m_nPhase = "FAILURE" THEN unset(h)
  ELSE [h EXCEPT !.m_nSectorCounter = 1, !.count = 1, !.sector = 1, !.error = {"AMNF"},
                 !.cyl_lo = 0, !.cyl_hi = 0, !.DEV = FALSE, !.LBA = FALSE, !.HEAD = 0,
                 !.status = {"DRDY"}]

\* reset(false)
reset(h) ==
  IF h.m_nPhase = "FAILURE" THEN unset(h)
  ELSE [reset_signature(h) EXCEPT !.m_nPhase = "READY", !.m_nSectIdx_Word = 0]

Ready(h) == [h EXCEPT !.status = @ \cup {"DSC", "DRDY"}]

execute_command(h0, cmd, bad) ==
  LET h == [h0 EXCEPT !.error = {}, !.status = {}]
  IN  CASE cmd = "NOP"          -> command_ok(h)
        [] cmd = "VERIFY"       -> Ready(read_verify_sector(h, bad))
        [] cmd = "SEEK"         -> IF Addressable(h) THEN command_ok(Sought(h))
                                   ELSE Ready(Failed(h, {"ABRT", "IDNF"}))
        [] cmd = "FORMAT_TRACK" -> [command_ok(h) EXCEPT !.status = @ \cup {"DRQ"}]
        [] cmd = "DIAGNOSTICS"  -> reset_signature(h)
        [] cmd = "READ"         -> Ready(readsector(h, FALSE, bad))
        [] cmd = "WRITE"        -> Ready(writesector(h))
        [] cmd = "INITIALIZE"   -> Ready(h)
        [] cmd = "IDENTIFY"     -> Ready(identifydevice(h, bad))
        [] cmd = "unknown"      -> [Ready(h) EXCEPT !.m_nPhase = "READY"]

(***************************************************************************)
(* The data register.                                                      *)
(***************************************************************************)
NextWord(h) == [h EXCEPT !.m_nSectIdx_Word = @ + 1]

\* Mutant: one word too many.
SectorDoneLate(h) == h.m_nSectIdx_Word > SECTOR_SIZEW

SectorDone(h) == h.m_nSectIdx_Word >= SECTOR_SIZEW

\* Mutant: the last sector is forgotten.
read_dataShort(h, bad) ==
  LET g == NextWord(h)
  IN  IF h.m_nPhase # "PIO_IN" THEN Failed(h, {"ABRT", "IDNF"})
      ELSE IF ~SectorDone(g) THEN g
      ELSE IF g.m_nSectorCounter > 1 THEN readsector(g, FALSE, bad)
      ELSE command_ok(g)

read_data(h, bad) ==
  LET g == NextWord(h)
  IN  IF h.m_nPhase # "PIO_IN" THEN Failed(h, {"ABRT", "IDNF"})
      ELSE IF ~SectorDone(g) THEN g
      ELSE IF g.m_nSectorCounter # 0 THEN readsector(g, FALSE, bad)
      ELSE command_ok(g)

write_data(h, bad) ==
  LET g == NextWord(h)
      f == write_file(g, bad)
  IN  IF h.m_nPhase # "PIO_OUT" THEN Failed(h, {"ABRT", "IDNF"})
      ELSE IF ~SectorDone(g) THEN g
      ELSE IF f.m_nSectorCounter # 0 THEN writesector(f)
      ELSE command_ok(f)

(***************************************************************************)
(* The guest's accesses, each seen by both drives.                         *)
(***************************************************************************)
Selected(d)    == drive[d].DEV = (d = "slave")
Dead(d)        == "BSY" \in drive[d].status
Takes(h)       == h.status \cap {"BSY", "DRQ"} = {}
Transfers(d)   == "DRQ" \in drive[d].status /\ ~Dead(d)

WriteCount(v) ==
  drive' = [d \in Attached |->
    IF Takes(drive[d])
    THEN [drive[d] EXCEPT !.count = v, !.m_nSectorCounter = IF v = 0 THEN Byte ELSE v]
    ELSE drive[d]]

WriteSectorNumber(v) ==
  drive' = [d \in Attached |->
    IF Takes(drive[d]) THEN [drive[d] EXCEPT !.sector = v] ELSE drive[d]]

WriteCylinderLow(v) ==
  drive' = [d \in Attached |->
    IF Takes(drive[d]) THEN [drive[d] EXCEPT !.cyl_lo = v] ELSE drive[d]]

WriteCylinderHigh(v) ==
  drive' = [d \in Attached |->
    IF Takes(drive[d]) THEN [drive[d] EXCEPT !.cyl_hi = v] ELSE drive[d]]

\* A drive in a transfer hears neither a selection nor a command, the other one
\* does: a careful guest waits for the end.
Quiet == Careful => \A d \in Attached : ~Transfers(d)

\* Mutant: only the selected drive hears the selection.
WriteHeadSelected(dev, lba, n) ==
  /\ Quiet
  /\ drive' = [d \in Attached |->
       IF Takes(drive[d]) /\ Selected(d)
       THEN [drive[d] EXCEPT !.DEV = dev, !.LBA = lba, !.HEAD = n]
       ELSE drive[d]]

WriteHead(dev, lba, n) ==
  /\ Quiet
  /\ drive' = [d \in Attached |->
       IF Takes(drive[d]) THEN [drive[d] EXCEPT !.DEV = dev, !.LBA = lba, !.HEAD = n]
       ELSE drive[d]]

Starts(d, cmd) == (Selected(d) \/ cmd = "DIAGNOSTICS") /\ Takes(drive[d])

\* A careful guest writes the count before each command that uses it up.  With
\* the counter below zero read_verify_sector never returns.
Proper(h, cmd) ==
  IF Careful THEN cmd \in Moves => h.m_nSectorCounter > 0
  ELSE cmd = "VERIFY" => h.m_nSectorCounter >= 0

WriteCommand(cmd, bad) ==
  /\ Quiet
  /\ \A d \in Attached : Starts(d, cmd) => Proper(drive[d], cmd)
  /\ drive' = [d \in Attached |->
       IF Starts(d, cmd) THEN execute_command(drive[d], cmd, bad) ELSE drive[d]]

SoftReset == drive' = [d \in Attached |-> reset(drive[d])]

Asks(d) == Selected(d) /\ "DRQ" \in drive[d].status

ReadData(bad) ==
  drive' = [d \in Attached |->
    IF Asks(d) THEN read_data(drive[d], bad) ELSE drive[d]]

WriteData(bad) ==
  drive' = [d \in Attached |->
    IF Asks(d) THEN write_data(drive[d], bad) ELSE drive[d]]

\* AttachDrives, at a reset of the machine.
AttachDrives == drive' = [d \in Attached |-> Fresh]

Next ==
  \/ \E v \in Counts : WriteCount(v)
  \/ \E v \in Numbers : WriteSectorNumber(v)
  \/ \E v \in CylLows : WriteCylinderLow(v)
  \/ \E v \in CylHighs : WriteCylinderHigh(v)
  \/ \E b \in HeadBytes : WriteHead(b[1], b[2], b[3])
  \/ \E cmd \in Commands, bad \in Damage : WriteCommand(cmd, bad)
  \/ \E bad \in Damage : ReadData(bad)
  \/ \E bad \in Damage : WriteData(bad)
  \/ SoftReset
  \/ AttachDrives

Spec == Init /\ [][Next]_drive

-----------------------------------------------------------------------------
\* The drives' state: each field within its register.
TypeOK == drive \in [Attached -> Drive]

\* HDD.h:182: the working counter of execute_command holds 1 to 256, and 0
\* when the sectors are used up.
CounterInRange == \A d \in Attached : drive[d].m_nSectorCounter \in 0 .. Byte

\* What the guest reads from 1F2 is what the drive still has to move: count and
\* m_nSectorCounter, which different handlers write, agree.
CountShowsCounter ==
  \A d \in Attached : Dead(d) \/ drive[d].count = drive[d].m_nSectorCounter % Byte

\* DRQ is up for as long as there are words to move, the next one of them lies
\* in the sector buffer, and nobody is asked for words by a drive whose command
\* failed.
RequestMeansTransfer ==
  \A d \in Attached :
    /\ drive[d].m_nPhase \in {"PIO_IN", "PIO_OUT"} =>
         Transfers(d) /\ drive[d].m_nSectIdx_Word < SECTOR_SIZEW
    /\ Transfers(d) => drive[d].m_nPhase # "FAILURE"

\* Between two sectors of one command the registers name the sector after the
\* one in the buffer, or no sector at all: what read_regs shows and where the
\* next readsector or writesector goes.
NextAddress ==
  \A d \in Attached :
    LET h == drive[d]
    IN  h.m_nPhase \in {"PIO_IN", "PIO_OUT"} /\ h.m_nSectorCounter > 0 =>
          IF h.at + 1 < Size THEN Addressable(h) /\ SectorNumber(h) = h.at + 1
          ELSE ~Addressable(h)

\* Both drives hear the same register 1F6, so at most one of them answers,
\* as long as neither is dead.
OneAnswers ==
  \A d, e \in Attached : Dead(d) \/ Dead(e) \/ drive[d].DEV = drive[e].DEV

\* read_data and write_data implement the promise of SectorTransfer.
State == [READY |-> "idle", FAILURE |-> "failed", PIO_IN |-> "in", PIO_OUT |-> "out"]
Seen(h) == [state |-> State[h.m_nPhase], sector |-> h.at, word |-> h.m_nSectIdx_Word,
            left |-> h.m_nSectorCounter, signature |-> h.error = {"AMNF"}]
Abstract == INSTANCE SectorTransfer WITH
  Drives <- Attached, First <- Service, Last <- Size - 1,
  SectorWords <- SECTOR_SIZEW, MaxCount <- Byte,
  transfer <- [d \in Attached |-> Seen(drive[d])]
SectorTransferred == Abstract!Spec
=============================================================================
