--------------------------- MODULE FloppyController ---------------------------
(***************************************************************************)
(* The floppy disk controller at 177130 and 177132: CFDDController in      *)
(* BK/devemu/FDDController.cpp with the rotating track of CFloppyDrive.     *)
(* The guest program writes commands and moves words through the data      *)
(* register; Periodic, called by the main loop at 15625 Hz, turns every    *)
(* disk by one word and reads or writes the word under the head.  Whoever  *)
(* is late loses a word.                                                   *)
(*                                                                         *)
(* A word is a 16-bit number.  CrcStep stands for the polynomial of        *)
(* add_crc_16.  Left out: RDY and INDEXMARK, which only the guest reads,   *)
(* changing a disk while the machine runs, and FlushChanges, whose writes  *)
(* the port's CFile, which opens images for reading only, refuses: a track *)
(* that is read again is the image's.                                      *)
(***************************************************************************)
EXTENDS Integers, Sequences

CONSTANTS
  Drives,        \* the drives that hold a disk
  Bare,          \* the drives without one
  Absent,        \* the drives that do not exist: on some boards there is no C and D
  MaxTrack,      \* the innermost track, 82 in the source
  TrackLen,      \* words on a track, 3125 in the source
  Image,         \* what PrepareTrack encodes: [Drives -> [track, side -> cells]]
  SectorSize,    \* bytes in a sector of each size type, m_nSectorSizes
  CrcStep(_, _), \* the checksum's step: an accumulator and a byte
  Commands,      \* the commands the guest writes to 177130,
  Words,         \* the words it writes to 177132,
  MaxWrites      \* and a bound on how many of them

Pos   == 0 .. TrackLen - 1
Byte  == 0 .. 255
Word  == 0 .. 65535
Cells == [word : [Pos -> Word], marker : [Pos -> BOOLEAN]]
Buffer == [track : 0 .. MaxTrack, side : {0, 1}, ptr : Pos, cells : Cells]
NoDrive == "none"

Command == [drive : Drives \cup Bare \cup Absent \cup {NoDrive}, engine : BOOLEAN,
            side : {0, 1}, step : BOOLEAN, inward : BOOLEAN,
            read : BOOLEAN, mark : BOOLEAN]

ASSUME FloppyAssumption ==
  /\ NoDrive \notin Drives \cup Bare \cup Absent
  /\ Drives \cap Bare = {} /\ (Drives \cup Bare) \cap Absent = {}
  /\ MaxTrack \in Nat
  /\ TrackLen \in Nat \ {0}
  /\ Image \in [Drives -> [(0 .. MaxTrack) \X {0, 1} -> Cells]]
  /\ SectorSize \in [0 .. 3 -> Nat \ {0}]
  /\ \A t \in 0 .. 3 : SectorSize[t] % 2 = 0
  /\ \A a \in Word, b \in Byte : CrcStep(a, b) \in Word
  /\ Commands \subseteq Command
  /\ Words \subseteq Word
  /\ MaxWrites \in Nat

VARIABLES
  m_drive, m_side, m_track,
  engine,                  \* the bit ENGINESTART of m_flags
  m_status,                \* the bits of m_status that are set
  m_bSearchSync, m_bSearchSyncTrigger,
  m_bWriteMode,
  m_datareg, m_shiftreg, m_writereg,
  m_shiftflag, m_writeflag,          \* the registers hold a word to be written
  m_shiftmarker, m_writemarker,      \* and it is a marker
  m_bCRCCalc,
  crc,                     \* the variables of ini_crc_16_rd
  buf,                     \* the track in the buffer of each drive, and m_nDataPtr
  blockAt,                 \* history: where the block begins that is read or written
  passed,                  \* history: how many words of it came after the marker
  untaken,                 \* history: the guest has not taken the word read last
  missed,                  \* history: words of the block it lost
  sealing,                 \* history: the shift register holds a checksum
  out,                     \* history: what was written to the disk last
  sealed,                  \* history: the blocks written, with their checksums
  writes                   \* history: how many words the guest has written

command == <<m_drive, m_side, m_track, engine>>
search  == <<m_bSearchSync, m_bSearchSyncTrigger>>
pipe    == <<m_shiftreg, m_writereg, m_shiftflag, m_writeflag>>
marks   == <<m_shiftmarker, m_writemarker>>
readH   == <<passed, untaken, missed>>
writeH  == <<sealing, out, sealed, writes>>
vars    == <<command, m_status, search, m_bWriteMode, m_datareg, pipe, marks,
             m_bCRCCalc, crc, buf, blockAt, readH, writeH>>

None     == -1   \* no position, and no word
Checksum == -2   \* a checksum, in place of a word of the guest's

\* The guest's words are stored low byte first, and read high byte first.
Hi(w)   == w \div 256
Lo(w)   == w % 256
Swap(w) == Lo(w) * 256 + Hi(w)

-----------------------------------------------------------------------------
(* ini_crc_16_rd, add_crc_16 and add_crc_16_rd.                             *)

DefaultSize == 2

Crc == [acc : Word, ok : BOOLEAN, a1 : Nat, cnt : Nat,
        size : 0 .. 3, header : BOOLEAN, marker : BOOLEAN]

IniCrc == [acc |-> 65535, ok |-> FALSE, a1 |-> 0, cnt |-> 0,
           size |-> DefaultSize, header |-> FALSE, marker |-> TRUE]

AddCrc(c, byte) == [c EXCEPT !.acc = CrcStep(@, byte)]

\* The bytes of the marker decide how many bytes the checksum covers.
AnalyseMarker(c, byte) ==
  IF ~c.marker THEN c
  ELSE IF byte = 161 THEN [c EXCEPT !.a1 = @ + 1, !.cnt = 1]
  ELSE IF c.a1 # 3 THEN [c EXCEPT !.marker = FALSE]
  ELSE [c EXCEPT !.a1 = 0, !.marker = FALSE, !.header = (byte = 254),
                 !.cnt = 1 + IF byte = 254 THEN 4
                             ELSE IF byte \in {251, 248} THEN SectorSize[c.size]
                             ELSE @]

\* The last byte of a header is the size type of its sector.
SizeOf(c, byte) ==
  IF c.header /\ c.cnt = 1
  THEN [c EXCEPT !.header = FALSE,
                 !.size = IF byte < 4 THEN byte ELSE DefaultSize]
  ELSE c

\* A mutant: the count is allowed to run out of bytes.
AddCrcRdOver(c, byte, word) ==
  LET a == AnalyseMarker(c, byte)
      b == AddCrc(SizeOf(a, byte), byte)
  IN IF a.cnt < 0 THEN a
     ELSE [b EXCEPT !.cnt = @ - 1,
                    !.ok = IF b.cnt = 1 THEN word = b.acc ELSE @]

AddCrcRd(c, byte, word) ==
  LET a == AnalyseMarker(c, byte)
      b == AddCrc(SizeOf(a, byte), byte)
  IN IF a.cnt <= 0 THEN a
     ELSE [b EXCEPT !.cnt = @ - 1,
                    !.ok = IF b.cnt = 1 THEN word = b.acc ELSE @]

AddWordRd(c, w, word) == AddCrcRd(AddCrcRd(c, Hi(w), word), Lo(w), word)

\* A mutant: the bytes in the order in which they are read.
AddWordWrSwapped(c, w) == AddCrc(AddCrc(c, Hi(w)), Lo(w))
AddWordWr(c, w)        == AddCrc(AddCrc(c, Lo(w)), Hi(w))

-----------------------------------------------------------------------------
(* The drives.                                                              *)

Loaded(d, track, side) ==
  [track |-> track, side |-> side, ptr |-> 0, cells |-> Image[d][track, side]]

PrepareTrack(d, track, side) ==
  IF buf[d].track = track /\ buf[d].side = side THEN buf[d]
  ELSE Loaded(d, track, side)

MovePtr(p) == IF p + 1 >= TrackLen THEN 0 ELSE p + 1

Turned == [d \in Drives |-> [buf[d] EXCEPT !.ptr = MovePtr(@)]]

\* The images have just been attached: AttachImage calls InitVariables, sets TRACK0
\* and puts track 0 into the buffer.
Init ==
  /\ m_drive = NoDrive /\ m_side = 0 /\ m_track = 0 /\ engine = FALSE
  /\ m_status = {"TRACK0"}
  /\ m_bSearchSync = TRUE /\ m_bSearchSyncTrigger = FALSE
  /\ m_bWriteMode = FALSE
  /\ m_datareg = 0 /\ m_shiftreg = 0 /\ m_writereg = 0
  /\ m_shiftflag = FALSE /\ m_writeflag = FALSE
  /\ m_shiftmarker = FALSE /\ m_writemarker = FALSE
  /\ m_bCRCCalc = FALSE /\ crc = IniCrc
  /\ buf = [d \in Drives |-> Loaded(d, 0, 0)]
  /\ passed = 0 /\ untaken = FALSE /\ missed = 0
  /\ sealing = FALSE /\ out = None /\ blockAt = None /\ sealed = {}
  /\ writes = 0

\* A reset of the board, which attaches the images again: a buffer that holds
\* track 0 is kept, and of ini_crc_16_rd only the accumulator is reset.
OnReset ==
  /\ m_drive' = NoDrive /\ m_side' = 0 /\ m_track' = 0 /\ engine' = FALSE
  /\ m_status' = {"TRACK0"}
  /\ m_bSearchSync' = TRUE /\ m_bSearchSyncTrigger' = FALSE
  /\ m_bWriteMode' = FALSE
  /\ m_datareg' = 0 /\ m_shiftreg' = 0 /\ m_writereg' = 0
  /\ m_shiftflag' = FALSE /\ m_writeflag' = FALSE
  /\ m_shiftmarker' = FALSE /\ m_writemarker' = FALSE
  /\ m_bCRCCalc' = FALSE /\ crc' = [crc EXCEPT !.acc = 65535]
  /\ buf' = [d \in Drives |-> PrepareTrack(d, 0, 0)]
  /\ sealing' = FALSE /\ blockAt' = None /\ sealed' = {}
  /\ UNCHANGED <<readH, out, writes>>

-----------------------------------------------------------------------------
(* The guest.                                                               *)

Cylinder(c) ==
  IF ~c.step THEN m_track
  ELSE IF c.inward THEN (IF m_track < MaxTrack THEN m_track + 1 ELSE m_track)
  ELSE (IF m_track >= 1 THEN m_track - 1 ELSE m_track)

Track0(c) ==
  IF ~c.step THEN m_status
  ELSE IF Cylinder(c) = 0 THEN m_status \cup {"TRACK0"} ELSE m_status \ {"TRACK0"}

\* The read bit went down: the controller is to look for a marker.
StartSearch(c) == ~c.read /\ m_bSearchSyncTrigger
MarkNext(c)    == m_bWriteMode /\ c.mark

\* Two mutants: the request that was up before the search is not taken back, and
\* neither is the verdict on the block before.
ClearedKeeps(c)   == Track0(c) \ {"CHECKSUMOK"}
ClearedKeepsOk(c) == Track0(c) \ {"MOREDATA"}
Cleared(c)        == Track0(c) \ {"CHECKSUMOK", "MOREDATA"}

\* Another track comes under the head, or none.
Moved(c) ==
  \/ c.drive # m_drive
  \/ c.drive \in Drives /\ (c.side # m_side \/ Cylinder(c) # m_track)

SetCommand(c) ==
  /\ m_drive' = c.drive /\ engine' = c.engine
  /\ IF c.drive \notin Drives \cup Bare
     THEN UNCHANGED <<m_side, m_track, m_status, search, m_writemarker, crc, buf>>
     ELSE /\ m_side' = c.side /\ m_track' = Cylinder(c)
          /\ buf' = IF Moved(c) /\ c.drive \in Drives
                    THEN [buf EXCEPT ![c.drive] = PrepareTrack(c.drive, Cylinder(c), c.side)]
                    ELSE buf
          /\ m_bSearchSyncTrigger' = c.read
          /\ m_bSearchSync' = (m_bSearchSync \/ StartSearch(c))
          /\ m_writemarker' = (m_writemarker \/ MarkNext(c))
          /\ IF StartSearch(c) \/ MarkNext(c)
             THEN m_status' = Cleared(c) /\ crc' = [crc EXCEPT !.ok = FALSE]
             ELSE m_status' = Track0(c) /\ UNCHANGED crc
  /\ sealed' = IF Moved(c) THEN {} ELSE sealed
  /\ blockAt' = IF Moved(c) \/ (StartSearch(c) /\ ~m_bWriteMode) THEN None ELSE blockAt
  /\ UNCHANGED <<m_bWriteMode, m_datareg, pipe, m_shiftmarker, m_bCRCCalc,
                 readH, sealing, out, writes>>

\* A read of 177130.  With the motor off the bits of the data stream go down.
GetState ==
  /\ m_drive \in Drives /\ ~engine
  /\ m_status' = m_status \ {"MOREDATA", "CHECKSUMOK"}
  /\ UNCHANGED <<command, search, m_bWriteMode, m_datareg, pipe, marks,
                 m_bCRCCalc, crc, buf, readH, sealing, out, sealed, writes>>
  /\ blockAt' = None

\* A read of 177132.
GetData ==
  /\ m_status' = m_status \ {"MOREDATA"}
  /\ m_bWriteMode' = FALSE /\ m_bSearchSync' = FALSE
  /\ m_writeflag' = FALSE /\ m_shiftflag' = FALSE
  /\ untaken' = FALSE /\ sealing' = FALSE
  /\ blockAt' = IF m_bWriteMode THEN None ELSE blockAt
  /\ UNCHANGED <<command, m_bSearchSyncTrigger, m_datareg, m_shiftreg, m_writereg,
                 marks, m_bCRCCalc, crc, buf, passed, missed, out, sealed, writes>>

\* A mutant: the controller asks although both registers are taken.
FullAsking == m_status
Full       == m_status \ {"MOREDATA"}

\* A write of 177132: a queue of two words in front of the head.
WriteData(w) ==
  /\ m_bWriteMode' = TRUE /\ m_bSearchSync' = FALSE
  /\ IF ~m_shiftflag
     THEN /\ m_shiftreg' = IF m_writeflag THEN m_writereg ELSE w
          /\ m_shiftflag' = TRUE
          /\ m_writereg' = IF m_writeflag THEN w ELSE m_writereg
          /\ UNCHANGED m_writeflag
          /\ m_status' = IF m_writeflag THEN Full ELSE m_status \cup {"MOREDATA"}
     ELSE /\ m_writereg' = w /\ m_writeflag' = TRUE
          /\ m_status' = IF m_writeflag THEN m_status ELSE Full
          /\ UNCHANGED <<m_shiftreg, m_shiftflag>>
  /\ writes < MaxWrites /\ writes' = writes + 1
  /\ blockAt' = IF m_bWriteMode THEN blockAt ELSE None
  /\ UNCHANGED <<command, m_bSearchSyncTrigger, m_datareg, marks, m_bCRCCalc, crc,
                 buf, readH, sealing, out, sealed>>

Guest ==
  \/ \E c \in Commands : SetCommand(c)
  \/ GetState \/ GetData
  \/ \E w \in Words : WriteData(w)

-----------------------------------------------------------------------------
(* What a block on the disk should be.                                      *)

Cyclic(at, n) == (at + n) % TrackLen

\* A block is framed by three bytes A1 and one that says what it is.
Framed(cells, at) ==
  LET kind == cells.word[Cyclic(at, 1)]
  IN cells.word[at] = 161 * 257 /\ Hi(kind) = 161 /\ Lo(kind) # 161

\* The words of the block that begins at a position, up to its checksum: a header,
\* a sector, or nothing but its frame.
BlockLen(cells, at) ==
  LET kind == Lo(cells.word[Cyclic(at, 1)])
  IN IF ~Framed(cells, at) THEN 0
     ELSE IF kind = 254 THEN 4
     ELSE IF kind \in {251, 248} THEN 2 + SectorSize[DefaultSize] \div 2 ELSE 2

\* The checksum of the n words from a position on.
CrcOf(cells, at, n) ==
  LET c[k \in 0 .. n] ==
        IF k = 0 THEN 65535
        ELSE LET w == cells.word[Cyclic(at, k - 1)]
             IN CrcStep(CrcStep(c[k - 1], Hi(w)), Lo(w))
  IN c[n]

Good(cells, at) ==
  LET n == BlockLen(cells, at)
  IN n > 0 /\ cells.word[Cyclic(at, n)] = CrcOf(cells, at, n)

\* A block whose words do not happen to be the checksums of the bytes A1 alone,
\* with which add_crc_16_rd compares them too.
Plain(cells, at) ==
  /\ Framed(cells, at)
  /\ cells.word[Cyclic(at, 1)] # CrcOf(cells, at, 1)
  /\ cells.word[Cyclic(at, 2)] # CrcStep(CrcOf(cells, at, 1), 161)

-----------------------------------------------------------------------------
(* Periodic.                                                                *)

Here == Turned[m_drive]
Announced == "MOREDATA" \in m_status
Found     == ~Announced /\ m_bSearchSync /\ Here.cells.marker[Here.ptr]

\* What the block that is being read looks like to the guest.
Follow ==
  LET len == BlockLen(Here.cells, blockAt) IN
  IF Found THEN blockAt' = Here.ptr /\ passed' = 0 /\ missed' = 0 /\ untaken' = TRUE
  ELSE IF blockAt = None THEN UNCHANGED <<blockAt, readH>>
  ELSE /\ passed' = IF passed > len THEN passed ELSE passed + 1
       /\ missed' = IF untaken /\ passed < len /\ missed < 2 THEN missed + 1 ELSE missed
       /\ untaken' = ("MOREDATA" \in m_status')
       /\ UNCHANGED blockAt

\* A mutant: the word just read is added to the checksum, not the one before.
NextCrcEarly(w) == IF m_bCRCCalc THEN AddWordRd(crc, w, w) ELSE crc
NextCrc(w)      == IF m_bCRCCalc THEN AddWordRd(crc, m_shiftreg, w) ELSE crc

\* The guest has not taken the word before: the checksum is judged.
ReadLate ==
  /\ Announced
  /\ m_datareg' = Here.cells.word[Here.ptr]
  /\ crc' = NextCrc(m_datareg')
  /\ m_bCRCCalc' = FALSE
  /\ m_status' = IF m_bCRCCalc /\ crc'.ok THEN m_status \cup {"CHECKSUMOK"}
                 ELSE m_status
  /\ UNCHANGED <<m_shiftreg, m_bSearchSync>>

ReadWord ==
  /\ ~Announced
  /\ m_datareg' = Here.cells.word[Here.ptr]
  /\ m_shiftreg' = m_datareg'
  /\ crc' = IF Found THEN IniCrc ELSE NextCrc(m_datareg')
  /\ m_bCRCCalc' = (Found \/ m_bCRCCalc)
  /\ m_status' = IF Found \/ ~m_bSearchSync THEN m_status \cup {"MOREDATA"}
                 ELSE m_status
  /\ m_bSearchSync' = (m_bSearchSync /\ ~Found)

Reading ==
  /\ m_drive \in Drives /\ ~m_bWriteMode
  /\ buf' = Turned
  /\ ReadLate \/ ReadWord
  /\ Follow
  /\ UNCHANGED <<command, m_bSearchSyncTrigger, m_bWriteMode, m_writereg,
                 m_shiftflag, m_writeflag, marks, sealing, out, sealed, writes>>

Counting == m_bCRCCalc \/ m_shiftmarker
Written  ==
  IF Counting THEN AddWordWr(IF m_shiftmarker THEN IniCrc ELSE crc, m_shiftreg)
  ELSE crc

\* A mutant: the checksum goes before a word that waits.
PulledLate == IF Counting THEN Swap(Written.acc)
              ELSE IF m_writeflag THEN m_writereg ELSE m_shiftreg
Pulled     == IF m_writeflag THEN m_writereg
              ELSE IF Counting THEN Swap(Written.acc) ELSE m_shiftreg

\* The shift register under the head.
Stamped == [Here EXCEPT !.cells.word[Here.ptr] = Swap(m_shiftreg),
                        !.cells.marker[Here.ptr] = m_shiftmarker]

\* The words of a block, its checksum included.
Within(b) == {Cyclic(b[1], n) : n \in 0 .. (b[2] - b[1] + TrackLen) % TrackLen}

\* The shift register goes to the disk and the write register follows it; when
\* the guest has nothing more, the checksum does.  A block that comes round to its
\* own beginning is none.
Writing ==
  /\ m_drive \in Drives /\ m_bWriteMode /\ m_shiftflag
  /\ buf' = [Turned EXCEPT ![m_drive] = Stamped]
  /\ crc' = Written
  /\ m_shiftreg' = Pulled
  /\ m_shiftflag' = (m_writeflag \/ Counting)
  /\ m_writeflag' = FALSE
  /\ m_shiftmarker' = (m_writeflag /\ m_writemarker)
  /\ m_writemarker' = (~m_writeflag /\ m_writemarker)
  /\ m_bCRCCalc' = (Counting /\ m_writeflag)
  /\ m_status' = m_status \cup (IF m_writeflag THEN {"MOREDATA"}
                                ELSE IF Counting THEN {"CHECKSUMOK"} ELSE {})
  /\ sealing' = (~m_writeflag /\ Counting)
  /\ out' = IF sealing THEN Checksum ELSE m_shiftreg
  /\ blockAt' = IF m_shiftmarker THEN Here.ptr
                ELSE IF sealing \/ Here.ptr = blockAt THEN None ELSE blockAt
  /\ sealed' = {b \in sealed : Here.ptr \notin Within(b)}
                 \cup IF sealing /\ blockAt \notin {None, Here.ptr}
                      THEN {<<blockAt, Here.ptr>>} ELSE {}
  /\ UNCHANGED <<command, search, m_bWriteMode, m_datareg, m_writereg, readH, writes>>

\* Nothing to write, or no disk under a head: the disks only turn.
Turning ==
  /\ m_drive \in Drives => m_bWriteMode /\ ~m_shiftflag
  /\ buf' = Turned
  /\ UNCHANGED <<command, m_status, search, m_bWriteMode, m_datareg, pipe, marks,
                 m_bCRCCalc, crc, readH, writeH, blockAt>>

Periodic == engine /\ (Reading \/ Writing \/ Turning)

Next == Guest \/ OnReset \/ Periodic

Spec == Init /\ [][Next]_vars

\* The main loop calls Periodic for as long as the machine runs.
FairSpec == Spec /\ WF_vars(Periodic)

-----------------------------------------------------------------------------
(* Properties.                                                              *)

\* Every variable stays in its range.
TypeOK ==
  /\ m_drive \in Drives \cup Bare \cup Absent \cup {NoDrive}
  /\ m_side \in {0, 1} /\ m_track \in 0 .. MaxTrack /\ engine \in BOOLEAN
  /\ m_status \subseteq {"TRACK0", "MOREDATA", "CHECKSUMOK"}
  /\ m_bSearchSync \in BOOLEAN /\ m_bSearchSyncTrigger \in BOOLEAN
  /\ m_bWriteMode \in BOOLEAN
  /\ m_datareg \in Word /\ m_shiftreg \in Word /\ m_writereg \in Word
  /\ m_shiftflag \in BOOLEAN /\ m_writeflag \in BOOLEAN
  /\ m_shiftmarker \in BOOLEAN /\ m_writemarker \in BOOLEAN
  /\ m_bCRCCalc \in BOOLEAN
  /\ crc \in Crc
  /\ buf \in [Drives -> Buffer]

\* While the controller asks the writing guest for a word there is room for it:
\* a guest that writes only when asked never overwrites a word.
RequestMeansRoom == m_bWriteMode /\ "MOREDATA" \in m_status => ~m_writeflag

\* The queue in front of the head, without a checksum that waits in it.
shifted == IF m_shiftflag /\ ~sealing THEN <<m_shiftreg>> ELSE <<>>
queue   == IF m_writeflag THEN Append(shifted, m_writereg) ELSE shifted

Q == INSTANCE FloppyWriteQueue WITH q <- queue

\* The two registers, their flags and Periodic implement the queue of words:
\* none is lost, doubled or written out of order, and a checksum follows only
\* when the queue has run dry.
WriteQueue == Q!Spec

\* Every block that was written and closed has on the disk the checksum of the
\* words that are on the disk, wherever on the track it lies.
SealedBlocksGood ==
  \A b \in sealed :
    LET cells == buf[m_drive].cells
        n     == (b[2] - b[1] + TrackLen) % TrackLen
    IN cells.word[b[2]] = CrcOf(cells, b[1], n)

ReadingBlock == m_drive \in Drives /\ ~m_bWriteMode /\ blockAt # None

\* With the checksum word under the head the verdict of add_crc_16_rd is that of
\* the block on the disk, whatever the disk holds, although it sees the bytes one
\* word late and guesses from the marker where the block ends.
VerdictRight ==
  ReadingBlock /\ m_bCRCCalc /\ passed = BlockLen(buf[m_drive].cells, blockAt)
    => (crc.ok <=> Good(buf[m_drive].cells, blockAt))

\* CHECKSUMOK comes after a plain block, never for a bad one, and never to a guest
\* that has lost more than the last word.
OkMeansGood ==
  ReadingBlock /\ "CHECKSUMOK" \in m_status /\ Plain(buf[m_drive].cells, blockAt) =>
    /\ Good(buf[m_drive].cells, blockAt)
    /\ passed >= BlockLen(buf[m_drive].cells, blockAt)
    /\ missed <= 1

\* What the comment on bit 14 says: it stands for a block read without an error.
OkMeansRead ==
  ReadingBlock /\ "CHECKSUMOK" \in m_status /\ Framed(buf[m_drive].cells, blockAt) =>
    /\ Good(buf[m_drive].cells, blockAt)
    /\ passed >= BlockLen(buf[m_drive].cells, blockAt)

\* What the comment on 177132 says of words that are not fetched in time: the
\* reading is not correct then, so bit 14 must not say it is.
OkMeansTaken == ReadingBlock /\ "CHECKSUMOK" \in m_status => missed = 0

OnlyPeriodic == <>[][Periodic]_vars

\* The guest asked for a marker, and there is one on the track that turns.
Seeking ==
  /\ m_bSearchSync /\ engine /\ m_drive \in Drives
  /\ \E p \in Pos : buf[m_drive].cells.marker[p]

\* Once the guest leaves the controller alone, a search does not last: it ends at
\* a marker, wherever the head was and whatever was going on when it began.
SearchEnds == OnlyPeriodic => []<>~(Seeking /\ ~m_bWriteMode)

\* What the comment on bit 8 says: when it goes down, the controller is ready to
\* look for a marker, whatever it did before.
SearchStarts == OnlyPeriodic => []<>~Seeking

=============================================================================
