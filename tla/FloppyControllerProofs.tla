------------------------ MODULE FloppyControllerProofs ------------------------
(***************************************************************************)
(* What holds of the floppy controller for every disk, track length,       *)
(* checksum and guest program: the type invariant, that a request means    *)
(* room, that the registers of the write side implement a queue, that the  *)
(* blocks written have the checksums of what is on the disk, and that the  *)
(* verdict on a block that is read is that of the words on the disk.       *)
(***************************************************************************)
EXTENDS FloppyController, SequenceTheorems, WellFoundedInduction, TLAPS

LEMMA WordBounds == ASSUME NEW v \in Int PROVE v \in Word <=> 0 <= v /\ v <= 65535
BY SMT DEF Word

\* The bytes of a word, and the word of a swapped pair.
LEMMA Bytes == \A w \in Word : Hi(w) \in Byte /\ Lo(w) \in Byte /\ Swap(w) \in Word
<1>1. \A v \in Int : v >= 0 /\ v <= 65535
        => v \div 256 \in Int /\ v \div 256 >= 0 /\ v \div 256 <= 255
  BY SMT
<1>2. \A h, l \in Byte : l * 256 + h \in Word
  <2> TAKE h, l \in Byte
  <2>1. h \in Int /\ l \in Int /\ h >= 0 /\ l >= 0 /\ h <= 255 /\ l <= 255
    BY SMT DEF Byte
  <2>2. l * 256 + h \in Int /\ l * 256 + h >= 0 /\ l * 256 + h <= 65535
    BY <2>1, SMT
  <2> QED BY <2>2, WordBounds, SMT
<1> TAKE w \in Word
<1>3. w \in Int /\ w >= 0 /\ w <= 65535
  BY SMT DEF Word
<1>4. w \div 256 \in Int /\ w \div 256 >= 0 /\ w \div 256 <= 255
  BY <1>1, <1>3
<1>5. w \div 256 \in Byte
  BY <1>4, SMT DEF Byte
<1>6. w % 256 \in Byte
  BY <1>3, SMT DEF Byte
<1> QED BY <1>2, <1>5, <1>6 DEF Hi, Lo, Swap

-----------------------------------------------------------------------------
(* The checksum procedures keep their variables in range.                   *)

LEMMA IniCrcType == IniCrc \in Crc
BY SMT DEF IniCrc, Crc, Word, DefaultSize

LEMMA AddCrcType == \A c \in Crc, b \in Byte : AddCrc(c, b) \in Crc
BY FloppyAssumption, SMT DEF AddCrc, Crc

LEMMA AnalyseMarkerType ==
  \A c \in Crc, b \in Byte : AnalyseMarker(c, b) \in Crc
<1> TAKE c \in Crc, b \in Byte
<1>1. SectorSize[c.size] \in Nat /\ c.cnt \in Nat /\ c.a1 \in Nat
  BY FloppyAssumption, SMT DEF Crc
<1>2. CASE ~c.marker
  BY <1>2 DEF AnalyseMarker
<1>3. CASE c.marker /\ b = 161
  <2>1. AnalyseMarker(c, b) = [c EXCEPT !.a1 = c.a1 + 1, !.cnt = 1]
    BY <1>3 DEF AnalyseMarker
  <2>2. c.a1 + 1 \in Nat /\ 1 \in Nat
    BY <1>1, SMT
  <2> QED BY <2>1, <2>2, Zenon DEF Crc
<1>4. CASE c.marker /\ b # 161 /\ c.a1 # 3
  BY <1>4, Zenon DEF AnalyseMarker, Crc
<1>5. CASE c.marker /\ b # 161 /\ c.a1 = 3
  <2> DEFINE n == 1 + IF b = 254 THEN 4
                      ELSE IF b \in {251, 248} THEN SectorSize[c.size] ELSE c.cnt
  <2>1. n \in Nat
    BY <1>1, SMT
  <2>2. AnalyseMarker(c, b)
          = [c EXCEPT !.a1 = 0, !.marker = FALSE, !.header = (b = 254), !.cnt = n]
    BY <1>5 DEF AnalyseMarker
  <2> HIDE DEF n
  <2>3. 0 \in Nat /\ (b = 254) \in BOOLEAN
    OBVIOUS
  <2> QED BY <2>1, <2>2, <2>3, ZenonT(60) DEF Crc
<1> QED BY <1>2, <1>3, <1>4, <1>5

LEMMA SizeOfType == \A c \in Crc, b \in Byte : SizeOf(c, b) \in Crc
<1> TAKE c \in Crc, b \in Byte
<1> DEFINE z == IF b < 4 THEN b ELSE DefaultSize
<1>1. z \in 0 .. 3
  BY SMT DEF Byte, DefaultSize
<1>2. SizeOf(c, b) = IF c.header /\ c.cnt = 1
                     THEN [c EXCEPT !.header = FALSE, !.size = z] ELSE c
  BY DEF SizeOf
<1> HIDE DEF z
<1> QED BY <1>1, <1>2, Zenon DEF Crc

LEMMA AddCrcRdType ==
  ASSUME NEW c \in Crc, NEW b \in Byte, NEW w \in Word
  PROVE  AddCrcRd(c, b, w) \in Crc
<1> DEFINE a == AnalyseMarker(c, b)
           s == SizeOf(a, b)
           d == AddCrc(s, b)
<1>1. a \in Crc
  BY AnalyseMarkerType
<1>2. s \in Crc
  BY <1>1, SizeOfType
<1>3. d \in Crc /\ d.cnt = a.cnt
  <2>1. d \in Crc
    BY <1>2, AddCrcType
  <2>2. s.cnt = a.cnt
    BY <1>1, SMT DEF SizeOf, Crc
  <2>3. d.cnt = s.cnt
    BY <1>2, SMT DEF AddCrc, Crc
  <2> QED BY <2>1, <2>2, <2>3
<1>4. AddCrcRd(c, b, w) = IF a.cnt <= 0 THEN a
                          ELSE [d EXCEPT !.cnt = @ - 1,
                                         !.ok = IF d.cnt = 1 THEN w = d.acc ELSE @]
  BY DEF AddCrcRd
<1> HIDE DEF a, s, d
<1>5. CASE a.cnt <= 0
  BY <1>1, <1>4, <1>5
<1>6. CASE ~(a.cnt <= 0)
  <2>1. d.cnt - 1 \in Nat
    BY <1>1, <1>3, <1>6, SMT DEF Crc
  <2>2. (IF d.cnt = 1 THEN w = d.acc ELSE d.ok) \in BOOLEAN
    BY <1>3, Zenon DEF Crc
  <2> DEFINE n == d.cnt - 1
             k == IF d.cnt = 1 THEN w = d.acc ELSE d.ok
  <2>3. AddCrcRd(c, b, w) = [d EXCEPT !.cnt = n, !.ok = k]
    BY <1>4, <1>6
  <2>4. n \in Nat /\ k \in BOOLEAN
    BY <2>1, <2>2
  <2> HIDE DEF n, k
  <2> QED BY <1>3, <2>3, <2>4, Zenon DEF Crc
<1> QED BY <1>5, <1>6

LEMMA AddWordRdType ==
  ASSUME NEW c \in Crc, NEW v \in Word, NEW w \in Word
  PROVE  AddWordRd(c, v, w) \in Crc
<1>1. Hi(v) \in Byte /\ Lo(v) \in Byte
  BY Bytes
<1>2. AddCrcRd(c, Hi(v), w) \in Crc
  BY <1>1, AddCrcRdType
<1> QED BY <1>1, <1>2, AddCrcRdType DEF AddWordRd

LEMMA AddWordWrType == \A c \in Crc, v \in Word : AddWordWr(c, v) \in Crc
<1> TAKE c \in Crc, v \in Word
<1>1. Hi(v) \in Byte /\ Lo(v) \in Byte
  BY Bytes
<1>2. AddCrc(c, Lo(v)) \in Crc
  BY <1>1, AddCrcType
<1> QED BY <1>1, <1>2, AddCrcType DEF AddWordWr

-----------------------------------------------------------------------------
(* The drives.                                                              *)

LEMMA LoadedType ==
  ASSUME NEW d \in Drives, NEW t \in 0 .. MaxTrack, NEW s \in {0, 1}
  PROVE  Loaded(d, t, s) \in Buffer
<1>1. Image[d][t, s] \in Cells
  <2>1. Image \in [Drives -> [(0 .. MaxTrack) \X {0, 1} -> Cells]]
    BY FloppyAssumption
  <2>2. <<t, s>> \in (0 .. MaxTrack) \X {0, 1}
    OBVIOUS
  <2> QED BY <2>1, <2>2, Zenon
<1>2. 0 \in Pos
  BY FloppyAssumption, SMT DEF Pos
<1> QED BY <1>1, <1>2, Zenon DEF Loaded, Buffer

LEMMA PrepareTrackType ==
  ASSUME buf \in [Drives -> Buffer],
         NEW d \in Drives, NEW t \in 0 .. MaxTrack, NEW s \in {0, 1}
  PROVE  PrepareTrack(d, t, s) \in Buffer
BY LoadedType, Zenon DEF PrepareTrack

LEMMA MovePtrType == \A p \in Pos : MovePtr(p) \in Pos
BY FloppyAssumption, SMT DEF MovePtr, Pos

LEMMA TurnedType ==
  ASSUME buf \in [Drives -> Buffer] PROVE Turned \in [Drives -> Buffer]
<1>1. \A d \in Drives : buf[d].ptr \in Pos
  BY Zenon DEF Buffer
<1>2. \A d \in Drives : [buf[d] EXCEPT !.ptr = MovePtr(buf[d].ptr)] \in Buffer
  BY <1>1, MovePtrType, Zenon DEF Buffer
<1> QED BY <1>2, Zenon DEF Turned

\* A word written at the head of a disk.
LEMMA WriteType ==
  ASSUME NEW b \in Buffer, NEW w \in Word, NEW k \in BOOLEAN
  PROVE  [b EXCEPT !.cells.word[b.ptr] = w, !.cells.marker[b.ptr] = k] \in Buffer
<1>1. b.cells \in Cells /\ b.ptr \in Pos
  BY Zenon DEF Buffer
<1>2. [b.cells.word EXCEPT ![b.ptr] = w] \in [Pos -> Word]
  BY <1>1, Zenon DEF Cells
<1>3. [b.cells.marker EXCEPT ![b.ptr] = k] \in [Pos -> BOOLEAN]
  BY <1>1, Zenon DEF Cells
<1> QED BY <1>1, <1>2, <1>3, Zenon DEF Buffer, Cells

LEMMA CylinderType ==
  ASSUME m_track \in 0 .. MaxTrack, NEW c \in Command
  PROVE  Cylinder(c) \in 0 .. MaxTrack
BY FloppyAssumption, SMT DEF Cylinder

-----------------------------------------------------------------------------
(* The type invariant.                                                      *)

LEMMA TypeInit == Init => TypeOK
<1> HAVE Init
<1>1. 0 \in Word /\ 0 \in 0 .. MaxTrack
  BY FloppyAssumption, WordBounds, SMT
<1>2. crc \in Crc
  BY IniCrcType DEF Init
<1>3. \A d \in Drives : Loaded(d, 0, 0) \in Buffer
  BY <1>1, LoadedType
<1>4. buf \in [Drives -> Buffer]
  BY <1>3, Zenon DEF Init
<1> QED BY <1>1, <1>2, <1>4, Zenon DEF Init, TypeOK

\* What the guest writes to the command register.
LEMMA TypeSetCommand ==
  ASSUME TypeOK, NEW c \in Commands, SetCommand(c) PROVE TypeOK'
<1>1. c \in Command
  BY FloppyAssumption
<1>2. c.drive \in Drives \cup Bare \cup Absent \cup {NoDrive} /\ c.engine \in BOOLEAN
        /\ c.side \in {0, 1} /\ c.read \in BOOLEAN
  BY <1>1, Zenon DEF Command
<1>3. Cylinder(c) \in 0 .. MaxTrack
  BY <1>1, CylinderType DEF TypeOK
<1>4. Track0(c) \subseteq {"TRACK0", "MOREDATA", "CHECKSUMOK"}
  BY Zenon DEF Track0, TypeOK
<1>5. CASE c.drive \notin Drives \cup Bare
  BY <1>2, <1>5, Zenon DEF SetCommand, TypeOK, command, search, pipe, readH
<1>6. CASE c.drive \in Drives \cup Bare
  <2>1. m_side' \in {0, 1} /\ m_track' \in 0 .. MaxTrack
    BY <1>2, <1>3, <1>6, Zenon DEF SetCommand
  <2>2. buf' \in [Drives -> Buffer]
    <3>1. c.drive \in Drives => PrepareTrack(c.drive, Cylinder(c), c.side) \in Buffer
      BY <1>2, <1>3, PrepareTrackType DEF TypeOK
    <3> QED BY <1>6, <3>1, Zenon DEF SetCommand, TypeOK
  <2>3. m_bSearchSync' \in BOOLEAN /\ m_bSearchSyncTrigger' \in BOOLEAN
          /\ m_writemarker' \in BOOLEAN
    BY <1>2, <1>6, Zenon DEF SetCommand
  <2>4. m_status' \subseteq {"TRACK0", "MOREDATA", "CHECKSUMOK"}
    BY <1>4, <1>6, Zenon DEF SetCommand, Cleared
  <2>5. crc' \in Crc
    BY <1>6, Zenon DEF SetCommand, TypeOK, Crc
  <2>6. m_drive' \in Drives \cup Bare \cup Absent \cup {NoDrive} /\ engine' \in BOOLEAN
    BY <1>2, Zenon DEF SetCommand
  <2> QED BY <2>1, <2>2, <2>3, <2>4, <2>5, <2>6, Zenon DEF SetCommand, TypeOK, pipe
<1> QED BY <1>5, <1>6

LEMMA TypeGuestData ==
  ASSUME TypeOK, GetState \/ GetData \/ \E w \in Words : WriteData(w)
  PROVE  TypeOK'
<1>1. CASE GetState
  BY <1>1, Zenon DEF GetState, TypeOK, command, search, pipe, marks
<1>2. CASE GetData
  BY <1>2, Zenon DEF GetData, TypeOK, command, marks
<1>3. ASSUME NEW w \in Words, WriteData(w) PROVE TypeOK'
  <2>1. w \in Word
    BY FloppyAssumption
  <2>2. m_shiftreg' \in Word /\ m_writereg' \in Word
          /\ m_shiftflag' \in BOOLEAN /\ m_writeflag' \in BOOLEAN
    BY <1>3, <2>1, Zenon DEF WriteData, TypeOK
  <2>3. m_status' \subseteq {"TRACK0", "MOREDATA", "CHECKSUMOK"}
    BY <1>3, Zenon DEF WriteData, Full, TypeOK
  <2> QED BY <1>3, <2>2, <2>3, Zenon DEF WriteData, TypeOK, command, marks
<1> QED BY <1>1, <1>2, <1>3

\* One word of every disk goes by.
LEMMA TypePeriodic == ASSUME TypeOK, Periodic PROVE TypeOK'
<1>1. Turned \in [Drives -> Buffer]
  BY TurnedType DEF TypeOK
<1>2. CASE Reading
  <2>1. m_drive \in Drives /\ Here \in Buffer
    BY <1>1, <1>2, Zenon DEF Reading, Here
  <2>2. Here.cells.word[Here.ptr] \in Word
    BY <2>1, Zenon DEF Buffer, Cells
  <2>3. m_datareg' \in Word
    BY <1>2, <2>2, Zenon DEF Reading, ReadLate, ReadWord
  <2>4. NextCrc(m_datareg') \in Crc
    BY <2>3, AddWordRdType DEF NextCrc, TypeOK
  <2>5. CASE ReadLate
    BY <1>1, <1>2, <2>3, <2>4, <2>5, Zenon DEF Reading, ReadLate, TypeOK, command, marks
  <2>6. CASE ReadWord
    <3>1. crc' \in Crc
      BY <2>4, <2>6, IniCrcType, Zenon DEF ReadWord
    <3>2. m_bCRCCalc' \in BOOLEAN /\ m_bSearchSync' \in BOOLEAN
      BY <2>6, Zenon DEF ReadWord
    <3>3. m_status' \subseteq {"TRACK0", "MOREDATA", "CHECKSUMOK"}
      BY <2>6, Zenon DEF ReadWord, TypeOK
    <3>4. m_shiftreg' \in Word
      BY <2>3, <2>6, Zenon DEF ReadWord
    <3> QED BY <1>1, <1>2, <2>3, <3>1, <3>2, <3>3, <3>4, Zenon
            DEF Reading, TypeOK, command, marks
  <2> QED BY <1>2, <2>5, <2>6 DEF Reading
<1>3. CASE Writing
  <2>1. m_drive \in Drives /\ Here \in Buffer /\ Swap(m_shiftreg) \in Word
    BY <1>1, <1>3, Bytes, Zenon DEF Writing, Here, TypeOK
  <2>2. buf' \in [Drives -> Buffer]
    <3>1. Stamped \in Buffer
      BY <2>1, WriteType DEF TypeOK, Stamped
    <3> QED BY <1>1, <1>3, <2>1, <3>1, Zenon DEF Writing
  <2>3. Written \in Crc
    <3>1. (IF m_shiftmarker THEN IniCrc ELSE crc) \in Crc
      BY IniCrcType, Zenon DEF TypeOK
    <3> QED BY <3>1, AddWordWrType, Zenon DEF Written, TypeOK
  <2>4. m_shiftreg' \in Word
    <3>1. Swap(Written.acc) \in Word
      BY <2>3, Bytes, Zenon DEF Crc
    <3> QED BY <1>3, <3>1, Zenon DEF Writing, Pulled, TypeOK
  <2>5. m_status' \subseteq {"TRACK0", "MOREDATA", "CHECKSUMOK"}
    BY <1>3, Zenon DEF Writing, TypeOK
  <2>6. m_shiftflag' \in BOOLEAN /\ m_writeflag' \in BOOLEAN /\ m_shiftmarker' \in BOOLEAN
          /\ m_writemarker' \in BOOLEAN /\ m_bCRCCalc' \in BOOLEAN /\ crc' \in Crc
    BY <1>3, <2>3, Zenon DEF Writing, TypeOK, Counting
  <2> QED BY <1>3, <2>2, <2>4, <2>5, <2>6, Zenon DEF Writing, TypeOK, command, search
<1>4. CASE Turning
  BY <1>1, <1>4, Zenon DEF Turning, TypeOK, command, search, pipe, marks
<1> QED BY <1>2, <1>3, <1>4 DEF Periodic

LEMMA TypeReset == ASSUME TypeOK, OnReset PROVE TypeOK'
<1>1. 0 \in Word /\ 65535 \in Word /\ 0 \in 0 .. MaxTrack
  BY FloppyAssumption, WordBounds, SMT
<1>2. crc' \in Crc
  <2>1. crc \in Crc /\ crc' = [crc EXCEPT !.acc = 65535]
    BY DEF OnReset, TypeOK
  <2> QED BY <1>1, <2>1 DEF Crc
<1>3. ASSUME NEW d \in Drives PROVE PrepareTrack(d, 0, 0) \in Buffer
  <2>1. buf \in [Drives -> Buffer] /\ 0 \in {0, 1}
    BY DEF TypeOK
  <2> QED BY <1>1, <2>1, PrepareTrackType
<1>4. buf' = [d \in Drives |-> PrepareTrack(d, 0, 0)]
  BY DEF OnReset
<1>5. buf' \in [Drives -> Buffer]
  BY <1>3, <1>4
<1>6. /\ m_drive' \in Drives \cup Bare \cup Absent \cup {NoDrive}
      /\ m_side' \in {0, 1} /\ m_track' \in 0 .. MaxTrack
      /\ m_status' \subseteq {"TRACK0", "MOREDATA", "CHECKSUMOK"}
      /\ m_datareg' \in Word /\ m_shiftreg' \in Word /\ m_writereg' \in Word
  BY <1>1 DEF OnReset
<1>7. /\ engine' = FALSE /\ m_bSearchSync' = TRUE /\ m_bSearchSyncTrigger' = FALSE
      /\ m_bWriteMode' = FALSE /\ m_shiftflag' = FALSE /\ m_writeflag' = FALSE
      /\ m_shiftmarker' = FALSE /\ m_writemarker' = FALSE /\ m_bCRCCalc' = FALSE
  BY DEF OnReset
<1>8. /\ engine' \in BOOLEAN /\ m_bSearchSync' \in BOOLEAN
      /\ m_bSearchSyncTrigger' \in BOOLEAN /\ m_bWriteMode' \in BOOLEAN
      /\ m_shiftflag' \in BOOLEAN /\ m_writeflag' \in BOOLEAN
      /\ m_shiftmarker' \in BOOLEAN /\ m_writemarker' \in BOOLEAN
      /\ m_bCRCCalc' \in BOOLEAN
  BY <1>7
<1> QED BY <1>2, <1>5, <1>6, <1>8 DEF TypeOK

LEMMA TypeNext == TypeOK /\ [Next]_vars => TypeOK'
<1>1. ASSUME TypeOK, UNCHANGED vars PROVE TypeOK'
  BY <1>1, Zenon DEF TypeOK, vars, command, search, pipe, marks
<1> QED BY <1>1, TypeSetCommand, TypeGuestData, TypePeriodic, TypeReset DEF Next, Guest

\* Every variable of the controller keeps its range, whatever the disk holds and
\* the guest does: registers stay words, the head stays on the track, the
\* counters of the checksum never run below zero.
THEOREM FloppyTypeCorrect == Spec => []TypeOK
BY TypeInit, TypeNext, PTL DEF Spec

-----------------------------------------------------------------------------
(* The write side.                                                          *)

\* In read mode the registers hold nothing to be written; the write register is
\* filled behind the shift register; a checksum waits in the shift register, not
\* as a marker, and nothing is counted behind it.
RegistersInv ==
  /\ ~m_bWriteMode => ~m_shiftflag /\ ~sealing
  /\ m_writeflag => m_shiftflag
  /\ sealing => m_shiftflag /\ ~m_bCRCCalc /\ ~m_shiftmarker

WriteInv == TypeOK /\ RegistersInv /\ RequestMeansRoom

LEMMA WriteInvInit == Init => WriteInv
BY TypeInit, Zenon DEF WriteInv, RegistersInv, RequestMeansRoom, Init

LEMMA RegistersNext == WriteInv /\ [Next]_vars => RegistersInv' /\ RequestMeansRoom'
<1> SUFFICES ASSUME TypeOK, RegistersInv, RequestMeansRoom, [Next]_vars
             PROVE  RegistersInv' /\ RequestMeansRoom'
  BY DEF WriteInv
<1> USE DEF RegistersInv, RequestMeansRoom
<1>1. ASSUME NEW c \in Commands, SetCommand(c)
      PROVE  RegistersInv' /\ RequestMeansRoom'
  <2>1. "MOREDATA" \in m_status' => "MOREDATA" \in m_status
    <3>1. "MOREDATA" \in Track0(c) => "MOREDATA" \in m_status
      BY SMT DEF Track0
    <3>2. m_status' \in {m_status, Track0(c), Cleared(c)}
      BY <1>1, Zenon DEF SetCommand
    <3> QED BY <3>1, <3>2, Zenon DEF Cleared
  <2> QED BY <1>1, <2>1, Zenon DEF SetCommand, pipe
<1>2. CASE GetState
  BY <1>2, Zenon DEF GetState, pipe, marks
<1>3. CASE GetData
  BY <1>3, Zenon DEF GetData, marks
<1>4. ASSUME NEW w \in Words, WriteData(w)
      PROVE  RegistersInv' /\ RequestMeansRoom'
  <2>1. CASE m_shiftflag
    BY <1>4, <2>1, Zenon DEF WriteData, Full, marks, TypeOK
  <2>2. CASE ~m_shiftflag
    BY <1>4, <2>2, Zenon DEF WriteData, Full, marks, TypeOK
  <2> QED BY <2>1, <2>2
<1>5. CASE Reading
  BY <1>5, Zenon DEF Reading, marks
<1>6. CASE Writing
  BY <1>6, Zenon DEF Writing, Counting, TypeOK
<1>7. CASE Turning
  BY <1>7, Zenon DEF Turning, pipe, marks, writeH
<1>8. CASE UNCHANGED vars
  BY <1>8, Zenon DEF vars, pipe, marks, writeH
<1>9. CASE OnReset
  BY <1>9 DEF OnReset
<1> QED BY <1>1, <1>2, <1>3, <1>4, <1>5, <1>6, <1>7, <1>8, <1>9 DEF Next, Guest, Periodic

\* Whenever the controller, in write mode, asks for a word, there is a register
\* free for it, so a guest that writes only when asked never overwrites a word.
THEOREM RequestRoom == Spec => []RequestMeansRoom
<1>1. WriteInv /\ [Next]_vars => WriteInv'
  BY TypeNext, RegistersNext DEF WriteInv
<1>2. WriteInv => RequestMeansRoom
  BY DEF WriteInv
<1> QED BY WriteInvInit, <1>1, <1>2, PTL DEF Spec

-----------------------------------------------------------------------------
(* The registers are a queue.                                               *)

LEMMA Pair == ASSUME NEW a, NEW b PROVE Append(<<a>>, b) = <<a, b>>
<1> DEFINE S == {a, b}
           s == Append(<<a>>, b)
           t == <<a, b>>
<1>1. <<a>> \in Seq(S) /\ t \in Seq(S) /\ b \in S
  BY SMT
<1>2. Len(<<a>>) = 1 /\ <<a>>[1] = a /\ Len(t) = 2 /\ t[1] = a /\ t[2] = b
  BY SMT
<1> HIDE DEF S, t
<1>3. s \in Seq(S) /\ Len(s) = 2 /\ s[1] = a /\ s[2] = b
  BY <1>1, <1>2, SMT
<1> HIDE DEF s
<1>4. \A i \in 1 .. Len(s) : s[i] = t[i]
  BY <1>2, <1>3, SMT
<1>5. s = t
  BY <1>1, <1>2, <1>3, <1>4, SeqEqual, Zenon
<1> QED BY <1>5 DEF s, t

LEMMA Sequences ==
  ASSUME NEW a, NEW b, NEW c
  PROVE  /\ Append(<<>>, a) = <<a>>
         /\ Head(<<a>>) = a /\ Tail(<<a>>) = <<>> /\ <<a>> # <<>>
         /\ Head(<<a, b>>) = a /\ Tail(<<a, b>>) = <<b>> /\ <<a, b>> # <<>>
         /\ Len(<<>>) = 0 /\ Len(<<a>>) = 1 /\ Len(<<a, b>>) = 2
         /\ [<<a>> EXCEPT ![1] = c] = <<c>> /\ [<<a, b>> EXCEPT ![2] = c] = <<a, c>>
BY SMT

\* The queue in each state of the two registers.
LEMMA QueueCases ==
  ASSUME RegistersInv, TypeOK
  PROVE  /\ ~m_shiftflag => queue = <<>> /\ ~sealing
         /\ m_shiftflag /\ ~m_writeflag =>
              queue = IF sealing THEN <<>> ELSE <<m_shiftreg>>
         /\ m_shiftflag /\ m_writeflag =>
              queue = IF sealing THEN <<m_writereg>> ELSE <<m_shiftreg, m_writereg>>
<1>1. shifted = IF m_shiftflag /\ ~sealing THEN <<m_shiftreg>> ELSE <<>>
  BY DEF shifted
<1>2. CASE ~m_shiftflag
  BY <1>1, <1>2, Zenon DEF queue, RegistersInv
<1>3. CASE m_shiftflag /\ ~m_writeflag
  BY <1>1, <1>3, Zenon DEF queue
<1>4. CASE m_shiftflag /\ m_writeflag
  <2>1. CASE sealing
    BY <1>1, <1>4, <2>1, Sequences, Zenon DEF queue
  <2>2. CASE ~sealing
    BY <1>1, <1>4, <2>2, Pair, Zenon DEF queue
  <2> QED BY <2>1, <2>2
<1> QED BY <1>2, <1>3, <1>4

\* The guest gives a word.
LEMMA QueuePut ==
  ASSUME WriteInv, WriteInv', NEW w \in Words, WriteData(w)
  PROVE  Q!Put(w) \/ Q!Overrun(w)
<1>1. UNCHANGED <<sealing, out>> /\ m_shiftflag'
  BY Zenon DEF WriteData
<1>2. CASE ~m_shiftflag
  <2>1. queue = <<>> /\ ~sealing /\ ~m_writeflag
    BY <1>2, QueueCases DEF WriteInv, RegistersInv
  <2>2. queue' = <<w>>
    <3>1. m_writeflag' = m_writeflag /\ m_shiftreg' = w
      BY <1>2, <2>1, Zenon DEF WriteData
    <3> QED BY <1>1, <2>1, <3>1, Zenon DEF queue, shifted
  <2> QED BY <1>1, <2>1, <2>2, Sequences, SMT DEF Q!Put, Q!Taken
<1>3. CASE m_shiftflag /\ ~m_writeflag
  <2>1. queue = IF sealing THEN <<>> ELSE <<m_shiftreg>>
    BY <1>3, QueueCases DEF WriteInv
  <2>2. queue' = Append(queue, w)
    <3>1. m_writeflag' /\ m_writereg' = w /\ m_shiftreg' = m_shiftreg
      BY <1>3, Zenon DEF WriteData
    <3>2. shifted' = shifted
      BY <1>1, <1>3, <3>1, Zenon DEF shifted
    <3> QED BY <1>3, <3>1, <3>2, Zenon DEF queue
  <2>3. Q!Taken < 2
    BY <2>1, Sequences, SMT DEF Q!Taken, WriteInv, TypeOK
  <2> QED BY <1>1, <2>2, <2>3, Zenon DEF Q!Put
<1>4. CASE m_shiftflag /\ m_writeflag
  <2>1. queue = IF sealing THEN <<m_writereg>> ELSE <<m_shiftreg, m_writereg>>
    BY <1>4, QueueCases DEF WriteInv
  <2>2. m_writeflag' /\ m_writereg' = w /\ m_shiftreg' = m_shiftreg
    BY <1>4, Zenon DEF WriteData
  <2>3. queue' = IF sealing THEN <<w>> ELSE <<m_shiftreg, w>>
    <3>1. shifted' = IF sealing THEN <<>> ELSE <<m_shiftreg>>
      BY <1>1, <2>2, Zenon DEF shifted
    <3>2. queue' = Append(shifted', w)
      BY <2>2, Zenon DEF queue
    <3>3. CASE sealing
      BY <3>1, <3>2, <3>3, Sequences, Zenon
    <3>4. CASE ~sealing
      BY <3>1, <3>2, <3>4, Pair, Zenon
    <3> QED BY <3>3, <3>4
  <2>4. Q!Taken = 2 /\ Len(queue) = IF sealing THEN 1 ELSE 2
    BY <2>1, Sequences, SMT DEF Q!Taken
  <2>5. queue' = [queue EXCEPT ![Len(queue)] = w]
    <3>1. CASE sealing
      BY <2>1, <2>3, <2>4, <3>1, Sequences, Zenon
    <3>2. CASE ~sealing
      <4>1. [<<m_shiftreg, m_writereg>> EXCEPT ![2] = w] = <<m_shiftreg, w>>
        BY Sequences
      <4>2. queue = <<m_shiftreg, m_writereg>> /\ Len(queue) = 2 /\ queue' = <<m_shiftreg, w>>
        BY <2>1, <2>3, <2>4, <3>2
      <4> QED BY <4>1, <4>2
    <3> QED BY <3>1, <3>2
  <2> QED BY <1>1, <2>4, <2>5, Zenon DEF Q!Overrun
<1> QED BY <1>2, <1>3, <1>4 DEF WriteInv, TypeOK

\* A word or a checksum goes to the disk.
LEMMA QueueWrite ==
  ASSUME WriteInv, WriteInv', Writing PROVE Q!Write \/ Q!Seal
<1>1. m_shiftflag /\ ~m_writeflag' /\ out' = IF sealing THEN Checksum ELSE m_shiftreg
  BY Zenon DEF Writing
<1>2. CASE sealing
  <2>1. ~Counting
    BY <1>2, Zenon DEF WriteInv, RegistersInv, Counting
  <2>2. sealing' = FALSE /\ m_shiftflag' = m_writeflag /\ (m_writeflag => m_shiftreg' = m_writereg)
    BY <2>1, Zenon DEF Writing, Pulled, WriteInv, TypeOK
  <2>3. queue' = queue
    BY <1>1, <1>2, <2>2, Sequences, Zenon DEF queue, shifted
  <2> QED BY <1>1, <1>2, <2>2, <2>3, Zenon DEF Q!Seal
<1>3. CASE ~sealing /\ m_writeflag
  <2>1. queue = <<m_shiftreg, m_writereg>>
    BY <1>1, <1>3, QueueCases DEF WriteInv
  <2>2. sealing' = FALSE /\ m_shiftflag' /\ m_shiftreg' = m_writereg
    BY <1>3, Zenon DEF Writing, Pulled
  <2>3. queue' = <<m_writereg>>
    BY <1>1, <2>2, Zenon DEF queue, shifted
  <2>4. Head(queue) = m_shiftreg /\ Tail(queue) = <<m_writereg>> /\ queue # <<>>
    BY <2>1, Sequences
  <2>5. out' = m_shiftreg
    BY <1>1, <1>3
  <2> QED BY <1>3, <2>2, <2>3, <2>4, <2>5, Zenon DEF Q!Write
<1>4. CASE ~sealing /\ ~m_writeflag
  <2>1. queue = <<m_shiftreg>>
    BY <1>1, <1>4, QueueCases DEF WriteInv
  <2>2. sealing' = Counting /\ m_shiftflag' = Counting
    BY <1>4, Zenon DEF Writing, Counting, WriteInv, TypeOK
  <2>3. queue' = <<>>
    BY <1>1, <2>2, Zenon DEF queue, shifted
  <2>4. sealing' \in {FALSE, Len(queue) = 1}
    BY <2>1, <2>2, Sequences, Zenon DEF Counting, WriteInv, TypeOK
  <2> QED BY <1>1, <1>4, <2>1, <2>3, <2>4, Sequences, Zenon DEF Q!Write
<1> QED BY <1>2, <1>3, <1>4

\* For every guest, disk and checksum the two registers and their flags are a
\* queue in front of the head: no word is lost, doubled or written out of turn,
\* and a checksum goes out only when the queue has run dry.
THEOREM WriteQueueRefined == Spec => WriteQueue
<1>1. Init => Q!Init
  BY Zenon DEF Init, Q!Init, queue, shifted
<1>2. WriteInv /\ [Next]_vars => WriteInv'
  BY TypeNext, RegistersNext DEF WriteInv
<1>3. ASSUME WriteInv, WriteInv', [Next]_vars
      PROVE  [Q!Next]_<<queue, sealing, out>>
  <2>1. ASSUME UNCHANGED <<m_shiftflag, m_writeflag, m_shiftreg, m_writereg, sealing, out>>
        PROVE  UNCHANGED <<queue, sealing, out>>
    BY <2>1, Zenon DEF queue, shifted
  <2>2. ASSUME NEW c \in Commands, SetCommand(c) PROVE UNCHANGED <<queue, sealing, out>>
    BY <2>1, <2>2, Zenon DEF SetCommand, pipe
  <2>3. CASE GetState
    BY <2>1, <2>3, Zenon DEF GetState, pipe
  <2>4. CASE GetData
    <3>1. queue' = <<>> /\ ~sealing' /\ out' = out
      BY <2>4, Zenon DEF GetData, queue, shifted
    <3> QED BY <2>4, <3>1, Zenon DEF GetData, Q!Next, Q!Drop
  <2>5. ASSUME NEW w \in Words, WriteData(w) PROVE Q!Next
    BY <1>3, <2>5, QueuePut, Zenon DEF Q!Next
  <2>6. CASE Reading
    <3>1. ~m_shiftflag /\ ~m_shiftflag' /\ ~m_writeflag /\ ~m_writeflag'
            /\ UNCHANGED <<sealing, out>>
      BY <1>3, <2>6, Zenon DEF Reading, WriteInv, RegistersInv
    <3> QED BY <3>1, Zenon DEF queue, shifted
  <2>7. CASE Writing
    BY <1>3, <2>7, QueueWrite, Zenon DEF Q!Next
  <2>8. CASE Turning
    BY <2>1, <2>8, Zenon DEF Turning, pipe, writeH
  <2>9. CASE UNCHANGED vars
    BY <2>1, <2>9, Zenon DEF vars, pipe, writeH
  <2>10. CASE OnReset
    <3>1. queue' = <<>> /\ ~sealing' /\ out' = out
      BY <2>10 DEF OnReset, queue, shifted
    <3>2. sealing' = FALSE
      BY <2>10 DEF OnReset
    <3> QED BY <3>1, <3>2, Zenon DEF Q!Next, Q!Drop
  <2> QED BY <1>3, <2>2, <2>3, <2>4, <2>5, <2>6, <2>7, <2>8, <2>9, <2>10
          DEF Next, Guest, Periodic
<1> QED BY WriteInvInit, <1>1, <1>2, <1>3, PTL DEF Spec, WriteQueue, Q!Spec

-----------------------------------------------------------------------------
(* Induction over the words of a block, by sets of numbers.                 *)

Earlier == {p \in Nat \X Nat : p[1] < p[2]}

LEMMA EarlierWellFounded == IsWellFoundedOn(Earlier, Nat)
<1>1. Earlier = OpToRel(<, Nat)
  BY DEF Earlier, OpToRel
<1> QED BY <1>1, NatLessThanWellFounded

LEMMA Earliest ==
  ASSUME NEW T \in SUBSET Nat, T # {}
  PROVE  \E x \in T : \A y \in T : x <= y
<1>1. \E x \in T : \A y \in T : <<y, x>> \notin Earlier
  BY EarlierWellFounded, WFMin
<1>2. ASSUME NEW x \in T, NEW y \in T, <<y, x>> \notin Earlier PROVE x <= y
  <2>1. x \in Nat /\ y \in Nat /\ ~ (y < x)
    BY <1>2 DEF Earlier
  <2> QED BY <2>1
<1> QED BY <1>1, <1>2, Zenon

LEMMA Stepwise ==
  ASSUME NEW N \in Nat, NEW S \in SUBSET (0 .. N), 0 \in S,
         \A n \in 1 .. N : n - 1 \in S => n \in S
  PROVE  S = 0 .. N
<1> SUFFICES ASSUME (0 .. N) \ S # {} PROVE FALSE
  OBVIOUS
<1> DEFINE U == (0 .. N) \ S
<1>1. U \in SUBSET Nat /\ U # {}
  OBVIOUS
<1>2. PICK x \in U : \A y \in U : x <= y
  BY <1>1, Earliest
<1>3. x \in 1 .. N /\ x \notin S
  BY <1>2
<1>4. x - 1 \in 0 .. N /\ x - 1 \notin U
  BY <1>2, <1>3
<1> QED BY <1>3, <1>4

-----------------------------------------------------------------------------
(* Positions on the track.                                                  *)

Dist(at, p) == (p - at + TrackLen) % TrackLen

LEMMA Quotient ==
  ASSUME NEW n \in Nat \ {0}, NEW q \in Int, NEW r \in 0 .. n - 1
  PROVE  (n * q + r) % n = r
OBVIOUS

LEMMA Round ==
  ASSUME NEW a \in 0 .. 2 * TrackLen - 1
  PROVE  a % TrackLen = IF a < TrackLen THEN a ELSE a - TrackLen
<1>0. TrackLen \in Nat \ {0}
  BY FloppyAssumption
<1>1. CASE a < TrackLen
  <2>1. a \in 0 .. TrackLen - 1 /\ a = TrackLen * 0 + a
    BY <1>0, <1>1
  <2>2. a % TrackLen = a
    BY <1>0, <2>1, Quotient
  <2> QED BY <1>1, <2>2
<1>2. CASE ~(a < TrackLen)
  <2> DEFINE r == a - TrackLen
  <2>1. r \in 0 .. TrackLen - 1 /\ a = TrackLen * 1 + r
    BY <1>0, <1>2
  <2> HIDE DEF r
  <2>2. a % TrackLen = r
    BY <1>0, <2>1, Quotient
  <2> QED BY <1>2, <2>2 DEF r
<1> QED BY <1>1, <1>2

LEMMA Around ==
  ASSUME NEW at \in Pos, NEW n \in 0 .. TrackLen - 1
  PROVE  /\ Cyclic(at, n) = IF at + n < TrackLen THEN at + n ELSE at + n - TrackLen
         /\ Cyclic(at, n) \in Pos
<1>1. at + n \in 0 .. 2 * TrackLen - 1
  BY FloppyAssumption DEF Pos
<1> DEFINE a == at + n
<1>2. Cyclic(at, n) = IF a < TrackLen THEN a ELSE a - TrackLen
  <2> HIDE DEF a
  <2>1. a % TrackLen = IF a < TrackLen THEN a ELSE a - TrackLen
    BY <1>1, Round DEF a
  <2> QED BY <2>1 DEF Cyclic, a
<1> QED BY <1>1, <1>2, FloppyAssumption DEF Pos

LEMMA Distance ==
  ASSUME NEW at \in Pos, NEW p \in Pos
  PROVE  /\ Dist(at, p) = IF at <= p THEN p - at ELSE p - at + TrackLen
         /\ Dist(at, p) \in 0 .. TrackLen - 1
<1> DEFINE a == p - at + TrackLen
<1>1. a \in 0 .. 2 * TrackLen - 1
  BY FloppyAssumption DEF Pos
<1>2. Dist(at, p) = IF a < TrackLen THEN a ELSE a - TrackLen
  <2> HIDE DEF a
  <2>1. a % TrackLen = IF a < TrackLen THEN a ELSE a - TrackLen
    BY <1>1, Round
  <2> QED BY <2>1 DEF Dist, a
<1> QED BY <1>1, <1>2, FloppyAssumption DEF Pos

\* Walking to a position and measuring the way are inverse to each other.
LEMMA Ways ==
  ASSUME NEW at \in Pos, NEW p \in Pos
  PROVE  /\ Cyclic(at, Dist(at, p)) = p
         /\ \A n \in 0 .. TrackLen - 1 : Cyclic(at, n) = p => n = Dist(at, p)
         /\ Dist(at, at) = 0
         /\ MovePtr(p) \in Pos
         /\ MovePtr(p) # at => Dist(at, MovePtr(p)) = Dist(at, p) + 1
<1>0. TrackLen \in Nat \ {0} /\ at \in 0 .. TrackLen - 1 /\ p \in 0 .. TrackLen - 1
  BY FloppyAssumption DEF Pos
<1> DEFINE d == Dist(at, p)
<1>d. d \in 0 .. TrackLen - 1 /\ d = IF at <= p THEN p - at ELSE p - at + TrackLen
  BY Distance
<1> HIDE DEF d
<1>1. Cyclic(at, d) = p
  <2>1. Cyclic(at, d) = IF at + d < TrackLen THEN at + d ELSE at + d - TrackLen
    BY <1>d, Around
  <2> QED BY <1>0, <1>d, <2>1
<1>2. ASSUME NEW n \in 0 .. TrackLen - 1, Cyclic(at, n) = p PROVE n = d
  <2>1. p = IF at + n < TrackLen THEN at + n ELSE at + n - TrackLen
    BY <1>2, Around
  <2> QED BY <1>0, <1>d, <2>1
<1>3. Dist(at, at) = 0
  BY <1>0, Distance
<1>4. MovePtr(p) \in Pos
  BY MovePtrType
<1>5. ASSUME MovePtr(p) # at PROVE Dist(at, MovePtr(p)) = Dist(at, p) + 1
  <2>1. MovePtr(p) = IF p + 1 = TrackLen THEN 0 ELSE p + 1
    BY <1>0 DEF MovePtr
  <2> QED BY <1>0, <1>4, <1>5, <2>1, Distance
<1> QED BY <1>1, <1>2, <1>3, <1>4, <1>5 DEF d

-----------------------------------------------------------------------------
(* The checksum of a block, word by word.                                   *)

Added(acc, w) == CrcStep(CrcStep(acc, Hi(w)), Lo(w))

CrcAt(f, cells, at, k) ==
  IF k = 0 THEN 65535 ELSE Added(f[k - 1], cells.word[Cyclic(at, k - 1)])

Crcs(f, cells, at, n) == f = [k \in 0 .. n |-> CrcAt(f, cells, at, k)]

LEMMA CrcsExist ==
  ASSUME NEW cells, NEW at, NEW N \in Nat
  PROVE  \E f : Crcs(f, cells, at, N)
<1> DEFINE Some(k) == \E f : Crcs(f, cells, at, k)
           S == {k \in 0 .. N : Some(k)}
<1>1. 0 \in S
  <2>1. [k \in 0 .. 0 |-> 65535]
          = [k \in 0 .. 0 |-> CrcAt([m \in 0 .. 0 |-> 65535], cells, at, k)]
    BY DEF CrcAt
  <2>2. Some(0)
    BY <2>1 DEF Crcs
  <2> QED BY <2>2
<1>2. ASSUME NEW n \in 1 .. N, n - 1 \in S PROVE n \in S
  <2>1. PICK f : f = [k \in 0 .. n - 1 |-> CrcAt(f, cells, at, k)]
    BY <1>2 DEF Crcs
  <2> DEFINE last == Added(f[n - 1], cells.word[Cyclic(at, n - 1)])
             g == [k \in 0 .. n |-> IF k = n THEN last ELSE f[k]]
  <2>2. ASSUME NEW k \in 0 .. n PROVE g[k] = CrcAt(g, cells, at, k)
    <3>1. CASE k = 0
      BY <3>1, <2>1 DEF CrcAt
    <3>2. CASE k = n
      <4>1. g[n - 1] = f[n - 1] /\ g[n] = last
        OBVIOUS
      <4> QED BY <3>2, <4>1 DEF CrcAt
    <3>3. CASE k \in 1 .. n - 1
      <4>1. g[k - 1] = f[k - 1] /\ g[k] = f[k]
        BY <3>3
      <4>2. f[k] = CrcAt(f, cells, at, k)
        BY <3>3, <2>1
      <4> QED BY <3>3, <4>1, <4>2 DEF CrcAt
    <3> QED BY <3>1, <3>2, <3>3
  <2>3. g = [k \in 0 .. n |-> CrcAt(g, cells, at, k)]
    BY <2>2
  <2>4. Some(n)
    BY <2>3 DEF Crcs
  <2> QED BY <2>4
<1>3. S = 0 .. N
  <2> HIDE DEF S
  <2>1. S \in SUBSET (0 .. N)
    BY DEF S
  <2> QED BY <1>1, <1>2, <2>1, Stepwise
<1> QED BY <1>3

\* Blocks that agree on their first words have the same checksums there.
LEMMA CrcsAgree ==
  ASSUME NEW N \in Nat, NEW M \in Nat, N <= M, NEW at,
         NEW cells, NEW other, NEW f, NEW g,
         Crcs(f, cells, at, N), Crcs(g, other, at, M),
         \A k \in 0 .. N - 1 : cells.word[Cyclic(at, k)] = other.word[Cyclic(at, k)]
  PROVE  \A k \in 0 .. N : f[k] = g[k]
<1> DEFINE S == {k \in 0 .. N : f[k] = g[k]}
<1>1. /\ \A k \in 0 .. N : f[k] = CrcAt(f, cells, at, k)
      /\ \A k \in 0 .. N : g[k] = CrcAt(g, other, at, k)
  <2>1. \A k \in 0 .. N : f[k] = CrcAt(f, cells, at, k)
    BY Zenon DEF Crcs
  <2>2. \A k \in 0 .. M : g[k] = CrcAt(g, other, at, k)
    BY Zenon DEF Crcs
  <2> QED BY <2>1, <2>2
<1>2. 0 \in S
  BY <1>1 DEF CrcAt
<1>3. ASSUME NEW n \in 1 .. N, n - 1 \in S PROVE n \in S
  <2>1. n - 1 \in 0 .. N - 1 /\ n \in 0 .. N
    OBVIOUS
  <2>2. cells.word[Cyclic(at, n - 1)] = other.word[Cyclic(at, n - 1)]
    BY <2>1
  <2>3. f[n - 1] = g[n - 1]
    BY <1>3
  <2> QED BY <1>1, <2>1, <2>2, <2>3 DEF CrcAt
<1>4. S = 0 .. N
  <2> HIDE DEF S
  <2>1. S \in SUBSET (0 .. N)
    BY DEF S
  <2> QED BY <1>2, <1>3, <2>1, Stepwise
<1> QED BY <1>4

LEMMA CrcOfFunction ==
  ASSUME NEW cells, NEW at, NEW n \in Nat
  PROVE  \E f : Crcs(f, cells, at, n) /\ CrcOf(cells, at, n) = f[n]
<1> DEFINE F == CHOOSE f : Crcs(f, cells, at, n)
<1>1. Crcs(F, cells, at, n)
  BY CrcsExist
<1>2. CrcOf(cells, at, n) = F[n]
  BY DEF CrcOf, CrcAt, Crcs, Added
<1> QED BY <1>1, <1>2

LEMMA CrcOfSame ==
  ASSUME NEW cells, NEW other, NEW at, NEW n \in Nat,
         \A k \in 0 .. n - 1 : cells.word[Cyclic(at, k)] = other.word[Cyclic(at, k)]
  PROVE  CrcOf(cells, at, n) = CrcOf(other, at, n)
<1>1. PICK f : Crcs(f, cells, at, n) /\ CrcOf(cells, at, n) = f[n]
  BY CrcOfFunction
<1>2. PICK g : Crcs(g, other, at, n) /\ CrcOf(other, at, n) = g[n]
  BY CrcOfFunction
<1>3. n \in 0 .. n /\ n <= n
  OBVIOUS
<1>4. \A k \in 0 .. n : f[k] = g[k]
  BY <1>1, <1>2, <1>3, CrcsAgree
<1> QED BY <1>1, <1>2, <1>3, <1>4

LEMMA CrcOfNext ==
  ASSUME NEW cells, NEW at, NEW n \in Nat
  PROVE  /\ CrcOf(cells, at, 0) = 65535
         /\ CrcOf(cells, at, n + 1) = Added(CrcOf(cells, at, n), cells.word[Cyclic(at, n)])
<1>1. PICK z : Crcs(z, cells, at, 0) /\ CrcOf(cells, at, 0) = z[0]
  BY CrcOfFunction
<1>2. z[0] = 65535
  BY <1>1 DEF Crcs, CrcAt
<1>3. PICK f : Crcs(f, cells, at, n) /\ CrcOf(cells, at, n) = f[n]
  BY CrcOfFunction
<1>4. n + 1 \in Nat
  OBVIOUS
<1>5. PICK g : Crcs(g, cells, at, n + 1) /\ CrcOf(cells, at, n + 1) = g[n + 1]
  BY <1>4, CrcOfFunction
<1>6. n <= n + 1 /\ n \in 0 .. n /\ n + 1 \in 0 .. n + 1 /\ n + 1 # 0 /\ n + 1 - 1 = n
  OBVIOUS
<1>7. \A k \in 0 .. n : f[k] = g[k]
  BY <1>3, <1>4, <1>5, <1>6, CrcsAgree
<1>8. g[n + 1] = CrcAt(g, cells, at, n + 1)
  BY <1>5, <1>6 DEF Crcs
<1>9. g[n + 1] = Added(g[n], cells.word[Cyclic(at, n)])
  BY <1>6, <1>8 DEF CrcAt
<1>10. f[n] = g[n]
  BY <1>6, <1>7
<1> QED BY <1>1, <1>2, <1>3, <1>5, <1>9, <1>10

LEMMA Swapped ==
  ASSUME NEW w \in Word
  PROVE  Swap(w) \in Word /\ Swap(Swap(w)) = w /\ Hi(Swap(w)) = Lo(w) /\ Lo(Swap(w)) = Hi(w)
<1>1. w \in Int /\ w >= 0 /\ w <= 65535
  BY SMT DEF Word
<1>2. \A h, l \in Byte : (l * 256 + h) \div 256 = l /\ (l * 256 + h) % 256 = h
  BY SMT DEF Byte
<1>3. Hi(w) \in Byte /\ Lo(w) \in Byte /\ Swap(w) \in Word
  BY Bytes
<1>4. Hi(w) * 256 + Lo(w) = w
  BY <1>1, SMT DEF Hi, Lo
<1> DEFINE h == Hi(w)
           l == Lo(w)
<1>5. Swap(w) = l * 256 + h
  BY DEF Swap
<1> HIDE DEF h, l
<1>6. Hi(Swap(w)) = l /\ Lo(Swap(w)) = h
  BY <1>2, <1>3, <1>5 DEF Hi, Lo, h, l
<1> QED BY <1>3, <1>4, <1>6 DEF h, l, Swap

LEMMA AddedWr ==
  ASSUME NEW c \in Crc, NEW w \in Word
  PROVE  AddWordWr(c, w).acc = Added(c.acc, Swap(w))
<1>1. AddCrc(c, Lo(w)).acc = CrcStep(c.acc, Lo(w)) /\ AddCrc(c, Lo(w)) \in Crc
  BY Bytes, AddCrcType DEF AddCrc, Crc
<1> DEFINE d == AddCrc(c, Lo(w))
<1> HIDE DEF d
<1>2. AddCrc(d, Hi(w)).acc = CrcStep(d.acc, Hi(w))
  BY <1>1 DEF AddCrc, Crc, d
<1>3. AddWordWr(c, w) = AddCrc(d, Hi(w))
  BY DEF AddWordWr, d
<1> QED BY <1>1, <1>2, <1>3, Swapped DEF Added, d

-----------------------------------------------------------------------------
(* The blocks on the disk.                                                  *)

\* The checksum of the words that are on the disk from a position to the head.
UpToHead(b, at) == CrcOf(b.cells, at, Dist(at, b.ptr) + 1)

\* Of a block that is being written, the accumulator is the checksum so far, or it
\* waits in the shift register; and until its end there is a word to write.
OpenInv ==
  m_bWriteMode /\ blockAt # None =>
    /\ m_drive \in Drives /\ blockAt \in Pos /\ m_shiftflag
    /\ m_bCRCCalc \/ sealing
    /\ m_bCRCCalc => crc.acc = UpToHead(buf[m_drive], blockAt)
    /\ sealing => Swap(m_shiftreg) = UpToHead(buf[m_drive], blockAt)

Intact(b, cells) == cells.word[b[2]] = CrcOf(cells, b[1], Dist(b[1], b[2]))

SealedInv ==
  /\ sealed \subseteq Pos \X Pos
  /\ sealed # {} => m_drive \in Drives
  /\ \A b \in sealed : Intact(b, buf[m_drive].cells)

BlockInv == WriteInv /\ OpenInv /\ SealedInv

\* What a step keeps that leaves the disk under the head as it was.
LEMMA SealedKept ==
  ASSUME SealedInv, m_drive' = m_drive,
         m_drive \in Drives => buf'[m_drive].cells = buf[m_drive].cells,
         sealed' = sealed
  PROVE  SealedInv'
BY DEF SealedInv, Intact

LEMMA OpenKept ==
  ASSUME OpenInv, m_drive' = m_drive, m_bWriteMode, UNCHANGED blockAt,
         m_drive \in Drives => buf'[m_drive] = buf[m_drive],
         UNCHANGED <<m_shiftflag, m_bCRCCalc, sealing, m_shiftreg>>, crc'.acc = crc.acc
  PROVE  OpenInv'
BY DEF OpenInv

LEMMA BlockSetCommand ==
  ASSUME BlockInv, NEW c \in Commands, SetCommand(c)
  PROVE  OpenInv' /\ SealedInv'
<1>1. crc'.acc = crc.acc
  BY SMT DEF SetCommand, BlockInv, WriteInv, TypeOK, Crc
<1>2. CASE Moved(c)
  BY <1>2, Zenon DEF SetCommand, OpenInv, SealedInv, None
<1>3. CASE ~Moved(c)
  <2>1. m_drive' = m_drive /\ sealed' = sealed /\ buf' = buf
    BY <1>3, Zenon DEF SetCommand, Moved
  <2>2. UNCHANGED <<m_shiftflag, m_bCRCCalc, sealing, m_shiftreg, m_bWriteMode>>
    BY Zenon DEF SetCommand, pipe
  <2>3. SealedInv'
    BY <2>1, SealedKept DEF BlockInv
  <2>4. blockAt' = None \/ blockAt' = blockAt
    BY Zenon DEF SetCommand
  <2>5. CASE blockAt' = None \/ ~m_bWriteMode
    BY <2>2, <2>5, <2>3 DEF OpenInv
  <2>6. CASE blockAt' = blockAt /\ m_bWriteMode
    BY <1>1, <2>1, <2>2, <2>3, <2>6, OpenKept DEF BlockInv
  <2> QED BY <2>4, <2>5, <2>6
<1> QED BY <1>2, <1>3

LEMMA BlockGuestData ==
  ASSUME BlockInv, GetState \/ GetData \/ \E w \in Words : WriteData(w)
  PROVE  OpenInv' /\ SealedInv'
<1>1. m_drive' = m_drive /\ sealed' = sealed /\ buf' = buf /\ crc' = crc
  BY Zenon DEF GetState, GetData, WriteData, command, writeH
<1>2. SealedInv'
  BY <1>1, SealedKept DEF BlockInv
<1>3. CASE GetState
  BY <1>2, <1>3 DEF GetState, OpenInv
<1>4. CASE GetData
  BY <1>2, <1>4 DEF GetData, OpenInv
<1>5. ASSUME NEW w \in Words, WriteData(w), ~m_bWriteMode PROVE OpenInv'
  BY <1>5, Zenon DEF WriteData, OpenInv
<1>6. ASSUME NEW w \in Words, WriteData(w), m_bWriteMode PROVE OpenInv'
  <2>1. UNCHANGED <<blockAt, m_bCRCCalc, sealing>>
    BY <1>6, Zenon DEF WriteData
  <2>2. CASE blockAt = None
    BY <2>1, <2>2 DEF OpenInv
  <2>3. CASE blockAt # None
    <3>1. m_shiftflag
      BY <1>6, <2>3 DEF BlockInv, OpenInv
    <3>2. UNCHANGED <<m_shiftflag, m_shiftreg>>
      BY <1>6, <3>1, Zenon DEF WriteData
    <3> QED BY <1>1, <1>6, <2>1, <3>2, OpenKept DEF BlockInv
  <2> QED BY <2>2, <2>3
<1> QED BY <1>2, <1>3, <1>4, <1>5, <1>6

LEMMA BlockReset == ASSUME BlockInv, OnReset PROVE OpenInv' /\ SealedInv'
BY DEF OnReset, OpenInv, SealedInv

\* Turning the disks leaves their words alone.
LEMMA TurnedCells ==
  ASSUME TypeOK, NEW d \in Drives
  PROVE  Turned[d].cells = buf[d].cells /\ Turned[d].ptr = MovePtr(buf[d].ptr)
BY Zenon DEF TypeOK, Turned, Buffer

LEMMA BlockTurning ==
  ASSUME BlockInv, Reading \/ Turning
  PROVE  OpenInv' /\ SealedInv'
<1>1. m_drive' = m_drive /\ sealed' = sealed /\ buf' = Turned
      /\ UNCHANGED <<m_bWriteMode, m_shiftflag>>
  BY Zenon DEF Reading, Turning, command, writeH, pipe
<1>2. m_drive \in Drives => buf'[m_drive].cells = buf[m_drive].cells
  BY <1>1, TurnedCells DEF BlockInv, WriteInv
<1>3. SealedInv'
  BY <1>1, <1>2, SealedKept DEF BlockInv
<1>4. CASE Reading
  BY <1>1, <1>3, <1>4 DEF Reading, OpenInv
<1>5. CASE Turning
  <2>1. blockAt' = blockAt
    BY <1>5 DEF Turning
  <2> QED BY <1>1, <1>3, <1>5, <2>1 DEF Turning, BlockInv, OpenInv
<1> QED BY <1>4, <1>5

\* A word of the track is overwritten: the blocks elsewhere keep their checksums.
LEMMA Elsewhere ==
  ASSUME NEW cells, NEW other, NEW p, NEW at \in Pos, NEW n \in 0 .. TrackLen,
         \A q \in Pos : q # p => other.word[q] = cells.word[q],
         \A k \in 0 .. n - 1 : Cyclic(at, k) # p
  PROVE  CrcOf(other, at, n) = CrcOf(cells, at, n)
<1>1. n \in Nat /\ \A k \in 0 .. n - 1 : k \in 0 .. TrackLen - 1
  BY FloppyAssumption
<1>2. \A k \in 0 .. n - 1 : Cyclic(at, k) \in Pos
  BY <1>1, Around
<1>3. \A k \in 0 .. n - 1 : other.word[Cyclic(at, k)] = cells.word[Cyclic(at, k)]
  BY <1>2
<1> QED BY <1>1, <1>3, CrcOfSame

\* What is under the head after Writing.
LEMMA WritingDisk ==
  ASSUME TypeOK, Writing
  PROVE  /\ m_drive \in Drives /\ m_drive' = m_drive
         /\ Here.ptr = MovePtr(buf[m_drive].ptr) /\ Here.ptr \in Pos
         /\ buf[m_drive].ptr \in Pos /\ buf[m_drive].cells \in Cells
         /\ buf'[m_drive].ptr = Here.ptr
         /\ buf'[m_drive].cells.word[Here.ptr] = Swap(m_shiftreg)
         /\ \A r \in Pos : r # Here.ptr =>
              buf'[m_drive].cells.word[r] = buf[m_drive].cells.word[r]
<1>1. m_drive \in Drives /\ m_drive' = m_drive
  BY Zenon DEF Writing, command
<1>2. Turned \in [Drives -> Buffer]
  BY TurnedType DEF TypeOK
<1>3. /\ Here \in Buffer /\ Here.cells = buf[m_drive].cells
      /\ Here.ptr = MovePtr(buf[m_drive].ptr)
      /\ buf[m_drive].ptr \in Pos /\ buf[m_drive].cells \in Cells
  BY <1>1, <1>2, TurnedCells, Zenon DEF Here, TypeOK, Buffer
<1>4. buf'[m_drive] = Stamped
  BY <1>1, <1>2, Zenon DEF Writing
<1> DEFINE h == Here
<1>5. Stamped = [h EXCEPT !.cells.word[h.ptr] = Swap(m_shiftreg),
                          !.cells.marker[h.ptr] = m_shiftmarker]
  BY DEF Stamped
<1> HIDE DEF h
<1>6. h \in Buffer /\ h.ptr \in Pos /\ h.cells \in Cells
  BY <1>3, Zenon DEF h, Buffer
<1>7. Stamped.ptr = h.ptr
      /\ Stamped.cells.word = [h.cells.word EXCEPT ![h.ptr] = Swap(m_shiftreg)]
  BY <1>5, <1>6 DEF Buffer, Cells
<1>8. Stamped.cells.word[h.ptr] = Swap(m_shiftreg)
      /\ \A r \in Pos : r # h.ptr => Stamped.cells.word[r] = h.cells.word[r]
  BY <1>6, <1>7, Zenon DEF Cells
<1> QED BY <1>1, <1>3, <1>4, <1>6, <1>7, <1>8 DEF h

\* The way that a block has gone does not reach the next position, unless that is
\* its beginning.
LEMMA Ahead ==
  ASSUME NEW at \in Pos, NEW q \in Pos, MovePtr(q) # at
  PROVE  /\ Dist(at, MovePtr(q)) = Dist(at, q) + 1
         /\ Dist(at, q) \in Nat /\ Dist(at, q) + 1 \in 0 .. TrackLen - 1
         /\ \A k \in 0 .. Dist(at, q) : Cyclic(at, k) # MovePtr(q)
<1> DEFINE p == MovePtr(q)
           d == Dist(at, q)
<1>1. p \in Pos /\ Dist(at, p) = d + 1
  BY Ways
<1>2. d \in 0 .. TrackLen - 1 /\ Dist(at, p) \in 0 .. TrackLen - 1
  BY <1>1, Distance
<1>3. \A k \in 0 .. TrackLen - 1 : Cyclic(at, k) = p => k = Dist(at, p)
  BY <1>1, Ways
<1> HIDE DEF p, d
<1>4. \A k \in 0 .. d : Cyclic(at, k) # p
  BY <1>1, <1>2, <1>3, FloppyAssumption
<1> QED BY <1>1, <1>2, <1>4, FloppyAssumption DEF p, d

\* The checksum goes to the disk behind its block.
LEMMA SealedWriting ==
  ASSUME BlockInv, Writing
  PROVE  SealedInv'
<1> DEFINE q == buf[m_drive].ptr
           p == Here.ptr
           cells == buf[m_drive].cells
           other == buf'[m_drive].cells
<1>1. /\ m_drive \in Drives /\ m_drive' = m_drive /\ p = MovePtr(q) /\ p \in Pos
      /\ q \in Pos /\ cells \in Cells
      /\ other.word[p] = Swap(m_shiftreg)
      /\ \A r \in Pos : r # p => other.word[r] = cells.word[r]
  BY WritingDisk DEF BlockInv, WriteInv
<1>2. sealed' = {b \in sealed : p \notin Within(b)}
                  \cup IF sealing /\ blockAt \notin {None, p} THEN {<<blockAt, p>>} ELSE {}
  BY DEF Writing
<1>3. m_bWriteMode
  BY DEF Writing
<1> HIDE DEF q, p, cells, other
<1>4. ASSUME NEW b \in sealed, p \notin Within(b) PROVE b \in Pos \X Pos /\ Intact(b, other)
  <2>1. b[1] \in Pos /\ b[2] \in Pos /\ b \in Pos \X Pos /\ Intact(b, cells)
    BY DEF BlockInv, SealedInv, cells
  <2> DEFINE n == Dist(b[1], b[2])
  <2>2. n \in 0 .. TrackLen - 1 /\ Cyclic(b[1], n) = b[2]
    BY <2>1, Distance, Ways
  <2>3. Within(b) = {Cyclic(b[1], k) : k \in 0 .. n}
    BY DEF Within, Dist
  <2> HIDE DEF n
  <2>4. n \in 0 .. n /\ n \in 0 .. TrackLen /\ \A k \in 0 .. n - 1 : k \in 0 .. n
    BY <2>2, FloppyAssumption
  <2>5. p # b[2] /\ \A k \in 0 .. n - 1 : Cyclic(b[1], k) # p
    BY <1>4, <2>2, <2>3, <2>4
  <2>6. CrcOf(other, b[1], n) = CrcOf(cells, b[1], n)
    BY <1>1, <2>1, <2>4, <2>5, Elsewhere
  <2>7. other.word[b[2]] = cells.word[b[2]]
    BY <1>1, <2>1, <2>5
  <2> QED BY <2>1, <2>6, <2>7 DEF Intact, n
<1>5. ASSUME sealing, blockAt \notin {None, p}
      PROVE  <<blockAt, p>> \in Pos \X Pos /\ Intact(<<blockAt, p>>, other)
  <2> DEFINE at == blockAt
             d == Dist(at, q)
  <2>1. at \in Pos /\ Swap(m_shiftreg) = CrcOf(cells, at, d + 1)
    BY <1>3, <1>5 DEF BlockInv, OpenInv, UpToHead, q, cells
  <2>2. Dist(at, p) = d + 1 /\ d + 1 \in 0 .. TrackLen - 1 /\ d \in Nat
        /\ \A k \in 0 .. d : Cyclic(at, k) # p
    BY <1>1, <1>5, <2>1, Ahead
  <2> HIDE DEF at, d
  <2>3. d + 1 \in 0 .. TrackLen /\ (d + 1) - 1 = d
    BY <2>2, FloppyAssumption
  <2>4. \A k \in 0 .. (d + 1) - 1 : Cyclic(at, k) # p
    BY <2>2, <2>3
  <2>5. CrcOf(other, at, d + 1) = CrcOf(cells, at, d + 1)
    <3> DEFINE n == d + 1
    <3>1. n \in 0 .. TrackLen /\ \A k \in 0 .. n - 1 : Cyclic(at, k) # p
      BY <2>3, <2>4
    <3>2. at \in Pos
      BY <2>1 DEF at
    <3> HIDE DEF n
    <3>3. n \in Nat /\ \A k \in 0 .. n - 1 : k \in 0 .. TrackLen - 1
      BY <3>1, FloppyAssumption
    <3>4. \A k \in 0 .. n - 1 : Cyclic(at, k) \in Pos
      BY <3>2, <3>3, Around
    <3>5. \A k \in 0 .. n - 1 : other.word[Cyclic(at, k)] = cells.word[Cyclic(at, k)]
      BY <1>1, <3>1, <3>4
    <3>6. CrcOf(other, at, n) = CrcOf(cells, at, n)
      BY <3>3, <3>5, CrcOfSame
    <3> QED BY <3>6 DEF n
  <2> QED BY <1>1, <2>1, <2>2, <2>5 DEF Intact, at
<1>6. \A b \in sealed' : b \in Pos \X Pos /\ Intact(b, other)
  BY <1>2, <1>4, <1>5
<1> QED BY <1>1, <1>6 DEF SealedInv, other

\* A word goes to the disk, and into the checksum of its block.
LEMMA OpenWriting ==
  ASSUME BlockInv, Writing
  PROVE  OpenInv'
<1> DEFINE q == buf[m_drive].ptr
           p == Here.ptr
           cells == buf[m_drive].cells
           other == buf'[m_drive].cells
           w == Swap(m_shiftreg)
<1>1. /\ m_drive \in Drives /\ m_drive' = m_drive /\ p = MovePtr(q) /\ p \in Pos
      /\ q \in Pos /\ cells \in Cells
      /\ other.word[p] = w /\ buf'[m_drive].ptr = p
      /\ \A r \in Pos : r # p => other.word[r] = cells.word[r]
  BY WritingDisk DEF BlockInv, WriteInv
<1>2. /\ m_bWriteMode /\ m_shiftreg \in Word /\ crc \in Crc
      /\ m_shiftmarker \in BOOLEAN /\ m_bCRCCalc \in BOOLEAN /\ m_writeflag \in BOOLEAN
  BY DEF Writing, BlockInv, WriteInv, TypeOK
<1> DEFINE Covered == /\ blockAt' \in Pos /\ Counting /\ Written \in Crc
                      /\ Written.acc = CrcOf(other, blockAt', Dist(blockAt', p) + 1)
<1>3. blockAt' = IF m_shiftmarker THEN p
                 ELSE IF sealing \/ p = blockAt THEN None ELSE blockAt
  BY DEF Writing
<1> HIDE DEF q, p, cells, other, w
<1>4. ASSUME m_shiftmarker PROVE Covered
  <2>1. Counting /\ Written = AddWordWr(IniCrc, m_shiftreg)
    BY <1>4 DEF Counting, Written
  <2>2. Written.acc = Added(65535, w) /\ Written \in Crc
    BY <1>2, <2>1, IniCrcType, AddedWr, AddWordWrType DEF IniCrc, w
  <2>3. Dist(p, p) = 0 /\ Cyclic(p, 0) = p
    BY <1>1, Ways
  <2>5. CrcOf(other, p, 0 + 1) = Added(CrcOf(other, p, 0), other.word[Cyclic(p, 0)])
        /\ CrcOf(other, p, 0) = 65535
    BY CrcOfNext
  <2>6. CrcOf(other, p, Dist(p, p) + 1) = Added(65535, w)
    BY <1>1, <2>3, <2>5
  <2> QED BY <1>1, <1>3, <1>4, <2>1, <2>2, <2>6
<1>5. ASSUME ~m_shiftmarker, blockAt' # None PROVE Covered
  <2>1. blockAt' = blockAt /\ blockAt # None /\ p # blockAt /\ ~sealing
    BY <1>3, <1>5
  <2> DEFINE at == blockAt
             d == Dist(at, q)
  <2>2. at \in Pos /\ m_bCRCCalc /\ crc.acc = CrcOf(cells, at, d + 1)
    BY <1>2, <2>1 DEF BlockInv, OpenInv, UpToHead, q, cells
  <2>3. Counting /\ Written = AddWordWr(crc, m_shiftreg)
    BY <1>5, <2>2 DEF Counting, Written
  <2>4. Written.acc = Added(crc.acc, w) /\ Written \in Crc
    BY <1>2, <2>3, AddedWr, AddWordWrType DEF w
  <2>5. Dist(at, p) = d + 1 /\ d + 1 \in 0 .. TrackLen - 1 /\ d \in Nat
        /\ \A k \in 0 .. d : Cyclic(at, k) # p
    BY <1>1, <2>1, <2>2, Ahead
  <2>6. Cyclic(at, d + 1) = p
    BY <1>1, <2>2, <2>5, Ways
  <2> HIDE DEF at, d
  <2>7. d + 1 \in 0 .. TrackLen /\ d + 1 \in Nat /\ (d + 1) - 1 = d
    BY <2>5, FloppyAssumption
  <2>8. \A k \in 0 .. (d + 1) - 1 : Cyclic(at, k) # p
    BY <2>5, <2>7
  <2>9. CrcOf(other, at, d + 1) = CrcOf(cells, at, d + 1)
    <3> DEFINE n == d + 1
    <3>1. n \in 0 .. TrackLen /\ \A k \in 0 .. n - 1 : Cyclic(at, k) # p
      BY <2>7, <2>8
    <3>2. at \in Pos
      BY <2>2 DEF at
    <3> HIDE DEF n
    <3>3. n \in Nat /\ \A k \in 0 .. n - 1 : k \in 0 .. TrackLen - 1
      BY <3>1, FloppyAssumption
    <3>4. \A k \in 0 .. n - 1 : Cyclic(at, k) \in Pos
      BY <3>2, <3>3, Around
    <3>5. \A k \in 0 .. n - 1 : other.word[Cyclic(at, k)] = cells.word[Cyclic(at, k)]
      BY <1>1, <3>1, <3>4
    <3>6. CrcOf(other, at, n) = CrcOf(cells, at, n)
      BY <3>3, <3>5, CrcOfSame
    <3> QED BY <3>6 DEF n
  <2>10. other.word[Cyclic(at, d + 1)] = w
    BY <1>1, <2>6
  <2>11. CrcOf(other, at, (d + 1) + 1)
           = Added(CrcOf(other, at, d + 1), other.word[Cyclic(at, d + 1)])
    BY <2>7, CrcOfNext
  <2>12. CrcOf(other, at, Dist(at, p) + 1) = Written.acc
    BY <2>2, <2>4, <2>5, <2>9, <2>10, <2>11
  <2> QED BY <2>1, <2>2, <2>3, <2>4, <2>12 DEF at
<1>6. ASSUME blockAt' # None, Covered PROVE OpenInv'
  <2>1. /\ blockAt' \in Pos /\ Counting /\ Written \in Crc
        /\ Written.acc = CrcOf(other, blockAt', Dist(blockAt', p) + 1)
    BY <1>6
  <2>2. crc' = Written /\ m_shiftflag' /\ m_bCRCCalc' = m_writeflag
        /\ sealing' = ~m_writeflag
    BY <1>2, <2>1, Zenon DEF Writing, Counting
  <2>3. sealing' => m_shiftreg' = Swap(Written.acc)
    BY <2>1, <2>2, Zenon DEF Writing, Pulled
  <2>4. Swap(Swap(Written.acc)) = Written.acc
    BY <2>1, Swapped DEF Crc
  <2>5. UpToHead(buf'[m_drive'], blockAt') = Written.acc
    BY <1>1, <2>1 DEF UpToHead, other
  <2> QED BY <1>1, <1>2, <2>1, <2>2, <2>3, <2>4, <2>5 DEF OpenInv
<1>7. blockAt' = None => OpenInv'
  BY DEF OpenInv
<1> QED BY <1>4, <1>5, <1>6, <1>7

LEMMA BlockInit == Init => BlockInv
BY WriteInvInit DEF Init, BlockInv, OpenInv, SealedInv

LEMMA BlockNext == BlockInv /\ [Next]_vars => BlockInv'
<1> SUFFICES ASSUME BlockInv, [Next]_vars PROVE BlockInv'
  OBVIOUS
<1>1. WriteInv'
  BY TypeNext, RegistersNext DEF BlockInv, WriteInv
<1>2. CASE UNCHANGED vars
  <2>1. /\ UNCHANGED <<m_drive, buf, sealed, blockAt, m_bWriteMode, m_shiftflag>>
        /\ UNCHANGED <<m_bCRCCalc, sealing, m_shiftreg, crc>>
    BY <1>2, Zenon DEF vars, command, pipe, writeH
  <2> QED BY <1>1, <2>1 DEF BlockInv, OpenInv, SealedInv
<1>3. OpenInv' /\ SealedInv'
  BY <1>2, <1>1, BlockSetCommand, BlockGuestData, BlockReset, BlockTurning, OpenWriting, SealedWriting
     DEF Next, Guest, Periodic, BlockInv
<1> QED BY <1>1, <1>3 DEF BlockInv

\* For every length of the track, every disk, checksum and guest: a block that was
\* written from its marker to its checksum, and not written over since, has the
\* checksum of the words that lie on the disk, wherever on the track it begins and
\* across the index (Periodic, FDDController.cpp:1931-1978, with add_crc_16).
THEOREM ChecksumsRight == Spec => []SealedBlocksGood
<1>1. BlockInv => SealedBlocksGood
  BY DEF BlockInv, SealedInv, Intact, Dist, SealedBlocksGood
<1> QED BY BlockInit, BlockNext, <1>1, PTL DEF Spec
-----------------------------------------------------------------------------
(* add_crc_16_rd, field by field.                                           *)

\* After the bytes of the marker were looked at, a byte is added or ignored.
LEMMA Fed ==
  ASSUME NEW c \in Crc, NEW b \in Byte, NEW w \in Word
  PROVE  /\ AnalyseMarker(c, b).cnt <= 0 => AddCrcRd(c, b, w) = AnalyseMarker(c, b)
         /\ AnalyseMarker(c, b).cnt > 0 =>
              /\ AddCrcRd(c, b, w).acc = CrcStep(AnalyseMarker(c, b).acc, b)
              /\ AddCrcRd(c, b, w).cnt = AnalyseMarker(c, b).cnt - 1
              /\ AddCrcRd(c, b, w).a1 = AnalyseMarker(c, b).a1
              /\ AddCrcRd(c, b, w).marker <=> AnalyseMarker(c, b).marker
              /\ ~AnalyseMarker(c, b).header =>
                   /\ ~AddCrcRd(c, b, w).header
                   /\ AddCrcRd(c, b, w).size = AnalyseMarker(c, b).size
              /\ AddCrcRd(c, b, w).ok
                   <=> IF AnalyseMarker(c, b).cnt = 1 THEN w = AddCrcRd(c, b, w).acc
                       ELSE AnalyseMarker(c, b).ok
<1> DEFINE a == AnalyseMarker(c, b)
           s == SizeOf(a, b)
           d == AddCrc(s, b)
           r == AddCrcRd(c, b, w)
<1>1. a \in Crc
  BY AnalyseMarkerType
<1>2. s \in Crc
  BY <1>1, SizeOfType
<1>3. d \in Crc
  BY <1>2, AddCrcType
<1>4. /\ s.cnt = a.cnt /\ s.acc = a.acc /\ s.a1 = a.a1
      /\ s.marker = a.marker /\ s.ok = a.ok
      /\ ~a.header => s = a
  <2> HIDE DEF a
  <2> DEFINE z == IF b < 4 THEN b ELSE DefaultSize
  <2>1. s = IF a.header /\ a.cnt = 1 THEN [a EXCEPT !.header = FALSE, !.size = z] ELSE a
    BY DEF SizeOf
  <2> HIDE DEF z, s
  <2> QED BY <1>1, <2>1, Zenon DEF Crc
<1>5. /\ d.acc = CrcStep(s.acc, b) /\ d.cnt = s.cnt /\ d.a1 = s.a1 /\ d.marker = s.marker
      /\ d.header = s.header /\ d.size = s.size /\ d.ok = s.ok
  <2> HIDE DEF s
  <2> DEFINE z == CrcStep(s.acc, b)
  <2>1. d = [s EXCEPT !.acc = z]
    BY DEF AddCrc
  <2> HIDE DEF z, d
  <2>2. /\ d.acc = z /\ d.cnt = s.cnt /\ d.a1 = s.a1 /\ d.marker = s.marker
        /\ d.header = s.header /\ d.size = s.size /\ d.ok = s.ok
    BY <1>2, <2>1, Zenon DEF Crc
  <2> QED BY <2>2 DEF z
<1>6. r = IF a.cnt <= 0 THEN a
          ELSE [d EXCEPT !.cnt = @ - 1, !.ok = IF d.cnt = 1 THEN w = d.acc ELSE @]
  BY DEF AddCrcRd
<1> HIDE DEF a, s, d, r
<1>7. CASE a.cnt <= 0
  <2>1. ~(a.cnt > 0)
    BY <1>1, <1>7 DEF Crc
  <2> QED BY <1>6, <1>7, <2>1 DEF a, r
<1>8. CASE ~(a.cnt <= 0)
  <2> DEFINE n == d.cnt - 1
             k == IF d.cnt = 1 THEN w = d.acc ELSE d.ok
  <2>1. r = [d EXCEPT !.cnt = n, !.ok = k]
    BY <1>6, <1>8
  <2> HIDE DEF n, k
  <2>2. /\ r.acc = d.acc /\ r.cnt = n /\ r.a1 = d.a1 /\ r.marker = d.marker
        /\ r.header = d.header /\ r.size = d.size /\ r.ok = k
    BY <1>3, <2>1, Zenon DEF Crc
  <2>3. r.ok <=> IF a.cnt = 1 THEN w = r.acc ELSE a.ok
    BY <1>4, <1>5, <2>2, Zenon DEF k
  <2>4. r.cnt = a.cnt - 1
    BY <1>4, <1>5, <2>2 DEF n
  <2>5. r.acc = CrcStep(a.acc, b) /\ r.a1 = a.a1 /\ (r.marker <=> a.marker)
    BY <1>4, <1>5, <2>2
  <2>6. ~a.header => ~r.header /\ r.size = a.size
    BY <1>4, <1>5, <2>2
  <2> QED BY <1>8, <2>3, <2>4, <2>5, <2>6 DEF a, r
<1> QED BY <1>7, <1>8

\* A byte A1 of the marker is judged as if the block ended with it.
LEMMA FedMark ==
  ASSUME NEW c \in Crc, NEW w \in Word, c.marker, ~c.header
  PROVE  /\ AddCrcRd(c, 161, w).acc = CrcStep(c.acc, 161)
         /\ AddCrcRd(c, 161, w).cnt = 0 /\ AddCrcRd(c, 161, w).a1 = c.a1 + 1
         /\ AddCrcRd(c, 161, w).marker /\ ~AddCrcRd(c, 161, w).header
         /\ AddCrcRd(c, 161, w).size = c.size
         /\ AddCrcRd(c, 161, w).ok <=> w = AddCrcRd(c, 161, w).acc
<1> DEFINE a == AnalyseMarker(c, 161)
           n == c.a1 + 1
<1>1. 161 \in Byte
  BY DEF Byte
<1>2. a = [c EXCEPT !.a1 = n, !.cnt = 1]
  BY DEF AnalyseMarker
<1> HIDE DEF a, n
<1>3. /\ a.acc = c.acc /\ a.cnt = 1 /\ a.a1 = n /\ a.marker = c.marker
      /\ a.header = c.header /\ a.size = c.size
  BY <1>2, Zenon DEF Crc
<1>4. a.cnt > 0 /\ a.cnt - 1 = 0
  BY <1>3
<1>5. a.marker /\ ~a.header
  BY <1>3
<1> QED BY <1>1, <1>3, <1>4, <1>5, Fed DEF a, n

\* The bytes that a block has after its marker.
Rest(size, b) ==
  IF b = 254 THEN 4 ELSE IF b \in {251, 248} THEN SectorSize[size] ELSE 0

\* The byte after three A1 sets the count.
LEMMA FedKind ==
  ASSUME NEW c \in Crc, NEW b \in Byte, NEW w \in Word, b # 161,
         c.marker, c.a1 = 3, c.cnt = 0
  PROVE  /\ AddCrcRd(c, b, w).acc = CrcStep(c.acc, b)
         /\ AddCrcRd(c, b, w).cnt = Rest(c.size, b) /\ ~AddCrcRd(c, b, w).marker
         /\ AddCrcRd(c, b, w).ok
              <=> IF Rest(c.size, b) = 0 THEN w = AddCrcRd(c, b, w).acc ELSE c.ok
<1> DEFINE a == AnalyseMarker(c, b)
           n == 1 + Rest(c.size, b)
           h == b = 254
<1>1. Rest(c.size, b) \in Nat
  BY FloppyAssumption DEF Crc, Rest
<1>2. a = [c EXCEPT !.a1 = 0, !.marker = FALSE, !.header = h, !.cnt = n]
  BY DEF AnalyseMarker, Rest
<1> HIDE DEF a, n, h
<1>3. /\ a.acc = c.acc /\ a.cnt = n /\ a.marker = FALSE /\ a.ok = c.ok
  BY <1>2, Zenon DEF Crc
<1>4. a.cnt > 0 /\ a.cnt - 1 = Rest(c.size, b) /\ (a.cnt = 1 <=> Rest(c.size, b) = 0)
  BY <1>1, <1>3 DEF n
<1>5. ~a.marker
  BY <1>3
<1> QED BY <1>3, <1>4, <1>5, Fed DEF a

\* A byte of the block.
LEMMA FedData ==
  ASSUME NEW c \in Crc, NEW b \in Byte, NEW w \in Word, ~c.marker, c.cnt > 0
  PROVE  /\ AddCrcRd(c, b, w).acc = CrcStep(c.acc, b)
         /\ AddCrcRd(c, b, w).cnt = c.cnt - 1 /\ ~AddCrcRd(c, b, w).marker
         /\ AddCrcRd(c, b, w).ok
              <=> IF c.cnt = 1 THEN w = AddCrcRd(c, b, w).acc ELSE c.ok
<1>1. AnalyseMarker(c, b) = c
  BY DEF AnalyseMarker
<1> QED BY <1>1, Fed

\* Once the count has run out, nothing changes.
LEMMA FedDone ==
  ASSUME NEW c \in Crc, NEW v \in Word, NEW w \in Word, ~c.marker, c.cnt = 0
  PROVE  AddWordRd(c, v, w) = c
<1>1. \A b \in Byte : AnalyseMarker(c, b) = c
  BY DEF AnalyseMarker
<1>2. \A b \in Byte : AddCrcRd(c, b, w) = c
  BY <1>1, Fed
<1> QED BY <1>2, Bytes DEF AddWordRd

-----------------------------------------------------------------------------
(* A framed block, word by word.                                            *)

LEMMA Lengths ==
  ASSUME NEW cells \in Cells, NEW at \in Pos
  PROVE  /\ BlockLen(cells, at) \in Nat
         /\ Framed(cells, at) =>
              /\ BlockLen(cells, at) >= 2
              /\ 2 * (BlockLen(cells, at) - 2)
                   = Rest(DefaultSize, Lo(cells.word[Cyclic(at, 1)]))
<1> DEFINE n == SectorSize[DefaultSize]
<1>1. n \in Nat \ {0} /\ n % 2 = 0
  BY FloppyAssumption DEF DefaultSize
<1> HIDE DEF n
<1>2. n \div 2 \in Nat /\ 2 * (n \div 2) = n
  BY <1>1
<1> QED BY <1>2 DEF BlockLen, Rest, n

\* What add_crc_16_rd knows of a framed block when n of its words are in the checksum.
Checked(c, cells, at, n) ==
  LET len == BlockLen(cells, at) IN
  /\ c.acc = CrcOf(cells, at, n)
  /\ n = 0 => c = IniCrc
  /\ n = 1 =>
       /\ c.marker /\ ~c.header /\ c.a1 = 2 /\ c.cnt = 0 /\ c.size = DefaultSize
       /\ c.ok <=> cells.word[Cyclic(at, 1)] = CrcOf(cells, at, 1)
  /\ n >= 2 => ~c.marker /\ c.cnt = 2 * (len - n)
  /\ n >= 2 /\ n < len =>
       (c.ok <=> cells.word[Cyclic(at, 2)] = CrcStep(CrcOf(cells, at, 1), 161))
  /\ n >= 2 /\ n = len => (c.ok <=> Good(cells, at))

LEMMA CyclicPos == ASSUME NEW at \in Pos, NEW n \in Nat PROVE Cyclic(at, n) \in Pos
<1>1. at + n \in Nat
  BY FloppyAssumption DEF Pos
<1>2. (at + n) % TrackLen \in 0 .. TrackLen - 1
  BY <1>1, FloppyAssumption
<1> QED BY <1>2 DEF Cyclic, Pos

\* The marker word is two bytes A1.
LEMMA FirstChecked ==
  ASSUME NEW cells \in Cells, NEW at \in Pos, Framed(cells, at), NEW w \in Word,
         w = cells.word[Cyclic(at, 1)]
  PROVE  Checked(AddWordRd(IniCrc, cells.word[Cyclic(at, 0)], w), cells, at, 1)
<1> DEFINE v == cells.word[Cyclic(at, 0)]
           c == IniCrc
           d == AddCrcRd(c, 161, w)
           e == AddCrcRd(d, 161, w)
<1>1. Cyclic(at, 0) = at
  BY Ways
<1>2. v = 161 * 257 /\ Hi(v) = 161 /\ Lo(v) = 161
  BY <1>1 DEF Framed, Hi, Lo
<1>3. AddWordRd(c, v, w) = e
  BY <1>2 DEF AddWordRd
<1>4. CrcOf(cells, at, 1) = CrcStep(CrcStep(65535, 161), 161)
  <2>1. CrcOf(cells, at, 0 + 1) = Added(CrcOf(cells, at, 0), v) /\ CrcOf(cells, at, 0) = 65535
    BY CrcOfNext
  <2> HIDE DEF v
  <2> QED BY <1>2, <2>1 DEF Added
<1>5. /\ c \in Crc /\ c.marker /\ ~c.header /\ c.a1 = 0 /\ c.acc = 65535
      /\ c.size = DefaultSize
  BY IniCrcType DEF IniCrc
<1> HIDE DEF c
<1>6. /\ d \in Crc /\ d.acc = CrcStep(65535, 161) /\ d.cnt = 0 /\ d.a1 = 1
      /\ d.marker /\ ~d.header /\ d.size = DefaultSize
  <2>1. 161 \in Byte /\ 0 + 1 = 1
    BY DEF Byte
  <2> QED BY <1>5, <2>1, FedMark, AddCrcRdType
<1> HIDE DEF d
<1>7. /\ e.acc = CrcStep(d.acc, 161) /\ e.cnt = 0 /\ e.a1 = 2
      /\ e.marker /\ ~e.header /\ e.size = DefaultSize
      /\ e.ok <=> w = e.acc
  <2>1. 1 + 1 = 2
    OBVIOUS
  <2> QED BY <1>6, <2>1, FedMark
<1> HIDE DEF e
<1>8. e.acc = CrcOf(cells, at, 1) /\ (e.ok <=> cells.word[Cyclic(at, 1)] = CrcOf(cells, at, 1))
  BY <1>4, <1>6, <1>7
<1>9. 1 # 0 /\ ~(1 >= 2)
  OBVIOUS
<1>10. Checked(e, cells, at, 1)
  BY <1>7, <1>8, <1>9, Zenon DEF Checked
<1> HIDE DEF v
<1> QED BY <1>3, <1>10 DEF v, c

\* The next one is a third A1 and the kind of the block.
LEMMA SecondChecked ==
  ASSUME NEW cells \in Cells, NEW at \in Pos, Framed(cells, at),
         NEW c \in Crc, Checked(c, cells, at, 1),
         NEW w \in Word, w = cells.word[Cyclic(at, 2)]
  PROVE  Checked(AddWordRd(c, cells.word[Cyclic(at, 1)], w), cells, at, 2)
<1> DEFINE v == cells.word[Cyclic(at, 1)]
           b == Lo(v)
           len == BlockLen(cells, at)
           d == AddCrcRd(c, 161, w)
           e == AddCrcRd(d, b, w)
<1>1. Hi(v) = 161 /\ b # 161 /\ v \in Word /\ b \in Byte
  BY CyclicPos, Bytes DEF Framed, Cells
<1>2. AddWordRd(c, v, w) = e
  BY <1>1 DEF AddWordRd
<1>3. CrcOf(cells, at, 2) = CrcStep(CrcStep(CrcOf(cells, at, 1), 161), b)
  <2>1. CrcOf(cells, at, 1 + 1) = Added(CrcOf(cells, at, 1), v)
    BY CrcOfNext
  <2> HIDE DEF v
  <2> QED BY <1>1, <2>1 DEF Added
<1>4. len >= 2 /\ len \in Nat /\ 2 * (len - 2) = Rest(DefaultSize, b)
  BY Lengths
<1>5. /\ c.acc = CrcOf(cells, at, 1) /\ c.marker /\ ~c.header /\ c.a1 = 2
      /\ c.size = DefaultSize
  BY DEF Checked
<1>6. Good(cells, at) <=> cells.word[Cyclic(at, len)] = CrcOf(cells, at, len)
  BY <1>4 DEF Good
<1> HIDE DEF b, len, v
<1>7. /\ d \in Crc /\ d.acc = CrcStep(c.acc, 161) /\ d.cnt = 0 /\ d.a1 = 3
      /\ d.marker /\ d.size = DefaultSize
      /\ d.ok <=> w = d.acc
  <2>1. 161 \in Byte /\ 2 + 1 = 3
    BY DEF Byte
  <2> QED BY <1>5, <2>1, FedMark, AddCrcRdType
<1> HIDE DEF d
<1>8. /\ e.acc = CrcStep(d.acc, b) /\ e.cnt = Rest(DefaultSize, b) /\ ~e.marker
      /\ e.ok <=> IF Rest(DefaultSize, b) = 0 THEN w = e.acc ELSE d.ok
  BY <1>1, <1>7, FedKind
<1> HIDE DEF e
<1>9. e.acc = CrcOf(cells, at, 2)
  BY <1>3, <1>5, <1>7, <1>8
<1>10. CASE len = 2
  <2>1. Rest(DefaultSize, b) = 0
    BY <1>4, <1>10
  <2>2. e.ok <=> Good(cells, at)
    BY <1>6, <1>8, <1>9, <1>10, <2>1
  <2>3. e.cnt = 2 * (len - 2) /\ 2 # 0 /\ 2 # 1 /\ ~(2 < len)
    BY <1>4, <1>8, <1>10
  <2>4. Checked(e, cells, at, 2)
    BY <1>8, <1>9, <2>2, <2>3, Zenon DEF Checked, len
  <2> QED BY <1>2, <2>4 DEF v
<1>11. CASE len # 2
  <2>1. Rest(DefaultSize, b) # 0
    BY <1>4, <1>11
  <2>2. e.ok <=> cells.word[Cyclic(at, 2)] = CrcStep(CrcOf(cells, at, 1), 161)
    BY <1>5, <1>7, <1>8, <2>1
  <2>3. e.cnt = 2 * (len - 2) /\ 2 # 0 /\ 2 # 1
    BY <1>4, <1>8
  <2>4. Checked(e, cells, at, 2)
    BY <1>8, <1>9, <1>11, <2>2, <2>3, Zenon DEF Checked, len
  <2> QED BY <1>2, <2>4 DEF v
<1> QED BY <1>10, <1>11

\* The words of the block; with the last one the checksum is judged.
LEMMA ThenChecked ==
  ASSUME NEW cells \in Cells, NEW at \in Pos, Framed(cells, at), NEW n \in Nat,
         n >= 2, n < BlockLen(cells, at),
         NEW c \in Crc, Checked(c, cells, at, n),
         NEW w \in Word, w = cells.word[Cyclic(at, n + 1)]
  PROVE  Checked(AddWordRd(c, cells.word[Cyclic(at, n)], w), cells, at, n + 1)
<1> DEFINE v == cells.word[Cyclic(at, n)]
           len == BlockLen(cells, at)
           d == AddCrcRd(c, Hi(v), w)
           e == AddCrcRd(d, Lo(v), w)
<1>1. v \in Word /\ Hi(v) \in Byte /\ Lo(v) \in Byte
  BY CyclicPos, Bytes DEF Cells
<1>2. AddWordRd(c, v, w) = e
  BY DEF AddWordRd
<1>3. CrcOf(cells, at, n + 1) = CrcStep(CrcStep(CrcOf(cells, at, n), Hi(v)), Lo(v))
  BY CrcOfNext DEF Added
<1>4. len \in Nat
  BY Lengths
<1>5. /\ c.acc = CrcOf(cells, at, n) /\ ~c.marker /\ c.cnt = 2 * (len - n)
      /\ c.ok <=> cells.word[Cyclic(at, 2)] = CrcStep(CrcOf(cells, at, 1), 161)
  BY DEF Checked
<1>6. Good(cells, at) <=> len > 0 /\ cells.word[Cyclic(at, len)] = CrcOf(cells, at, len)
  BY DEF Good
<1> HIDE DEF v
<1>7. n < len
  OBVIOUS
<1> HIDE DEF len
<1>8. c.cnt > 0 /\ c.cnt # 1 /\ c.cnt - 1 > 0 /\ c.cnt - 1 - 1 = 2 * (len - (n + 1))
      /\ (c.cnt - 1 = 1 <=> n + 1 = len)
  BY <1>4, <1>5, <1>7
<1>9. /\ d \in Crc /\ d.acc = CrcStep(c.acc, Hi(v)) /\ d.cnt = c.cnt - 1 /\ ~d.marker
      /\ d.ok <=> c.ok
  BY <1>1, <1>5, <1>8, FedData, AddCrcRdType
<1> HIDE DEF d
<1>10. /\ e.acc = CrcStep(d.acc, Lo(v)) /\ e.cnt = d.cnt - 1 /\ ~e.marker
       /\ e.ok <=> IF d.cnt = 1 THEN w = e.acc ELSE d.ok
  <2> DEFINE b == Lo(v)
  <2>1. d \in Crc /\ ~d.marker /\ d.cnt > 0 /\ b \in Byte
    BY <1>1, <1>8, <1>9
  <2> HIDE DEF b
  <2>2. /\ AddCrcRd(d, b, w).acc = CrcStep(d.acc, b)
        /\ AddCrcRd(d, b, w).cnt = d.cnt - 1 /\ ~AddCrcRd(d, b, w).marker
        /\ AddCrcRd(d, b, w).ok <=> IF d.cnt = 1 THEN w = AddCrcRd(d, b, w).acc ELSE d.ok
    BY <2>1, FedData, Zenon
  <2> QED BY <2>2 DEF b
<1> HIDE DEF e
<1>11. e.acc = CrcOf(cells, at, n + 1) /\ e.cnt = 2 * (len - (n + 1))
  BY <1>3, <1>5, <1>8, <1>9, <1>10
<1>12. n + 1 >= 2 /\ n + 1 # 0 /\ n + 1 # 1 /\ n + 1 <= len
  BY <1>4, <1>7
<1>13. CASE n + 1 = len
  <2>1. e.ok <=> cells.word[Cyclic(at, len)] = CrcOf(cells, at, len)
    BY <1>8, <1>9, <1>10, <1>11, <1>13
  <2>2. e.ok <=> Good(cells, at)
    BY <1>6, <1>12, <1>13, <2>1
  <2>3. Checked(e, cells, at, n + 1)
    <3> DEFINE k == n + 1
    <3>1. ~(k < len)
      BY <1>4, <1>13
    <3> HIDE DEF k
    <3>2. Checked(e, cells, at, k)
      BY <1>10, <1>11, <1>12, <2>2, <3>1, Zenon DEF Checked, len, k
    <3> QED BY <3>2 DEF k
  <2> QED BY <1>2, <2>3 DEF v
<1>14. CASE n + 1 # len
  <2>1. e.ok <=> cells.word[Cyclic(at, 2)] = CrcStep(CrcOf(cells, at, 1), 161)
    BY <1>5, <1>8, <1>9, <1>10, <1>14
  <2>2. Checked(e, cells, at, n + 1)
    BY <1>10, <1>11, <1>12, <1>14, <2>1, Zenon DEF Checked, len
  <2> QED BY <1>2, <2>2 DEF v
<1> QED BY <1>13, <1>14

LEMMA NextChecked ==
  ASSUME NEW cells \in Cells, NEW at \in Pos, Framed(cells, at), NEW n \in Nat,
         n < BlockLen(cells, at), NEW c \in Crc, Checked(c, cells, at, n),
         NEW w \in Word, w = cells.word[Cyclic(at, n + 1)]
  PROVE  Checked(AddWordRd(c, cells.word[Cyclic(at, n)], w), cells, at, n + 1)
<1>1. CASE n = 0
  <2>1. c = IniCrc /\ 0 + 1 = 1
    BY <1>1 DEF Checked
  <2> QED BY <1>1, <2>1, FirstChecked
<1>2. CASE n = 1
  <2>1. 1 + 1 = 2
    OBVIOUS
  <2> QED BY <1>2, <2>1, SecondChecked
<1>3. CASE n # 0 /\ n # 1
  <2>1. n >= 2
    BY <1>3
  <2> QED BY <2>1, ThenChecked
<1> QED BY <1>1, <1>2, <1>3

\* The head goes round the block.
LEMMA CyclicNext ==
  ASSUME NEW at \in Pos, NEW n \in Nat
  PROVE  Cyclic(at, n + 1) = MovePtr(Cyclic(at, n))
<1> DEFINE a == at + n
           q == a \div TrackLen
           r == a % TrackLen
<1>1. a \in Nat /\ TrackLen \in Nat \ {0}
  BY FloppyAssumption DEF Pos
<1>2. at + (n + 1) = a + 1
  BY DEF Pos
<1> HIDE DEF a
<1>3. q \in Int /\ r \in 0 .. TrackLen - 1 /\ a = TrackLen * q + r
  BY <1>1
<1> HIDE DEF q, r
<1>4. CASE r + 1 < TrackLen
  <2>1. r + 1 \in 0 .. TrackLen - 1 /\ a + 1 = TrackLen * q + (r + 1)
    BY <1>1, <1>3, <1>4
  <2>2. (a + 1) % TrackLen = r + 1
    BY <1>1, <1>3, <2>1, Quotient
  <2> QED BY <1>1, <1>2, <1>3, <1>4, <2>2 DEF Cyclic, MovePtr, r, a
<1>5. CASE ~(r + 1 < TrackLen)
  <2>1. r + 1 = TrackLen
    BY <1>1, <1>3, <1>5
  <2>2. TrackLen * (q + 1) = TrackLen * q + TrackLen
    BY <1>1, <1>3
  <2>3. q + 1 \in Int /\ 0 \in 0 .. TrackLen - 1 /\ a + 1 = TrackLen * (q + 1) + 0
    BY <1>1, <1>3, <2>1, <2>2
  <2>4. (a + 1) % TrackLen = 0
    BY <1>1, <2>3, Quotient
  <2> QED BY <1>1, <1>2, <1>3, <1>5, <2>4 DEF Cyclic, MovePtr, r, a
<1> QED BY <1>4, <1>5

-----------------------------------------------------------------------------
(* A guest that reads.                                                      *)

\* Of the block that is being read: while the checksum runs, the controller knows what
\* there is to know of the words so far, and keeps the word under the head for the
\* next turn; after the block the verdict stays.
ReaderOf(cells, ptr) ==
  LET len == BlockLen(cells, blockAt) IN
  /\ blockAt \in Pos /\ ~m_bSearchSync /\ passed \in Nat /\ missed \in Nat
  /\ untaken <=> "MOREDATA" \in m_status
  /\ m_bCRCCalc => missed = 0 /\ "CHECKSUMOK" \notin m_status
  /\ m_bCRCCalc /\ passed <= len =>
       /\ ptr = Cyclic(blockAt, passed) /\ m_shiftreg = cells.word[ptr]
       /\ passed = 0 => crc = IniCrc
       /\ Framed(cells, blockAt) => Checked(crc, cells, blockAt, passed)
  /\ m_bCRCCalc /\ passed > len /\ Framed(cells, blockAt) =>
       ~crc.marker /\ crc.cnt = 0 /\ (crc.ok <=> Good(cells, blockAt))
  /\ "CHECKSUMOK" \in m_status /\ Plain(cells, blockAt) =>
       Good(cells, blockAt) /\ passed >= len /\ missed <= 1

\* While a marker is looked for nothing is announced and no verdict is up.
ReaderInv ==
  /\ ~m_bWriteMode /\ m_bSearchSync => {"MOREDATA", "CHECKSUMOK"} \cap m_status = {}
  /\ ReadingBlock => ReaderOf(buf[m_drive].cells, buf[m_drive].ptr)

LEMMA ReaderInit == Init => ReaderInv
BY DEF Init, ReaderInv, ReadingBlock, None

LEMMA ReaderKept ==
  ASSUME NEW cells, NEW ptr, ReaderOf(cells, ptr), ~m_bSearchSync',
         UNCHANGED <<blockAt, passed, missed, m_bCRCCalc, m_shiftreg, crc>>,
         untaken' <=> "MOREDATA" \in m_status',
         "CHECKSUMOK" \in m_status' <=> "CHECKSUMOK" \in m_status
  PROVE  /\ blockAt' \in Pos /\ passed' \in Nat /\ missed' \in Nat
         /\ ReaderOf(cells, ptr)'
BY DEF ReaderOf

LEMMA ReaderSetCommand ==
  ASSUME TypeOK, ReaderInv, NEW c \in Commands, SetCommand(c) PROVE ReaderInv'
<1>1. m_bWriteMode' = m_bWriteMode
  BY DEF SetCommand
<1>2. /\ "MOREDATA" \in Track0(c) <=> "MOREDATA" \in m_status
      /\ "CHECKSUMOK" \in Track0(c) <=> "CHECKSUMOK" \in m_status
  BY DEF Track0
<1>3. ASSUME ~m_bWriteMode, m_bSearchSync'
      PROVE  "MOREDATA" \notin m_status' /\ "CHECKSUMOK" \notin m_status'
  <2>1. CASE c.drive \notin Drives \cup Bare
    BY <1>3, <2>1 DEF SetCommand, search, ReaderInv
  <2>2. CASE c.drive \in Drives \cup Bare /\ StartSearch(c)
    BY <2>2 DEF SetCommand, Cleared
  <2>3. CASE c.drive \in Drives \cup Bare /\ ~StartSearch(c)
    <3>1. m_bSearchSync /\ ~MarkNext(c)
      BY <1>3, <2>3 DEF SetCommand, MarkNext
    <3>2. m_status' = Track0(c)
      BY <2>3, <3>1 DEF SetCommand
    <3> QED BY <1>2, <1>3, <3>1, <3>2 DEF ReaderInv
  <2> QED BY <2>1, <2>2, <2>3
<1>4. ASSUME ReadingBlock' PROVE ReaderOf(buf[m_drive].cells, buf[m_drive].ptr)'
  <2>1. /\ ~Moved(c) /\ ~StartSearch(c) /\ ~MarkNext(c) /\ ~m_bWriteMode
        /\ blockAt' = blockAt /\ c.drive = m_drive /\ m_drive' = m_drive /\ m_drive \in Drives
    BY <1>1, <1>4 DEF SetCommand, ReadingBlock, Moved, MarkNext
  <2>2. ReaderOf(buf[m_drive].cells, buf[m_drive].ptr)
    BY <1>4, <2>1 DEF ReaderInv, ReadingBlock
  <2>3. /\ buf' = buf /\ m_status' = Track0(c) /\ crc' = crc
        /\ m_bSearchSync' <=> m_bSearchSync
    BY <2>1 DEF SetCommand
  <2>4. UNCHANGED <<passed, missed, untaken, m_bCRCCalc, m_shiftreg>>
    BY Zenon DEF SetCommand, readH, pipe
  <2>5. ~m_bSearchSync /\ (untaken <=> "MOREDATA" \in m_status)
    BY <2>2 DEF ReaderOf
  <2> DEFINE cells == buf[m_drive].cells
             ptr == buf[m_drive].ptr
  <2>6. buf'[m_drive'].cells = cells /\ buf'[m_drive'].ptr = ptr
    BY <2>1, <2>3
  <2> HIDE DEF cells, ptr
  <2>7. cells' = cells /\ ptr' = ptr
    BY <2>6 DEF cells, ptr
  <2> QED BY <1>2, <2>1, <2>2, <2>3, <2>4, <2>5, <2>6, ReaderKept DEF cells, ptr, ReaderOf
<1> QED BY <1>1, <1>3, <1>4 DEF ReaderInv

LEMMA ReaderGuestData ==
  ASSUME TypeOK, ReaderInv, GetState \/ GetData \/ \E w \in Words : WriteData(w)
  PROVE  ReaderInv'
<1>1. CASE GetState
  <2>1. ~ReadingBlock'
    BY <1>1 DEF GetState, ReadingBlock
  <2>2. /\ m_bWriteMode' = m_bWriteMode /\ m_bSearchSync' = m_bSearchSync
        /\ m_status' \subseteq m_status
    BY <1>1 DEF GetState, search
  <2> QED BY <2>1, <2>2 DEF ReaderInv
<1>2. CASE GetData
  <2>1. ~m_bSearchSync'
    BY <1>2 DEF GetData
  <2>2. ASSUME ReadingBlock' PROVE ReaderOf(buf[m_drive].cells, buf[m_drive].ptr)'
    <3>1. ReadingBlock /\ m_drive' = m_drive /\ buf' = buf /\ blockAt' = blockAt
      BY <1>2, <2>2 DEF GetData, ReadingBlock, command
    <3>2. ReaderOf(buf[m_drive].cells, buf[m_drive].ptr)
      BY <3>1 DEF ReaderInv
    <3>3. UNCHANGED <<passed, missed, m_bCRCCalc, m_shiftreg, crc>>
      BY <1>2, Zenon DEF GetData
    <3>4. /\ untaken' <=> "MOREDATA" \in m_status'
          /\ "CHECKSUMOK" \in m_status' <=> "CHECKSUMOK" \in m_status
      BY <1>2 DEF GetData
    <3> DEFINE cells == buf[m_drive].cells
               ptr == buf[m_drive].ptr
    <3>5. buf'[m_drive'].cells = cells /\ buf'[m_drive'].ptr = ptr
      BY <3>1
    <3> HIDE DEF cells, ptr
    <3>6. cells' = cells /\ ptr' = ptr
      BY <3>5 DEF cells, ptr
    <3> QED BY <2>1, <3>1, <3>2, <3>3, <3>4, <3>5, <3>6, ReaderKept DEF cells, ptr, ReaderOf
  <2> QED BY <2>1, <2>2 DEF ReaderInv
<1>3. CASE \E w \in Words : WriteData(w)
  BY <1>3 DEF WriteData, ReaderInv, ReadingBlock
<1> QED BY <1>1, <1>2, <1>3

LEMMA ReaderReset == ASSUME OnReset PROVE ReaderInv'
<1>1. m_drive' = NoDrive /\ m_status' = {"TRACK0"}
  BY DEF OnReset
<1>2. ~ReadingBlock'
  BY <1>1, FloppyAssumption DEF ReadingBlock
<1> QED BY <1>1, <1>2 DEF ReaderInv

\* Nothing is read while the disk under the head is written, or when there is none.
LEMMA ReaderIdle == ASSUME ReaderInv, Writing \/ Turning PROVE ReaderInv'
<1>1. /\ m_drive' = m_drive /\ m_bWriteMode' = m_bWriteMode
      /\ m_bSearchSync' = m_bSearchSync
  BY DEF Writing, Turning, command, search
<1>2. m_drive \in Drives => m_bWriteMode
  BY DEF Writing, Turning
<1>3. ~m_bWriteMode => m_status' = m_status
  BY <1>2 DEF Writing, Turning
<1> QED BY <1>1, <1>2, <1>3 DEF ReaderInv, ReadingBlock

\* One more word is read.
LEMMA WordRead ==
  ASSUME NEW cells \in Cells, NEW at \in Pos, NEW n \in Nat, NEW c \in Crc,
         NEW s \in Word, NEW w \in Word,
         n <= BlockLen(cells, at) =>
           s = cells.word[Cyclic(at, n)] /\ w = cells.word[Cyclic(at, n + 1)],
         n <= BlockLen(cells, at) /\ Framed(cells, at) => Checked(c, cells, at, n),
         n > BlockLen(cells, at) /\ Framed(cells, at) =>
           ~c.marker /\ c.cnt = 0 /\ (c.ok <=> Good(cells, at))
  PROVE  /\ n < BlockLen(cells, at) => Checked(AddWordRd(c, s, w), cells, at, n + 1)
         /\ n >= BlockLen(cells, at) /\ Framed(cells, at) =>
              /\ ~AddWordRd(c, s, w).marker /\ AddWordRd(c, s, w).cnt = 0
              /\ AddWordRd(c, s, w).ok <=> Good(cells, at)
<1> DEFINE len == BlockLen(cells, at)
<1>1. len \in Nat /\ (Framed(cells, at) => len >= 2) /\ (~Framed(cells, at) => len = 0)
  BY Lengths DEF BlockLen
<1>2. ASSUME n < len PROVE Checked(AddWordRd(c, s, w), cells, at, n + 1)
  <2>1. Framed(cells, at) /\ n <= len
    BY <1>1, <1>2
  <2>2. Checked(c, cells, at, n) /\ s = cells.word[Cyclic(at, n)]
          /\ w = cells.word[Cyclic(at, n + 1)]
    BY <2>1
  <2> QED BY <1>2, <2>1, <2>2, NextChecked
<1>3. ASSUME n >= len, Framed(cells, at)
      PROVE  ~c.marker /\ c.cnt = 0 /\ (c.ok <=> Good(cells, at))
  <2>1. CASE n = len
    <3>1. Checked(c, cells, at, n) /\ n >= 2 /\ 2 * (len - n) = 0
      BY <1>1, <1>3, <2>1
    <3> QED BY <2>1, <3>1, Zenon DEF Checked
  <2>2. CASE n # len
    BY <1>1, <1>3, <2>2
  <2> QED BY <2>1, <2>2
<1>4. ASSUME n >= len, Framed(cells, at) PROVE AddWordRd(c, s, w) = c
  BY <1>3, <1>4, FedDone
<1> QED BY <1>2, <1>3, <1>4

\* Of a plain block the count is zero with a checksum that fits only at its end.
LEMMA Judged ==
  ASSUME NEW cells \in Cells, NEW at \in Pos, NEW n \in Nat, n >= 1,
         n <= BlockLen(cells, at), NEW c, Checked(c, cells, at, n), c.ok, Plain(cells, at)
  PROVE  Good(cells, at) /\ n = BlockLen(cells, at)
<1>1. BlockLen(cells, at) \in Nat
  BY Lengths
<1>2. CASE n = 1
  BY <1>2 DEF Checked, Plain
<1>3. CASE n >= 2 /\ n < BlockLen(cells, at)
  BY <1>3 DEF Checked, Plain
<1>4. CASE n >= 2 /\ n = BlockLen(cells, at)
  BY <1>4 DEF Checked
<1> QED BY <1>1, <1>2, <1>3, <1>4

\* The word under the head, and what the other variables become.
LEMMA ReadHead ==
  ASSUME TypeOK, Reading
  PROVE  /\ m_drive \in Drives /\ m_drive' = m_drive /\ ~m_bWriteMode /\ ~m_bWriteMode'
         /\ Here.cells = buf[m_drive].cells /\ Here.ptr = MovePtr(buf[m_drive].ptr)
         /\ buf' = Turned /\ buf'[m_drive'] = Here
         /\ Here.cells \in Cells /\ Here.ptr \in Pos /\ buf[m_drive].ptr \in Pos
         /\ m_datareg' = Here.cells.word[Here.ptr] /\ m_datareg' \in Word
<1>1. m_drive \in Drives /\ m_drive' = m_drive /\ ~m_bWriteMode /\ ~m_bWriteMode'
      /\ buf' = Turned
  BY DEF Reading, command
<1>2. Turned \in [Drives -> Buffer] /\ buf[m_drive].ptr \in Pos
  BY <1>1, TurnedType, Zenon DEF TypeOK, Buffer
<1>3. Here \in Buffer
  BY <1>1, <1>2, Zenon DEF Here
<1>4. Here.cells \in Cells /\ Here.ptr \in Pos
  BY <1>3, Zenon DEF Buffer
<1>5. Here.cells.word[Here.ptr] \in Word
  BY <1>4, Zenon DEF Cells
<1>6. m_datareg' = Here.cells.word[Here.ptr]
  BY Zenon DEF Reading, ReadLate, ReadWord
<1> QED BY <1>1, <1>2, <1>4, <1>5, <1>6, TurnedCells, Zenon DEF Here

\* The head has found a marker.
LEMMA ReaderFound ==
  ASSUME TypeOK, ReaderInv, Reading, Found, NEW cells \in Cells, NEW ptr \in Pos,
         cells = Here.cells, ptr = Here.ptr
  PROVE  ReaderOf(cells, ptr)'
<1>1. ~Announced /\ m_bSearchSync /\ ReadWord /\ "CHECKSUMOK" \notin m_status
  BY DEF Found, Reading, ReadLate, ReaderInv
<1>2. /\ blockAt' = ptr /\ passed' = 0 /\ missed' = 0 /\ untaken' = TRUE
  BY DEF Reading, Follow
<1>3. /\ m_shiftreg' = cells.word[ptr] /\ crc' = IniCrc /\ m_bCRCCalc' = TRUE
      /\ m_status' = m_status \cup {"MOREDATA"} /\ m_bSearchSync' = FALSE
  BY <1>1 DEF ReadWord
<1>4. Cyclic(ptr, 0) = ptr
  BY Ways
<1>5. BlockLen(cells, ptr) \in Nat
  BY Lengths
<1>6. Checked(IniCrc, cells, ptr, 0)
  <2>1. IniCrc.acc = 65535
    BY DEF IniCrc
  <2>2. 0 \in Nat /\ 0 # 1 /\ ~(0 >= 2)
    OBVIOUS
  <2>3. CrcOf(cells, ptr, 0) = 65535
    BY <2>2, CrcOfNext
  <2> DEFINE c == IniCrc
             n == 0
  <2>4. c.acc = CrcOf(cells, ptr, n) /\ c = IniCrc /\ n # 1 /\ ~(n >= 2)
    BY <2>1, <2>2, <2>3
  <2> HIDE DEF c, n
  <2>5. Checked(c, cells, ptr, n)
    BY <2>4 DEF Checked
  <2> QED BY <2>5 DEF c, n
<1>7. cells' = cells /\ ptr' = ptr
  OBVIOUS
<1>8. blockAt' \in Pos /\ passed' \in Nat /\ missed' \in Nat
  BY <1>2
<1> DEFINE len == BlockLen(cells, blockAt')
<1>9. len = BlockLen(cells, ptr)
  BY <1>2
<1> HIDE DEF len
<1>10. ~(passed' > len) /\ "CHECKSUMOK" \notin m_status'
  BY <1>1, <1>2, <1>3, <1>5, <1>9
<1> QED BY <1>2, <1>3, <1>4, <1>6, <1>8, <1>9, <1>10 DEF ReaderOf, len

\* A block goes on under the head.
LEMMA ReaderGoesOn ==
  ASSUME TypeOK, Reading, ~Found, NEW cells \in Cells, NEW ptr \in Pos,
         ReaderOf(cells, ptr), NEW next \in Pos, cells = Here.cells,
         next = MovePtr(ptr), next = Here.ptr
  PROVE  ReaderOf(cells, next)'
<1> DEFINE len == BlockLen(cells, blockAt)
           w == cells.word[next]
<1>1. /\ blockAt \in Pos /\ ~m_bSearchSync /\ passed \in Nat /\ missed \in Nat
      /\ untaken <=> "MOREDATA" \in m_status
  BY DEF ReaderOf
<1>2. len \in Nat
  BY <1>1, Lengths
<1>3. next \in Pos /\ w \in Word /\ m_datareg' = w /\ m_shiftreg \in Word /\ crc \in Crc
  BY ReadHead DEF TypeOK
<1>4. /\ blockAt' = blockAt
      /\ passed' = IF passed > len THEN passed ELSE passed + 1
      /\ missed' = IF untaken /\ passed < len /\ missed < 2 THEN missed + 1 ELSE missed
      /\ untaken' = ("MOREDATA" \in m_status')
  BY <1>1 DEF Reading, Follow, Pos, None
<1>5. m_bCRCCalc => crc' = AddWordRd(crc, m_shiftreg, w)
  BY <1>3 DEF Reading, ReadLate, ReadWord, NextCrc
<1>6. m_bCRCCalc /\ passed <= len =>
        m_shiftreg = cells.word[Cyclic(blockAt, passed)] /\ w = cells.word[Cyclic(blockAt, passed + 1)]
          /\ next = Cyclic(blockAt, passed + 1)
  BY <1>1, CyclicNext DEF ReaderOf
<1>7. m_bCRCCalc =>
        /\ passed < len => Checked(crc', cells, blockAt, passed + 1)
        /\ passed >= len /\ Framed(cells, blockAt) =>
             ~crc'.marker /\ crc'.cnt = 0 /\ (crc'.ok <=> Good(cells, blockAt))
  <2> SUFFICES ASSUME m_bCRCCalc
               PROVE  /\ passed < len => Checked(crc', cells, blockAt, passed + 1)
                      /\ passed >= len /\ Framed(cells, blockAt) =>
                           ~crc'.marker /\ crc'.cnt = 0 /\ (crc'.ok <=> Good(cells, blockAt))
    OBVIOUS
  <2>1. /\ passed <= len /\ Framed(cells, blockAt) => Checked(crc, cells, blockAt, passed)
        /\ passed > len /\ Framed(cells, blockAt) =>
             ~crc.marker /\ crc.cnt = 0 /\ (crc.ok <=> Good(cells, blockAt))
    BY DEF ReaderOf
  <2> HIDE DEF w
  <2> QED BY <1>1, <1>3, <1>5, <1>6, <2>1, WordRead
<1> HIDE DEF w, len
<1>8. passed' <= len => passed < len /\ passed' = passed + 1 /\ passed' # 0 /\ passed' >= 1
  BY <1>1, <1>2, <1>4
<1>9. passed' > len => passed >= len
  BY <1>1, <1>2, <1>4
<1>10. missed' \in Nat /\ passed' \in Nat
  BY <1>1, <1>4
<1>11. CASE ReadWord
  <2>1. ~Announced /\ "MOREDATA" \notin m_status /\ ~untaken
    BY <1>1, <1>11 DEF ReadWord, Announced
  <2>2. /\ m_shiftreg' = w /\ m_bCRCCalc' = m_bCRCCalc /\ m_bSearchSync' = FALSE
        /\ m_status' = m_status \cup {"MOREDATA"} /\ missed' = missed
    BY <1>1, <1>3, <1>4, <1>11, <2>1 DEF ReadWord, TypeOK
  <2>3. m_bCRCCalc => missed = 0 /\ "CHECKSUMOK" \notin m_status
    BY DEF ReaderOf
  <2>4. "CHECKSUMOK" \in m_status' /\ Plain(cells, blockAt) =>
          Good(cells, blockAt) /\ passed' >= len /\ missed' <= 1
    <3>1. "CHECKSUMOK" \in m_status /\ Plain(cells, blockAt) =>
            Good(cells, blockAt) /\ passed >= len /\ missed <= 1
      BY DEF ReaderOf, len
    <3> QED BY <1>1, <1>2, <1>4, <2>2, <3>1
  <2>5. m_bCRCCalc' /\ passed' <= len =>
          /\ next = Cyclic(blockAt, passed') /\ m_shiftreg' = cells.word[next]
          /\ passed' # 0 /\ Checked(crc', cells, blockAt, passed')
    <3>1. passed' <= len => passed <= len
      BY <1>1, <1>2, <1>8
    <3> QED BY <1>6, <1>7, <1>8, <2>2, <3>1 DEF w
  <2>6. m_bCRCCalc' /\ passed' > len /\ Framed(cells, blockAt) =>
          ~crc'.marker /\ crc'.cnt = 0 /\ (crc'.ok <=> Good(cells, blockAt))
    BY <1>7, <1>9, <2>2
  <2> QED BY <1>1, <1>4, <1>10, <2>2, <2>3, <2>4, <2>5, <2>6 DEF ReaderOf, len
<1>12. CASE ReadLate
  <2>1. /\ m_bCRCCalc' = FALSE /\ m_bSearchSync' = m_bSearchSync
        /\ m_status' = IF m_bCRCCalc /\ crc'.ok THEN m_status \cup {"CHECKSUMOK"}
                       ELSE m_status
    BY <1>12 DEF ReadLate
  <2>2. ASSUME "CHECKSUMOK" \in m_status', Plain(cells, blockAt)
        PROVE  Good(cells, blockAt) /\ passed' >= len /\ missed' <= 1
    <3>1. CASE m_bCRCCalc
      <4>1. missed = 0 /\ "CHECKSUMOK" \notin m_status /\ Framed(cells, blockAt)
        BY <2>2, <3>1 DEF ReaderOf, Plain
      <4>2. crc'.ok
        BY <2>1, <2>2, <4>1
      <4>3. missed' <= 1
        BY <1>4, <4>1
      <4>4. CASE passed' <= len
        <5>1. Checked(crc', cells, blockAt, passed')
          BY <1>7, <1>8, <3>1, <4>4
        <5>2. Good(cells, blockAt) /\ passed' = len
          BY <1>1, <1>8, <1>10, <2>2, <4>2, <4>4, <5>1, Judged DEF len
        <5> QED BY <1>2, <4>3, <5>2
      <4>5. CASE passed' > len
        <5>1. Good(cells, blockAt)
          BY <1>7, <1>9, <3>1, <4>1, <4>2, <4>5
        <5> QED BY <1>2, <1>10, <4>3, <4>5, <5>1
      <4> QED BY <1>2, <1>10, <4>4, <4>5
    <3>2. CASE ~m_bCRCCalc
      <4>1. Good(cells, blockAt) /\ passed >= len /\ missed <= 1
        BY <2>1, <2>2, <3>2 DEF ReaderOf, len
      <4> QED BY <1>1, <1>2, <1>4, <4>1
    <3> QED BY <3>1, <3>2
  <2> QED BY <1>1, <1>4, <1>10, <2>1, <2>2 DEF ReaderOf, len
<1> QED BY <1>11, <1>12 DEF Reading

LEMMA ReaderReading == ASSUME TypeOK, ReaderInv, Reading PROVE ReaderInv'
<1>1. /\ m_drive \in Drives /\ m_drive' = m_drive /\ ~m_bWriteMode
      /\ Here.cells = buf[m_drive].cells /\ Here.ptr = MovePtr(buf[m_drive].ptr)
      /\ buf'[m_drive'] = Here
      /\ Here.cells \in Cells /\ Here.ptr \in Pos /\ buf[m_drive].ptr \in Pos
  BY ReadHead
<1>2. PICK cells \in Cells, ptr \in Pos, next \in Pos :
        cells = Here.cells /\ ptr = buf[m_drive].ptr /\ next = Here.ptr
  BY <1>1
<1>3. m_bSearchSync' => {"MOREDATA", "CHECKSUMOK"} \cap m_status' = {}
  <2>1. ASSUME m_bSearchSync' PROVE m_bSearchSync /\ ~Announced /\ ~Found
    BY <1>1, <2>1 DEF Reading, ReadLate, ReadWord, ReaderInv, Announced
  <2>2. ASSUME m_bSearchSync' PROVE m_status' = m_status
    BY <2>1, <2>2 DEF Reading, ReadLate, ReadWord
  <2> QED BY <1>1, <2>1, <2>2 DEF ReaderInv
<1>4. ASSUME ReadingBlock' PROVE ReaderOf(buf[m_drive].cells, buf[m_drive].ptr)'
  <2>1. CASE Found
    <3>1. ReaderOf(cells, next)'
      BY <1>2, <2>1, ReaderFound
    <3> QED BY <1>1, <1>2, <3>1 DEF ReaderOf
  <2>2. CASE ~Found
    <3>1. blockAt # None
      BY <1>4, <2>2 DEF Reading, Follow, ReadingBlock
    <3>2. ReaderOf(cells, ptr)
      BY <1>1, <1>2, <3>1 DEF ReaderInv, ReadingBlock
    <3>3. ReaderOf(cells, next)'
      BY <1>1, <1>2, <2>2, <3>2, ReaderGoesOn
    <3> QED BY <1>1, <1>2, <3>3 DEF ReaderOf
  <2> QED BY <2>1, <2>2
<1> QED BY <1>1, <1>3, <1>4 DEF ReaderInv

LEMMA ReaderNext == TypeOK /\ ReaderInv /\ [Next]_vars => ReaderInv'
<1>1. ASSUME ReaderInv, UNCHANGED vars PROVE ReaderInv'
  BY <1>1 DEF ReaderInv, ReaderOf, ReadingBlock, vars, command, search, pipe, readH
<1> QED BY <1>1, ReaderSetCommand, ReaderGuestData, ReaderReset, ReaderReading, ReaderIdle
        DEF Next, Guest, Periodic

LEMMA ReaderInvariant == Spec => [](TypeOK /\ ReaderInv)
BY TypeInit, TypeNext, ReaderInit, ReaderNext, PTL DEF Spec

\* Whatever is on the disk, whatever the polynomial and whenever the guest comes: with
\* the checksum word under the head add_crc_16_rd has found the block good exactly if
\* the words on the disk are followed by their checksum.  It has to guess from the
\* marker where the block ends, and for a sector it takes the size that
\* ini_crc_16_rd presumes.
THEOREM VerdictsRight == Spec => []VerdictRight
<1>1. ASSUME TypeOK, ReaderInv PROVE VerdictRight
  <2> SUFFICES ASSUME ReadingBlock, m_bCRCCalc, passed = BlockLen(buf[m_drive].cells, blockAt)
               PROVE  crc.ok <=> Good(buf[m_drive].cells, blockAt)
    BY DEF VerdictRight
  <2>1. buf[m_drive].cells \in Cells /\ ReaderOf(buf[m_drive].cells, buf[m_drive].ptr)
    BY <1>1, Zenon DEF ReaderInv, ReadingBlock, TypeOK, Buffer
  <2>2. PICK cells, ptr : /\ cells \in Cells
                          /\ cells = buf[m_drive].cells /\ ptr = buf[m_drive].ptr
    BY <2>1
  <2>3. ReaderOf(cells, ptr) /\ passed = BlockLen(cells, blockAt) /\ blockAt \in Pos
    BY <2>1, <2>2 DEF ReaderOf
  <2>4. /\ passed \in Nat /\ passed = 0 => crc = IniCrc
        /\ Framed(cells, blockAt) => Checked(crc, cells, blockAt, passed)
        /\ Framed(cells, blockAt) => passed >= 2
    BY <2>2, <2>3, Lengths DEF ReaderOf
  <2>5. CASE Framed(cells, blockAt)
    <3>1. crc.ok <=> Good(cells, blockAt)
      BY <2>3, <2>4, <2>5, Zenon DEF Checked
    <3> QED BY <2>2, <3>1
  <2>6. CASE ~Framed(cells, blockAt)
    <3>1. passed = 0 /\ ~Good(cells, blockAt)
      BY <2>3, <2>6 DEF BlockLen, Good
    <3>2. ~crc.ok
      BY <2>4, <3>1 DEF IniCrc
    <3> QED BY <2>2, <3>1, <3>2
  <2> QED BY <2>5, <2>6
<1> QED BY <1>1, ReaderInvariant, PTL

\* A guest that sees CHECKSUMOK after a block none of whose words is by chance the
\* checksum of bytes A1 has a good block: the command that starts a search takes the
\* bit back, and a guest that loses more than the last word does not get it.
THEOREM OkForGoodBlocks == Spec => []OkMeansGood
<1>1. ReaderInv => OkMeansGood
  BY DEF ReaderInv, ReaderOf, OkMeansGood
<1> QED BY <1>1, ReaderInvariant, PTL

=============================================================================
