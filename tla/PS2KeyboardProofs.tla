-------------------------- MODULE PS2KeyboardProofs --------------------------
(***************************************************************************)
(* Type correctness of the keyboard driver, and what it promises of the    *)
(* frames, of the manager's mode and of an interrupted read, for every     *)
(* size of the buffer and of the frame and for every set of scan codes.    *)
(***************************************************************************)
EXTENDS PS2Keyboard, TLAPS

\* A read that was interrupted: the emulator is running, the size grew by the
\* bytes that came since, and the copy of it is one of the sizes in between.
ReadInv ==
  reader.at # "idle" =>
    /\ manager = "off"
    /\ reader.len >= 1 /\ reader.len <= reader.from /\ reader.len <= reader.i
    /\ ps2bufsize = reader.from + reader.hits
    /\ reader.size # -1 => reader.from <= reader.size /\ reader.size <= ps2bufsize
    /\ reader.at = "store" => reader.size # -1

\* What may be in the buffer when the manager starts, and while it runs.
ManagerInv ==
  /\ manager = "cleaned" => ps2bufsize = 0
  /\ manager = "late" => ps2bufsize <= 1
  /\ manager = "on" => ps2bufsize <= 2

KeyboardInv == TypeOK /\ ReadInv /\ ManagerInv /\ Resync

\* The part of the types that the interrupt's store decides.
StoredType ==
  /\ todo \in Seq(Byte) /\ pos \in 0 .. FrameBits - 1
  /\ ps2buffer \in [Slot -> Byte] /\ ps2bufsize \in Size
  /\ reader \in ReaderState
  /\ pending \in Seq(Byte) /\ spoiled \in BOOLEAN

\* What else there is.
CountType ==
  /\ bitcount \in 0 .. FrameBits - 1 /\ intact \in BOOLEAN /\ clean \in BOOLEAN
  /\ faults \in 0 .. MaxFaults
  /\ manager \in {"off", "cleaned", "late", "on"}

\* A sequence of bytes stays one when its first len go.
LEMMA Dropped ==
  ASSUME NEW seq \in Seq(Byte), NEW len \in Nat
  PROVE  SubSeq(seq, len + 1, Len(seq)) \in Seq(Byte)
  OBVIOUS

\* Both decoders find a length of one, two or three.
LEMMA CodeLens ==
  ASSUME NEW b
  PROVE  CodeLen(b) \in 1 .. 3
  BY DEF CodeLen

\* The constants the code fixes.
LEMMA Bytes == "00" \in Byte /\ "FA" \in Byte
  BY DEF Byte

\* Shifting keeps the buffer a buffer.
LEMMA ShiftType ==
  ASSUME NEW b \in [Slot -> Byte], NEW len \in Nat
  PROVE  Shift(b, len) \in [Slot -> Byte]
  BY DEF Shift, Slot

\* The history stays a sequence of bytes.
LEMMA RecordType ==
  ASSUME NEW seq \in Seq(Byte), NEW n, NEW idle \in BOOLEAN, NEW bad \in BOOLEAN,
         Record(seq, n, idle, bad)
  PROVE  pending' \in Seq(Byte) /\ spoiled' \in BOOLEAN
  BY DEF Record

\* What ps2poll leaves when the buffer held n bytes: it takes out one code or
\* nothing, and in the manager no more than two bytes stay.
LEMMA PollSize ==
  ASSUME NEW b \in [Slot -> Byte], NEW n \in 1 .. KBD_BUFFER_SIZE,
         NEW rest \in Seq(Byte), NEW next \in 0 .. FrameBits - 1,
         NEW seq \in Seq(Byte), NEW bad \in BOOLEAN,
         KeyboardAssumption, Ps2Poll(b, n, rest, next, seq, bad)
  PROVE  /\ todo' \in Seq(Byte) /\ pos' \in 0 .. FrameBits - 1
         /\ ps2buffer' \in [Slot -> Byte] /\ ps2bufsize' \in Size
         /\ pending' \in Seq(Byte) /\ spoiled' \in BOOLEAN
         /\ manager # "on" => ps2bufsize' = n
         /\ (manager = "on" /\ n <= 3) => ps2bufsize' <= 2
         /\ pos' # 0 => pos' = next
<1> DEFINE take == TakesCodes /\ Complete(b, n)
           len  == IF take THEN CodeLen(b) ELSE 0
           left == SubSeq(seq, len + 1, Len(seq))
<1>1. len \in 0 .. n /\ CodeLen(b) \in 1 .. 3
  BY CodeLens DEF Complete
<1>2. left \in Seq(Byte)
  BY <1>1, Dropped
<1>3. Shift(b, len) \in [Slot -> Byte]
  BY <1>1, ShiftType
<1>4. ps2bufsize' = n - len
  BY DEF Ps2Poll
<1>5. /\ manager # "on" => len = 0
      /\ (manager = "on" /\ n <= 3) => n - len <= 2
  <2>1. manager # "on" => len = 0
    BY DEF TakesCodes
  <2>2. CASE manager = "on" /\ n >= CodeLen(b)
    BY <2>2, <1>1 DEF TakesCodes, Complete
  <2>3. CASE ~(n >= CodeLen(b))
    BY <2>3, <1>1 DEF Complete
  <2>4. QED BY <2>1, <2>2, <2>3
<1>6. n - len \in Size
  BY <1>1 DEF Size
<1>7. (reader.at = "idle") \in BOOLEAN
  OBVIOUS
<1>8. CASE TogglesLed(b, n)
  <2>1. KeyboardToggleLed(Shift(b, len), n - len, rest, left, bad)
    BY <1>8 DEF Ps2Poll
  <2> HIDE DEF len, left
  <2>2. PICK first \in BOOLEAN, second \in BOOLEAN :
          /\ ps2buffer' = IF first \/ second THEN Zeroed ELSE Shift(b, len)
          /\ todo' = (IF second THEN <<"FA">> ELSE <<>>) \o rest
          /\ pos' = 0
          /\ Record(left, n - len, reader.at = "idle", bad \/ (first \/ second))
    BY <2>1 DEF KeyboardToggleLed
  <2>3. pending' \in Seq(Byte) /\ spoiled' \in BOOLEAN
    <3>1. (bad \/ (first \/ second)) \in BOOLEAN
      OBVIOUS
    <3>2. QED BY <2>2, <3>1, <1>2, <1>7, RecordType
  <2>4. ps2buffer' \in [Slot -> Byte]
    BY <2>2, <1>3, Bytes DEF Zeroed
  <2>5. todo' \in Seq(Byte)
    <3>1. (IF second THEN <<"FA">> ELSE <<>>) \in Seq(Byte)
      BY Bytes
    <3>2. QED BY <3>1, <2>2
  <2>6. pos' = 0 /\ 0 \in 0 .. FrameBits - 1
    BY <2>2 DEF KeyboardAssumption
  <2>7. QED BY <2>3, <2>4, <2>5, <2>6, <1>4, <1>5, <1>6
<1>9. CASE ~TogglesLed(b, n)
  <2>1. /\ ps2buffer' = Shift(b, len)
        /\ todo' = rest /\ pos' = next
        /\ Record(left, n - len, reader.at = "idle", bad)
    BY <1>9 DEF Ps2Poll
  <2> HIDE DEF len, left
  <2>2. pending' \in Seq(Byte) /\ spoiled' \in BOOLEAN
    BY <2>1, <1>2, <1>7, RecordType
  <2>3. QED BY <2>1, <2>2, <1>3, <1>4, <1>5, <1>6
<1>10. QED BY <1>8, <1>9

\* The store at the end of a frame keeps the invariants of the buffer, of the
\* read it interrupts and of the manager.
LEMMA StoreKeeps ==
  ASSUME KeyboardAssumption, TypeOK, ReadInv, ManagerInv, Interrupt,
         NEW byte \in Byte, NEW rest \in Seq(Byte), NEW next \in 0 .. FrameBits - 1,
         StoreByte(byte, rest, next)
  PROVE  StoredType' /\ ReadInv' /\ ManagerInv' /\ (pos' # 0 => pos' = next)
<1>1. manager' = IF manager = "cleaned" THEN "late" ELSE manager
  BY DEF Interrupt
<1>2. CASE HasRoom
  <2> DEFINE b == [ps2buffer EXCEPT ![ps2bufsize] = byte]
             bad == spoiled \/ TooLate
  <2>1. /\ Ps2Poll(b, ps2bufsize + 1, rest, next, Append(pending, byte), bad)
        /\ reader' = IF reader.at = "idle" THEN reader
                     ELSE [reader EXCEPT !.hits = @ + 1]
    BY <1>2 DEF StoreByte
  <2>2. b \in [Slot -> Byte] /\ ps2bufsize + 1 \in 1 .. KBD_BUFFER_SIZE
    <3>1. b \in [Slot -> Byte]
      BY DEF TypeOK
    <3>2. ps2bufsize \in Nat /\ ps2bufsize < KBD_BUFFER_SIZE
      BY <1>2 DEF HasRoom, TypeOK, Size, KeyboardAssumption
    <3>3. QED BY <3>1, <3>2 DEF KeyboardAssumption
  <2>3. Append(pending, byte) \in Seq(Byte) /\ bad \in BOOLEAN
    <3>1. Append(pending, byte) \in Seq(Byte)
      BY DEF TypeOK
    <3>2. QED BY <3>1, Zenon DEF TypeOK, TooLate
  <2> HIDE DEF b, bad
  <2>4. /\ todo' \in Seq(Byte) /\ pos' \in 0 .. FrameBits - 1
        /\ ps2buffer' \in [Slot -> Byte] /\ ps2bufsize' \in Size
        /\ pending' \in Seq(Byte) /\ spoiled' \in BOOLEAN
        /\ manager # "on" => ps2bufsize' = ps2bufsize + 1
        /\ (manager = "on" /\ ps2bufsize + 1 <= 3) => ps2bufsize' <= 2
        /\ pos' # 0 => pos' = next
    BY <2>1, <2>2, <2>3, PollSize
  <2>5. reader' \in ReaderState /\ ReadInv'
    <3>1. CASE reader.at = "idle"
      BY <3>1, <2>1 DEF TypeOK, ReadInv
    <3>2. CASE reader.at # "idle"
      <4>1. manager = "off" /\ ps2bufsize' = ps2bufsize + 1 /\ manager' = "off"
        BY <3>2, <2>4, <1>1 DEF ReadInv
      <4>2. reader.hits + 1 \in Size
        BY <3>2, <4>1, <2>4 DEF ReadInv, TypeOK, ReaderState, Size, KeyboardAssumption
      <4>3. reader' = [reader EXCEPT !.hits = @ + 1]
        BY <3>2, <2>1
      <4>4. reader' \in ReaderState
        BY <4>2, <4>3 DEF TypeOK, ReaderState
      <4>5. /\ reader'.at = reader.at /\ reader'.len = reader.len /\ reader'.i = reader.i
            /\ reader'.size = reader.size /\ reader'.from = reader.from
            /\ reader'.hits = reader.hits + 1
        BY <4>3 DEF TypeOK, ReaderState
      <4>6. ReadInv'
        BY <3>2, <4>1, <4>5 DEF ReadInv, TypeOK, ReaderState, Size, KeyboardAssumption
      <4>7. QED BY <4>4, <4>6
    <3>3. QED BY <3>1, <3>2
  <2>6. ManagerInv'
    BY <2>4, <1>1 DEF ManagerInv, TypeOK, Size, KeyboardAssumption, Interrupt
  <2>7. QED BY <2>4, <2>5, <2>6 DEF StoredType
<1>3. CASE ~HasRoom
  <2>1. todo' = rest /\ pos' = next /\ UNCHANGED <<buffer, reader, ghost>>
    BY <1>3 DEF StoreByte
  <2>2. StoredType'
    BY <2>1 DEF StoredType, TypeOK, buffer, ghost
  <2>3. ps2bufsize > 2
    BY <1>3 DEF HasRoom, TypeOK, Size, KeyboardAssumption
  <2>4. ReadInv' /\ ManagerInv'
    BY <2>1, <2>3, <1>1 DEF ReadInv, ManagerInv, buffer, TypeOK, Size, KeyboardAssumption
  <2>5. QED BY <2>1, <2>2, <2>4
<1>4. QED BY <1>2, <1>3

\* One edge keeps them too; the count stays below the length of a frame, and
\* an edge that does not end the count makes it one more.
LEMMA HandlerKeeps ==
  ASSUME KeyboardAssumption, TypeOK, ReadInv, ManagerInv, Interrupt,
         NEW pause \in BOOLEAN, NEW rest \in Seq(Byte), NEW next \in 0 .. FrameBits - 1,
         NEW whole \in BOOLEAN, whole => todo # <<>>,
         KeyboardHandler(pause, rest, next, whole)
  PROVE  /\ StoredType' /\ ReadInv' /\ ManagerInv'
         /\ bitcount' \in 0 .. FrameBits - 1 /\ intact' \in BOOLEAN
         /\ pos' # 0 => pos' = next
         /\ Counted(pause) # FrameBits - 1 =>
              bitcount' = Counted(pause) + 1 /\ intact' = whole /\ pos' = next
<1>1. Counted(pause) \in 0 .. FrameBits - 1
  BY DEF Counted, TypeOK, KeyboardAssumption
<1>2. CASE Counted(pause) = FrameBits - 1
  <2>1. PICK byte \in IF whole THEN {Head(todo)} ELSE Byte : StoreByte(byte, rest, next)
    BY <1>2 DEF KeyboardHandler
  <2>2. byte \in Byte
    <3>1. whole => Head(todo) \in Byte
      BY DEF TypeOK
    <3>2. QED BY <2>1, <3>1
  <2>3. StoredType' /\ ReadInv' /\ ManagerInv' /\ (pos' # 0 => pos' = next)
    BY <2>1, <2>2, StoreKeeps
  <2>4. bitcount' = 0 /\ intact' = TRUE
    BY <1>2 DEF KeyboardHandler
  <2>5. QED BY <1>2, <2>3, <2>4, <1>1 DEF KeyboardAssumption
<1>3. CASE Counted(pause) # FrameBits - 1
  <2>1. /\ bitcount' = Counted(pause) + 1 /\ intact' = whole
        /\ todo' = rest /\ pos' = next
        /\ UNCHANGED <<buffer, reader, ghost>>
    BY <1>3 DEF KeyboardHandler
  <2>2. StoredType'
    BY <2>1 DEF StoredType, TypeOK, buffer, ghost
  <2>3. ReadInv' /\ ManagerInv'
    BY <2>1 DEF ReadInv, ManagerInv, Interrupt, buffer, TypeOK, Size, KeyboardAssumption
  <2>4. bitcount' \in 0 .. FrameBits - 1
    BY <2>1, <1>1, <1>3
  <2>5. QED BY <2>1, <2>2, <2>3, <2>4
<1>4. QED BY <1>2, <1>3

\* Where the keyboard is after an edge.
LEMMA After ==
  ASSUME TypeOK, KeyboardAssumption, todo # <<>>
  PROVE  /\ AfterEdge[1] \in Seq(Byte) /\ AfterEdge[2] \in 0 .. FrameBits - 1
         /\ AfterEdge[2] # 0 => AfterEdge[2] = pos + 1
  BY DEF AfterEdge, TypeOK, KeyboardAssumption

LEMMA TypeParts == TypeOK <=> StoredType /\ CountType
  BY DEF TypeOK, StoredType, CountType

\* A fault is counted, and the frame is not a clean one any more.
LEMMA FaultKeeps ==
  ASSUME KeyboardAssumption, TypeOK, Fault
  PROVE  /\ faults' \in 0 .. MaxFaults /\ clean' \in BOOLEAN /\ Resync'
<1>1. faults' \in 0 .. MaxFaults
  BY DEF Fault, TypeOK, KeyboardAssumption
<1>2. clean' = FALSE
  BY DEF Fault
<1>3. QED BY <1>1, <1>2 DEF Resync

LEMMA InterruptMode ==
  ASSUME TypeOK, Interrupt
  PROVE  manager' \in {"off", "cleaned", "late", "on"}
  BY DEF Interrupt, TypeOK

\* The initial state satisfies the invariant.
LEMMA InitInv == KeyboardAssumption /\ Init => KeyboardInv
<1> SUFFICES ASSUME KeyboardAssumption, Init PROVE KeyboardInv
  OBVIOUS
<1>1. TypeOK
  BY Bytes DEF Init, TypeOK, ReaderState, Idle, Size, Slot, KeyboardAssumption
<1>2. ReadInv /\ ManagerInv /\ Resync
  BY DEF Init, ReadInv, ManagerInv, Resync, Idle
<1>3. QED BY <1>1, <1>2 DEF KeyboardInv

\* Every edge, the keyboard's and the faulty ones, keeps the invariant.
LEMMA EdgesKeep ==
  ASSUME KeyboardAssumption, KeyboardInv, NEW pause \in BOOLEAN,
         Edge(pause) \/ StrayEdge(pause) \/ LateEdge \/ LostEdge
  PROVE  KeyboardInv'
<1> USE DEF KeyboardInv
<1>1. CASE Edge(pause)
  <2> DEFINE whole == Counted(pause) = pos /\ (pos = 0 \/ intact)
  <2>1. /\ todo # <<>> /\ Interrupt /\ (pause => pos = 0)
        /\ KeyboardHandler(pause, AfterEdge[1], AfterEdge[2], whole)
        /\ clean' = (pos' # 0 /\ (pos = 0 => pause) /\ (pos # 0 => clean))
        /\ faults' = faults
    BY <1>1 DEF Edge
  <2>2. whole \in BOOLEAN
    BY Zenon DEF TypeOK
  <2>3. /\ StoredType' /\ ReadInv' /\ ManagerInv'
        /\ bitcount' \in 0 .. FrameBits - 1 /\ intact' \in BOOLEAN
        /\ pos' # 0 => pos' = AfterEdge[2]
        /\ Counted(pause) # FrameBits - 1 =>
             bitcount' = Counted(pause) + 1 /\ intact' = whole /\ pos' = AfterEdge[2]
    <3> HIDE DEF whole
    <3>1. QED BY <2>1, <2>2, After, HandlerKeeps
  <2>4. CountType'
    <3>1. clean' \in BOOLEAN
      BY <2>1, Zenon
    <3>2. manager' \in {"off", "cleaned", "late", "on"} /\ faults' \in 0 .. MaxFaults
      BY <2>1 DEF Interrupt, TypeOK
    <3>3. QED BY <2>3, <3>1, <3>2 DEF CountType
  <2>5. Resync'
    <3> SUFFICES ASSUME clean' PROVE bitcount' = pos' /\ intact'
      BY DEF Resync
    <3>1. pos' # 0 /\ pos' = pos + 1 /\ (pos = 0 => pause) /\ (pos # 0 => clean)
      BY <2>1, <2>3, After
    <3>2. Counted(pause) = pos /\ whole
      BY <3>1, <2>1 DEF Resync, Counted
    <3>3. Counted(pause) # FrameBits - 1
      BY <3>1, <3>2, <2>3, TypeParts DEF TypeOK, StoredType, KeyboardAssumption
    <3>4. QED BY <3>1, <3>2, <3>3, <2>3
  <2>6. QED BY <2>3, <2>4, <2>5, TypeParts, PTL
<1>2. CASE StrayEdge(pause)
  <2>1. /\ Fault /\ Interrupt
        /\ KeyboardHandler(pause, todo, pos, FALSE)
    BY <1>2 DEF StrayEdge
  <2>2. todo \in Seq(Byte) /\ pos \in 0 .. FrameBits - 1
    BY DEF TypeOK
  <2>3. /\ StoredType' /\ ReadInv' /\ ManagerInv'
        /\ bitcount' \in 0 .. FrameBits - 1 /\ intact' \in BOOLEAN
    BY <2>1, <2>2, HandlerKeeps
  <2>4. CountType' /\ Resync'
    BY <2>1, <2>3, FaultKeeps, InterruptMode DEF CountType
  <2>5. QED BY <2>3, <2>4, TypeParts, PTL
<1>3. CASE LateEdge
  <2>1. /\ Fault /\ Interrupt /\ todo # <<>>
        /\ KeyboardHandler(TRUE, AfterEdge[1], AfterEdge[2], FALSE)
    BY <1>3 DEF LateEdge
  <2>2. /\ StoredType' /\ ReadInv' /\ ManagerInv'
        /\ bitcount' \in 0 .. FrameBits - 1 /\ intact' \in BOOLEAN
    BY <2>1, After, HandlerKeeps
  <2>3. CountType' /\ Resync'
    BY <2>1, <2>2, FaultKeeps, InterruptMode DEF CountType
  <2>4. QED BY <2>2, <2>3, TypeParts, PTL
<1>4. CASE LostEdge
  <2>1. /\ Fault /\ todo # <<>>
        /\ todo' = AfterEdge[1] /\ pos' = AfterEdge[2] /\ intact' = FALSE
        /\ UNCHANGED <<bitcount, buffer, reader, manager, ghost>>
    BY <1>4 DEF LostEdge
  <2>2. TypeOK'
    <3>1. StoredType'
      BY <2>1, After DEF TypeOK, StoredType, buffer, ghost
    <3>2. CountType'
      BY <2>1, FaultKeeps DEF TypeOK, CountType
    <3>3. QED BY <3>1, <3>2, TypeParts, PTL
  <2>3. ReadInv' /\ ManagerInv' /\ Resync'
    BY <2>1 DEF Fault, ReadInv, ManagerInv, Resync, buffer
  <2>4. QED BY <2>2, <2>3
<1>5. QED BY <1>1, <1>2, <1>3, <1>4

\* What taking len off a size between the old and the new one gives.
LEMMA Subtraction ==
  ASSUME NEW size \in Int, NEW len \in 1 .. 3, NEW from \in Nat, NEW hits \in Nat,
         len <= from, from <= size, size <= from + hits, from + hits <= KBD_BUFFER_SIZE,
         KBD_BUFFER_SIZE \in Nat
  PROVE  /\ size - len \in Size
         /\ size - len <= from + hits - len
         /\ size - len >= from - len
  BY DEF Size

\* A step of the read keeps the invariant, and its last one loses no more than
\* what came meanwhile.
LEMMA ReaderKeeps ==
  ASSUME KeyboardAssumption, KeyboardInv, Reader
  PROVE  /\ KeyboardInv'
         /\ (reader.at # "idle" /\ reader'.at = "idle") =>
              /\ ps2bufsize' <= reader.from + reader.hits - reader.len
              /\ ps2bufsize' >= reader.from - reader.len
<1> USE DEF KeyboardInv
<1>0. UNCHANGED <<wire, manager>> /\ (CountType /\ Resync => CountType' /\ Resync')
  <2>1. UNCHANGED <<wire, manager>>
    BY DEF Reader, ReadCode, ShiftByte, LoadSize, StoreSize, Left
  <2>2. QED BY <2>1 DEF wire, CountType, Resync
<1>1. CASE ReadCode
  <2>1. PICK size \in {-1, ps2bufsize} :
          reader' = [at |-> "shift", len |-> CodeLen(ps2buffer), i |-> CodeLen(ps2buffer),
                     size |-> size, from |-> ps2bufsize, hits |-> 0]
    BY <1>1 DEF ReadCode
  <2>2. /\ reader.at = "idle" /\ manager = "off" /\ UNCHANGED <<wire, buffer, manager, ghost>>
        /\ CodeLen(ps2buffer) \in 1 .. 3 /\ CodeLen(ps2buffer) <= ps2bufsize
    BY <1>1, CodeLens DEF ReadCode, Complete
  <2>3. reader' \in ReaderState
    <3>1. CodeLen(ps2buffer) \in Size /\ 0 \in Size /\ ps2bufsize \in Size
      BY <2>2 DEF Size, KeyboardAssumption, TypeOK
    <3>2. QED BY <2>1, <2>2, <3>1 DEF ReaderState
  <2>4. TypeOK'
    BY <2>2, <2>3 DEF TypeOK, wire, buffer, ghost
  <2>5. ReadInv'
    BY <2>1, <2>2 DEF ReadInv, buffer, TypeOK, Size, KeyboardAssumption
  <2>6. ManagerInv'
    BY <2>2 DEF ManagerInv, buffer
  <2>7. QED BY <2>2, <2>4, <2>5, <2>6, <1>0, TypeParts
<1>2. CASE ShiftByte
  <2>1. /\ reader.at = "shift" /\ reader.i < KBD_BUFFER_SIZE
        /\ ps2buffer' = [ps2buffer EXCEPT ![reader.i - reader.len] = ps2buffer[reader.i]]
        /\ reader' = [reader EXCEPT !.i = @ + 1]
        /\ UNCHANGED <<wire, ps2bufsize, manager, ghost>>
    BY <1>2 DEF ShiftByte, LoopEnd
  <2>2. reader.i \in Slot /\ reader.i + 1 \in Size /\ reader.len \in 1 .. 3
    <3>1. reader.i \in 0 .. KBD_BUFFER_SIZE /\ reader.len \in 0 .. 3 /\ reader.len >= 1
      BY <2>1 DEF TypeOK, ReadInv, ReaderState, Size
    <3>2. QED BY <2>1, <3>1 DEF Size, Slot, KeyboardAssumption
  <2>3. ps2buffer' \in [Slot -> Byte]
    BY <2>1, <2>2 DEF TypeOK
  <2>4. reader' \in ReaderState
    BY <2>1, <2>2 DEF TypeOK, ReaderState
  <2>5. /\ reader'.at = reader.at /\ reader'.len = reader.len /\ reader'.i = reader.i + 1
        /\ reader'.size = reader.size /\ reader'.from = reader.from
        /\ reader'.hits = reader.hits
    BY <2>1 DEF TypeOK, ReaderState
  <2>6. TypeOK'
    BY <2>1, <2>3, <2>4 DEF TypeOK, wire, ghost
  <2>7. ReadInv' /\ ManagerInv'
    BY <2>1, <2>2, <2>5 DEF ReadInv, ManagerInv, TypeOK, ReaderState, Size
  <2>8. QED BY <2>1, <2>5, <2>6, <2>7, <1>0, TypeParts
<1>3. CASE LoadSize
  <2> DEFINE copy == IF reader.size >= 0 THEN reader.size ELSE ps2bufsize
  <2>1. /\ reader.at = "shift"
        /\ reader' = [reader EXCEPT !.at = "store", !.size = copy]
        /\ UNCHANGED <<wire, buffer, manager, ghost>>
    BY <1>3 DEF LoadSize
  <2>2. copy \in Size /\ copy # -1 /\ reader.from <= copy /\ copy <= ps2bufsize
    BY <2>1 DEF TypeOK, ReadInv, ReaderState, Size, KeyboardAssumption
  <2> HIDE DEF copy
  <2>3. reader' \in ReaderState
    BY <2>1, <2>2 DEF TypeOK, ReaderState
  <2>4. /\ reader'.at = "store" /\ reader'.len = reader.len /\ reader'.i = reader.i
        /\ reader'.size = copy /\ reader'.from = reader.from
        /\ reader'.hits = reader.hits
    BY <2>1 DEF TypeOK, ReaderState
  <2>5. TypeOK'
    BY <2>1, <2>3 DEF TypeOK, wire, buffer, ghost
  <2>6. ReadInv' /\ ManagerInv'
    BY <2>1, <2>2, <2>4 DEF ReadInv, ManagerInv, buffer
  <2>7. QED BY <2>1, <2>4, <2>5, <2>6, <1>0, TypeParts
<1>4. CASE StoreSize
  <2>1. /\ reader.at = "store" /\ ps2bufsize' = reader.size - reader.len /\ reader' = Idle
        /\ Record(SubSeq(pending, reader.len + 1, Len(pending)), ps2bufsize', TRUE, spoiled)
        /\ UNCHANGED <<wire, ps2buffer, manager>>
    BY <1>4 DEF StoreSize, Left
  <2>2. /\ reader.len \in 1 .. 3 /\ reader.from \in Nat /\ reader.hits \in Nat
        /\ reader.size \in Int /\ reader.len <= reader.from /\ reader.from <= reader.size
        /\ reader.size <= ps2bufsize /\ ps2bufsize = reader.from + reader.hits
        /\ manager = "off" /\ ps2bufsize <= KBD_BUFFER_SIZE
    BY <2>1 DEF TypeOK, ReadInv, ReaderState, Size, KeyboardAssumption
  <2>3. /\ ps2bufsize' \in Size
        /\ ps2bufsize' <= reader.from + reader.hits - reader.len
        /\ ps2bufsize' >= reader.from - reader.len
    <3>1. ps2bufsize' = reader.size - reader.len
      BY <2>1
    <3>2. QED BY <2>2, <3>1, Subtraction DEF KeyboardAssumption
  <2>4. pending' \in Seq(Byte) /\ spoiled' \in BOOLEAN
    <3>1. SubSeq(pending, reader.len + 1, Len(pending)) \in Seq(Byte)
      BY <2>2, Dropped DEF TypeOK
    <3>2. spoiled \in BOOLEAN
      BY DEF TypeOK
    <3>3. QED BY <2>1, <3>1, <3>2, RecordType
  <2>5. Idle \in ReaderState
    BY DEF Idle, ReaderState, Size, KeyboardAssumption
  <2>6. TypeOK'
    BY <2>1, <2>3, <2>4, <2>5 DEF TypeOK, wire
  <2>7. ReadInv' /\ ManagerInv'
    BY <2>1, <2>2 DEF ReadInv, ManagerInv, Idle
  <2>8. QED BY <2>3, <2>6, <2>7, <1>0, TypeParts
<1>5. QED BY <1>1, <1>2, <1>3, <1>4 DEF Reader

\* Every step keeps the invariant, and only a read ends a read.
LEMMA StepInv ==
  ASSUME KeyboardAssumption, KeyboardInv, [Next]_vars
  PROVE  /\ KeyboardInv'
         /\ (reader.at # "idle" /\ reader'.at = "idle") =>
              /\ ps2bufsize' <= reader.from + reader.hits - reader.len
              /\ ps2bufsize' >= reader.from - reader.len
<1> USE DEF KeyboardInv
<1>1. ASSUME NEW pause \in BOOLEAN,
             Edge(pause) \/ StrayEdge(pause) \/ LateEdge \/ LostEdge
      PROVE  KeyboardInv' /\ (reader.at # "idle" => reader'.at # "idle")
  <2>1. KeyboardInv'
    BY <1>1, EdgesKeep
  <2>2. ASSUME NEW rest, NEW next, NEW whole, KeyboardHandler(pause, rest, next, whole)
               \/ KeyboardHandler(TRUE, rest, next, whole)
        PROVE  reader.at # "idle" => reader'.at # "idle"
    BY <2>2 DEF KeyboardHandler, StoreByte, TypeOK, ReaderState
  <2>3. reader.at # "idle" => reader'.at # "idle"
    BY <1>1, <2>2 DEF Edge, StrayEdge, LateEdge, LostEdge
  <2>4. QED BY <2>1, <2>3
<1>2. ASSUME NEW code \in Codes, Send(code)
      PROVE  KeyboardInv' /\ reader' = reader
  <2>1. code \in Seq(Byte)
    BY DEF KeyboardAssumption
  <2>2. todo' = code /\ UNCHANGED <<pos, bitcount, intact, clean, faults, buffer, reader,
                                     manager, ghost>>
    BY <1>2 DEF Send
  <2>3. TypeOK'
    BY <2>1, <2>2 DEF TypeOK, buffer, ghost
  <2>4. QED BY <2>2, <2>3 DEF ReadInv, ManagerInv, Resync, buffer
<1>3. ASSUME CleanUp
      PROVE  KeyboardInv' /\ reader' = reader
  <2>1. /\ manager = "off" /\ reader.at = "idle" /\ ps2bufsize' = 0 /\ manager' = "cleaned"
        /\ Record(<<>>, 0, TRUE, FALSE) /\ UNCHANGED <<wire, ps2buffer, reader>>
    BY <1>3 DEF CleanUp
  <2>2. /\ pending' = <<>> /\ spoiled' \in BOOLEAN
        /\ 0 \in Size /\ <<>> \in Seq(Byte)
    <3>1. pending' = <<>> /\ spoiled' \in BOOLEAN
      BY <2>1 DEF Record
    <3>2. 0 \in Size
      BY DEF Size, KeyboardAssumption
    <3>3. QED BY <3>1, <3>2
  <2>3. TypeOK'
    BY <2>1, <2>2 DEF TypeOK, wire
  <2>4. QED BY <2>1, <2>3 DEF ReadInv, ManagerInv, Resync, wire
<1>4. ASSUME StartManager \/ EndManager
      PROVE  KeyboardInv' /\ reader' = reader
  <2>1. /\ UNCHANGED <<wire, buffer, reader, ghost>> /\ manager # "off"
        /\ \/ manager \in {"cleaned", "late"} /\ manager' = "on"
           \/ manager = "on" /\ manager' = "off"
    BY <1>4 DEF StartManager, EndManager
  <2>2. TypeOK'
    BY <2>1 DEF TypeOK, wire, buffer, ghost
  <2>3. ReadInv' /\ ManagerInv' /\ Resync'
    BY <2>1 DEF ReadInv, ManagerInv, Resync, wire, buffer, TypeOK, Size, KeyboardAssumption
  <2>4. QED BY <2>1, <2>2, <2>3
<1>5. ASSUME UNCHANGED vars
      PROVE  KeyboardInv' /\ reader' = reader
  BY <1>5 DEF vars, wire, buffer, ghost, TypeOK, ReadInv, ManagerInv, Resync
<1>6. QED BY <1>1, <1>2, <1>3, <1>4, <1>5, ReaderKeeps DEF Next

\* The invariant holds in every reachable state.
LEMMA Invariant == Spec => []KeyboardInv
<1>1. KeyboardInv /\ [Next]_vars => KeyboardInv'
  BY StepInv, KeyboardAssumption
<1>2. Init => KeyboardInv
  BY InitInv, KeyboardAssumption
<1>3. QED BY <1>1, <1>2, PTL DEF Spec

\* The interrupt and the reader store inside ps2buffer, and the size stays between
\* zero and the room there is.
THEOREM TypeCorrect == Spec => []TypeOK
<1>1. KeyboardInv => TypeOK
  BY DEF KeyboardInv
<1>2. QED BY <1>1, Invariant, PTL

\* After a pause a frame is counted from its first bit.
THEOREM Resynchronises == Spec => []Resync
<1>1. KeyboardInv => Resync
  BY DEF KeyboardInv
<1>2. QED BY <1>1, Invariant, PTL

\* The manager never finds the buffer full, so it never goes deaf.
THEOREM ManagerHears == Spec => []ManagerNotStuck
<1>1. KeyboardInv => ManagerNotStuck
  BY DEF KeyboardInv, ManagerInv, ManagerNotStuck
<1>2. QED BY <1>1, Invariant, PTL

\* An interrupted read takes out its code and loses at most what came meanwhile.
THEOREM ReadLosesLittle == Spec => LossBounded
<1>1. KeyboardInv /\ [Next]_vars =>
        [(reader.at # "idle" /\ reader'.at = "idle") =>
           /\ ps2bufsize' <= reader.from + reader.hits - reader.len
           /\ ps2bufsize' >= reader.from - reader.len]_vars
  BY StepInv, KeyboardAssumption
<1>2. QED BY <1>1, Invariant, PTL DEF Spec, LossBounded
-----------------------------------------------------------------------------
(* The buffer as a queue.                                                   *)

\* While a read moves the bytes down, those below reader.i - reader.len are
\* where they shall be, and those from reader.i on are where they were.
Placed ==
  IF reader.at = "idle"
  THEN \A s \in 0 .. ps2bufsize - 1 : ps2buffer[s] = pending[s + 1]
  ELSE /\ reader.size # -1 => reader.size = ps2bufsize
       /\ reader.at = "store" => reader.i >= KBD_BUFFER_SIZE
       /\ \A s \in Slot : s < reader.i - reader.len /\ s + reader.len < ps2bufsize
            => ps2buffer[s] = pending[s + reader.len + 1]
       /\ \A s \in Slot : reader.i <= s /\ s < ps2bufsize => ps2buffer[s] = pending[s + 1]

QueueInv == ~spoiled => ps2bufsize = Len(pending) /\ Placed

\* What ps2poll leaves when no LEDs spoil it: the buffer without its first code
\* or as it was.
LEMMA PollQueue ==
  ASSUME NEW b \in [Slot -> Byte], NEW n \in 1 .. KBD_BUFFER_SIZE, NEW rest, NEW next,
         NEW seq \in Seq(Byte), NEW bad \in BOOLEAN,
         KeyboardAssumption, Ps2Poll(b, n, rest, next, seq, bad), ~spoiled'
  PROVE  \/ reader.at = "idle" /\ ps2bufsize' = 0 /\ pending' = <<>>
         \/ /\ ~bad
            /\ \E len \in 0 .. n :
                 /\ ps2bufsize' = n - len /\ (manager # "on" => len = 0)
                 /\ ps2buffer' = Shift(b, len)
                 /\ pending' = SubSeq(seq, len + 1, Len(seq))
<1> DEFINE len  == IF TakesCodes /\ Complete(b, n) THEN CodeLen(b) ELSE 0
           left == SubSeq(seq, len + 1, Len(seq))
<1>1. len \in 0 .. n /\ ps2bufsize' = n - len /\ (manager # "on" => len = 0)
  BY CodeLens DEF Ps2Poll, TakesCodes, Complete
<1>2. \E zero \in BOOLEAN :
        /\ ps2buffer' = IF zero THEN Zeroed ELSE Shift(b, len)
        /\ Record(left, n - len, reader.at = "idle", bad \/ zero)
  <2>1. CASE TogglesLed(b, n)
    <3>1. KeyboardToggleLed(Shift(b, len), n - len, rest, left, bad)
      BY <2>1 DEF Ps2Poll
    <3> HIDE DEF len, left
    <3>2. QED BY <3>1 DEF KeyboardToggleLed
  <2>2. CASE ~TogglesLed(b, n)
    <3>1. /\ ps2buffer' = Shift(b, len)
          /\ Record(left, n - len, reader.at = "idle", bad)
      BY <2>2 DEF Ps2Poll
    <3> HIDE DEF len, left
    <3>2. Record(left, n - len, reader.at = "idle", bad \/ FALSE)
      BY <3>1
    <3>3. QED BY <3>1, <3>2
  <2>3. QED BY <2>1, <2>2
<1> HIDE DEF len
<1>3. PICK zero \in BOOLEAN :
        /\ ps2buffer' = IF zero THEN Zeroed ELSE Shift(b, len)
        /\ Record(left, n - len, reader.at = "idle", bad \/ zero)
  BY <1>2
<1>4. CASE reader.at = "idle" /\ n - len = 0
  BY <1>1, <1>3, <1>4 DEF Record
<1>5. CASE ~(reader.at = "idle" /\ n - len = 0)
  <2>1. ~bad /\ ~zero /\ pending' = left
    BY <1>3, <1>5 DEF Record
  <2>2. QED BY <1>1, <1>3, <2>1
<1>6. QED BY <1>4, <1>5

\* A byte that comes in joins the queue, also in the middle of a read.
LEMMA StoreQueue ==
  ASSUME KeyboardAssumption, KeyboardInv, QueueInv,
         NEW byte \in Byte, NEW rest, NEW next, StoreByte(byte, rest, next)
  PROVE  QueueInv'
<1>1. CASE ~HasRoom
  <2>1. UNCHANGED <<buffer, reader, ghost>>
    BY <1>1 DEF StoreByte
  <2>2. QED BY <2>1 DEF QueueInv, Placed, buffer, ghost
<1>2. CASE HasRoom /\ ~spoiled'
  <2> DEFINE b == [ps2buffer EXCEPT ![ps2bufsize] = byte]
             seq == Append(pending, byte)
             bad == spoiled \/ TooLate
             n == ps2bufsize + 1
  <2>1. /\ Ps2Poll(b, n, rest, next, seq, bad)
        /\ reader' = IF reader.at = "idle" THEN reader ELSE [reader EXCEPT !.hits = @ + 1]
    BY <1>2 DEF StoreByte
  <2>2. ps2bufsize \in Slot /\ ps2buffer \in [Slot -> Byte] /\ pending \in Seq(Byte)
    BY <1>2 DEF HasRoom, KeyboardInv, TypeOK, Size, Slot, KeyboardAssumption
  <2>3. b \in [Slot -> Byte] /\ n \in 1 .. KBD_BUFFER_SIZE /\ seq \in Seq(Byte)
    BY <2>2 DEF Slot, KeyboardAssumption
  <2>4. bad \in BOOLEAN
    BY Zenon DEF KeyboardInv, TypeOK, TooLate
  <2>5. CASE reader.at = "idle" /\ ps2bufsize' = 0 /\ pending' = <<>>
    BY <2>1, <2>5 DEF QueueInv, Placed
  <2>6. ASSUME ~bad,
               NEW len \in 0 .. n, ps2bufsize' = n - len, manager # "on" => len = 0,
               ps2buffer' = Shift(b, len), pending' = SubSeq(seq, len + 1, Len(seq))
        PROVE  QueueInv'
    <3>1. ps2bufsize = Len(pending) /\ Placed
      BY <2>6 DEF QueueInv
    <3>2. Len(seq) = n /\ n = ps2bufsize + 1 /\ n <= KBD_BUFFER_SIZE
      BY <2>2, <2>3, <3>1
    <3>3. /\ seq[n] = byte /\ b[ps2bufsize] = byte
          /\ \A s \in Slot : s < ps2bufsize => b[s] = ps2buffer[s] /\ seq[s + 1] = pending[s + 1]
      BY <2>2, <3>1 DEF Slot
    <3> HIDE DEF b, seq, bad, n
    <3>4. /\ Len(pending') = n - len
          /\ \A s \in Nat : s < n - len => pending'[s + 1] = seq[s + 1 + len]
      <4>1. n \in Nat /\ len \in Nat /\ len <= n
        BY <2>3
      <4>2. QED BY <2>3, <2>6, <3>2, <4>1
    <3>5. \A s \in Slot : s + len < n => ps2buffer'[s] = b[s + len]
      BY <2>3, <2>6, <3>2 DEF Shift, Slot
    <3>6. CASE reader.at = "idle"
      <4>1. \A s \in Slot : s < n => b[s] = seq[s + 1]
        BY <2>2, <3>1, <3>2, <3>3, <3>6 DEF Placed, Slot
      <4>2. ASSUME NEW s \in 0 .. ps2bufsize' - 1 PROVE ps2buffer'[s] = pending'[s + 1]
        <5>1. s \in Slot /\ s \in Nat /\ s + len < n /\ s + len \in Slot /\ s < n - len
          BY <2>3, <2>6, <3>2, <4>2 DEF Slot
        <5>2. b[s + len] = seq[s + len + 1] /\ ps2buffer'[s] = b[s + len]
          BY <4>1, <5>1, <3>5
        <5>3. pending'[s + 1] = seq[s + 1 + len] /\ s + 1 + len = s + len + 1
          BY <5>1, <3>4
        <5>4. QED BY <5>2, <5>3
      <4>3. reader'.at = "idle"
        BY <2>1, <3>6
      <4>4. QED BY <2>6, <3>4, <4>2, <4>3 DEF QueueInv, Placed
    <3>7. CASE reader.at # "idle"
      <4>1. len = 0 /\ ps2bufsize' = ps2bufsize + 1
        BY <2>6, <3>2, <3>7 DEF KeyboardInv, ReadInv
      <4>2. /\ reader.i <= ps2bufsize /\ ~(reader.size >= 0) /\ reader.i \in Nat
            /\ reader.len \in 1 .. 3 /\ reader.size = -1
        <5>1. ~TooLate
          BY <2>6 DEF bad
        <5>2. reader.i \in Size /\ reader.len \in 0 .. 3 /\ reader.len >= 1
              /\ reader.size \in Size \cup {-1}
          BY <3>7 DEF KeyboardInv, TypeOK, ReaderState, ReadInv
        <5>3. QED BY <5>1, <5>2, <3>7, <2>2 DEF TooLate, Size, Slot, KeyboardAssumption
      <4>3. /\ reader'.at = reader.at /\ reader'.len = reader.len /\ reader'.i = reader.i
            /\ reader'.size = reader.size
        BY <2>1, <3>7 DEF KeyboardInv, TypeOK, ReaderState
      <4>4. reader.at # "store"
        BY <4>2, <3>7 DEF KeyboardInv, ReadInv
      <4>5. \A s \in Slot : s < n => ps2buffer'[s] = b[s]
        BY <4>1, <3>5 DEF Slot
      <4>6. \A s \in Nat : s < n => pending'[s + 1] = seq[s + 1]
        BY <4>1, <3>4, <3>2, <2>3
      <4>7. ASSUME NEW s \in Slot, s < reader.i - reader.len, s + reader.len < ps2bufsize + 1
            PROVE  ps2buffer'[s] = pending'[s + reader.len + 1]
        <5>1. s + reader.len < ps2bufsize /\ s < n /\ s < ps2bufsize /\ s + reader.len \in Nat
              /\ s + reader.len < n /\ s + reader.len \in Slot
          BY <4>2, <4>7, <3>2, <2>2 DEF Slot
        <5>2. ps2buffer'[s] = ps2buffer[s]
          BY <4>5, <5>1, <3>3
        <5>3. pending'[(s + reader.len) + 1] = pending[(s + reader.len) + 1]
          BY <4>6, <5>1, <3>3
        <5>4. ps2buffer[s] = pending[s + reader.len + 1]
          BY <4>7, <5>1, <3>1, <3>7 DEF Placed
        <5>5. QED BY <5>2, <5>3, <5>4
      <4>8. ASSUME NEW s \in Slot, reader.i <= s, s < ps2bufsize + 1
            PROVE  ps2buffer'[s] = pending'[s + 1]
        <5>1. s \in Nat /\ s < n /\ ps2buffer'[s] = b[s] /\ pending'[s + 1] = seq[s + 1]
          BY <4>5, <4>6, <4>8, <3>2 DEF Slot
        <5>2. CASE s = ps2bufsize
          BY <5>1, <5>2, <3>2, <3>3
        <5>3. CASE s < ps2bufsize
          BY <5>1, <5>3, <3>1, <3>3, <3>7, <4>8 DEF Placed
        <5>4. QED BY <5>2, <5>3, <4>8, <2>2 DEF Slot
      <4>9. Placed'
        BY <4>1, <4>2, <4>3, <4>4, <4>7, <4>8, <3>7 DEF Placed
      <4>10. QED BY <2>6, <3>4, <4>9 DEF QueueInv
    <3>8. QED BY <3>6, <3>7
  <2> HIDE DEF b, seq, bad, n
  <2>7. \/ reader.at = "idle" /\ ps2bufsize' = 0 /\ pending' = <<>>
        \/ /\ ~bad
           /\ \E len \in 0 .. n :
                /\ ps2bufsize' = n - len /\ (manager # "on" => len = 0)
                /\ ps2buffer' = Shift(b, len)
                /\ pending' = SubSeq(seq, len + 1, Len(seq))
    <3>1. Ps2Poll(b, n, rest, next, seq, bad) /\ ~spoiled'
      BY <1>2, <2>1
    <3>2. QED BY <3>1, <2>3, <2>4, PollQueue
  <2>8. QED BY <2>5, <2>6, <2>7
<1>3. CASE spoiled'
  BY <1>3 DEF QueueInv
<1>4. QED BY <1>1, <1>2, <1>3

\* What is left of a sequence when its first len go.
LEMMA DroppedAt ==
  ASSUME NEW seq \in Seq(Byte), NEW len \in Nat, len <= Len(seq)
  PROVE  /\ Len(SubSeq(seq, len + 1, Len(seq))) = Len(seq) - len
         /\ \A s \in Nat : s < Len(seq) - len
              => SubSeq(seq, len + 1, Len(seq))[s + 1] = seq[s + len + 1]
  OBVIOUS

\* Nor do the steps of a read, and all the other steps, disturb the queue.
LEMMA ReaderQueue ==
  ASSUME KeyboardAssumption, KeyboardInv, QueueInv, Reader
  PROVE  QueueInv'
<1>0. /\ ps2bufsize \in 0 .. KBD_BUFFER_SIZE /\ ps2buffer \in [Slot -> Byte]
      /\ pending \in Seq(Byte)
  BY DEF KeyboardInv, TypeOK, Size
<1>1. CASE ReadCode
  <2>1. PICK size \in {-1, ps2bufsize} :
          reader' = [at |-> "shift", len |-> CodeLen(ps2buffer), i |-> CodeLen(ps2buffer),
                     size |-> size, from |-> ps2bufsize, hits |-> 0]
    BY <1>1 DEF ReadCode
  <2>2. reader.at = "idle" /\ UNCHANGED <<buffer, ghost>> /\ CodeLen(ps2buffer) \in 1 .. 3
    BY <1>1, CodeLens DEF ReadCode
  <2>3. \A s \in Slot : ~(s < reader'.i - reader'.len)
    BY <2>1, <2>2 DEF Slot
  <2>4. \A s \in Slot : s < ps2bufsize => s \in 0 .. ps2bufsize - 1
    BY <1>0 DEF Slot
  <2>5. QED BY <2>1, <2>2, <2>3, <2>4 DEF QueueInv, Placed, buffer, ghost
<1>2. CASE ShiftByte /\ ~spoiled
  <2>1. /\ reader.at = "shift" /\ reader.i < KBD_BUFFER_SIZE
        /\ ps2buffer' = [ps2buffer EXCEPT ![reader.i - reader.len] = ps2buffer[reader.i]]
        /\ reader' = [reader EXCEPT !.i = @ + 1]
        /\ UNCHANGED <<ps2bufsize, ghost>>
    BY <1>2 DEF ShiftByte, LoopEnd
  <2>2. /\ reader.i \in Slot /\ reader.len \in 1 .. 3 /\ reader.i - reader.len \in Slot
    <3>1. reader.i \in 0 .. KBD_BUFFER_SIZE /\ reader.len \in 0 .. 3 /\ reader.len >= 1
          /\ reader.len <= reader.i
      BY <2>1 DEF KeyboardInv, TypeOK, ReadInv, ReaderState, Size
    <3>2. QED BY <2>1, <3>1 DEF Slot, KeyboardAssumption
  <2>3. /\ reader'.at = "shift" /\ reader'.len = reader.len /\ reader'.i = reader.i + 1
        /\ reader'.size = reader.size
    BY <2>1 DEF KeyboardInv, TypeOK, ReaderState
  <2>4. ps2bufsize = Len(pending) /\ Placed
    BY <1>2 DEF QueueInv
  <2>5. /\ ps2buffer'[reader.i - reader.len] = ps2buffer[reader.i]
        /\ \A s \in Slot : s # reader.i - reader.len => ps2buffer'[s] = ps2buffer[s]
    BY <1>0, <2>1, <2>2
  <2>6. ASSUME NEW s \in Slot, s < reader.i + 1 - reader.len, s + reader.len < ps2bufsize
        PROVE  ps2buffer'[s] = pending[s + reader.len + 1]
    <3>1. CASE s = reader.i - reader.len
      <4>1. s + reader.len = reader.i
        BY <2>2, <3>1 DEF Slot
      <4>2. reader.i < ps2bufsize /\ reader.i <= reader.i /\ reader.i \in Slot
        BY <2>2, <2>6, <4>1 DEF Slot
      <4>3. ps2buffer[reader.i] = pending[reader.i + 1]
        BY <2>1, <2>4, <4>2 DEF Placed
      <4>4. QED BY <2>5, <3>1, <4>1, <4>3
    <3>2. CASE s # reader.i - reader.len
      <4>1. s < reader.i - reader.len
        BY <2>2, <2>6, <3>2 DEF Slot
      <4>2. QED BY <2>1, <2>4, <2>5, <2>6, <3>2, <4>1 DEF Placed
    <3>3. QED BY <3>1, <3>2
  <2>7. ASSUME NEW s \in Slot, reader.i + 1 <= s, s < ps2bufsize
        PROVE  ps2buffer'[s] = pending[s + 1]
    <3>1. reader.i <= s /\ s # reader.i - reader.len
      BY <2>2, <2>7 DEF Slot
    <3>2. QED BY <2>1, <2>4, <2>5, <2>7, <3>1 DEF Placed
  <2>8. Placed'
    <3>1. pending' = pending /\ ps2bufsize' = ps2bufsize
      BY <2>1 DEF ghost
    <3>2. reader.size # -1 => reader.size = ps2bufsize
      BY <2>1, <2>4 DEF Placed
    <3>3. ASSUME NEW s \in Slot, s < reader'.i - reader'.len, s + reader'.len < ps2bufsize'
          PROVE  ps2buffer'[s] = pending'[s + reader'.len + 1]
      <4>1. s < reader.i + 1 - reader.len /\ s + reader.len < ps2bufsize
        BY <2>2, <2>3, <3>1, <3>3 DEF Slot
      <4>2. ps2buffer'[s] = pending[s + reader.len + 1]
        BY <2>6, <4>1
      <4>3. QED BY <2>3, <3>1, <4>2
    <3>4. \A s \in Slot : reader'.i <= s /\ s < ps2bufsize' => ps2buffer'[s] = pending'[s + 1]
      BY <2>3, <2>7, <3>1
    <3>5. QED BY <2>3, <3>1, <3>2, <3>3, <3>4 DEF Placed
  <2>9. QED BY <2>1, <2>4, <2>8 DEF QueueInv, ghost
<1>3. CASE LoadSize /\ ~spoiled
  <2> DEFINE copy == IF reader.size >= 0 THEN reader.size ELSE ps2bufsize
  <2>1. /\ reader.at = "shift" /\ reader.i >= KBD_BUFFER_SIZE
        /\ reader' = [reader EXCEPT !.at = "store", !.size = copy]
        /\ UNCHANGED <<buffer, ghost>>
    BY <1>3 DEF LoadSize, LoopEnd
  <2>2. ps2bufsize = Len(pending) /\ Placed
    BY <1>3 DEF QueueInv
  <2>3. copy = ps2bufsize
    BY <1>0, <2>1, <2>2 DEF Placed, KeyboardAssumption
  <2> HIDE DEF copy
  <2>4. /\ reader'.at = "store" /\ reader'.len = reader.len /\ reader'.i = reader.i
        /\ reader'.size = copy
    BY <2>1 DEF KeyboardInv, TypeOK, ReaderState
  <2>5. Placed'
    BY <2>1, <2>2, <2>3, <2>4 DEF Placed, buffer, ghost
  <2>6. QED BY <2>1, <2>2, <2>5 DEF QueueInv, buffer, ghost
<1>4. CASE StoreSize /\ ~spoiled
  <2>1. /\ reader.at = "store" /\ ps2bufsize' = reader.size - reader.len /\ reader' = Idle
        /\ Record(SubSeq(pending, reader.len + 1, Len(pending)), ps2bufsize', TRUE, spoiled)
        /\ ps2buffer' = ps2buffer
    BY <1>4 DEF StoreSize, Left
  <2>2. ps2bufsize = Len(pending) /\ Placed
    BY <1>4 DEF QueueInv
  <2>3. /\ reader.len \in 1 .. 3 /\ reader.len <= ps2bufsize /\ reader.size = ps2bufsize
        /\ reader.i \in Int /\ reader.i >= KBD_BUFFER_SIZE
    BY <2>1, <2>2 DEF KeyboardInv, TypeOK, ReadInv, ReaderState, Size, Placed, KeyboardAssumption
  <2>4. CASE ps2bufsize' = 0
    BY <2>1, <2>4 DEF Record, QueueInv, Placed, Idle
  <2>5. CASE ps2bufsize' # 0
    <3>1. pending' = SubSeq(pending, reader.len + 1, Len(pending))
      BY <1>4, <2>1, <2>5 DEF Record
    <3>2. /\ Len(pending') = ps2bufsize - reader.len
          /\ \A s \in Nat : s < ps2bufsize - reader.len
               => pending'[s + 1] = pending[s + reader.len + 1]
      <4>1. reader.len \in Nat /\ reader.len <= Len(pending) /\ Len(pending) = ps2bufsize
        BY <2>2, <2>3
      <4>2. /\ Len(pending') = Len(pending) - reader.len
            /\ \A s \in Nat : s < Len(pending) - reader.len
                 => pending'[s + 1] = pending[s + reader.len + 1]
        BY <1>0, <3>1, <4>1, DroppedAt
      <4>3. QED BY <4>1, <4>2
    <3>3. ASSUME NEW s \in 0 .. ps2bufsize' - 1 PROVE ps2buffer'[s] = pending'[s + 1]
      <4>1. s \in Slot /\ s \in Nat /\ s < ps2bufsize - reader.len
            /\ s < reader.i - reader.len /\ s + reader.len < ps2bufsize
        <5>1. ps2bufsize' = ps2bufsize - reader.len /\ ps2bufsize <= KBD_BUFFER_SIZE
              /\ ps2bufsize \in Nat /\ KBD_BUFFER_SIZE \in Nat
          BY <1>0, <2>1, <2>3 DEF KeyboardAssumption
        <5>2. s \in Nat /\ s < ps2bufsize - reader.len
          BY <2>3, <3>3, <5>1
        <5>3. QED BY <2>3, <5>1, <5>2 DEF Slot
      <4>2. ps2buffer[s] = pending[s + reader.len + 1]
        BY <2>1, <2>2, <4>1 DEF Placed
      <4>3. QED BY <2>1, <3>2, <4>1, <4>2
    <3>4. reader'.at = "idle"
      BY <2>1 DEF Idle
    <3>5. QED BY <2>1, <2>3, <3>2, <3>3, <3>4 DEF QueueInv, Placed
  <2>6. QED BY <2>4, <2>5
<1>5. CASE (ShiftByte \/ LoadSize) /\ spoiled
  BY <1>5 DEF ShiftByte, LoadSize, QueueInv, ghost
<1>6. CASE StoreSize /\ spoiled
  <2>1. reader' = Idle /\ (~spoiled' => ps2bufsize' = 0 /\ pending' = <<>>)
    BY <1>6 DEF StoreSize, Record
  <2>2. QED BY <2>1 DEF QueueInv, Placed, Idle
<1>7. QED BY <1>1, <1>2, <1>3, <1>4, <1>5, <1>6 DEF Reader

LEMMA QueueStep ==
  ASSUME KeyboardAssumption, KeyboardInv, QueueInv, [Next]_vars
  PROVE  QueueInv'
<1>1. UNCHANGED <<buffer, reader, ghost>> => QueueInv'
  BY DEF QueueInv, Placed, buffer, ghost
<1>2. ASSUME NEW pause, NEW rest, NEW next, NEW whole \in BOOLEAN, whole => todo # <<>>,
             KeyboardHandler(pause, rest, next, whole)
      PROVE  QueueInv'
  <2>1. CASE Counted(pause) = FrameBits - 1
    <3>1. PICK byte \in IF whole THEN {Head(todo)} ELSE Byte : StoreByte(byte, rest, next)
      BY <1>2, <2>1 DEF KeyboardHandler
    <3>2. byte \in Byte
      BY <1>2, <3>1 DEF KeyboardInv, TypeOK
    <3>3. QED BY <3>1, <3>2, StoreQueue
  <2>2. CASE Counted(pause) # FrameBits - 1
    BY <1>1, <1>2, <2>2 DEF KeyboardHandler
  <2>3. QED BY <2>1, <2>2
<1>3. ASSUME NEW pause \in BOOLEAN, Edge(pause) PROVE QueueInv'
  <2> DEFINE whole == Counted(pause) = pos /\ (pos = 0 \/ intact)
  <2>1. todo # <<>> /\ KeyboardHandler(pause, AfterEdge[1], AfterEdge[2], whole)
    BY <1>3 DEF Edge
  <2>2. whole \in BOOLEAN
    BY Zenon DEF KeyboardInv, TypeOK
  <2> HIDE DEF whole
  <2>3. QED BY <1>2, <2>1, <2>2
<1>4. ASSUME NEW pause \in BOOLEAN, StrayEdge(pause) PROVE QueueInv'
  BY <1>2, <1>4 DEF StrayEdge
<1>5. CASE LateEdge
  BY <1>2, <1>5 DEF LateEdge
<1>6. CASE LostEdge \/ StartManager \/ EndManager \/ UNCHANGED vars
  BY <1>1, <1>6 DEF LostEdge, StartManager, EndManager, vars
<1>7. ASSUME NEW code \in Codes, Send(code) PROVE QueueInv'
  BY <1>1, <1>7 DEF Send
<1>8. CASE CleanUp
  <2>1. reader.at = "idle" /\ ps2bufsize' = 0 /\ pending' = <<>> /\ reader' = reader
    BY <1>8 DEF CleanUp, Record
  <2>2. QED BY <2>1 DEF QueueInv, Placed
<1>9. QED BY <1>3, <1>4, <1>5, <1>6, <1>7, <1>8, ReaderQueue DEF Next

\* The scan codes come out of the buffer in the order the keyboard sent them,
\* however many come in while one is taken out, unless one of them came too late
\* for the read under way or the LEDs were sent.
THEOREM BytesInOrder == Spec => []BufferIsQueue
<1>1. Init => QueueInv
  BY DEF Init, QueueInv, Placed, Idle
<1>2. KeyboardInv /\ QueueInv /\ [Next]_vars => QueueInv'
  BY QueueStep, KeyboardAssumption
<1>3. QueueInv => BufferIsQueue
  BY DEF QueueInv, Placed, BufferIsQueue
<1>4. QED BY <1>1, <1>2, <1>3, Invariant, PTL DEF Spec
=============================================================================
