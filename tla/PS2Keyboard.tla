----------------------------- MODULE PS2Keyboard -----------------------------
(***************************************************************************)
(* The PS/2 keyboard driver: drivers/ps2/ps2.c, and the switch between the *)
(* emulator and its file manager in src/manager.c.  The keyboard clocks    *)
(* frames of FrameBits bits; every falling edge is an interrupt            *)
(* (KeyboardHandler), which counts the bits, starts over after a pause and *)
(* appends the finished byte to ps2buffer.  The main loop takes one scan   *)
(* code at a time out of the buffer (ps2get_raw_code) with interrupts      *)
(* enabled: it shifts the bytes down one by one and takes the length off.  *)
(* While the manager runs the interrupt consumes the codes itself.  The    *)
(* interrupt runs on the core of the main loop, so it is one step.         *)
(***************************************************************************)
EXTENDS Integers, Sequences

CONSTANTS
  KBD_BUFFER_SIZE,  \* room in ps2buffer: 16
  FrameBits,        \* bits of a frame: start, 8 of data, parity, stop
  Codes,            \* the scan codes the keyboard sends, as byte sequences
  Lock,             \* the bytes of Num, Scroll and Caps Lock
  MaxFaults         \* bound: lost, late and stray edges in a behaviour

Prefix == {"E0", "F0", "E1"}

\* "00" is what memset leaves, "FA" the keyboard's answer to a command.
Byte == Prefix \cup {"00", "FA"} \cup Lock \cup UNION {{c[k] : k \in DOMAIN c} : c \in Codes}

ASSUME KeyboardAssumption ==
  /\ KBD_BUFFER_SIZE \in Nat /\ KBD_BUFFER_SIZE > 2
  /\ FrameBits \in Nat /\ FrameBits > 1
  /\ MaxFaults \in Nat
  /\ Lock \cap Prefix = {}
  /\ \A c \in Codes : c \in Seq(Byte) /\ c # <<>>

Slot == 0 .. KBD_BUFFER_SIZE - 1
Size == 0 .. KBD_BUFFER_SIZE

VARIABLES
  todo,        \* the bytes the keyboard has to send; Head(todo) is on the wire
  pos,         \* edges of that byte sent so far
  bitcount,    \* edges counted by the interrupt
  intact,      \* the bits in `incoming` are those of Head(todo), in their places
  clean,       \* the frame began after a pause and no edge of it went wrong
  faults,      \* faults so far
  ps2buffer,
  ps2bufsize,
  reader,      \* ps2get_raw_code, where it was interrupted
  manager,     \* manager_started: FALSE, about to be set, TRUE
  pending,     \* history: the bytes that ought to be in the buffer, in order
  spoiled      \* history: a byte arrived too late for the read under way, or
               \* the buffer was zeroed; over when the buffer is empty

wire   == <<todo, pos, bitcount, intact, clean, faults>>
buffer == <<ps2buffer, ps2bufsize>>
ghost  == <<pending, spoiled>>
vars   == <<wire, buffer, reader, manager, ghost>>

\* from and hits are history: the size when the read began, and the bytes that
\* arrived since.  size is the copy of ps2bufsize in a register, -1 before.
Idle == [at |-> "idle", len |-> 0, i |-> 0, size |-> -1, from |-> 0, hits |-> 0]

Init ==
  /\ todo = <<>> /\ pos = 0
  /\ bitcount = 0 /\ intact = TRUE /\ clean = FALSE /\ faults = 0
  /\ ps2buffer = [s \in Slot |-> "00"] /\ ps2bufsize = 0
  /\ reader = Idle /\ manager = "off"
  /\ pending = <<>> /\ spoiled = FALSE
-----------------------------------------------------------------------------
\* The length of the code at the head of the buffer (both decoders).
CodeLen(b) ==
  IF b[0] = "E0" /\ b[1] = "F0" THEN 3 ELSE IF b[0] \in Prefix THEN 2 ELSE 1

\* Mutant: a code is taken only when another byte follows.
NeedsOneMore(b, n) == n > CodeLen(b)

\* What is in the buffer is long enough to decode.
Complete(b, n) == n >= CodeLen(b)

\* The loop ps2buffer[i - len] = ps2buffer[i], from i to the end.
Shift(b, len) ==
  [s \in Slot |-> IF s + len \in Slot THEN b[s + len] ELSE b[s]]

\* Translated codes of the lock keys make the interrupt send the LEDs.
TogglesLed(b, n) == Complete(b, n) /\ b[0] \in Lock

Zeroed == [s \in Slot |-> "00"]

\* A byte that comes in now will not be moved with the others by the read
\* under way, or will be taken off the size again.
TooLate == reader.at # "idle" /\ (reader.i > ps2bufsize \/ reader.size >= 0)

\* History: what ought to be in the buffer, n bytes long after the step.
Record(seq, n, idle, bad) ==
  /\ spoiled' = (bad /\ ~(idle /\ n = 0))
  /\ pending' = IF bad \/ (idle /\ n = 0) THEN <<>> ELSE seq

\* keyboard_toggle_led: two commands, each may fail; one that succeeds zeroes
\* the buffer but not its size, and the second one is answered.  They end what
\* the keyboard was sending; it sends that byte again.  The byte that a command
\* then reads at ps2bufsize as its answer is thrown away (see AnswerInside).
KeyboardToggleLed(b, n, rest, seq, bad) ==
  \E first, second \in BOOLEAN :
    LET zero == first \/ second IN
    /\ ps2buffer' = IF zero THEN Zeroed ELSE b
    /\ todo' = (IF second THEN <<"FA">> ELSE <<>>) \o rest
    /\ pos' = 0
    /\ Record(seq, n, reader.at = "idle", bad \/ zero)

\* The interrupt takes codes out only while the manager runs.
TakesCodes == manager = "on"

\* ps2poll -> ps2getcode, with b and n after the byte was stored: the code at
\* the head is translated.
Ps2Poll(b, n, rest, next, seq, bad) ==
  LET take == TakesCodes /\ Complete(b, n)
      len  == IF take THEN CodeLen(b) ELSE 0
      left == SubSeq(seq, len + 1, Len(seq))
  IN /\ ps2bufsize' = n - len
     /\ IF TogglesLed(b, n)
        THEN KeyboardToggleLed(Shift(b, len), n - len, rest, left, bad)
        ELSE /\ ps2buffer' = Shift(b, len)
             /\ todo' = rest /\ pos' = next
             /\ Record(left, n - len, reader.at = "idle", bad)

\* Mutant: off by one.
NoRoomCheck == ps2bufsize <= KBD_BUFFER_SIZE

HasRoom == ps2bufsize < KBD_BUFFER_SIZE

\* The eleventh edge: the byte is stored when there is room, else it is lost.
StoreByte(byte, rest, next) ==
  IF HasRoom
  THEN /\ Ps2Poll([ps2buffer EXCEPT ![ps2bufsize] = byte], ps2bufsize + 1,
                  rest, next, Append(pending, byte), spoiled \/ TooLate)
       /\ reader' = IF reader.at = "idle" THEN reader ELSE [reader EXCEPT !.hits = @ + 1]
  ELSE /\ todo' = rest /\ pos' = next
       /\ UNCHANGED <<buffer, reader, ghost>>

\* Mutant: no resynchronisation.
NeverResets(pause) == bitcount

\* The edges counted before this one; a pause of more than 250 us starts over.
Counted(pause) == IF pause THEN 0 ELSE bitcount

\* KeyboardHandler, for an edge after which the keyboard has rest to send and
\* is at next; whole says whether every bit of the frame found its place.  Bits
\* in the wrong places may make any byte.
KeyboardHandler(pause, rest, next, whole) ==
  LET count == Counted(pause) IN
  IF count = FrameBits - 1
  THEN /\ bitcount' = 0 /\ intact' = TRUE
       /\ \E byte \in IF whole THEN {Head(todo)} ELSE Byte : StoreByte(byte, rest, next)
  ELSE /\ bitcount' = count + 1 /\ intact' = whole
       /\ todo' = rest /\ pos' = next
       /\ UNCHANGED <<buffer, reader, ghost>>

\* No more than one interrupt fits between the two stores of if_manager.
Interrupt ==
  /\ manager # "late"
  /\ manager' = IF manager = "cleaned" THEN "late" ELSE manager

AfterEdge == IF pos = FrameBits - 1 THEN <<Tail(todo), 0>> ELSE <<todo, pos + 1>>

\* An edge the keyboard sends: a pause of more than 250 us comes only between
\* two frames.
Edge(pause) ==
  /\ todo # <<>>
  /\ pause => pos = 0
  /\ Interrupt
  /\ KeyboardHandler(pause, AfterEdge[1], AfterEdge[2],
                     Counted(pause) = pos /\ (pos = 0 \/ intact))
  /\ clean' = (pos' # 0 /\ (pos = 0 => pause) /\ (pos # 0 => clean))
  /\ UNCHANGED faults

Fault == faults < MaxFaults /\ faults' = faults + 1 /\ clean' = FALSE

\* An edge inside a frame that comes more than 250 us after the last one.
LateEdge ==
  /\ todo # <<>> /\ pos > 0
  /\ Fault /\ Interrupt
  /\ KeyboardHandler(TRUE, AfterEdge[1], AfterEdge[2], FALSE)

\* An edge the keyboard did not send.
StrayEdge(pause) ==
  /\ Fault /\ Interrupt
  /\ KeyboardHandler(pause, todo, pos, FALSE)

\* An edge the processor does not see: interrupts were off.
LostEdge ==
  /\ todo # <<>>
  /\ Fault
  /\ todo' = AfterEdge[1] /\ pos' = AfterEdge[2] /\ intact' = FALSE
  /\ UNCHANGED <<bitcount, buffer, reader, manager, ghost>>

\* A key is pressed or released.
Send(code) ==
  /\ todo = <<>>
  /\ todo' = code
  /\ UNCHANGED <<pos, bitcount, intact, clean, faults, buffer, reader, manager, ghost>>
-----------------------------------------------------------------------------
\* ps2get_raw_code as far as the loop.  A byte appended meanwhile does not
\* change what it decodes.  Nothing keeps the compiler from loading ps2bufsize
\* here for the subtraction after the loop.
ReadCode ==
  /\ reader.at = "idle" /\ manager = "off"
  /\ Complete(ps2buffer, ps2bufsize)
  /\ LET len == CodeLen(ps2buffer) IN
     \E size \in {-1, ps2bufsize} :
       reader' = [at |-> "shift", len |-> len, i |-> len, size |-> size,
                  from |-> ps2bufsize, hits |-> 0]
  /\ UNCHANGED <<wire, buffer, manager, ghost>>

\* Mutant: only the bytes that were there are moved.
OldBytesOnly == reader.from

\* The loop moves every place of the buffer, filled or not.
LoopEnd == KBD_BUFFER_SIZE

ShiftByte ==
  /\ reader.at = "shift" /\ reader.i < LoopEnd
  /\ ps2buffer' = [ps2buffer EXCEPT ![reader.i - reader.len] = ps2buffer[reader.i]]
  /\ reader' = [reader EXCEPT !.i = @ + 1]
  /\ UNCHANGED <<wire, ps2bufsize, manager, ghost>>

\* ps2bufsize -= len, a load and a store.
LoadSize ==
  /\ reader.at = "shift" /\ reader.i >= LoopEnd
  /\ reader' = [reader EXCEPT !.at = "store", !.size = IF @ >= 0 THEN @ ELSE ps2bufsize]
  /\ UNCHANGED <<wire, buffer, manager, ghost>>

\* Mutant: the length of the code that has come to the head.
LeftOfNext == reader.size - CodeLen(ps2buffer)

Left == reader.size - reader.len

StoreSize ==
  /\ reader.at = "store"
  /\ ps2bufsize' = Left
  /\ reader' = Idle
  /\ Record(SubSeq(pending, reader.len + 1, Len(pending)), ps2bufsize', TRUE, spoiled)
  /\ UNCHANGED <<wire, ps2buffer, manager>>

Reader == ReadCode \/ ShiftByte \/ LoadSize \/ StoreSize

\* Mutant: the codes that wait for the emulator stay.
KeepBuffer ==
  /\ manager = "off" /\ reader.at = "idle"
  /\ manager' = "cleaned"
  /\ UNCHANGED <<wire, buffer, reader, ghost>>

\* if_manager(true), called by the main loop after a read or for the joystick.
CleanUp ==
  /\ manager = "off" /\ reader.at = "idle"
  /\ ps2bufsize' = 0 /\ manager' = "cleaned"
  /\ Record(<<>>, 0, TRUE, FALSE)
  /\ UNCHANGED <<wire, ps2buffer, reader>>

StartManager ==
  /\ manager \in {"cleaned", "late"}
  /\ manager' = "on"
  /\ UNCHANGED <<wire, buffer, reader, ghost>>

EndManager ==
  /\ manager = "on"
  /\ manager' = "off"
  /\ UNCHANGED <<wire, buffer, reader, ghost>>

Next ==
  \/ \E pause \in BOOLEAN : Edge(pause) \/ StrayEdge(pause)
  \/ LateEdge \/ LostEdge
  \/ \E code \in Codes : Send(code)
  \/ Reader
  \/ CleanUp \/ StartManager \/ EndManager

\* The main loop never stops calling ps2get_raw_code.
Spec == Init /\ [][Next]_vars /\ WF_vars(Reader)
-----------------------------------------------------------------------------
ReaderState ==
  [at : {"idle", "shift", "store"}, len : 0 .. 3, i : Size, size : Size \cup {-1},
   from : Size, hits : Size]

\* What the interrupt and the reader store lies inside ps2buffer, and the size is
\* never below zero or above the room there is.
TypeOK ==
  /\ todo \in Seq(Byte) /\ pos \in 0 .. FrameBits - 1
  /\ bitcount \in 0 .. FrameBits - 1 /\ intact \in BOOLEAN /\ clean \in BOOLEAN
  /\ faults \in 0 .. MaxFaults
  /\ ps2buffer \in [Slot -> Byte] /\ ps2bufsize \in Size
  /\ reader \in ReaderState
  /\ manager \in {"off", "cleaned", "late", "on"}
  /\ pending \in Seq(Byte) /\ spoiled \in BOOLEAN

\* Between two reads the buffer holds the bytes that arrived and were not read,
\* in their order, whatever arrived in the middle of the reads before, unless
\* a byte came too late for a read or the LEDs were sent.
BufferIsQueue ==
  (reader.at = "idle" /\ ~spoiled) =>
    /\ ps2bufsize = Len(pending)
    /\ \A s \in 0 .. ps2bufsize - 1 : ps2buffer[s] = pending[s + 1]

\* A frame that begins after a pause is counted from its first bit, whatever
\* was lost or added before it.
Resync == clean => bitcount = pos /\ intact

\* While the manager runs the buffer never fills: the interrupt polls the
\* decoder only when it has stored a byte, so a full buffer would never be
\* emptied again.  This is what ps2cleanup is for.
ManagerNotStuck == manager = "on" => ps2bufsize <= 2

\* A read that the interrupt gets into takes out its own code, and at most the
\* bytes that arrived meanwhile are lost with it; the size never wraps.
LossBounded ==
  [][(reader.at # "idle" /\ reader'.at = "idle") =>
       /\ ps2bufsize' <= reader.from + reader.hits - reader.len
       /\ ps2bufsize' >= reader.from - reader.len]_vars

\* The buffer that a command of the LEDs has zeroed is read at ps2bufsize, for the
\* answer.  Nothing says that the place is inside: with a full buffer it is not.
AnswerInside ==
  [][(ps2buffer' = Zeroed /\ ps2buffer[0] \in Lock /\ UNCHANGED reader.at) => ps2bufsize' \in Slot]_vars

\* When the keyboard falls silent outside the manager, every complete code is
\* read in the end; only the beginning of one may stay.
CodesAreRead ==
  <>[](todo = <<>> /\ manager = "off") =>
     <>[](reader.at = "idle" /\ ps2bufsize < CodeLen(ps2buffer))
=============================================================================
