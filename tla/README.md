# TLA+ for PICO-BK-GID

PICO-BK-GID is an emulator of the Soviet home computers BK-0010, BK-0010-01 and
BK-0011(M) for a Raspberry Pi Pico, grown out of the Windows program BKemu: the
machine is emulated by `BK/devemu`, the port adds `src/` (start-up, file
manager, keyboard) and `drivers/` (PS/2, PSRAM, SD card, VGA, audio, USB), and
`FakeWin/` stands in for the Windows API.

This directory holds TLA+ modules of the parts whose correctness depends on the
order of events, TLC configurations that check them on small instances, and
proofs that TLAPS checks for every value of the constants. Paths below are
relative to `src/`.

    tlc -config cpu_smk.cfg VM1InterruptsMC.tla        # model-check
    tlapm VM1InterruptsProofs.tla                      # check the proofs

## 1. The system

Everything runs in one loop, `CMotherBoard::TimerThreadFunc` (`Board.cpp:1676`).
Each round takes one key from the PS/2 driver, executes one processor step when
its time has come (`TranslateInstruction`), hands a `CExceptionHalt` thrown out of
it to `ReplyError`, and then gives time to the screen, the sound and the floppy
controller (`CFDDController::Periodic`, 15625 times a second). The devices are
called back synchronously from the instruction that touches their registers, so
the concurrency of the emulated machine is an interleaving of *steps*: processor
steps, periodic ticks of the devices and request lines. Only the PS/2 and audio
handlers are real interrupts on the Pico.

| component | state | operations | hard behaviour | what makes it correct |
|---|---|---|---|---|
| CPU interrupt unit (`CPU.cpp`) | PSW, SP, request flags, VIRQ queue, WAIT/STEP/trace/STOP flags | `TranslateInstruction`, `InterruptDispatch`, trap entries, `ReplyError`, request lines, `InitCPU` | a trap entry that hangs up half-way, flags that live for exactly one step, priorities | each hangup classified and served once; no flag leaks into a later step; T trap after each instruction but the one after RTT; STOP is answered |
| Floppy controller (`FDDController.cpp`, `FloppyDrive.cpp`) | command register, search and write mode, data/shift/write registers and flags, checksum, track buffers and head | `SetCommand`, `GetState`, `GetData`, `WriteData`, `Periodic` | the disk does not wait: a late guest loses words; write queue of two registers; checksum put in when it runs dry | verdict = truth about the block; no word lost, doubled or out of order; a search ends |
| ATA drives (`HDD.cpp`) | task file, phase, word index, working sector counter, buffer | register reads and writes, ten commands, resets, attach | multi-sector transfers with address carry, failures in the middle, two drives on one bus | whole consecutive sectors, as many as asked; DRQ means words; one drive answers |
| VE timer (`CPU.cpp:234-336`) | 177706-177712, divider, pending request | `Timerprocess`, register writes, `ResetTimer` | stop, reload and mode change at zero, a request that reset does not clear | the period is what was loaded; a one-shot timer fires once |
| PS/2 keyboard (`drivers/ps2/ps2.c`, `manager.c`) | bit count, `ps2buffer`, `ps2bufsize`, `manager_started` | `KeyboardHandler` (interrupt), `ps2get_raw_code`, `ps2poll`, `ps2cleanup` | the interrupt in the middle of the reader; lost and stray edges; the manager taking over | frames found again after a pause; no code lost or doubled but in the last moment of a read; the buffer never gets stuck |
| Keyboard registers (`Board.cpp`, `BKKey.c`) | 177660, 177662, 177716, `m_nKeyCleanEvent`, `Key_Flags` | `Key_Translate`, `KeyboardInterrupt`, `GetSystemRegister` | a key while the ready bit still waits to be cleared | an announced key is not taken back unread, its interrupt is not lost |
| CPU arithmetic (`CPU.cpp`) | registers, N Z V C, `m_ALU` | the instructions | condition bits out of a wider `m_ALU`; multi-word programs | result and conditions say what the instruction is for |
| Memory map and system registers (`Board*.cpp`) | window registers, 177660-177716 outputs | `SetSystemRegisters`, `MemoryManager` | blocked STOP key, windows switched under code | map is a function of the registers; request line follows the key |
| AltPro / A16M / SMK512 managers (`FDDController.cpp:548`, `Board_*_FDD.cpp`) | strobe trigger, mode, bank | writes of 177130 | two-write protocol | a mode is taken only after a strobe |
| Floppy images (`FloppyDrive.cpp`, `EmulateFDD`) | track buffer, change mark | `PrepareTrack`, `FlushChanges`, `EncodeTrackData`, `DecodeTrackData`, `EmulateFDD` | interception of the disk routines beside the track buffer | decode(encode(t)) = t; nothing stale served |
| Main loop (`Board.cpp:1676`) | run/break flags, dividers | `TimerThreadFunc` | exceptions, debug break | the loop goes on after every hangup |

Not part of the plan: tape and sound (signal processing), screen and VGA
(pixel formatting and DMA), PSRAM/SD/FAT/USB drivers (vendored), file manager,
configuration and saved states (I/O, done once), the debugger and the Windows
user interface (compiled out or unreachable), the Windows tools beside it.
`PROJECT.json` lists every component with its status, and every hazard with the
line where it bites.

How the modelled parts meet: the processor's bus cycles reach the devices, and a
device reaches the processor only through its requests (`InterruptVIRQ`,
`SetIRQ1`, `TickIRQ2`) or a hangup. The floppy controller and the hard disks
raise no interrupt on this machine; their guest polls. Each of these modules'
environment is "the guest may make any access at any time". The keyboard does
interrupt: `BoardLoop` composes the keyboard registers, the translation of keys,
the VE timer and the processor's dispatch of their two requests as one pass of
the main loop does. Its input is a scan code that arrives or is lost
(`Key`), which is what `PS2Keyboard` delivers.

## 2. Modules

| module | models | role |
|---|---|---|
| `VM1Interrupts` | `CPU.cpp`, `CPU.h`, the catch in `Board.cpp:1754` | the interrupt unit |
| `HangupEscalation` | what the interrupt table says of hangups, and where it is silent | abstract specification |
| `VM1InterruptsMC` | | boards for TLC |
| `VM1InterruptsProofs` | | theorems |
| `FloppyController` | `FDDController.cpp`, the rotating track of `FloppyDrive.cpp` | the controller, its guest and the disk |
| `FloppyWriteQueue` | what the write side promises | abstract specification |
| `FloppyControllerMC` | | disks and guests for TLC |
| `FloppyControllerProofs` | | theorems: registers, write queue, blocks that are written and blocks that are read |
| `HardDisk` | `CATA_IDE`, `CHDD` | both drives |
| `SectorTransfer` | what a data command promises | abstract specification |
| `HardDiskMC` | | failing accesses for TLC |
| `HardDiskProofs`, `HardDiskTransferProofs` | | theorems: the drives' registers; the addressed sector and the refinement |
| `PS2Keyboard` | `drivers/ps2/ps2.c`, `if_manager` of `src/manager.c` | wire, interrupt, reader and manager |
| `PS2KeyboardMC`, `PS2KeyboardProofs` | | scan codes for TLC; theorems |
| `VETimer` | `CPU.cpp:234-336` | the timer, as operators on its registers |
| `BoardLoop` | `Board.cpp`, `BKKey.c` | a pass of the main loop: keyboard registers, timer, dispatch |
| `BoardLoopMC`, `BoardLoopProofs` | | the guest's use of the timer for TLC; theorems |
| `CPUArithmetic` | the instructions of `CPU.cpp` | results and conditions, and what they are for |
| `CPUArithmeticProofs` | | theorems about additions and shifts |
| `CPUInstructions`, `CPUInstructionsMC` | operands, results, branches of `CPU.cpp` | short programs on registers; the programs for TLC |
| `CPUInstructionsProofs` | | theorems about instructions and programs |

A definition whose comment begins "Mutant:" is a plausible bug in the definition
after it. The specification does not use it; with it in place of the right one,
TLC finds the property named in `PROJECT.json` violated.

### VM1Interrupts

One step is one `TranslateInstruction`. `Interrupt` is the dispatch: `Ready(s)`
is the condition under which a row of the priority chain fires and `Chosen(s)`
says that nothing above it does, in the order of `InterruptDispatch`. Each
`Take...` action is one row with its *whole* entry: pushes of PSW and PC, reading
of the vector, the flags it raises around bus cycles, and the exits by exception
from the middle, where `Hangup` composes the throw with the `catch` and
`ReplyError` of the main loop, since nothing runs between them. When nothing is
ready, `Execute` runs one instruction: those that touch the unit (HALT, WAIT,
RTI, RTT, START, STEP, traps, a write that changes the board's mode, an operand
that hangs up) are actions of their own and every other one is
`ExecuteOrdinary`. `Board` is the rest: reset, STOP key, lines, vectors. R6 runs
over a ring of words, each of which answers reads, writes or neither. What an
instruction computes is left out, and so are the addresses of code.

`last` and `cause` are history variables for the properties.

`HangupEscalation` is what `CPU.cpp` says of hangups without the processor. Where the source
contradicts itself, about a hangup in the entry of the vector error's trap, it allows both
readings: the table makes no double hangup of it, a comment (`CPU.cpp:492`) expects one.
What the code does there is stated by `VectorErrorExpectsDouble` below.

### FloppyController

`Guest` is every access to 177130 and 177132; `Periodic` is one word of rotation
with its three outcomes `Reading`, `Writing` and `Turning`; `OnReset` is a reset of the
board, after which the boards' `OnReset` attaches the images again (a buffer that holds track 0
is kept, and of the checksum's variables only the accumulator is set). `Init` is the state after the first
`AttachImage`, which sets TRACK0 and puts track 0 into the buffer. `Drives` hold a disk, `Bare` are drives without
one (a command moves their head and the flags, but there is no buffer), `Absent` do not
exist (a command for them ends early). Data is real 16-bit
words with their low and high bytes swapped between disk and register as in
`WrData` and `RdData`; the checksum's polynomial is a constant operator `CrcStep`,
so every result holds for any checksum. `IniCrc`, `AddCrcRd` and `AnalyseMarker`
are the marker analysis of `add_crc_16_rd`. History variables (block being read
or written, words missed, blocks closed) serve the properties and no guard.

### HardDisk

One record per attached drive; each action is one register access and changes
both drives, because `CATA_IDE::write_regs` calls both. A command runs inside
`WriteCommand` to its end (`THREADED_MODEL` is 0). `Sought` and the two `Next...`
operators are `seek` with the carry of the address; `Failed`, `command_ok`,
`unset` are the ends a command may come to. `bad` is the set of sectors the image
file refuses in this access. `Proper` and `Quiet` are the discipline of a careful
guest (constant `Careful`): it writes the count before each command that uses it
up, and neither selects nor commands during a transfer. Without `Careful` only
the endless READ VERIFY is excluded, for there the emulator itself never returns.

### PS2Keyboard

A step is one falling edge of the keyboard's clock (an interrupt, hence atomic:
`KeyboardHandler` with `ps2poll` behind it) or one store of the reader. The
reader, `ps2get_raw_code`, runs with interrupts enabled, so it is cut where they can get
in: `ReadCode`, one `ShiftByte` for each byte moved, and the load and the store
of `ps2bufsize -= len`. Nothing orders the load after the loop, so it may also
happen in `ReadCode` (`size`). The wire is the keyboard's side: the byte being sent
and how many of its edges were; `bitcount` is the driver's count of them. An edge
may be late, missing or made up (`LateEdge`, `LostEdge`, `StrayEdge`), after which
a frame may yield any byte. `CleanUp`, `StartManager` and
`EndManager` are the stores of `if_manager` with an interrupt between them at
most. The LEDs' commands end the byte on the wire and zero the buffer but not its
size. `pending` and `spoiled` are history: what ought to be in the buffer, and
that a byte came too late for the read under way. The values of bits, parity,
`kbd_script` and the locks are left out.

### VETimer and BoardLoop

`VETimer` is the timer as operators on a record of its registers; `BoardLoop`
has one action for each thing a pass of `TimerThreadFunc` can do to keyboard and timer: a code
arrives (`Key`), or the guest executes an instruction that touches nothing of
this (`Instruction`), reads 177662, writes 177660, 177712 or 177706, takes an
interrupt or executes RESET. Every instruction ends the same way: `Countdown`
runs the delayed clearing of the ready bit, `Elapse` gives the timer the pulses that its ticks are
worth. `past`, `unread` and `asked` are history; `unread` tells a code that was announced
from one that came silently, while the bit of a key already read was still up (`KeepReady`). Codes of keys are
names of keys: that the release of an ordinary key has the code of its press is
kept, the table of codes is not. With `Careful` the guest reads 177662 only while
the ready bit is up.

### CPUArithmetic and CPUInstructions

`m_ALU` has 32 bits and the conditions are taken from it before it is cut, so each
operator of `CPUArithmetic` returns the wide result with the conditions. The
bytes count modulo `Byte`, words modulo its square. The second half of the module
says what the instructions are for, in signed and unsigned numbers, with no
reference to bits. `CPUInstructions` runs programs on registers: fetch of the
operands, the store of bytes and words (MOVB extends, other byte instructions do
not), branches and SOB, and the bug of the C bit that the configuration turns on. The
bits that two numbers share (`Both`) are found by halving both, and TLC compares
that with the operator `&`. That a byte is made of bits (`BytesOfBits`) is what the logical
instructions need. What each instruction is for is stated by kinds: sums and what behaves like
one (`SumRight`, with MOV, CLR, COM and TST), the halvings, the logical instructions bit by bit,
SWAB and SXT, MUL, DIV, and ASH with ASHC. `ProgramsAssumption` lists the programs whose effect is
stated (`Comparisons`, `Longer`); any other program may be run as well, under the name
"single", and for it only the single instructions are judged.

In both disk devices writes never reach the image: `CFile::Open` of the port maps
"read and write" to read-only and `Write` fails without an exception
(`FakeWin/CFile.h:67`). The modules say so at their head.

## 3. Runs

Passing runs:

| run | instance | properties |
|---|---|---|
| `cpu_smk` | SMK512 board: three memory modes that differ in which HALT words answer; six stack words, two without an answer and one of ROM; lines STOP and IRQ2; two vectors; any PSW | `TypeOK`, `AtMostOneFault`, `FlagsQuiescent`, `TracePairs`, refinement `Escalation` |
| `cpu_plain` | plain BK (0177674 never answers), the same stack and lines, under fairness | `StopFlagFresh`, `WaitClean`, `TTrapEachInstr`, `HangupRecovers`, `StopServed` |
| `fdd_read` | one disk, two tracks and two sides of 11 words: a header, damaged data, a good block; a guest that reads, searches, steps, stops the motor or resets at any time | `TypeOK`, `VerdictRight`, `OkMeansGood`, `SearchEnds` |
| `fdd_write` | a blank track of 3 words, four words written with markers, so that blocks cross the index and come round to their beginning; a drive without a disk, one that does not exist, and resets | `RequestMeansRoom`, `SealedBlocksGood`, refinement `WriteQueue` |
| `hdd_transfer` | one drive, 4 cylinders, 2 heads, 2 sectors of 2 words, registers of radix 3; sector 1 and the service sector may fail; CHS and LBA | `TypeOK`, `CountShowsCounter`, `NextAddress`, refinement `SectorTransferred` |
| `hdd_pair` | two drives of two sectors, every command to either, resets, failures | `RequestMeansTransfer`, `OneAnswers` |
| `ps2` | a buffer of 3 bytes, frames of 3 bits, codes of one, two and three bytes and Num Lock, one faulty edge, the manager coming and going, under fairness | `TypeOK`, `BufferIsQueue`, `Resync`, `ManagerNotStuck`, `LossBounded`, `CodesAreRead` |
| `board` | two keys and a modifier, a countdown of 4 ticks, pulses of 2, instructions of 3 or 0; three ways of running the timer; a careful guest, under fairness | `TypeOK`, `InterruptPending`, `PeriodExact`, `OneShotOnce`, `ReadyUntilRead`, `ReadClears` |
| `alu` | bytes of 2 bits, words of 4: every instruction on every operand, comparisons with every branch, ten programs of up to three instructions | `TypeOK`, `InstructionsRight`, `ProgramsCompute` |

Runs that TLC must find violated; each is a disagreement between the code and a
comment of it, quoted in `PROJECT.json` under "findings":

| run | property | what happens |
|---|---|---|
| `fdd_verdict` | `OkMeansRead` | CHECKSUMOK in the middle of a damaged sector whose first word of data is the checksum of three bytes A1 |
| `hdd_counter` | `CounterInRange` | a second command without a new count takes the counter to -1 and the transfer has no end |
| `key_vanishes` | `NoKeyVanishes` | a key struck while the bit of one already read waits to be cleared is stored, never announced, and the bit falls with it unread |

**Disagreements without a run of their own.** Each can be seen with the
property and the change named here.

| property | change | what TLC shows |
|---|---|---|
| `VectorErrorCause` | `cpu_smk`, this property instead of the others | a push that hangs up in a vectored interrupt is taken for a vector that could not be read (`CPU.cpp:612` against 677, 689, 710) |
| `VectorErrorExpectsDouble` | `cpu_smk`, likewise | a hangup in the entry of the vector error's trap is a plain one, for `TakeVIRQErr` never raises `m_bTwiceHangup`, where `CPU.cpp:492` announces a double one |
| `StepBlocksDispatch` | `cpu_smk` | STEP blocks the dispatch only when the PSW it loaded has the T bit (`CPU.cpp:558`, 1145) |
| `HangupRecovers` | `cpu_smk` | with the HALT words gone, single and double hangup alternate for ever (`CPU.cpp:502`, 504) |
| `SearchStarts` | `fdd_read` with `Words = {258}` and `MaxWrites = 1` | a search started in write mode never begins, since only a read of 177132 ends that mode (`FDDController.cpp:1818` against 97-99 and 51-52) |
| `OkMeansTaken` | `fdd_read` | CHECKSUMOK for a guest that lost the last data word (`FDDController.cpp:1990`, 75-77) |
| `ReadyUntilRead` | `board` with `Careful = FALSE` | a read of 177662 before any key starts the countdown, and a key struck meanwhile loses its ready bit (`Board.cpp:1013`) |
| `ReadyMeansPress` | `board` | a key is pressed and read and its bit falls; then its release, which has the same code, announces it again (`Board.cpp:1013`: the bit is set by a press) |
| `NewCodeIgnored` | `board` | a second key takes the place of one that was announced and not read (`Board.cpp:1695` says it is ignored, 1694 stores it) |
| `AnswerInside` | `ps2` | sending the LEDs with a full buffer reads the answer at `ps2buffer[ps2bufsize]`, one past its end (`ps2.c:123`); the byte is thrown away |
| `InstructionsRight` | `alu` with `CharSigned = FALSE` | MOVB of a negative byte to a register is not extended (`CPU.cpp:1657`) |
| `DivisionFits` | `alu` | DIV stores quotients below the smallest word, where `CPU.cpp:1845-1846` announces that no division takes place |

Two more need no run at all. `m_bTimerRq` is neither initialised nor cleared by
`ResetTimer` (`CPU.cpp:234`), though the comment at `CPU.cpp:256-258` presupposes
it: `Init` of `BoardLoop` leaves `rq` free. And the offset of a branch is a `char`
(`CPU.cpp:1452`, 1471, 1657), which must be signed; the build sets no
`-fsigned-char` and the ARM compiler's is unsigned. The constant `CharSigned` is
TRUE in the run, as the source needs.

And one that cannot happen: the comment at `CPU.cpp:835-838` fears that the queue of vectors
overflows when devices ask too often, but the loop above it (825-831) takes no vector that is
already there, so the queue is never longer than there are vectors.

**Bounds, and why they are enough.** The stack ring needs a word of each kind and
room for two trap entries in a row: a hangup in the first push, in the second,
and recovery all occur on six words. Two vectors are the least with which the
queue has an order; STOP and IRQ2 are the lines with entries of different kinds
(IRQ3 and TVE run the code of IRQ2 with another vector and no other effect).
A track of 11 words holds a block with its gap, so the head can be anywhere when
a search starts and the block after the search is reached again after a turn;
3 words make the writer meet the index and its own earlier blocks. On the drives,
radix 3 makes every carry (sector, head, low and high cylinder) and the count 0,
which means a full register of sectors, happen on sixteen sectors; the end of
the disk is inside the reach of one command. `MaxWrites` is the only bound on a
history. Three bytes of buffer are the fewest that hold the longest code, so
that full, partly shifted and empty buffers all meet an interrupt in the same read; a frame of
three bits has a first, an inner and a last edge. In `board` the countdown and the pulse are not
multiples of an instruction, so both end inside one; a countdown is
still running when the next key comes; RESET outlasts it, as 1140 ticks outlast 900; a counter
modulo 3 with a divider of 2 expires, is reloaded and wraps. In `alu` a byte of two bits
has a sign, a carry and every overflow, and the properties are over *all* operands. The
theorems below do not have these bounds.

**Fairness.** Only the temporal properties use it: `WF_vars(TranslateInstruction)`
and `WF_vars(Periodic)`. Both are called by the loop in `Board.cpp:1705-1829` as
long as the machine runs, whatever the guest does; nothing is assumed of the
guest, of the lines or of the choice of instruction. In `PS2Keyboard` it is
`WF_vars(Reader)`: every pass calls `ps2get_raw_code` (`Board.cpp:1684`), and the
interrupt, which is short, always returns to it. In `BoardLoop` it is
`WF_vars(\E cost \in Costs : TranslateInstruction(cost))`: the processor runs and not
every instruction ends in an exception (those take no ticks). `CodesAreRead`
is about a keyboard that falls silent outside the manager, and promises no
more than that only the beginning of a code is left. `SearchEnds` is about the time
after the guest has left the controller alone (`OnlyPeriodic`). `StopServed` admits that handlers which set the T bit in their
own PSW keep the trace trap ahead of STOP, which is what the priority says.

## 4. Properties, and what they exclude

*Interrupt unit.* A hangup thrown from the middle of a trap entry leaves
`m_bGetVector` or `m_bTwiceHangup` up and makes a later one escalate
(`FlagsQuiescent`, `Escalation`); two hangups pend at once (`AtMostOneFault`); the
flag of RTT survives an instruction that hung up and swallows a second T trap
(`TracePairs`, `TTrapEachInstr`); the STOP key's PC + 2 mark is spent on a
stranger's hangup (`StopFlagFresh`); WAIT is left running with something pending
(`WaitClean`); on a plain board, R6 in a hole hangs up for ever (`HangupRecovers`); STOP is
starved (`StopServed`). `WaitClean` says that WAIT does not outlast a request, and not which
interrupt ends it; that the T trap does not is the condition of its row.

*Floppy.* The verdict on a block is formed one word late, from a size guessed out
of a marker: `VerdictRight` compares it with the block on the disk, whatever the
guest missed. `OkMeansGood` is the bit the guest sees, for a block that is `Plain`: its
count is zero after every byte A1 of the marker as well, so a block whose words
happen to be the checksums of those bytes alone is judged there, too early; that is what
`OkMeansRead`, which makes no such exception, shows. `SealedBlocksGood` says
that what was written can be read back, also across the index and after a part of
it was overwritten; it speaks of whole blocks, and says nothing of one that a read of
177132 cut, whose checksum and marker flag are left for the next words. `RequestMeansRoom` and
`WriteQueue` are about the two registers.

*Hard disk.* `NextAddress` relates the registers between sectors of a command to
the sector in the buffer; `SectorTransferred` says that data commands move whole
consecutive sectors, each word once, and end when the count is used up;
`CountShowsCounter` that register 1F2 tells the truth about the working counter;
`RequestMeansTransfer` and `OneAnswers` are what a polling guest relies on: a drive that moves
words asks for them and a failed one does not. Not the converse: FORMAT_TRACK raises DRQ without a
transfer (`HDD.cpp:747-750`). What `SectorTransferred` does not say is that the first sector of a
command is the addressed one (`NextAddress` ties the later ones to the address), and its `End` admits that
the last sector of a command could not be written, as the code does.

*PS/2 keyboard.* The interrupt appends while the reader shifts: `BufferIsQueue`
says when this is harmless (the byte lies in front of what is not yet moved) and
`LossBounded` what it costs when it is not: at most the bytes that came during
that one read. `Resync` is the driver's only defence against a lost edge: a
pause. `ManagerNotStuck`: while the manager runs the interrupt looks at the buffer
only when it stored a byte, so a full buffer would silence the keyboard for good; it is
`ps2cleanup` that excludes this, with one interrupt between its store and the
manager's. `CodesAreRead` excludes a code that waits for ever.

*Main loop.* The ready bit falls 900 ticks after 177662 was read, by then perhaps
another key has come. `ReadyUntilRead`: for a careful guest no countdown takes back the bit of a key that was
announced and not read, and the only time a key comes unannounced is that countdown. A key
that comes then is lost to a guest that waits for the bit or for the interrupt: that is the run `key_vanishes`.
`ReadClears`: the bit does fall. `InterruptPending`: no sequence of mask, RESET and
dispatch drops the vector of an announced key. `PeriodExact` counts pulses from the load to
the expiry, across writes of the initial value and the divider; `OneShotOnce` is
the mode that must stop by itself.

*Arithmetic.* `InstructionsRight` says of every arithmetic, logical, shift, move and EIS instruction
what it stores and what N, Z, V and C are afterwards: the exact result as far as it fits and V
and C that it does not, signed and unsigned; each bit of a logical result; the product, the
quotient with its remainder, the number times a power of two; and that the other byte and the other
registers stay. Branches and SOB are judged by what programs do with them. `ProgramsCompute` is what a guest relies on:
additions and shifts over two words (the carry of one instruction is right for the
next), a comparison followed by any of fourteen branches, DIV undoing MUL, and a
loop of SOB.

## 5. Theorems

All proofs are checked by `tlapm`, for every value of the constants that satisfies
the module's assumption (which states what the source's constants satisfy). The
provers are Z3, Zenon and LS4.

| theorem | statement |
|---|---|
| `TypeCorrect` | `Spec => []TypeOK` (interrupt unit) |
| `MarkersDown`, `OneFault` | `FlagsQuiescent`, `AtMostOneFault` are invariant |
| `EscalationRefined` | `VM1Interrupts!Spec` implements `HangupEscalation` |
| `TraceForOneStep` | `TracePairs` |
| `FloppyTypeCorrect` | `Spec => []TypeOK` (floppy controller) |
| `RequestRoom` | `RequestMeansRoom` |
| `WriteQueueRefined` | the two registers implement `FloppyWriteQueue` |
| `ChecksumsRight` | `SealedBlocksGood`, for every length of the track and every checksum |
| `VerdictsRight` | `VerdictRight`, for every disk, checksum and guest |
| `OkForGoodBlocks` | `OkMeansGood`, likewise |
| `HardDiskTypeCorrect` | `Spec => []TypeOK` (drives) |
| `RequestTransfers` | `RequestMeansTransfer`, with no assumption on the guest |
| `CountShown` | `CountShowsCounter`, with no assumption on the guest, also below zero |
| `OneDriveAnswers` | `Careful` implies that `OneAnswers` is invariant |
| `NextSectorAddressed` | `NextAddress`, in CHS and LBA, with no assumption on the guest |
| `SectorsTransferred` | `Careful` implies that the drives implement `SectorTransfer` |
| `StopMarkSpent`, `WaitHasNothing`, `TraceEachInstruction` | on boards whose HALT words answer no read and refuse no write: `StopFlagFresh` and `WaitClean` are invariant, and the action property `TTrapEachInstr` holds |
| `TypeCorrect` | `Spec => []TypeOK` (PS/2 keyboard): every store is inside `ps2buffer` (the read of `AnswerInside` need not be) |
| `Resynchronises`, `ManagerHears` | `Resync`, `ManagerNotStuck` |
| `BytesInOrder` | `BufferIsQueue`, for every size of the buffer and every set of codes |
| `ReadLosesLittle` | the action property `LossBounded` |
| `TypeCorrect` | `Spec => []TypeOK` (main loop) |
| `KeyInterrupts` | `InterruptPending` |
| `TimerExact`, `TimerOnce` | `PeriodExact`, `OneShotOnce`, for every width of the counter, divider and cost of instructions |
| `AnnouncedKeyKept` | `Careful` implies the action property `ReadyUntilRead` |
| `AdditionTells` | for bytes and words of any even size: N, Z, V and C after the additions and subtractions say whether the result is right, signed and unsigned |
| `ShiftsTell` | the same for the shifts by one place |
| `TypeCorrect` | `Spec => []TypeOK` (instructions on registers) |
| `EachInstructionRight` | where char is signed, the action property `InstructionsRight`, for bytes of any number of bits and any registers |
| `ProgramsDoCompute` | `ProgramsCompute`, for every size of the bytes and every content of the registers |

*Interrupt unit.* `AtMostOneFault` is not inductive: a trap that fails adds a
hangup, so one must know that its own request was taken down first, and the class
of the new one depends on the markers. `HangupInv` adds that the markers are down
between steps and that a double hangup stands only right after the entry of a
plain one. `ReplyErrorFault` says what `ReplyError` makes of a hangup, and one lemma per
entry says how its hangup is classified. `TraceInv` strengthens `TracePairs` with
the absence of hangups and of WAIT: that is what makes the T row the chosen one.

*Floppy controller.* `WriteInv` adds `RegistersInv`: outside write mode the shift
register is empty; a full write register means a full shift register; a waiting
checksum is in the shift register, is no marker, and the count has stopped. Without the
second, `Periodic` could move a word that was overtaken; without the third the
checksum could be taken for a word of the guest's. The refinement goes action by
action: `WriteData` is a `Put` or an `Overrun`, `Writing` a `Write` or a `Seal`,
`GetData` and `OnReset` a `Drop`, and every other step a stutter.

`SealedBlocksGood` needs to know of the block that is still open. `BlockInv` adds to
`WriteInv` that, from the marker on, the accumulator is the checksum of the words between it and
the head, or that this checksum waits in the shift register (`OpenInv`), and that each closed
block lies on the disk with its checksum (`SealedInv`). A write changes one word: blocks it is not
`Within` keep their checksum (`Elsewhere`), the open one gets it as its next
(`CrcOfNext`), and a block that comes round to its own beginning is given up.
That the way from the marker to the head does not meet the next position, on a track
that is a ring, is `Ahead`.

Reading: `Checked` is what the variables of `add_crc_16_rd` are when n words of a framed block
are in the checksum: after the marker word it still looks for the marker and has seen two bytes A1;
after the next the count is twice the words that are left; in between its flag tells
of the third A1, and with the last word it tells of the block. `NextChecked` takes it
one word on, `FedDone` says that nothing changes after. `ReaderInv` puts it on the
track: while the checksum runs the shift register holds the word under the head (which the
checksum gets at the next turn), the position is the marker's plus the words passed, no word
is lost and no verdict up; a verdict is for a good block, is up only after its end and
until the next search. Here the theorems assume no more of a disk than that sectors
have an even number of bytes: a first version of `VerdictRight` needed well-formed
disks, and the proof showed where (`OkMeansRead`).

*Drives.* The invariant of one drive, `DriveInv`, is its type and `Asking`: BSY
between accesses means a silenced drive in the phase FAILURE; a transfer has
DRQ up and its next word inside the sector buffer; a failed live drive has it down; count and counter agree. Within a command the
phase and DRQ may part, so the steps of a command are proved about `Running` and
`Loop` (DRQ down, not silenced, count and counter agree) and only its end about
`DriveInv`. The arithmetic that is needed is that `(a % n) - 1` and `a - 1` agree modulo
`n`, and that a number with digits below its radices is below their product. For
`OneDriveAnswers` every step either leaves each drive silent or as it was, or
tells the same selection to all that are not silent; the second is where the
guest's waiting is needed.

`NextAddress` needs that the registers of a drive that is not silenced hold bytes
(`Fits`): after `unset` they hold ones in full width. Under that, `Aligned` is inductive by
itself: a sector is sought from registers that name it, so what remains is that one step
of the registers names the next sector. In CHS (`NextCHSFollows`) this is a carry from
sector to head to cylinder, in LBA (`NextLBAFollows`) a carry through four
digits; the one out of the head would come back to sector 0, and never happens, for a
geometry has fewer sectors than LBA has numbers (`LBACovers`). Commands begin only on
drives that move nothing, so the other registers are free.

The refinement of `SectorTransfer` uses `DriveInv`, `Aligned` and `Bounded`: the counter
is between 0 and 256 and a transfer shows no error. The guest's care is needed for the counter
alone: a data command with a used-up count would begin at -1. One lemma per
access (`ReadDataDoes`, `WriteDataDoes`, `CommandDoes`, `ResetDoes` and so on) says which
step of `SectorTransfer` it is: a word in the middle of a sector a `Word`, the last word a
`Sector` (to `at + 1`, by `Aligned`), an `End` or an `Error`, a command or a register a
`Start`, a reset a `Reset`, or a `Start` of a drive that had failed and is now silenced.

*Boards without HALT words.* On an SMK512 board a trap through the HALT words can
hang up itself, and these properties do not hold there. `PlainInv` is for the boards
that satisfy `NoHaltWords`: a STOP mark together with a pending hangup means that the
last trap was STOP's, in user mode; the STEP flag is never up; nothing is pending in WAIT. The same
facts say which row of the chain is the next one when the T bit is up, whence
`TTrapEachInstr`.

*PS/2 keyboard.* `KeyboardInv` is the type, `ReadInv` (a read in progress knows
how many bytes it began with, and the size is that plus what arrived), `ManagerInv`
(with the manager about to start at most one byte is there) and `Resync`. For `BufferIsQueue`
the state inside a read matters: `QueueInv` says of every byte of the queue where it lies: moved, if its
place is below the reader's index less the length, where it was otherwise
(`Placed`); one lemma per action shows that a byte appended meanwhile is placed
too, unless the read is past it, which is what `spoiled` records.

*Main loop.* `TimerInv` contains `Sound`, the equation behind `PeriodExact`: the pulses since
the load are the counts that are gone times the divider, plus the divider's own
count, which is below it. It is proved for a pulse, carried over the pulses of an
instruction by `UpTo`, and kept by each write. `ReadyUntilRead` needs
`CountdownInv`: for a careful guest the countdown runs exactly while the ready bit is up and the
code in 177662 is not an announced one that waits, so what falls at its end was read or came
silently, and a key comes silently only then.

*Arithmetic.* Every leaf is linear in the operands, but the modulus is not a number: signs, carries and
overflows are first turned into comparisons with half and whole of it, by lemmas
on quotients and remainders, then the cases are linear.

*Instructions.* One lemma per form of instruction says what it stores (`ALUDoes`,
`MULDoes`, `DIVDoes` and so on). `EachInstructionRight` compares that with what the instruction is
for: `OutcomeSaid` says what the conditions tell of a result that is exact and fits, and `SumSaid`,
operation by operation, what they tell of the exact sum when it need not fit; a byte moved
to a register is the same signed number there (`MoveExtends`, the one place that needs
`CharSigned`). The division is right because C truncates: quotient
and remainder of the magnitudes get their signs afterwards (`Truncates`). What the turns of a
shift leave in V and C is `ShiftTells`. The logical instructions are made of the bits two numbers
share, found by halving both: that its bit k is up when both bits k are (`BothBits`) is an induction
over the lowest bits (`MoreLowBits`, `OneMoreBit`), which ends because bytes and words are powers
of two (`BytesOfBits`, `SizesArePowers`). For
`ProgramsCompute` the invariant is `ProgramsKnown`: for each program, what is known
before each of its instructions (`KnownAdd`: after the first ADD the low word and that C is
its carry; `KnownLoop`: R0 has gained R2 as often as R1 has gone down). The numbers of two words
then meet in `PairOf`: high and low word with a carry are the whole number modulo a
pair. A shift by a count is a recursive function of its turns: after n turns to the left the
word is the number times 2^n modulo a word and V says whether it still fits
(`LeftMeans`; once it does not, it never fits again), after n turns to the right it is the
number divided by 2^n (`RightMeans`). A comparison leaves conditions that tell equality,
order, and signed order as N and V together (`CMPTells`), and each branch asks
for one of these (`BranchTells`); that the C bit is not hidden from it by the bug of the
configuration is `m_bCBug = FALSE` after CMP, which is part of `KnownCompare`.

*Induction.* The loop of `read_verify_sector`, the pulses of an instruction, the
checksum of a block, the turns of a shift, powers and `Both` are recursive functions. The theorems
of the library that take a predicate as a parameter cannot be instantiated by the
provers at hand, but well-founded induction can be stated for *sets*, from
`NatLessThanWellFounded` (`SetInduction` in `HardDiskProofs`, `UpTo` in
`BoardLoopProofs`, `Stepwise` in `FloppyControllerProofs` and `CPUInstructionsProofs`). With it such a
function is shown to exist (`RoundsExist`, `CrcsExist`, `FromExists`), to satisfy its equation, and to
keep what one round keeps (`VerifyingKeeps`) or to depend on nothing but the words of
the block (`CrcOfSame`).

## 6. Model-checked only, and not modelled

Only model-checked: liveness (`HangupRecovers`, `StopServed`, `SearchEnds`,
`CodesAreRead`, `ReadClears`), whose proofs need ENABLED of whole next-state actions,
which is beyond the prover. Every invariant and action property of the passing runs
is also a theorem; `StopFlagFresh`, `WaitClean` and `TTrapEachInstr` for the boards without HALT
words, where alone they hold, and `OneAnswers`, `SectorTransferred` and
`ReadyUntilRead` for the careful guest. That a program of `CPUInstructions` reaches its
end, SOB's loop above all, is not stated: the theorems say what holds when it does.

Not modelled in the modelled parts: operands in memory and the addressing modes, the ticks of
each instruction, code addresses and, but for `m_bIRQ1flg`, the saved PC; the RDY and INDEXMARK
bits, which only the guest reads; the interception of the disk routines
(`EmulateFDD`) beside the controller, and the change of a disk from the user interface while the
machine runs; images of drives from 2 GB on, whose byte offset overflows an int (`HDD.cpp:630`), and
geometries with more heads or sectors than the registers can name, which `configure` does not refuse
(`HDD.cpp:189-197`); the features, control and drive-address registers
of the ATA drives; the contents of sectors; the value a guest reads when two
drives answer at once; the values of the bits of a PS/2 frame and its parity, which the driver
ignores; the answer the keyboard gives to the commands of its LEDs; that the flags of the
modifiers agree with the keys, which a lost code breaks; the keys that toggle (caps, AR2 lock) and the macros of
`kbd_script`; the screen, sound and floppy work of a pass of the loop, its
break points, and the joystick.

Not modelled at all, and listed so in `PROJECT.json`: the vendored drivers and the FAT
library, the table of opcodes (65 536 lines, generated), the
Windows headers and user interface, which the port does not compile, and the parts that only
format pixels or samples. Of the repository's 330 000 lines of code the larger
part is of these kinds, so the mapped share is small.

## 7. Plan

Done: interrupt unit, floppy controller, drives, PS/2 driver, keyboard registers,
VE timer and their pass of the main loop, arithmetic. Left:

1. *Floppy images*: encoding and decoding of a track as inverse operators, the
   change mark and the flush over a file that may refuse; `EmulateFDD` beside the
   buffer.
2. *Memory managers and boards*: strobe protocol of AltPro/SMK, window registers,
   blocked STOP key; composed with the interrupt unit, whose `HaltModes` they
   determine.
3. *Instructions*: addressing modes over a memory that may hang up, so that
   an instruction of `VM1Interrupts` ends half-way with its side effects.
4. *Proofs*: about whatever the parts above add; of the present ones no safety
   property is left without a theorem.
