---------------------------- MODULE VM1Interrupts ----------------------------
(***************************************************************************)
(* The interrupt unit of the emulated 1801VM1 processor: CCPU in           *)
(* BK/devemu/CPU.cpp.  One CPU step is one call of TranslateInstruction:   *)
(* InterruptDispatch looks for the request of the highest priority; when   *)
(* there is none an instruction is executed.  A bus cycle nobody answers   *)
(* throws CExceptionHalt out of the step, and the main loop hands it to    *)
(* ReplyError, which classifies the hangup for the next step.              *)
(***************************************************************************)
EXTENDS Naturals, Sequences

CONSTANTS
  Lines,       \* the request lines the board drives
  Vectors,     \* the vectors its devices pass to InterruptVIRQ
  NWords,      \* the stack pointer runs over a ring of NWords words ...
  Ram,         \* ... of which these answer a write,
  Readable,    \* and these answer a read
  HaltModes,   \* how the memory modes of the board answer in HALT mode
  LoadPSW,     \* the PSWs that vectors and RTI frames hold
  StartPSW,    \* the PSWs that START finds at 0177676
  VM1G         \* the processor is a 1801VM1G

AllLines == {"STOP", "IRQ2", "IRQ3", "ACLO", "TVE"}

Word == 0 .. NWords - 1

\* The PSW bits the unit looks at.
Psw == [T : BOOLEAN, P : BOOLEAN, MASKI : BOOLEAN, HALT : BOOLEAN]

\* RTI, RTT and both trap entries keep the low byte only (& 0377).
LowByte == {p \in Psw : ~p.MASKI /\ ~p.HALT}

\* rd, wr: the words 0177674 and 0177676 answer; rom: the vectors 0160002 do.
HaltMode == [rd : BOOLEAN, wr : BOOLEAN, rom : BOOLEAN]

ASSUME BoardAssumption ==
  /\ Lines \subseteq AllLines
  /\ NWords \in Nat \ {0}
  /\ Ram \subseteq Readable
  /\ Readable \subseteq Word
  /\ HaltModes # {} /\ HaltModes \subseteq HaltMode
  /\ LoadPSW # {} /\ LoadPSW \subseteq LowByte
  /\ StartPSW # {} /\ StartPSW \subseteq Psw
  /\ VM1G \in BOOLEAN

Hangups  == {"VIRQErr", "RPL2", "RPLY"}
External == {"ACLO", "IRQ1", "IRQ2", "IRQ3", "TVE", "VIRQ"}
Sources  == Hangups \cup {"T"} \cup External
Requests == Sources \ {"T", "VIRQ"}
Instructions == {"instr", "trap", "HALT", "WAIT", "RTI", "RTT", "START", "STEP"}
Cycles   == {"none", "stack", "vector", "halt word", "operand"}

VARIABLES
  psw,             \* m_PSW
  sp,              \* R6, in words
  rq,              \* the request flags that are set: m_bRPLYrq, m_bIRQ1rq, ...
  m_qVIRQ,         \* the queue of vectors
  m_bWaitMode, m_bStepMode, m_bTrace_RTT,
  m_bIRQ1LL,       \* the STOP key is down
  m_bIRQ1flg,      \* the HALT trap was STOP's, not a HALT instruction's
  m_bGetVector, m_bTwiceHangup,
  mode,            \* the memory mode of the board, a member of HaltModes
  last,            \* history: what the last CPU step did
  cause            \* history: the bus cycle the last CPU step hung up on

flags == <<m_bWaitMode, m_bStepMode, m_bTrace_RTT, m_bIRQ1flg>>
vars  == <<psw, sp, rq, m_qVIRQ, flags, m_bIRQ1LL, m_bGetVector,
           m_bTwiceHangup, mode, last, cause>>

ResetPSW == [T |-> FALSE, P |-> TRUE, MASKI |-> FALSE, HALT |-> FALSE]

-----------------------------------------------------------------------------
(* InitVars and InitCPU.  m_bTimerRq is not among the flags they clear: it  *)
(* keeps its old value, and its first one is whatever the memory held.      *)

InitVarsRq == rq \cap {"TVE"}

Init ==
  /\ psw = ResetPSW
  /\ sp \in Word
  /\ rq \in {{}, {"TVE"}}
  /\ m_qVIRQ = <<>>
  /\ m_bWaitMode = FALSE /\ m_bStepMode = FALSE /\ m_bTrace_RTT = FALSE
  /\ m_bIRQ1LL = FALSE /\ m_bIRQ1flg = FALSE
  /\ m_bGetVector = FALSE /\ m_bTwiceHangup = FALSE
  /\ mode \in HaltModes
  /\ last = "reset" /\ cause = "none"

\* A cold reset in the middle of the work; it leaves R6, and resets the board.
InitCPU ==
  /\ psw' = ResetPSW
  /\ rq' = InitVarsRq
  /\ m_qVIRQ' = <<>>
  /\ m_bWaitMode' = FALSE /\ m_bStepMode' = FALSE /\ m_bTrace_RTT' = FALSE
  /\ m_bIRQ1LL' = FALSE /\ m_bIRQ1flg' = FALSE
  /\ m_bGetVector' = FALSE /\ m_bTwiceHangup' = FALSE
  /\ mode' \in HaltModes
  /\ last' = "reset" /\ cause' = "none"
  /\ UNCHANGED sp

-----------------------------------------------------------------------------
(* Requests from the board, between two CPU steps.                          *)

\* The cpu registers a device may change without running an instruction.
BoardOnly == UNCHANGED <<psw, sp, flags, m_bGetVector, m_bTwiceHangup, mode,
                         last, cause>>

SetIRQ1 ==
  /\ "STOP" \in Lines
  /\ ~m_bIRQ1LL
  /\ m_bIRQ1LL' = TRUE
  /\ rq' = rq \cup {"IRQ1"}
  /\ BoardOnly /\ UNCHANGED m_qVIRQ

UnsetIRQ1 ==
  /\ m_bIRQ1LL
  /\ m_bIRQ1LL' = FALSE
  /\ BoardOnly /\ UNCHANGED <<rq, m_qVIRQ>>

\* TickIRQ2, TickIRQ3, ACPowerFail, and the VE timer's m_bTimerRq.
Tick(line) ==
  /\ line \in Lines \ {"STOP"}
  /\ rq' = rq \cup {line}
  /\ BoardOnly /\ UNCHANGED <<m_bIRQ1LL, m_qVIRQ>>

\* A vector that is in the queue already is not put there again.
InterruptVIRQ(v) ==
  /\ \A i \in DOMAIN m_qVIRQ : m_qVIRQ[i] # v
  /\ m_qVIRQ' = Append(m_qVIRQ, v)
  /\ BoardOnly /\ UNCHANGED <<m_bIRQ1LL, rq>>

-----------------------------------------------------------------------------
(* ReplyError: the hangup becomes the request the next dispatch serves.     *)
(* The arguments are the two markers and the requests when it was thrown.   *)

\* A mutant: the marker of a double hangup outlives it.
ReplyErrorKeepsTwice(getVector, twice, requests) ==
  /\ m_bGetVector' = FALSE /\ m_bTwiceHangup' = twice
  /\ rq' = requests \cup {IF getVector THEN "VIRQErr"
                           ELSE IF twice THEN "RPL2" ELSE "RPLY"}

\* A mutant: the vector marker outlives its hangup.
ReplyErrorKeepsGetVector(getVector, twice, requests) ==
  /\ m_bGetVector' = getVector /\ m_bTwiceHangup' = (twice /\ getVector)
  /\ rq' = requests \cup {IF getVector THEN "VIRQErr"
                           ELSE IF twice THEN "RPL2" ELSE "RPLY"}

ReplyError(getVector, twice, requests) ==
  \/ /\ getVector
     /\ m_bGetVector' = FALSE /\ m_bTwiceHangup' = twice
     /\ rq' = requests \cup {"VIRQErr"}
  \/ /\ ~getVector /\ twice
     /\ m_bGetVector' = FALSE /\ m_bTwiceHangup' = FALSE
     /\ rq' = requests \cup {"RPL2"}
  \/ /\ ~getVector /\ ~twice
     /\ m_bGetVector' = FALSE /\ m_bTwiceHangup' = FALSE
     /\ rq' = requests \cup {"RPLY"}

Hangup(cycle, getVector, twice, requests) ==
  /\ ReplyError(getVector, twice, requests)
  /\ cause' = cycle

\* Mutants: the stack does not wrap round, and it does not move.
BelowNoWrap(w) == w - 1
BelowStays(w)  == w

Below(w) == (w + NWords - 1) % NWords
Above(w) == (w + 1) % NWords

\* UserInterrupt: PSW and PC go to the stack, then the vector is read.
UserInterrupt(getVector, twice, requests) ==
  LET top == Below(sp)  next == Below(top) IN
  \/ /\ top \in Ram /\ next \in Ram
     /\ sp' = next
     /\ psw' \in LoadPSW
     /\ m_bGetVector' = FALSE /\ m_bTwiceHangup' = FALSE
     /\ rq' = requests
     /\ cause' = "none"
  \/ /\ ~(top \in Ram /\ next \in Ram)
     /\ sp' = IF top \in Ram THEN next ELSE top
     /\ Hangup("stack", getVector, twice, requests)
     /\ UNCHANGED psw

\* SystemInterrupt: PSW and PC go to 0177676 and 0177674.
SystemInterrupt(getVector, twice, requests) ==
  /\ UNCHANGED sp
  /\ \/ /\ mode.wr /\ mode.rom
        /\ psw' \in LoadPSW
        /\ m_bGetVector' = getVector /\ m_bTwiceHangup' = FALSE
        /\ rq' = requests
        /\ cause' = "none"
     \/ /\ ~(mode.wr /\ mode.rom)
        /\ Hangup(IF mode.wr THEN "vector" ELSE "halt word",
                  getVector, twice, requests)
        /\ UNCHANGED psw

-----------------------------------------------------------------------------
(* InterruptDispatch.                                                       *)

Priority == [VIRQErr |-> 1, RPL2 |-> 2, RPLY |-> 3, T |-> 4, ACLO |-> 5,
             IRQ1 |-> 6, IRQ2 |-> 7, IRQ3 |-> 8, TVE |-> 9, VIRQ |-> 10]

\* The condition of the source's branch, its predecessors' aside.
Ready(s) ==
  \/ s \in Hangups /\ s \in rq
  \/ s = "T" /\ psw.T /\ ~m_bWaitMode
  \/ s = "ACLO" /\ s \in rq /\ ~psw.MASKI
  \/ s = "IRQ1" /\ s \in rq /\ ~psw.MASKI /\ ~psw.HALT
  \/ s \in {"IRQ2", "IRQ3"} /\ s \in rq /\ ~psw.MASKI /\ ~psw.P
  \/ s = "TVE" /\ s \in rq /\ ~psw.MASKI /\ ~psw.P /\ VM1G
  \/ s = "VIRQ" /\ m_qVIRQ # <<>> /\ ~psw.MASKI /\ ~psw.P

Chosen(s) ==
  /\ Ready(s)
  /\ \A h \in Sources : Priority[h] < Priority[s] => ~Ready(h)

\* A mutant: an interrupt does not end WAIT.
LeaveWaiting(s) ==
  /\ last' = s
  /\ UNCHANGED <<m_bWaitMode, m_bStepMode, m_bTrace_RTT, m_bIRQ1LL, mode>>

\* What every interrupt does besides entering the trap.
Leave(s) ==
  /\ last' = s
  /\ m_bWaitMode' = FALSE
  /\ UNCHANGED <<m_bStepMode, m_bTrace_RTT, m_bIRQ1LL, mode>>

\* A mutant: the request is not cleared before its trap is entered.
TakeVIRQErrAgain ==
  /\ Chosen("VIRQErr")
  /\ SystemInterrupt(FALSE, m_bTwiceHangup, rq)
  /\ Leave("VIRQErr") /\ UNCHANGED <<m_bIRQ1flg, m_qVIRQ>>

TakeVIRQErr ==
  /\ Chosen("VIRQErr")
  /\ SystemInterrupt(FALSE, m_bTwiceHangup, rq \ {"VIRQErr"})
  /\ Leave("VIRQErr") /\ UNCHANGED <<m_bIRQ1flg, m_qVIRQ>>

\* A double hangup in HALT mode falls back to vector 4.
TakeRPL2 ==
  /\ Chosen("RPL2")
  /\ IF psw.MASKI
     THEN UserInterrupt(m_bGetVector, m_bTwiceHangup, rq \ {"RPL2"})
     ELSE SystemInterrupt(m_bGetVector, m_bTwiceHangup, rq \ {"RPL2"})
  /\ Leave("RPL2") /\ UNCHANGED <<m_bIRQ1flg, m_qVIRQ>>

\* Mutants: m_bTwiceHangup is not raised; STOP's mark is not taken back.
TakeRPLYPlain ==
  /\ Chosen("RPLY")
  /\ IF psw.HALT \/ psw.MASKI
     THEN SystemInterrupt(m_bGetVector, FALSE, rq \ {"RPLY"}) /\ UNCHANGED m_bIRQ1flg
     ELSE UserInterrupt(m_bGetVector, FALSE, rq \ {"RPLY"}) /\ m_bIRQ1flg' = FALSE
  /\ Leave("RPLY") /\ UNCHANGED m_qVIRQ

TakeRPLYKeepsMark ==
  /\ Chosen("RPLY")
  /\ IF psw.HALT \/ psw.MASKI
     THEN SystemInterrupt(m_bGetVector, TRUE, rq \ {"RPLY"})
     ELSE UserInterrupt(m_bGetVector, TRUE, rq \ {"RPLY"})
  /\ Leave("RPLY") /\ UNCHANGED <<m_bIRQ1flg, m_qVIRQ>>

\* The trap of a hangup is entered with m_bTwiceHangup raised.
TakeRPLY ==
  /\ Chosen("RPLY")
  /\ IF psw.HALT \/ psw.MASKI
     THEN SystemInterrupt(m_bGetVector, TRUE, rq \ {"RPLY"}) /\ UNCHANGED m_bIRQ1flg
     ELSE UserInterrupt(m_bGetVector, TRUE, rq \ {"RPLY"}) /\ m_bIRQ1flg' = FALSE
  /\ Leave("RPLY") /\ UNCHANGED m_qVIRQ

TakeT ==
  /\ Chosen("T")
  /\ ~m_bTrace_RTT /\ ~m_bStepMode
  /\ UserInterrupt(m_bGetVector, m_bTwiceHangup, rq)
  /\ Leave("T") /\ UNCHANGED <<m_bIRQ1flg, m_qVIRQ>>

\* A mutant: STOP's request survives its own interrupt.
TakeIRQ1Again ==
  /\ Chosen("IRQ1")
  /\ m_bIRQ1flg' = TRUE
  /\ SystemInterrupt(m_bGetVector, m_bTwiceHangup, rq)
  /\ Leave("IRQ1") /\ UNCHANGED m_qVIRQ

TakeIRQ1 ==
  /\ Chosen("IRQ1")
  /\ m_bIRQ1flg' = TRUE
  /\ SystemInterrupt(m_bGetVector, m_bTwiceHangup, rq \ {"IRQ1"})
  /\ Leave("IRQ1") /\ UNCHANGED m_qVIRQ

TakeLine(s) ==
  /\ s \in {"ACLO", "IRQ2", "IRQ3", "TVE"}
  /\ Chosen(s)
  /\ UserInterrupt(m_bGetVector, m_bTwiceHangup, rq \ {s})
  /\ Leave(s) /\ UNCHANGED <<m_bIRQ1flg, m_qVIRQ>>

\* m_bGetVector is up from here, while the stack is still being written.
TakeVIRQ ==
  /\ Chosen("VIRQ")
  /\ m_qVIRQ' = Tail(m_qVIRQ)
  /\ UserInterrupt(TRUE, m_bTwiceHangup, rq)
  /\ Leave("VIRQ") /\ UNCHANGED m_bIRQ1flg

Interrupt ==
  \/ TakeVIRQErr \/ TakeRPL2 \/ TakeRPLY \/ TakeT \/ TakeIRQ1 \/ TakeVIRQ
  \/ \E s \in {"ACLO", "IRQ2", "IRQ3", "TVE"} : TakeLine(s)

-----------------------------------------------------------------------------
(* The instruction, when the dispatch found nothing to do.  RTT and STEP    *)
(* make it pass over a pending T trap, and over everything below it.        *)

Suppressed == Chosen("T") /\ (m_bTrace_RTT \/ m_bStepMode)
traceKept  == m_bTrace_RTT   \* a mutant: the dispatch does not clear it
traceLeft  == m_bTrace_RTT /\ ~Chosen("T")
stepLeft   == m_bStepMode /\ (m_bTrace_RTT \/ ~Chosen("T"))

Fetch(name) ==
  /\ ~m_bWaitMode
  /\ Suppressed \/ \A s \in Sources : ~Ready(s)
  /\ last' = name
  /\ UNCHANGED <<m_bIRQ1flg, m_bIRQ1LL, m_qVIRQ>>

Quiet == cause' = "none" /\ UNCHANGED <<rq, m_bGetVector, m_bTwiceHangup>>

Sequential(name) ==
  Fetch(name) /\ m_bTrace_RTT' = traceLeft /\ m_bStepMode' = stepLeft

\* Any instruction that raises nothing; MTPS may change the priority.
ExecuteOrdinary ==
  /\ Sequential("instr") /\ Quiet
  /\ sp' \in Word
  /\ psw' \in {psw, [psw EXCEPT !.P = ~@]}
  /\ UNCHANGED <<m_bWaitMode, mode>>

\* A write of 0177130 that switches the memory mode of the controller.
ExecuteModeSwitch ==
  /\ Sequential("instr") /\ Quiet
  /\ sp' \in Word
  /\ mode' \in HaltModes
  /\ UNCHANGED <<psw, m_bWaitMode>>

\* An operand or the instruction itself lies where nothing answers; the
\* addressing modes before it may have moved R6.
ExecuteBusError ==
  /\ Sequential("instr")
  /\ sp' \in Word
  /\ Hangup("operand", m_bGetVector, m_bTwiceHangup, rq)
  /\ UNCHANGED <<psw, m_bWaitMode, mode>>

\* BPT, IOT, EMT, TRAP, reserved codes, JMP and JSR to a register.
ExecuteTrap ==
  /\ Sequential("trap")
  /\ UserInterrupt(m_bGetVector, m_bTwiceHangup, rq)
  /\ UNCHANGED <<m_bWaitMode, mode>>

ExecuteHALT ==
  /\ Sequential("HALT")
  /\ SystemInterrupt(m_bGetVector, m_bTwiceHangup, rq)
  /\ UNCHANGED <<m_bWaitMode, mode>>

ExecuteWAIT ==
  /\ Sequential("WAIT") /\ Quiet
  /\ m_bWaitMode' = TRUE
  /\ UNCHANGED <<psw, sp, mode>>

\* The PC and the PSW come off the stack, one word after the other.
Return ==
  \/ /\ sp \in Readable /\ Above(sp) \in Readable
     /\ sp' = Above(Above(sp))
     /\ psw' \in LoadPSW
     /\ Quiet
  \/ /\ ~(sp \in Readable /\ Above(sp) \in Readable)
     /\ sp' = IF sp \in Readable THEN Above(sp) ELSE sp
     /\ Hangup("stack", m_bGetVector, m_bTwiceHangup, rq)
     /\ UNCHANGED psw

ExecuteRTI == Sequential("RTI") /\ Return /\ UNCHANGED <<m_bWaitMode, mode>>

\* A return that hangs up throws before the flag is set.
ExecuteRTT ==
  /\ Fetch("RTT") /\ m_bStepMode' = stepLeft
  /\ Return
  /\ m_bTrace_RTT' = (traceLeft \/ (cause' = "none" /\ psw'.T))
  /\ UNCHANGED <<m_bWaitMode, mode>>

\* START and STEP take the PC and the whole PSW from the HALT words.
LoadHaltWords ==
  \/ mode.rd /\ psw' \in StartPSW /\ Quiet
  \/ ~mode.rd /\ Hangup("halt word", m_bGetVector, m_bTwiceHangup, rq) /\ UNCHANGED psw

ExecuteSTART ==
  Sequential("START") /\ LoadHaltWords /\ UNCHANGED <<sp, m_bWaitMode, mode>>

ExecuteSTEP ==
  /\ Fetch("STEP") /\ m_bTrace_RTT' = traceLeft
  /\ LoadHaltWords
  /\ m_bStepMode' = (stepLeft \/ cause' = "none")
  /\ UNCHANGED <<sp, m_bWaitMode, mode>>

Execute ==
  \/ ExecuteOrdinary \/ ExecuteModeSwitch \/ ExecuteBusError \/ ExecuteTrap
  \/ ExecuteHALT \/ ExecuteWAIT \/ ExecuteRTI \/ ExecuteRTT
  \/ ExecuteSTART \/ ExecuteSTEP

\* In WAIT mode a step without an interrupt only burns time.
Idle ==
  /\ m_bWaitMode
  /\ \A s \in Sources : ~Ready(s)
  /\ last' = "idle" /\ cause' = "none"
  /\ UNCHANGED <<psw, sp, rq, m_qVIRQ, flags, m_bIRQ1LL, m_bGetVector,
                 m_bTwiceHangup, mode>>

TranslateInstruction == Interrupt \/ Execute \/ Idle

Board ==
  \/ InitCPU \/ SetIRQ1 \/ UnsetIRQ1
  \/ \E line \in AllLines : Tick(line)
  \/ \E v \in Vectors : InterruptVIRQ(v)

Next == TranslateInstruction \/ Board

Spec == Init /\ [][Next]_vars

\* TimerThreadFunc calls TranslateInstruction for as long as the machine runs.
FairSpec == Spec /\ WF_vars(TranslateInstruction)

-----------------------------------------------------------------------------
(* Properties.                                                              *)

\* Every variable stays in its range.
TypeOK ==
  /\ psw \in Psw
  /\ sp \in Word
  /\ rq \in SUBSET Requests
  /\ m_qVIRQ \in Seq(Vectors)
  /\ m_bWaitMode \in BOOLEAN /\ m_bStepMode \in BOOLEAN
  /\ m_bTrace_RTT \in BOOLEAN
  /\ m_bIRQ1LL \in BOOLEAN /\ m_bIRQ1flg \in BOOLEAN
  /\ m_bGetVector \in BOOLEAN /\ m_bTwiceHangup \in BOOLEAN
  /\ mode \in HaltModes
  /\ last \in Sources \cup Instructions \cup {"reset", "idle"}
  /\ cause \in Cycles

\* Two hangups are never pending together: each is served, or replaced by the
\* one its own trap ran into, before the processor can cause another.
AtMostOneFault == \A f, g \in rq \cap Hangups : f = g

\* Between two steps the two markers are down, whatever threw out of the step
\* before; a marker left up would misclassify the next hangup.
FlagsQuiescent == ~m_bGetVector /\ ~m_bTwiceHangup

Kind == [VIRQErr |-> "vector", RPL2 |-> "double", RPLY |-> "plain"]

level == IF "VIRQErr" \in rq THEN "vector"
         ELSE IF "RPL2" \in rq THEN "double"
         ELSE IF "RPLY" \in rq THEN "plain" ELSE "none"
trap  == IF last \in Hangups THEN Kind[last] ELSE "none"

H == INSTANCE HangupEscalation

\* The markers, the requests and ReplyError together implement what is said of
\* the escalation of hangups: none is dropped, and each takes the class its cycle
\* and the trap under way call for.
Escalation == H!Spec

\* m_bTrace_RTT lives for one step: it is up only right after the RTT that
\* loaded the T bit, so exactly one instruction escapes the T trap.
TracePairs == m_bTrace_RTT => last = "RTT" /\ psw.T

\* With the T bit up an instruction runs only right after an RTT, on a board
\* without the HALT words; every other one is preceded by the trap through 14.
TTrapEachInstr == [][Execute /\ psw.T => last = "RTT"]_vars

\* A processor in WAIT has no hangup pending and no trace to skip, so it can
\* only be woken by an interrupt and never slides into an exception.
WaitClean == m_bWaitMode => rq \cap Hangups = {} /\ ~m_bTrace_RTT /\ ~m_bStepMode

\* m_bIRQ1flg makes the next hangup save PC + 2; it is meant for the hangup of
\* the STOP key's own trap and for no later one.
StopFlagFresh == m_bIRQ1flg /\ "RPLY" \in rq => last = "IRQ1"

\* A hangup is got over: even with R6 pointing where nothing answers, each
\* failed push moves R6 on, until a trap finds RAM.
HangupRecovers == rq \cap Hangups # {} ~> rq \cap Hangups = {}

\* The STOP key is answered, whatever hangs up and whatever else asks, unless
\* handlers that set the T bit keep the trace trap ahead of it.
StopServed == "IRQ1" \in rq ~> "IRQ1" \notin rq \/ last = "T"

\* What the comments in UserInterrupt say of m_bGetVector: a hangup is put down
\* as a vector error when it was the reading of the vector that hung up.
VectorErrorCause == "VIRQErr" \in rq => cause = "vector"

\* What the comment in InterruptDispatch says of the entry of the vector error's
\* trap: a hangup in it would be a double one.
VectorErrorExpectsDouble ==
  [][last' = "VIRQErr" /\ cause' # "none" => "RPL2" \in rq']_vars

\* What the comment at ExecuteSTART says of STEP: it blocks the work of the
\* interrupt unit for one step.
StepBlocksDispatch == [][Interrupt => last # "STEP" \/ rq \cap Hangups # {}]_vars

=============================================================================
