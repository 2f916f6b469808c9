------------------------- MODULE VM1InterruptsProofs -------------------------
(***************************************************************************)
(* Theorems about the interrupt unit, for every stack, every set of memory *)
(* modes, every set of request lines and vectors, and every PSW a handler  *)
(* may load.                                                               *)
(***************************************************************************)
EXTENDS VM1Interrupts, TLAPS

-----------------------------------------------------------------------------
(* The type invariant.                                                      *)

LEMMA RingArithmetic ==
  ASSUME NEW w \in Word
  PROVE  Below(w) \in Word /\ Above(w) \in Word
BY BoardAssumption DEF Word, Below, Above

LEMMA ReplyErrorType ==
  ASSUME NEW g \in BOOLEAN, NEW t \in BOOLEAN, NEW r \in SUBSET Requests,
         ReplyError(g, t, r)
  PROVE  /\ rq' \in SUBSET Requests
         /\ m_bGetVector' \in BOOLEAN /\ m_bTwiceHangup' \in BOOLEAN
BY DEF ReplyError, Requests, Sources, Hangups, External

LEMMA UserInterruptType ==
  ASSUME TypeOK, NEW g \in BOOLEAN, NEW t \in BOOLEAN,
         NEW r \in SUBSET Requests, UserInterrupt(g, t, r)
  PROVE  /\ psw' \in Psw /\ sp' \in Word /\ rq' \in SUBSET Requests
         /\ m_bGetVector' \in BOOLEAN /\ m_bTwiceHangup' \in BOOLEAN
         /\ cause' \in Cycles
<1>1. Below(sp) \in Word /\ Below(Below(sp)) \in Word
  BY RingArithmetic DEF TypeOK
<1>2. CASE Below(sp) \in Ram /\ Below(Below(sp)) \in Ram
  BY <1>1, <1>2, BoardAssumption DEF TypeOK, UserInterrupt, LowByte, Cycles
<1>3. CASE ~(Below(sp) \in Ram /\ Below(Below(sp)) \in Ram)
  BY <1>1, <1>3, ReplyErrorType DEF TypeOK, UserInterrupt, Hangup, Cycles
<1> QED BY <1>2, <1>3

LEMMA SystemInterruptType ==
  ASSUME TypeOK, NEW g \in BOOLEAN, NEW t \in BOOLEAN,
         NEW r \in SUBSET Requests, SystemInterrupt(g, t, r)
  PROVE  /\ psw' \in Psw /\ sp' \in Word /\ rq' \in SUBSET Requests
         /\ m_bGetVector' \in BOOLEAN /\ m_bTwiceHangup' \in BOOLEAN
         /\ cause' \in Cycles
<1>1. CASE mode.wr /\ mode.rom
  BY <1>1, BoardAssumption DEF TypeOK, SystemInterrupt, LowByte, Cycles
<1>2. CASE ~(mode.wr /\ mode.rom)
  BY <1>2, ReplyErrorType DEF TypeOK, SystemInterrupt, Hangup, Cycles
<1> QED BY <1>1, <1>2

\* Every variable of the interrupt unit keeps its range: in particular the
\* stack pointer stays on its ring and no request outside the table appears.
THEOREM TypeCorrect == Spec => []TypeOK
<1>1. Init => TypeOK
  <2>1. ResetPSW \in Psw
    BY DEF ResetPSW, Psw
  <2>2. <<>> \in Seq(Vectors)
    OBVIOUS
  <2> QED BY <2>1, <2>2 DEF Init, TypeOK, Requests, Sources, External, Cycles
<1>2. TypeOK /\ [Next]_vars => TypeOK'
  <2> SUFFICES ASSUME TypeOK, [Next]_vars PROVE TypeOK'
    OBVIOUS
  <2> USE BoardAssumption
  <2>1. CASE TranslateInstruction
    <3>1. CASE Interrupt
      <4>0. ASSUME NEW s \in Sources, Leave(s)
            PROVE  /\ last' \in Sources /\ m_bWaitMode' = FALSE
                   /\ UNCHANGED <<m_bStepMode, m_bTrace_RTT, m_bIRQ1LL, mode>>
        BY <4>0 DEF Leave
      <4>1. CASE TakeVIRQErr
        BY <4>0, <4>1, SystemInterruptType
        DEF TypeOK, TakeVIRQErr, Sources, Hangups, Leave
      <4>2. CASE TakeRPL2
        BY <4>2, SystemInterruptType, UserInterruptType
        DEF TypeOK, TakeRPL2, Sources, Hangups, Leave
      <4>3. CASE TakeRPLY
        BY <4>3, SystemInterruptType, UserInterruptType
        DEF TypeOK, TakeRPLY, Sources, Hangups, Leave
      <4>4. CASE TakeT
        BY <4>4, UserInterruptType DEF TypeOK, TakeT, Sources, Leave
      <4>5. CASE TakeIRQ1
        BY <4>5, SystemInterruptType DEF TypeOK, TakeIRQ1, Sources, External, Leave
      <4>6. CASE TakeVIRQ
        <5>1. m_qVIRQ' \in Seq(Vectors)
          BY <4>6 DEF TakeVIRQ, Chosen, Ready, TypeOK, Hangups
        <5> QED BY <5>1, <4>6, UserInterruptType
                DEF TypeOK, TakeVIRQ, Sources, External, Leave
      <4>7. ASSUME NEW s \in {"ACLO", "IRQ2", "IRQ3", "TVE"}, TakeLine(s)
            PROVE  TypeOK'
        BY <4>7, UserInterruptType DEF TypeOK, TakeLine, Sources, External, Leave
      <4> QED BY <3>1, <4>1, <4>2, <4>3, <4>4, <4>5, <4>6, <4>7 DEF Interrupt
    <3>2. CASE Execute
      <4> USE DEF Sequential, Fetch, traceLeft, stepLeft, Instructions
      <4>1. CASE ExecuteOrdinary
        BY <4>1 DEF TypeOK, ExecuteOrdinary, Quiet, Psw, Cycles
      <4>2. CASE ExecuteModeSwitch
        BY <4>2 DEF TypeOK, ExecuteModeSwitch, Quiet, Cycles
      <4>3. CASE ExecuteBusError
        BY <4>3, ReplyErrorType DEF TypeOK, ExecuteBusError, Hangup, Cycles
      <4>4. CASE ExecuteTrap
        BY <4>4, UserInterruptType DEF TypeOK, ExecuteTrap
      <4>5. CASE ExecuteHALT
        BY <4>5, SystemInterruptType DEF TypeOK, ExecuteHALT
      <4>6. CASE ExecuteWAIT
        BY <4>6 DEF TypeOK, ExecuteWAIT, Quiet, Cycles
      <4>7. ASSUME Return
            PROVE  /\ psw' \in Psw /\ sp' \in Word /\ rq' \in SUBSET Requests
                   /\ m_bGetVector' \in BOOLEAN /\ m_bTwiceHangup' \in BOOLEAN
                   /\ cause' \in Cycles
        <5>1. Above(sp) \in Word /\ Above(Above(sp)) \in Word
          BY RingArithmetic DEF TypeOK
        <5> QED BY <4>7, <5>1, ReplyErrorType
                DEF Return, TypeOK, Quiet, Hangup, LowByte, Cycles
      <4>8. CASE ExecuteRTI
        BY <4>7, <4>8 DEF TypeOK, ExecuteRTI
      <4>9. CASE ExecuteRTT
        BY <4>7, <4>9 DEF TypeOK, ExecuteRTT, Psw
      <4>10. ASSUME LoadHaltWords
             PROVE  /\ psw' \in Psw /\ rq' \in SUBSET Requests
                    /\ m_bGetVector' \in BOOLEAN /\ m_bTwiceHangup' \in BOOLEAN
                    /\ cause' \in Cycles
        BY <4>10, ReplyErrorType DEF LoadHaltWords, TypeOK, Quiet, Hangup, Cycles
      <4>11. CASE ExecuteSTART
        BY <4>10, <4>11 DEF TypeOK, ExecuteSTART
      <4>12. CASE ExecuteSTEP
        BY <4>10, <4>12 DEF TypeOK, ExecuteSTEP
      <4> QED BY <3>2, <4>1, <4>2, <4>3, <4>4, <4>5, <4>6, <4>8, <4>9, <4>11,
                 <4>12 DEF Execute
    <3>3. CASE Idle
      BY <3>3 DEF Idle, flags, TypeOK, Cycles
    <3> QED BY <2>1, <3>1, <3>2, <3>3 DEF TranslateInstruction
  <2>2. CASE Board
    <3> USE DEF BoardOnly, flags
    <3>1. CASE InitCPU
      <4>1. ResetPSW \in Psw
        BY DEF ResetPSW, Psw
      <4>2. <<>> \in Seq(Vectors)
        OBVIOUS
      <4> QED BY <3>1, <4>1, <4>2 DEF InitCPU, TypeOK, InitVarsRq, Cycles
    <3>2. CASE SetIRQ1
      BY <3>2 DEF SetIRQ1, TypeOK, Requests, Sources, External
    <3>3. CASE UnsetIRQ1
      BY <3>3 DEF UnsetIRQ1, TypeOK
    <3>4. ASSUME NEW line \in AllLines, Tick(line) PROVE TypeOK'
      BY <3>4 DEF Tick, TypeOK, AllLines, Requests, Sources, External
    <3>5. ASSUME NEW v \in Vectors, InterruptVIRQ(v) PROVE TypeOK'
      BY <3>5 DEF InterruptVIRQ, TypeOK
    <3> QED BY <2>2, <3>1, <3>2, <3>3, <3>4, <3>5 DEF Board
  <2>3. CASE UNCHANGED vars
    BY <2>3 DEF vars, flags, TypeOK
  <2> QED BY <2>1, <2>2, <2>3 DEF Next
<1> QED BY <1>1, <1>2, PTL DEF Spec

-----------------------------------------------------------------------------
(* Hangups.  One at a time is pending, the markers are down between steps,  *)
(* and a double one comes straight out of the trap of a plain one.          *)

HangupInv ==
  /\ FlagsQuiescent
  /\ AtMostOneFault
  /\ "RPL2" \in rq => last = "RPLY"

\* What ReplyError makes of a hangup.
FaultOf(g, t) == IF g THEN "VIRQErr" ELSE IF t THEN "RPL2" ELSE "RPLY"

LEMMA ReplyErrorFault ==
  ASSUME NEW g \in BOOLEAN, NEW t \in BOOLEAN, ~(g /\ t), NEW r,
         ReplyError(g, t, r)
  PROVE  /\ FlagsQuiescent'
         /\ rq' = r \cup {FaultOf(g, t)}
BY DEF ReplyError, FaultOf, FlagsQuiescent

LEMMA UserInterruptFault ==
  ASSUME NEW g \in BOOLEAN, NEW t \in BOOLEAN, ~(g /\ t), NEW r,
         UserInterrupt(g, t, r)
  PROVE  /\ FlagsQuiescent'
         /\ rq' = r \/ rq' = r \cup {FaultOf(g, t)}
BY ReplyErrorFault DEF UserInterrupt, Hangup, FlagsQuiescent

LEMMA SystemInterruptFault ==
  ASSUME NEW t \in BOOLEAN, NEW r, SystemInterrupt(FALSE, t, r)
  PROVE  /\ FlagsQuiescent'
         /\ rq' = r \/ rq' = r \cup {FaultOf(FALSE, t)}
BY ReplyErrorFault DEF SystemInterrupt, Hangup, FlagsQuiescent

\* What a step does to the hangup that is pending: the instructions and the
\* entries of the external interrupts raise a plain one or a vector error, the
\* trap of a plain one raises a double one, the other two a plain one.
HangupStep ==
  \/ /\ rq \cap Hangups = {} /\ last' \notin Hangups
     /\ \/ rq' \cap Hangups = {}
        \/ rq' \cap Hangups = {"RPLY"}
        \/ rq' \cap Hangups = {"VIRQErr"}
  \/ /\ last' \in Hangups /\ rq \cap Hangups = {last'}
     /\ \/ rq' \cap Hangups = {}
        \/ rq' \cap Hangups = IF last' = "RPLY" THEN {"RPL2"} ELSE {"RPLY"}
  \/ last' = "reset" /\ rq' \cap Hangups = {}

LEMMA HangupStepLemma ==
  ASSUME TypeOK, HangupInv, Next
  PROVE  FlagsQuiescent' /\ (HangupStep \/ (rq' \cap Hangups = rq \cap Hangups /\ last' = last))
<1>0. m_bGetVector = FALSE /\ m_bTwiceHangup = FALSE
  BY DEF HangupInv, FlagsQuiescent, TypeOK
<1>1. ASSUME NEW s \in Sources \ Hangups, Chosen(s)
      PROVE  rq \cap Hangups = {}
  BY <1>1 DEF Chosen, Ready, Priority, Sources, Hangups, External
<1>2. CASE Interrupt
  <2>1. CASE TakeVIRQErr
    <3>1. SystemInterrupt(FALSE, FALSE, rq \ {"VIRQErr"})
      BY <1>0, <2>1 DEF TakeVIRQErr
    <3>2. FlagsQuiescent' /\ (\/ rq' = rq \ {"VIRQErr"}
                              \/ rq' = (rq \ {"VIRQErr"}) \cup {"RPLY"})
      BY <3>1, SystemInterruptFault DEF FaultOf
    <3> QED BY <2>1, <3>2 DEF TakeVIRQErr, Chosen, Ready, Leave, HangupStep,
               HangupInv, AtMostOneFault, Hangups
  <2>2. CASE TakeRPL2
    <3>1. \/ UserInterrupt(FALSE, FALSE, rq \ {"RPL2"})
          \/ SystemInterrupt(FALSE, FALSE, rq \ {"RPL2"})
      BY <1>0, <2>2 DEF TakeRPL2
    <3>2. FlagsQuiescent' /\ (\/ rq' = rq \ {"RPL2"}
                              \/ rq' = (rq \ {"RPL2"}) \cup {"RPLY"})
      BY <3>1, SystemInterruptFault, UserInterruptFault DEF FaultOf
    <3> QED BY <2>2, <3>2 DEF TakeRPL2, Chosen, Ready, Leave, HangupStep,
               HangupInv, AtMostOneFault, Hangups
  <2>3. CASE TakeRPLY
    <3>1. \/ UserInterrupt(FALSE, TRUE, rq \ {"RPLY"})
          \/ SystemInterrupt(FALSE, TRUE, rq \ {"RPLY"})
      BY <1>0, <2>3 DEF TakeRPLY
    <3>2. FlagsQuiescent' /\ (\/ rq' = rq \ {"RPLY"}
                              \/ rq' = (rq \ {"RPLY"}) \cup {"RPL2"})
      BY <3>1, SystemInterruptFault, UserInterruptFault DEF FaultOf
    <3> QED BY <2>3, <3>2 DEF TakeRPLY, Chosen, Ready, Leave, HangupStep,
               HangupInv, AtMostOneFault, Hangups
  <2>4. CASE TakeT
    <3>1. rq \cap Hangups = {}
      BY <1>1, <2>4 DEF TakeT, Sources, Hangups
    <3>2. UserInterrupt(FALSE, FALSE, rq)
      BY <1>0, <2>4 DEF TakeT
    <3>3. FlagsQuiescent' /\ (rq' = rq \/ rq' = rq \cup {"RPLY"})
      BY <3>2, UserInterruptFault DEF FaultOf
    <3> QED BY <2>4, <3>1, <3>3 DEF TakeT, Leave, HangupStep, Hangups
  <2>5. CASE TakeIRQ1
    <3>1. rq \cap Hangups = {}
      BY <1>1, <2>5 DEF TakeIRQ1, Sources, External, Hangups
    <3>2. SystemInterrupt(FALSE, FALSE, rq \ {"IRQ1"})
      BY <1>0, <2>5 DEF TakeIRQ1
    <3>3. FlagsQuiescent' /\ (\/ rq' = rq \ {"IRQ1"}
                              \/ rq' = (rq \ {"IRQ1"}) \cup {"RPLY"})
      BY <3>2, SystemInterruptFault DEF FaultOf
    <3> QED BY <2>5, <3>1, <3>3 DEF TakeIRQ1, Leave, HangupStep, Hangups
  <2>6. CASE TakeVIRQ
    <3>1. rq \cap Hangups = {}
      BY <1>1, <2>6 DEF TakeVIRQ, Sources, External, Hangups
    <3>2. UserInterrupt(TRUE, FALSE, rq)
      BY <1>0, <2>6 DEF TakeVIRQ
    <3>3. FlagsQuiescent' /\ (rq' = rq \/ rq' = rq \cup {"VIRQErr"})
      BY <3>2, UserInterruptFault DEF FaultOf
    <3> QED BY <2>6, <3>1, <3>3 DEF TakeVIRQ, Leave, HangupStep, Hangups
  <2>7. ASSUME NEW s \in {"ACLO", "IRQ2", "IRQ3", "TVE"}, TakeLine(s)
        PROVE  FlagsQuiescent' /\ HangupStep
    <3>1. rq \cap Hangups = {}
      BY <1>1, <2>7 DEF TakeLine, Sources, External, Hangups
    <3>2. UserInterrupt(FALSE, FALSE, rq \ {s})
      BY <1>0, <2>7 DEF TakeLine
    <3>3. FlagsQuiescent' /\ (rq' = rq \ {s} \/ rq' = (rq \ {s}) \cup {"RPLY"})
      BY <3>2, UserInterruptFault DEF FaultOf
    <3> QED BY <2>7, <3>1, <3>3 DEF TakeLine, Leave, HangupStep, Hangups
  <2> QED BY <1>2, <2>1, <2>2, <2>3, <2>4, <2>5, <2>6, <2>7 DEF Interrupt
<1>3. CASE Execute
  <2>1. ASSUME NEW name \in Instructions, Fetch(name)
        PROVE  rq \cap Hangups = {} /\ last' \notin Hangups
    <3>1. last' = name /\ name \notin Hangups
      BY <2>1 DEF Fetch, Instructions, Hangups
    <3>2. CASE Suppressed
      BY <1>1, <3>1, <3>2 DEF Suppressed, Sources, Hangups
    <3>3. CASE \A s \in Sources : ~Ready(s)
      BY <3>1, <3>3 DEF Ready, Sources, Hangups
    <3> QED BY <2>1, <3>2, <3>3, <3>1 DEF Fetch
  <2>2. ASSUME NEW cycle, Hangup(cycle, m_bGetVector, m_bTwiceHangup, rq)
        PROVE  FlagsQuiescent' /\ rq' = rq \cup {"RPLY"}
    BY <1>0, <2>2, ReplyErrorFault DEF Hangup, FaultOf
  <2>3. Quiet => FlagsQuiescent' /\ rq' = rq
    BY <1>0 DEF Quiet, FlagsQuiescent
  <2>4. UserInterrupt(m_bGetVector, m_bTwiceHangup, rq)
          => FlagsQuiescent' /\ (rq' = rq \/ rq' = rq \cup {"RPLY"})
    BY <1>0, UserInterruptFault DEF FaultOf
  <2>5. SystemInterrupt(m_bGetVector, m_bTwiceHangup, rq)
          => FlagsQuiescent' /\ (rq' = rq \/ rq' = rq \cup {"RPLY"})
    BY <1>0, SystemInterruptFault DEF FaultOf
  <2>6. Return => FlagsQuiescent' /\ (rq' = rq \/ rq' = rq \cup {"RPLY"})
    BY <2>2, <2>3 DEF Return
  <2>7. LoadHaltWords => FlagsQuiescent' /\ (rq' = rq \/ rq' = rq \cup {"RPLY"})
    BY <2>2, <2>3 DEF LoadHaltWords
  <2>8. \E name \in Instructions : Fetch(name)
    BY <1>3 DEF Execute, ExecuteOrdinary, ExecuteModeSwitch, ExecuteBusError,
       ExecuteTrap, ExecuteHALT, ExecuteWAIT, ExecuteRTI, ExecuteRTT,
       ExecuteSTART, ExecuteSTEP, Sequential, Instructions
  <2>9. FlagsQuiescent' /\ (rq' = rq \/ rq' = rq \cup {"RPLY"})
    BY <1>3, <2>2, <2>3, <2>4, <2>5, <2>6, <2>7 DEF Execute, ExecuteOrdinary,
       ExecuteModeSwitch, ExecuteBusError, ExecuteTrap, ExecuteHALT, ExecuteWAIT,
       ExecuteRTI, ExecuteRTT, ExecuteSTART, ExecuteSTEP
  <2> QED BY <2>1, <2>8, <2>9 DEF HangupStep, Hangups
<1>4. CASE Idle
  BY <1>0, <1>4 DEF Idle, Ready, HangupStep, FlagsQuiescent, Sources, Hangups
<1>5. CASE Board
  <2>1. CASE InitCPU
    BY <2>1 DEF InitCPU, InitVarsRq, FlagsQuiescent, HangupStep, Hangups
  <2>2. CASE SetIRQ1
    BY <1>0, <2>2 DEF SetIRQ1, BoardOnly, FlagsQuiescent, Hangups
  <2>3. CASE UnsetIRQ1
    BY <1>0, <2>3 DEF UnsetIRQ1, BoardOnly, FlagsQuiescent
  <2>4. ASSUME NEW line \in AllLines, Tick(line)
        PROVE  FlagsQuiescent' /\ rq' \cap Hangups = rq \cap Hangups /\ last' = last
    BY <1>0, <2>4 DEF Tick, BoardOnly, FlagsQuiescent, Hangups, AllLines
  <2>5. ASSUME NEW v \in Vectors, InterruptVIRQ(v)
        PROVE  FlagsQuiescent' /\ rq' = rq /\ last' = last
    BY <1>0, <2>5 DEF InterruptVIRQ, BoardOnly, FlagsQuiescent
  <2> QED BY <1>5, <2>1, <2>2, <2>3, <2>4, <2>5 DEF Board
<1> QED BY <1>2, <1>3, <1>4, <1>5 DEF Next, TranslateInstruction

LEMMA HangupInvariant == Spec => []HangupInv
<1>1. Init => HangupInv
  BY DEF Init, HangupInv, FlagsQuiescent, AtMostOneFault, Hangups
<1>2. TypeOK /\ HangupInv /\ [Next]_vars => HangupInv'
  <2> SUFFICES ASSUME TypeOK, HangupInv, [Next]_vars PROVE HangupInv'
    OBVIOUS
  <2>1. CASE UNCHANGED vars
    BY <2>1 DEF vars, HangupInv, FlagsQuiescent, AtMostOneFault
  <2>2. CASE Next
    <3>1. /\ FlagsQuiescent'
          /\ \/ HangupStep
             \/ rq' \cap Hangups = rq \cap Hangups /\ last' = last
      BY <2>2, HangupStepLemma
    <3>2. AtMostOneFault'
      BY <3>1 DEF HangupStep, HangupInv, AtMostOneFault
    <3>3. "RPL2" \in rq' => last' = "RPLY"
      BY <3>1 DEF HangupStep, HangupInv, Hangups
    <3> QED BY <3>1, <3>2, <3>3 DEF HangupInv
  <2> QED BY <2>1, <2>2
<1> QED BY <1>1, <1>2, TypeCorrect, PTL DEF Spec

\* No step, whatever it throws and wherever it throws it, leaves one of the
\* markers of InterruptDispatch up for a later hangup to be taken for another.
THEOREM MarkersDown == Spec => []FlagsQuiescent
BY HangupInvariant, PTL DEF HangupInv

\* The processor never has two hangups to serve.
THEOREM OneFault == Spec => []AtMostOneFault
BY HangupInvariant, PTL DEF HangupInv

\* The processor's hangups escalate as HangupEscalation says, on every board.
THEOREM EscalationRefined == Spec => Escalation
<1>1. Init => H!Init
  BY DEF Init, H!Init, level, trap, Hangups
<1>2. TypeOK /\ HangupInv /\ HangupInv' /\ [Next]_vars => [H!Next]_<<level, trap>>
  <2> SUFFICES ASSUME TypeOK, HangupInv, HangupInv', [Next]_vars
               PROVE  [H!Next]_<<level, trap>>
    OBVIOUS
  <2> DEFINE LevelOf(r) == IF "VIRQErr" \in r THEN "vector"
                           ELSE IF "RPL2" \in r THEN "double"
                           ELSE IF "RPLY" \in r THEN "plain" ELSE "none"
             TrapOf(s)  == IF s \in Hangups THEN Kind[s] ELSE "none"
  <2>1. ASSUME NEW r PROVE LevelOf(r) = LevelOf(r \cap Hangups)
    BY DEF Hangups
  <2>2. /\ level = LevelOf(rq \cap Hangups) /\ level' = LevelOf(rq' \cap Hangups)
        /\ trap = TrapOf(last) /\ trap' = TrapOf(last')
    <3>1. level = LevelOf(rq) /\ level' = LevelOf(rq')
      BY DEF level
    <3>2. trap = TrapOf(last) /\ trap' = TrapOf(last')
      BY DEF trap
    <3>3. LevelOf(rq) = LevelOf(rq \cap Hangups)
      BY <2>1
    <3>4. LevelOf(rq') = LevelOf(rq' \cap Hangups)
      BY <2>1
    <3> QED BY <3>1, <3>2, <3>3, <3>4
  <2>3. /\ LevelOf({}) = "none" /\ LevelOf({"RPLY"}) = "plain"
        /\ LevelOf({"RPL2"}) = "double" /\ LevelOf({"VIRQErr"}) = "vector"
    OBVIOUS
  <2>4. /\ TrapOf("RPLY") = "plain" /\ TrapOf("RPL2") = "double"
        /\ TrapOf("VIRQErr") = "vector" /\ TrapOf("reset") = "none"
    BY DEF Kind, Hangups
  <2>5. CASE rq' \cap Hangups = rq \cap Hangups /\ last' = last
    BY <2>2, <2>5
  <2>6. CASE rq \cap Hangups = {} /\ last' \notin Hangups /\ HangupStep
    <3>1. level = "none" /\ trap' = "none" /\ level' \in {"none", "plain", "vector"}
      <4>1. \/ rq' \cap Hangups = {}
            \/ rq' \cap Hangups = {"RPLY"}
            \/ rq' \cap Hangups = {"VIRQErr"}
        BY <2>6 DEF HangupStep
      <4>2. TrapOf(last') = "none"
        BY <2>6
      <4>3. LevelOf(rq' \cap Hangups) \in {"none", "plain", "vector"}
        BY <4>1, <2>3
      <4> QED BY <2>2, <2>3, <2>6, <4>2, <4>3
    <3> QED BY <3>1 DEF H!Next, H!Work, H!Raise
  <2>7. CASE last' \in Hangups /\ HangupStep
    <3>1. /\ rq \cap Hangups = {last'}
          /\ \/ rq' \cap Hangups = {}
             \/ rq' \cap Hangups = IF last' = "RPLY" THEN {"RPL2"} ELSE {"RPLY"}
      BY <2>7 DEF HangupStep, Hangups
    <3>2. level = TrapOf(last') /\ level # "none"
      <4>1. \/ last' = "RPLY" /\ rq \cap Hangups = {"RPLY"}
            \/ last' = "RPL2" /\ rq \cap Hangups = {"RPL2"}
            \/ last' = "VIRQErr" /\ rq \cap Hangups = {"VIRQErr"}
        BY <2>7, <3>1 DEF Hangups
      <4> HIDE DEF LevelOf, TrapOf
      <4> QED BY <4>1, <2>2, <2>3, <2>4
    <3>3. \/ level' = "none"
          \/ level' = IF level = "plain" THEN "double" ELSE "plain"
      <4>1. \/ rq' \cap Hangups = {}
            \/ last' = "RPLY" /\ rq' \cap Hangups = {"RPL2"}
            \/ last' \in {"RPL2", "VIRQErr"} /\ rq' \cap Hangups = {"RPLY"}
        BY <2>7, <3>1 DEF Hangups
      <4> HIDE DEF LevelOf, TrapOf
      <4> QED BY <4>1, <3>2, <2>2, <2>3, <2>4
    <3> HIDE DEF LevelOf, TrapOf
    <3>4. level \in {"plain", "double", "vector"}
      BY <2>7, <3>2 DEF TrapOf, Kind, Hangups
    <3>5. CASE level' = "none"
      BY <3>2, <3>5, <2>2 DEF H!Next, H!Serve
    <3>6. CASE level' = IF level = "plain" THEN "double" ELSE "plain"
      <4>1. level' \in CASE level = "plain"  -> {"double"}
                        [] level = "double" -> {"plain"}
                        [] level = "vector" -> {"plain", "double"}
        BY <3>4, <3>6
      <4> QED BY <4>1, <3>2, <2>2 DEF H!Next, H!Escalate
    <3> QED BY <3>3, <3>5, <3>6
  <2>8. CASE last' = "reset" /\ rq' \cap Hangups = {}
    <3>1. level' = "none" /\ trap' = "none"
      BY <2>2, <2>3, <2>4, <2>8
    <3> QED BY <3>1 DEF H!Next, H!Serve, H!Work
  <2>9. CASE UNCHANGED vars
    BY <2>9 DEF vars, level, trap
  <2>10. CASE Next
    <3>1. HangupStep \/ (rq' \cap Hangups = rq \cap Hangups /\ last' = last)
      BY <2>10, HangupStepLemma
    <3> QED BY <3>1, <2>5, <2>6, <2>7, <2>8 DEF HangupStep
  <2> QED BY <2>9, <2>10
<1> QED BY <1>1, <1>2, TypeCorrect, HangupInvariant, PTL DEF Spec, Escalation, H!Spec

-----------------------------------------------------------------------------
(* The flags that suppress the T trap.                                      *)

\* While the flag is up nothing outranks the T trap, so the next dispatch finds
\* the flag and takes it down.
TraceInv ==
  m_bTrace_RTT => last = "RTT" /\ psw.T /\ rq \cap Hangups = {} /\ ~m_bWaitMode

LEMMA TraceInvStep ==
  ASSUME TypeOK, HangupInv, TraceInv, [Next]_vars
  PROVE  TraceInv'
<1>1. ASSUME m_bTrace_RTT PROVE Chosen("T") /\ ~Interrupt /\ ~Idle
  <2>1. Chosen("T")
    BY <1>1 DEF TraceInv, Chosen, Ready, Priority, Sources, Hangups, External
  <2>2. ASSUME NEW s \in Sources \ {"T"} PROVE ~Chosen(s)
    <3>1. CASE s \in Hangups
      BY <1>1, <3>1 DEF TraceInv, Chosen, Ready, Hangups, External
    <3>2. CASE s \in External
      BY <2>1, <3>2 DEF Chosen, Priority, External, Sources
    <3> QED BY <3>1, <3>2 DEF Sources
  <2>3. ~TakeVIRQErr /\ ~TakeRPL2 /\ ~TakeRPLY /\ ~TakeIRQ1 /\ ~TakeVIRQ
    BY <2>2 DEF TakeVIRQErr, TakeRPL2, TakeRPLY, TakeIRQ1, TakeVIRQ, Sources,
       Hangups, External
  <2>4. ~TakeT
    BY <1>1 DEF TakeT
  <2>5. ASSUME NEW s \in {"ACLO", "IRQ2", "IRQ3", "TVE"} PROVE ~TakeLine(s)
    BY <2>2 DEF TakeLine, Sources, External
  <2> QED BY <1>1, <2>1, <2>3, <2>4, <2>5 DEF Interrupt, Idle, TraceInv
<1>2. traceLeft = FALSE
  BY <1>1 DEF traceLeft, TypeOK
<1>3. CASE Interrupt
  <2>1. UNCHANGED m_bTrace_RTT
    BY <1>3 DEF Interrupt, TakeVIRQErr, TakeRPL2, TakeRPLY, TakeT, TakeIRQ1,
       TakeVIRQ, TakeLine, Leave
  <2> QED BY <1>1, <1>3, <2>1 DEF TraceInv
<1>4. CASE Execute
  <2>1. CASE ExecuteRTT
    <3>1. rq \cap Hangups = {}
      <4>1. CASE Suppressed
        BY <4>1 DEF Suppressed, Chosen, Ready, Priority, Sources, Hangups
      <4>2. CASE \A s \in Sources : ~Ready(s)
        BY <4>2 DEF Ready, Sources, Hangups
      <4> QED BY <2>1, <4>1, <4>2 DEF ExecuteRTT, Fetch
    <3>2. last' = "RTT" /\ ~m_bWaitMode'
      BY <2>1 DEF ExecuteRTT, Fetch
    <3>3. m_bTrace_RTT' => cause' = "none" /\ psw'.T
      BY <1>2, <2>1 DEF ExecuteRTT
    <3>4. cause' = "none" => rq' = rq
      BY <2>1 DEF ExecuteRTT, Return, Quiet, Hangup
    <3> QED BY <3>1, <3>2, <3>3, <3>4 DEF TraceInv
  <2>2. CASE ~ExecuteRTT
    <3>1. m_bTrace_RTT' = traceLeft
      BY <1>4, <2>2 DEF Execute, ExecuteOrdinary, ExecuteModeSwitch,
         ExecuteBusError, ExecuteTrap, ExecuteHALT, ExecuteWAIT, ExecuteRTI,
         ExecuteSTART, ExecuteSTEP, Sequential
    <3> QED BY <1>2, <3>1 DEF TraceInv
  <2> QED BY <2>1, <2>2
<1>5. CASE Idle
  BY <1>1, <1>5 DEF Idle, flags, TraceInv
<1>6. CASE Board
  <2>1. CASE InitCPU
    BY <2>1 DEF InitCPU, TraceInv
  <2>2. CASE SetIRQ1
    BY <2>2 DEF SetIRQ1, BoardOnly, flags, TraceInv, Hangups
  <2>3. CASE UnsetIRQ1
    BY <2>3 DEF UnsetIRQ1, BoardOnly, flags, TraceInv
  <2>4. ASSUME NEW line \in AllLines, Tick(line) PROVE TraceInv'
    BY <2>4 DEF Tick, BoardOnly, flags, TraceInv, Hangups, AllLines
  <2>5. ASSUME NEW v \in Vectors, InterruptVIRQ(v) PROVE TraceInv'
    BY <2>5 DEF InterruptVIRQ, BoardOnly, flags, TraceInv
  <2> QED BY <1>6, <2>1, <2>2, <2>3, <2>4, <2>5 DEF Board
<1>7. CASE UNCHANGED vars
  BY <1>7 DEF vars, flags, TraceInv
<1> QED BY <1>3, <1>4, <1>5, <1>6, <1>7 DEF Next, TranslateInstruction

\* RTT hides the T trap from exactly one instruction: its flag is up only in
\* the step that follows it, and only if the PSW it loaded has the T bit.
THEOREM TraceForOneStep == Spec => []TracePairs
<1>1. Init => TraceInv
  BY DEF Init, TraceInv
<1>2. TraceInv => TracePairs
  BY DEF TraceInv, TracePairs
<1> QED BY <1>1, <1>2, TraceInvStep, TypeCorrect, HangupInvariant, PTL DEF Spec

-----------------------------------------------------------------------------
(* A board whose HALT words never answer.                                   *)

NoHaltWords == \A m \in HaltModes : ~m.rd /\ ~(m.wr /\ m.rom)

\* On such a board the trap of STOP always hangs up, so that its mark is up only
\* until the next step; STEP always hangs up too and never raises its flag.
PlainInv ==
  /\ ~m_bStepMode
  /\ m_bIRQ1flg => last = "IRQ1" /\ "RPLY" \in rq /\ ~psw.HALT /\ ~psw.MASKI
  /\ m_bWaitMode => rq \cap Hangups = {} /\ ~m_bTrace_RTT

LEMMA PlainStep ==
  ASSUME NoHaltWords, TypeOK, HangupInv, TraceInv, TraceInv', PlainInv, [Next]_vars
  PROVE  PlainInv'
<1>0. ~mode.rd /\ ~(mode.wr /\ mode.rom) /\ m_bGetVector = FALSE /\ m_bTwiceHangup = FALSE
  BY DEF NoHaltWords, TypeOK, HangupInv, FlagsQuiescent
<1>1. ASSUME NEW s \in Sources \ {"RPLY"}, Chosen(s) PROVE ~m_bIRQ1flg
  BY <1>1 DEF PlainInv, HangupInv, AtMostOneFault, Chosen, Ready, Priority, Sources,
     External, Hangups
<1>2. CASE Interrupt
  <2>1. m_bStepMode' = m_bStepMode /\ ~m_bWaitMode'
    BY <1>2 DEF Interrupt, TakeVIRQErr, TakeRPL2, TakeRPLY, TakeT, TakeIRQ1, TakeVIRQ,
       TakeLine, Leave
  <2>2. CASE TakeRPLY
    <3>1. ~m_bIRQ1flg'
      BY <2>2 DEF TakeRPLY, PlainInv, TypeOK
    <3> QED BY <2>1, <3>1 DEF PlainInv
  <2>3. CASE TakeIRQ1
    <3>1. ~psw.HALT /\ ~psw.MASKI
      BY <2>3 DEF TakeIRQ1, Chosen, Ready, Hangups
    <3>2. "RPLY" \in rq' /\ psw' = psw /\ last' = "IRQ1"
      BY <1>0, <2>3 DEF TakeIRQ1, SystemInterrupt, Hangup, ReplyError, Leave
    <3> QED BY <2>1, <3>1, <3>2 DEF PlainInv
  <2>4. CASE TakeVIRQErr \/ TakeRPL2 \/ TakeT \/ TakeVIRQ
    <3>1. /\ m_bIRQ1flg' = m_bIRQ1flg
          /\ Chosen("VIRQErr") \/ Chosen("RPL2") \/ Chosen("T") \/ Chosen("VIRQ")
      BY <2>4 DEF TakeVIRQErr, TakeRPL2, TakeT, TakeVIRQ
    <3>2. ~m_bIRQ1flg
      BY <1>1, <3>1 DEF Sources, Hangups, External
    <3> QED BY <2>1, <3>1, <3>2 DEF PlainInv
  <2>5. ASSUME NEW s \in {"ACLO", "IRQ2", "IRQ3", "TVE"}, TakeLine(s) PROVE PlainInv'
    <3>1. m_bIRQ1flg' = m_bIRQ1flg /\ Chosen(s)
      BY <2>5 DEF TakeLine
    <3>2. ~m_bIRQ1flg
      BY <1>1, <3>1 DEF Sources, Hangups, External
    <3> QED BY <2>1, <3>1, <3>2 DEF PlainInv
  <2> QED BY <1>2, <2>2, <2>3, <2>4, <2>5 DEF Interrupt
<1>3. CASE Execute
  <2>1. /\ ~m_bWaitMode /\ m_bIRQ1flg' = m_bIRQ1flg
        /\ Suppressed \/ \A s \in Sources : ~Ready(s)
    BY <1>3 DEF Execute, ExecuteOrdinary, ExecuteModeSwitch, ExecuteBusError, ExecuteTrap,
       ExecuteHALT, ExecuteWAIT, ExecuteRTI, ExecuteRTT, ExecuteSTART, ExecuteSTEP,
       Sequential, Fetch
  <2>2. rq \cap Hangups = {}
    <3>1. CASE Suppressed
      BY <3>1 DEF Suppressed, Chosen, Ready, Priority, Sources, Hangups
    <3>2. CASE \A s \in Sources : ~Ready(s)
      BY <3>2 DEF Ready, Sources, Hangups
    <3> QED BY <2>1, <3>1, <3>2
  <2>3. ~m_bIRQ1flg'
    BY <2>1, <2>2 DEF PlainInv, Hangups, TypeOK
  <2>4. ~m_bStepMode'
    <3>1. ~stepLeft
      BY DEF stepLeft, PlainInv
    <3>2. CASE ExecuteSTEP
      BY <1>0, <3>1, <3>2 DEF ExecuteSTEP, LoadHaltWords, Hangup
    <3>3. CASE ~ExecuteSTEP
      BY <1>3, <3>1, <3>3 DEF Execute, ExecuteOrdinary, ExecuteModeSwitch, ExecuteBusError,
         ExecuteTrap, ExecuteHALT, ExecuteWAIT, ExecuteRTI, ExecuteRTT, ExecuteSTART,
         Sequential
    <3> QED BY <3>2, <3>3
  <2>5. CASE ExecuteWAIT
    <3>1. rq' = rq /\ last' = "WAIT"
      BY <2>5 DEF ExecuteWAIT, Sequential, Fetch, Quiet
    <3>2. ~m_bTrace_RTT'
      BY <3>1 DEF TraceInv
    <3> QED BY <2>2, <2>3, <2>4, <3>1, <3>2 DEF PlainInv
  <2>6. CASE ~ExecuteWAIT
    <3>1. m_bWaitMode' = m_bWaitMode
      BY <1>3, <2>6 DEF Execute, ExecuteOrdinary, ExecuteModeSwitch, ExecuteBusError,
         ExecuteTrap, ExecuteHALT, ExecuteRTI, ExecuteRTT, ExecuteSTART, ExecuteSTEP
    <3> QED BY <2>1, <2>3, <2>4, <3>1 DEF PlainInv
  <2> QED BY <2>5, <2>6
<1>4. CASE Idle
  <2>1. ~m_bIRQ1flg
    BY <1>4 DEF Idle, Ready, Sources, Hangups, PlainInv
  <2> QED BY <1>4, <2>1 DEF Idle, flags, PlainInv
<1>5. CASE Board
  <2>1. CASE InitCPU
    BY <2>1 DEF InitCPU, PlainInv
  <2>2. CASE SetIRQ1
    BY <2>2 DEF SetIRQ1, BoardOnly, flags, PlainInv, Hangups
  <2>3. CASE UnsetIRQ1
    BY <2>3 DEF UnsetIRQ1, BoardOnly, flags, PlainInv
  <2>4. ASSUME NEW line \in AllLines, Tick(line) PROVE PlainInv'
    BY <2>4 DEF Tick, BoardOnly, flags, PlainInv, Hangups, AllLines
  <2>5. ASSUME NEW v \in Vectors, InterruptVIRQ(v) PROVE PlainInv'
    BY <2>5 DEF InterruptVIRQ, BoardOnly, flags, PlainInv
  <2> QED BY <1>5, <2>1, <2>2, <2>3, <2>4, <2>5 DEF Board
<1>6. CASE UNCHANGED vars
  BY <1>6 DEF vars, flags, PlainInv
<1> QED BY <1>2, <1>3, <1>4, <1>5, <1>6 DEF Next, TranslateInstruction

LEMMA PlainInvariant == NoHaltWords => (Spec => []PlainInv)
<1> SUFFICES ASSUME NoHaltWords PROVE Spec => []PlainInv
  OBVIOUS
<1>1. Init => TraceInv /\ PlainInv
  BY DEF Init, TraceInv, PlainInv
<1>2. TypeOK /\ HangupInv /\ TraceInv /\ [Next]_vars => TraceInv'
  BY TraceInvStep
<1>3. TypeOK /\ HangupInv /\ TraceInv /\ TraceInv' /\ PlainInv /\ [Next]_vars => PlainInv'
  BY PlainStep
<1> QED BY <1>1, <1>2, <1>3, TypeCorrect, HangupInvariant, PTL DEF Spec

\* On a board whose HALT words never answer, the mark that makes a hangup save
\* PC + 2 is spent on the hangup of the STOP key's own trap.
THEOREM StopMarkSpent == NoHaltWords => (Spec => []StopFlagFresh)
<1>1. PlainInv => StopFlagFresh
  BY DEF PlainInv, StopFlagFresh
<1> QED BY <1>1, PlainInvariant, PTL

\* On such a board a processor in WAIT has nothing pending that would end it by
\* way of an exception, and no trace to skip.
THEOREM WaitHasNothing == NoHaltWords => (Spec => []WaitClean)
<1>1. PlainInv => WaitClean
  BY DEF PlainInv, WaitClean
<1> QED BY <1>1, PlainInvariant, PTL

\* On such a board the T trap comes before every instruction that is run with the T
\* bit up, but for the one after an RTT: the dispatch passes over a trap that is due
\* for no other reason, and nothing that it serves instead lets an instruction by.
THEOREM TraceEachInstruction == NoHaltWords => (Spec => TTrapEachInstr)
<1>1. ASSUME TraceInv, PlainInv, Execute, psw.T PROVE last = "RTT"
  <2>1. ~m_bWaitMode /\ (Suppressed \/ \A s \in Sources : ~Ready(s))
    BY <1>1 DEF Execute, ExecuteOrdinary, ExecuteModeSwitch, ExecuteBusError, ExecuteTrap,
       ExecuteHALT, ExecuteWAIT, ExecuteRTI, ExecuteRTT, ExecuteSTART, ExecuteSTEP,
       Sequential, Fetch
  <2>2. Ready("T")
    BY <1>1, <2>1 DEF Ready, Hangups
  <2>3. m_bTrace_RTT
    BY <1>1, <2>1, <2>2 DEF Suppressed, PlainInv, Sources
  <2> QED BY <1>1, <2>3 DEF TraceInv
<1>2. TraceInv /\ PlainInv => [Execute /\ psw.T => last = "RTT"]_vars
  BY <1>1
<1> SUFFICES ASSUME NoHaltWords PROVE Spec => TTrapEachInstr
  OBVIOUS
<1>3. Spec => []PlainInv
  BY PlainInvariant
<1>4. Spec => []TraceInv
  <2>1. Init => TraceInv
    BY DEF Init, TraceInv
  <2> QED BY <2>1, TraceInvStep, TypeCorrect, HangupInvariant, PTL DEF Spec
<1> QED BY <1>2, <1>3, <1>4, PTL DEF TTrapEachInstr

=============================================================================
