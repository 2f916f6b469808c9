------------------------------ MODULE BoardLoop ------------------------------
(***************************************************************************)
(* One pass of the emulator's main loop, CMotherBoard::TimerThreadFunc in  *)
(* BK/devemu/Board.cpp, seen from the keyboard and the VE timer: a scan    *)
(* code of the driver is translated (Key_Translate in src/BKKey.c) and put *)
(* into the keyboard's registers 177660, 177662 and 177716; an instruction *)
(* of the guest may read and write registers or execute RESET; its ticks   *)
(* drive the VE timer and the countdown that clears the ready bit.  What   *)
(* the guest computes is left out: every access it could make may come in  *)
(* any instruction.                                                        *)
(***************************************************************************)
EXTENDS VETimer

CONSTANTS
  Keys,         \* keys that have a code
  Modifiers,    \* keys that set a flag while they are held
  CleanTicks,   \* ticks from a read of 177662 until the ready bit is cleared: 900
  PulseTicks,   \* ticks of a timer pulse: 128
  Costs,        \* ticks an instruction takes
  ResetTicks,   \* ticks RESET takes: at least 1140
  Controls,     \* what the guest writes to 177712
  Reloads,      \* and to 177706
  VM1G,         \* the processor dispatches the timer's request
  Careful       \* the guest reads 177662 only while the ready bit is set

ASSUME LoopAssumption ==
  /\ CleanTicks \in Nat \ {0} /\ PulseTicks \in Nat \ {0}
  /\ Costs \subseteq Nat \ {0}
  /\ ResetTicks \in Nat /\ ResetTicks >= CleanTicks
  /\ Controls \subseteq SUBSET Control
  /\ Reloads \subseteq 0 .. Counts - 1
  /\ VM1G \in BOOLEAN /\ Careful \in BOOLEAN
  /\ Keys \cap Modifiers = {}
  /\ "none" \notin Keys

VARIABLES
  ready, masked,     \* bits 7 and 6 of 177660
  data,              \* 177662: the key whose code it holds
  up,                \* bit 6 of 177716: no key is down
  m_nKeyCleanEvent,
  Key_Flags,         \* the modifiers the translation takes for held
  virq,              \* the keyboard's vector is in the queue of the processor
  tve,               \* the timer
  m_nCmdTicks,
  unread,            \* history: whether the guest has not read the code that 177662
                     \* holds, and then whether that code was announced or came
                     \* silently, while the bit of a key already read was still up
  asked,             \* history: its interrupt is due
  past               \* history: the timer's pulses since it was loaded, the
                     \* value loaded, whether every expiry came when its period
                     \* was over, and the expiries (2 for more) since 177712
                     \* was written

keyboard == <<ready, masked, data, up, m_nKeyCleanEvent, virq>>
timer    == <<tve, m_nCmdTicks, past>>
vars     == <<keyboard, Key_Flags, timer, unread, asked>>

Unread == {"no", "announced", "silent"}

Past == [since : Nat, loaded : 0 .. Counts - 1, exact : BOOLEAN, expired : 0 .. 2]

\* The constructor and InitCPU, whose ResetTimer copies 177706 to the counter.
\* Nothing sets m_bTimerRq.
Init ==
  /\ ready = FALSE /\ masked = TRUE /\ data = "none" /\ up = TRUE
  /\ m_nKeyCleanEvent = 0 /\ Key_Flags = {} /\ virq = FALSE
  /\ tve \in [reload : {0}, counter : {0}, csr : {{}}, cnt : {0}, rq : BOOLEAN]
  /\ m_nCmdTicks = 0
  /\ unread = "no" /\ asked = FALSE
  /\ past = [since |-> 0, loaded |-> 0, exact |-> TRUE, expired |-> 0]
-----------------------------------------------------------------------------
\* KeyboardInterrupt.
KeyboardInterrupt ==
  /\ ready' = TRUE /\ unread' = "announced"
  /\ virq' = (virq \/ ~masked)
  /\ asked' = ~masked

\* The ready bit is up already: another code than the one the guest has read
\* comes silently.
KeepReady(k) ==
  /\ unread' = IF unread = "no" /\ k # data THEN "silent" ELSE unread
  /\ UNCHANGED <<ready, virq, asked>>

\* A key's code: the register is written first, whether or not the code before
\* was read; the key is announced only when the ready bit is clear.
KeyCode(k) ==
  /\ data' = k
  /\ up' = FALSE
  /\ IF ready THEN KeepReady(k) ELSE KeyboardInterrupt
  /\ UNCHANGED <<masked, m_nKeyCleanEvent, Key_Flags, timer>>

\* A modifier changes its flag only.
Modifier(k, down) ==
  /\ Key_Flags' = IF down THEN Key_Flags \cup {k} ELSE Key_Flags \ {k}
  /\ UNCHANGED <<keyboard, timer, unread, asked>>

\* The code of a key that is pressed, repeated or released arrives.  Presses may
\* have been lost before: the buffer was full, or the manager took them.
\* Key_Translate: bit 15 of the code, a release, clears the flag of a modifier;
\* every other key gives its code for the press and for the release.
Key(k, down) ==
  IF k \in Modifiers THEN Modifier(k, down) ELSE KeyCode(k)
-----------------------------------------------------------------------------
\* A pulse of the timer c.t, and what becomes of its history c.h.
Pulse(c) ==
  [t |-> Timerprocess(c.t),
   h |-> IF Expires(c.t)
         THEN [since |-> 0, loaded |-> Timerprocess(c.t).counter,
               exact |-> c.h.exact /\ c.h.since + 1 = Period(c.h.loaded, c.t),
               expired |-> IF c.h.expired = 0 THEN 1 ELSE 2]
         ELSE [c.h EXCEPT !.since = IF Counting(c.t) THEN @ + 1 ELSE @]]

\* The while loop at the end of an instruction: as many pulses as were due.
Pulses(c, due) ==
  LET after[n \in 0 .. due] == IF n = 0 THEN c ELSE Pulse(after[n - 1]) IN after[due]

\* The ticks of an instruction that left the timer at t; none when it ended in
\* an exception.
Elapse(cost, t, h, ticks) ==
  /\ \E c \in {Pulses([t |-> t, h |-> h], (ticks + cost) \div PulseTicks)} :
       tve' = c.t /\ past' = c.h
  /\ m_nCmdTicks' = (ticks + cost) % PulseTicks

Same(cost) == Elapse(cost, tve, past, m_nCmdTicks)

\* The history of a timer whose control register was written.
Loaded(t) == [past EXCEPT !.since = 0, !.loaded = t.counter, !.expired = 0]

\* Mutant: the countdown is not stopped at zero.
CountdownBelow(cost, countdown, bit) ==
  LET over == countdown > 0 /\ countdown <= cost IN
  /\ m_nKeyCleanEvent' = IF countdown > 0 THEN countdown - cost ELSE countdown
  /\ ready' = (bit /\ ~over)

\* Mutant: the bit is cleared although no countdown runs.
CountdownAlways(cost, countdown, bit) ==
  LET over == countdown <= cost IN
  /\ m_nKeyCleanEvent' = IF over THEN 0 ELSE countdown - cost
  /\ ready' = (bit /\ ~over)

\* The countdown since the read of 177662, after the instruction.
Countdown(cost, countdown, bit) ==
  LET over == countdown > 0 /\ countdown <= cost IN
  /\ m_nKeyCleanEvent' = IF over \/ countdown = 0 THEN 0 ELSE countdown - cost
  /\ ready' = (bit /\ ~over)

\* An instruction that touches none of these registers.
Instruction(cost) ==
  /\ UNCHANGED <<masked, data, up, virq, Key_Flags, unread, asked>>
  /\ Countdown(cost, m_nKeyCleanEvent, ready)
  /\ Same(cost)

\* Mutant: every read starts the countdown.
ReadDataAgain(cost) ==
  /\ Careful => ready
  /\ unread' = "no"
  /\ UNCHANGED <<masked, data, up, virq, Key_Flags, asked>>
  /\ Countdown(cost, CleanTicks, ready)
  /\ Same(cost)

\* The guest reads 177662, which starts the countdown unless one runs.
ReadData(cost) ==
  /\ Careful => ready
  /\ unread' = "no"
  /\ UNCHANGED <<masked, data, up, virq, Key_Flags, asked>>
  /\ Countdown(cost, IF m_nKeyCleanEvent = 0 THEN CleanTicks ELSE m_nKeyCleanEvent, ready)
  /\ Same(cost)

\* The guest allows or forbids the keyboard's interrupt.
WriteMask(cost, mask) ==
  /\ masked' = mask
  /\ UNCHANGED <<data, up, virq, Key_Flags, unread, asked>>
  /\ Countdown(cost, m_nKeyCleanEvent, ready)
  /\ Same(cost)

\* The guest writes 177712 or 177706.
WriteTimer(cost) ==
  /\ UNCHANGED <<masked, data, up, virq, Key_Flags, unread, asked>>
  /\ Countdown(cost, m_nKeyCleanEvent, ready)
  /\ \/ \E csr \in Controls :
          LET t == WriteControl(tve, csr) IN Elapse(cost, t, Loaded(t), m_nCmdTicks)
     \/ \E value \in Reloads :
          Elapse(cost, WriteReload(tve, value), past, m_nCmdTicks)

\* Mutant: the queue of the processor is cleared too.
RESETQueue ==
  LET t == WriteControl(tve, {}) IN
  /\ masked' = TRUE /\ up' = TRUE /\ virq' = FALSE
  /\ Elapse(ResetTicks, t, Loaded(t), 0)
  /\ Countdown(ResetTicks, m_nKeyCleanEvent, FALSE)
  /\ UNCHANGED <<data, Key_Flags, unread, asked>>

\* ResetDevices and ResetTimer.  The queue of the processor and the request of
\* the timer stay; a running countdown is over, for RESET takes longer.
RESET ==
  LET t == WriteControl(tve, {}) IN
  /\ masked' = TRUE /\ up' = TRUE
  /\ Elapse(ResetTicks, t, Loaded(t), 0)
  /\ Countdown(ResetTicks, m_nKeyCleanEvent, FALSE)
  /\ UNCHANGED <<data, virq, Key_Flags, unread, asked>>

\* InterruptDispatch: the timer's request before the queue of vectors.
DispatchTimer(cost) ==
  /\ VM1G /\ tve.rq
  /\ UNCHANGED <<masked, data, up, virq, Key_Flags, unread, asked>>
  /\ Countdown(cost, m_nKeyCleanEvent, ready)
  /\ Elapse(cost, [tve EXCEPT !.rq = FALSE], past, m_nCmdTicks)

DispatchKey(cost) ==
  /\ virq /\ ~(VM1G /\ tve.rq)
  /\ virq' = FALSE /\ asked' = FALSE
  /\ UNCHANGED <<masked, data, up, Key_Flags, unread>>
  /\ Countdown(cost, m_nKeyCleanEvent, ready)
  /\ Same(cost)

TranslateInstruction(cost) ==
  \/ Instruction(cost) \/ ReadData(cost) \/ (\E mask \in BOOLEAN : WriteMask(cost, mask))
  \/ WriteTimer(cost) \/ DispatchTimer(cost) \/ DispatchKey(cost)

Next ==
  \/ \E k \in Keys \cup Modifiers, down \in BOOLEAN : Key(k, down)
  \/ \E cost \in Costs \cup {0} : TranslateInstruction(cost)
  \/ RESET

\* The processor runs, and not every instruction ends in an exception.
Spec == Init /\ [][Next]_vars /\ WF_vars(\E cost \in Costs : TranslateInstruction(cost))
-----------------------------------------------------------------------------
TypeOK ==
  /\ ready \in BOOLEAN /\ masked \in BOOLEAN /\ data \in Keys \cup {"none"}
  /\ up \in BOOLEAN /\ virq \in BOOLEAN
  /\ m_nKeyCleanEvent \in 0 .. CleanTicks
  /\ Key_Flags \in SUBSET Modifiers 
  /\ tve \in Timer /\ m_nCmdTicks \in 0 .. PulseTicks - 1
  /\ unread \in Unread /\ asked \in BOOLEAN /\ past \in Past

\* The ready bit of a key that was announced is cleared only when the guest has
\* read 177662, or by RESET, which alone sets bit 6 of 177716: no countdown that
\* began for an earlier key takes it away.  And a key comes silently only while
\* the bit of one that was read is about to be cleared.
ReadyUntilRead ==
  [][/\ (ready /\ ~ready') => (unread' # "announced" \/ up')
     /\ (unread # "silent" /\ unread' = "silent") => m_nKeyCleanEvent > 0]_vars

\* A key announced while its interrupt is allowed interrupts the guest, whatever
\* the guest does to the mask, the devices or the timer before.
InterruptPending == asked => virq

\* The timer expires exactly when as many pulses were counted as the value in
\* the counter asks for, whatever was written in between.
PeriodExact == past.exact

\* A one-shot timer expires once for each write to its control register.
OneShotOnce == ("OS" \in tve.csr /\ "CAP" \notin tve.csr) => past.expired <= 1

\* A key the guest has read is taken back: the ready bit is cleared in the end.
ReadClears == (ready /\ unread = "no") ~> (~ready)

\* Board.cpp says of the ready bit that it is set when a key is pressed and cleared
\* when the data register is read.  A code that comes while the bit of a key already
\* read waits to be cleared is not announced, and is left unread when the bit falls.
NoKeyVanishes == [][(ready /\ ~ready') => (unread' = "no" \/ up')]_vars

\* The same comment: the bit is set by a press.  A release has the code of the
\* press: when the guest has read the key and the bit has fallen, with no RESET
\* since, the key's release announces it again.
ReadyMeansPress ==
  [][(\E k \in Keys : Key(k, FALSE) /\ data = k) /\ unread = "no" /\ ~up
       => ready' = ready]_vars

\* The comment where the code is stored: while the code before is unread, the new
\* one is ignored.  It is not announced, but it takes the other's place.
NewCodeIgnored == [][(ready /\ unread = "announced") => data' = data]_vars
=============================================================================
