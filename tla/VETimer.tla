------------------------------- MODULE VETimer -------------------------------
(***************************************************************************)
(* The VE timer of the processor: registers 177706 (initial value), 177710 *)
(* (counter) and 177712 (control), Timerprocess and SetSysRegs in          *)
(* BK/devemu/CPU.cpp, as operators on a record of them.                    *)
(***************************************************************************)
EXTENDS Integers

CONSTANTS
  Counts,   \* the counter counts modulo Counts: 2^16
  Slow      \* what the dividers make of 1: 4, 16 or 64

ASSUME TimerAssumption ==
  /\ Counts \in Nat /\ Counts > 1
  /\ Slow \in Nat /\ Slow > 0

\* The bits of 177712; DIV stands for D4 and D16.
Control == {"SP", "CAP", "MON", "OS", "RUN", "DIV", "FL"}

\* reload: 177706; counter: 177710; csr: 177712; cnt: m_nTVE_Cnt;
\* rq: m_bTimerRq.  m_nTVE_Divider always follows csr.
Timer == [reload : 0 .. Counts - 1, counter : 0 .. Counts - 1, csr : SUBSET Control,
          cnt : 0 .. Slow - 1, rq : BOOLEAN]

Divider(t) == IF "DIV" \in t.csr THEN Slow ELSE 1

Counting(t) == "SP" \notin t.csr /\ "RUN" \in t.csr

\* The next pulse takes the counter to zero.
Expires(t) == Counting(t) /\ t.cnt + 1 >= Divider(t) /\ t.counter = 1

\* Mutant: the divider is not started again.
KeepsDivider(t, csr) ==
  [t EXCEPT !.csr = csr, !.counter = t.reload,
            !.rq = @ \/ ("MON" \in csr /\ t.counter = 0 /\ "CAP" \notin csr)]

\* A write to 177712.  The old counter is looked at with the new control bits.
WriteControl(t, csr) ==
  [t EXCEPT !.csr = csr, !.counter = t.reload, !.cnt = 0,
            !.rq = @ \/ ("MON" \in csr /\ t.counter = 0 /\ "CAP" \notin csr)]

\* A write to 177706 takes effect when the counter is loaded.
WriteReload(t, value) == [t EXCEPT !.reload = value]

\* Mutant: one-shot mode leaves RUN set.
NeverStops(t) ==
  LET flag == IF "MON" \in t.csr /\ t.rq THEN {"FL"} ELSE {} IN
  IF "CAP" \in t.csr THEN [t EXCEPT !.counter = 0, !.cnt = 0]
  ELSE [t EXCEPT !.counter = t.reload, !.cnt = 0, !.csr = @ \cup flag,
                 !.rq = @ \/ "MON" \in t.csr]

\* The counter reaches zero: it is loaded again, the first time a request is
\* made and, while that waits, the flag set; a one-shot timer stops.  Wrapping
\* around does none of this.
Expiry(t) ==
  LET flag == IF "MON" \in t.csr /\ t.rq THEN {"FL"} ELSE {}
      stop == IF "OS" \in t.csr THEN {"RUN"} ELSE {} IN
  IF "CAP" \in t.csr THEN [t EXCEPT !.counter = 0, !.cnt = 0]
  ELSE [t EXCEPT !.counter = t.reload, !.cnt = 0, !.csr = (@ \cup flag) \ stop,
                 !.rq = @ \/ "MON" \in t.csr]

\* One pulse: every 128th tick of the processor.
Timerprocess(t) ==
  IF ~Counting(t) THEN t
  ELSE IF t.cnt + 1 < Divider(t) THEN [t EXCEPT !.cnt = @ + 1]
  ELSE IF t.counter = 1 THEN Expiry(t)
  ELSE [t EXCEPT !.cnt = 0, !.counter = (@ - 1) % Counts]

\* The pulses a load of the counter with n lasts.
Period(n, t) == (IF n = 0 THEN Counts ELSE n) * Divider(t)
=============================================================================
