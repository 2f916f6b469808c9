---------------------------- MODULE BoardLoopProofs ----------------------------
(***************************************************************************)
(* Theorems about the keyboard's registers and the VE timer in the main    *)
(* loop, for every size of the counter, every divider, every cost of an    *)
(* instruction and every guest.                                            *)
(***************************************************************************)
EXTENDS BoardLoop, WellFoundedInduction, TLAPS

\* The pulses that are left when the counter holds x, in units of the divider.
ToGo(x) == IF x = 0 THEN Counts ELSE x

\* A timer and its history: the pulses counted since it was loaded are those the
\* counter is short of the value loaded, and a one-shot timer that expired stands.
Sound(t, h) ==
  /\ t \in Timer /\ h \in Past
  /\ t.cnt < Divider(t)
  /\ ToGo(t.counter) <= ToGo(h.loaded)
  /\ h.since = (ToGo(h.loaded) - ToGo(t.counter)) * Divider(t) + t.cnt
  /\ h.exact
  /\ ("OS" \in t.csr /\ "CAP" \notin t.csr /\ h.expired # 0)
       => (h.expired = 1 /\ "RUN" \notin t.csr)

TimerInv == Sound(tve, past) /\ m_nCmdTicks \in 0 .. PulseTicks - 1

\* The countdown runs exactly while the ready bit is up over a key that was read,
\* or over one that came silently after it.
CountdownInv == m_nKeyCleanEvent > 0 <=> (ready /\ unread # "announced")

\* The part of the types the keyboard decides.
KeyboardType ==
  /\ ready \in BOOLEAN /\ masked \in BOOLEAN /\ data \in Keys \cup {"none"}
  /\ up \in BOOLEAN /\ virq \in BOOLEAN
  /\ m_nKeyCleanEvent \in 0 .. CleanTicks
  /\ Key_Flags \in SUBSET Modifiers
  /\ unread \in Unread /\ asked \in BOOLEAN

-----------------------------------------------------------------------------
(* Induction.  The provers cannot instantiate a predicate, but they can     *)
(* reason about the set of the numbers for which it holds.                  *)

Before == {p \in Nat \X Nat : p[1] < p[2]}

LEMMA BeforeWellFounded == IsWellFoundedOn(Before, Nat)
<1>1. Before = OpToRel(<, Nat)
  BY DEF Before, OpToRel
<1> QED BY <1>1, NatLessThanWellFounded

LEMMA First ==
  ASSUME NEW T \in SUBSET Nat, T # {}
  PROVE  \E x \in T : \A y \in T : x <= y
<1>1. \E x \in T : \A y \in T : <<y, x>> \notin Before
  BY BeforeWellFounded, WFMin
<1>2. ASSUME NEW x \in T, NEW y \in T, <<y, x>> \notin Before PROVE x <= y
  <2>1. x \in Nat /\ y \in Nat /\ ~ (y < x)
    BY <1>2 DEF Before
  <2> QED BY <2>1
<1> QED BY <1>1, <1>2, Zenon

LEMMA UpTo ==
  ASSUME NEW N \in Nat, NEW S \in SUBSET (0 .. N), 0 \in S,
         \A n \in 1 .. N : n - 1 \in S => n \in S
  PROVE  S = 0 .. N
<1> SUFFICES ASSUME (0 .. N) \ S # {} PROVE FALSE
  OBVIOUS
<1> DEFINE U == (0 .. N) \ S
<1>1. U \in SUBSET Nat /\ U # {}
  OBVIOUS
<1>2. PICK x \in U : \A y \in U : x <= y
  BY <1>1, First
<1>3. x \in 1 .. N /\ x \notin S
  BY <1>2
<1>4. x - 1 \in 0 .. N /\ x - 1 \notin U
  BY <1>2, <1>3
<1> QED BY <1>3, <1>4

-----------------------------------------------------------------------------
(* The loop over the pulses keeps every set that one pulse keeps.           *)

Turn(f, c, n) == IF n = 0 THEN c ELSE Pulse(f[n - 1])

Turns(f, c, N) == f = [n \in 0 .. N |-> Turn(f, c, n)]

LEMMA TurnsExist ==
  ASSUME NEW c, NEW N \in Nat
  PROVE  \E f : Turns(f, c, N)
<1> DEFINE Some(k) == \E f : Turns(f, c, k)
           S == {k \in 0 .. N : Some(k)}
<1>1. 0 \in S
  <2>1. [n \in 0 .. 0 |-> c] = [n \in 0 .. 0 |-> Turn([m \in 0 .. 0 |-> c], c, n)]
    BY DEF Turn
  <2>2. Some(0)
    BY <2>1 DEF Turns
  <2> QED BY <2>2
<1>2. ASSUME NEW k \in 1 .. N, k - 1 \in S PROVE k \in S
  <2>1. PICK f : f = [n \in 0 .. k - 1 |-> Turn(f, c, n)]
    BY <1>2 DEF Turns
  <2> DEFINE g == [n \in 0 .. k |-> IF n = k THEN Pulse(f[k - 1]) ELSE f[n]]
  <2>2. ASSUME NEW n \in 0 .. k PROVE g[n] = Turn(g, c, n)
    <3>1. CASE n = 0
      BY <3>1, <2>1 DEF Turn
    <3>2. CASE n = k
      <4>1. g[k - 1] = f[k - 1]
        OBVIOUS
      <4> QED BY <3>2, <4>1 DEF Turn
    <3>3. CASE n \in 1 .. k - 1
      <4>1. g[n - 1] = f[n - 1] /\ g[n] = f[n]
        BY <3>3
      <4>2. f[n] = Turn(f, c, n)
        BY <3>3, <2>1
      <4> QED BY <3>3, <4>1, <4>2 DEF Turn
    <3> QED BY <3>1, <3>2, <3>3
  <2>3. g = [n \in 0 .. k |-> Turn(g, c, n)]
    BY <2>2
  <2>4. Some(k)
    BY <2>3 DEF Turns
  <2> QED BY <2>4
<1>3. S = 0 .. N
  <2> HIDE DEF S
  <2>1. S \in SUBSET (0 .. N)
    BY DEF S
  <2> QED BY <1>1, <1>2, <2>1, UpTo
<1> QED BY <1>3

LEMMA PulsesKeep ==
  ASSUME NEW D, NEW N \in Nat, NEW c \in D, \A e \in D : Pulse(e) \in D
  PROVE  Pulses(c, N) \in D
<1> DEFINE F == CHOOSE f : Turns(f, c, N)
           S == {n \in 0 .. N : F[n] \in D}
<1>1. Turns(F, c, N)
  BY TurnsExist
<1>2. Pulses(c, N) = F[N]
  BY DEF Pulses, Turn, Turns
<1> HIDE DEF F
<1>3. \A n \in 0 .. N : F[n] = Turn(F, c, n)
  BY <1>1 DEF Turns
<1>4. 0 \in S
  BY <1>3 DEF Turn
<1>5. \A n \in 1 .. N : n - 1 \in S => n \in S
  BY <1>3 DEF Turn
<1>6. S \in SUBSET (0 .. N)
  OBVIOUS
<1>7. S = 0 .. N
  <2> HIDE DEF S
  <2> QED BY <1>4, <1>5, <1>6, UpTo
<1> QED BY <1>2, <1>7
-----------------------------------------------------------------------------
(* The timer.                                                               *)

LEMMA Divides ==
  ASSUME NEW t
  PROVE  Divider(t) \in Nat \ {0} /\ Divider(t) <= Slow
  BY TimerAssumption DEF Divider

LEMMA Range1 ==
  ASSUME NEW x \in 0 .. Counts - 1
  PROVE  ToGo(x) \in 1 .. Counts /\ (ToGo(x) = 1 <=> x = 1)
  BY TimerAssumption DEF ToGo

\* Counting down takes one from what is left.
LEMMA CountsDown ==
  ASSUME NEW x \in 0 .. Counts - 1, x # 1
  PROVE  (x - 1) % Counts \in 0 .. Counts - 1 /\ ToGo((x - 1) % Counts) = ToGo(x) - 1
<1>1. Counts \in Nat /\ Counts > 1
  BY TimerAssumption
<1>2. CASE x = 0
  <2>1. (0 - 1) % Counts = Counts - 1
    BY <1>1
  <2> QED BY <1>1, <1>2, <2>1 DEF ToGo
<1>3. CASE x > 1
  <2>1. (x - 1) % Counts = x - 1
    BY <1>1, <1>3
  <2> QED BY <1>1, <1>3, <2>1 DEF ToGo
<1> QED BY <1>1, <1>2, <1>3

\* A timer that is loaded with its counter is sound, when it may run.
LEMMA FreshSound ==
  ASSUME NEW t \in Timer, t.cnt = 0, NEW h \in Past, h.since = 0, h.loaded = t.counter, h.exact,
         ("OS" \in t.csr /\ "CAP" \notin t.csr /\ h.expired # 0)
           => (h.expired = 1 /\ "RUN" \notin t.csr)
  PROVE  Sound(t, h)
<1>1. ToGo(t.counter) \in Nat /\ t.counter \in 0 .. Counts - 1
  BY Range1, TimerAssumption DEF Timer
<1>2. Divider(t) \in Nat \ {0}
  BY Divides
<1>3. (ToGo(h.loaded) - ToGo(t.counter)) * Divider(t) = 0
  BY <1>1, <1>2
<1> QED BY <1>1, <1>2, <1>3 DEF Sound

LEMMA ExpirySound ==
  ASSUME NEW t, NEW h, Sound(t, h), Expires(t)
  PROVE  LET c == Pulse([t |-> t, h |-> h]) IN Sound(c.t, c.h)
<1> DEFINE e == Expiry(t)
           g == [since |-> 0, loaded |-> e.counter,
                 exact |-> h.exact /\ h.since + 1 = Period(h.loaded, t),
                 expired |-> IF h.expired = 0 THEN 1 ELSE 2]
<1>1. /\ t \in Timer /\ h \in Past /\ t.csr \in SUBSET Control /\ t.counter = 1
      /\ t.cnt \in Nat /\ h.loaded \in 0 .. Counts - 1 /\ h.expired \in 0 .. 2
      /\ 0 \in 0 .. Counts - 1 /\ 0 \in 0 .. Slow - 1 /\ t.reload \in 0 .. Counts - 1
      /\ t.rq \in BOOLEAN
  BY TimerAssumption DEF Sound, Expires, Timer, Past
<1>2. Divider(t) \in Nat \ {0} /\ t.cnt + 1 = Divider(t)
  <2>1. Divider(t) \in Nat \ {0} /\ t.cnt < Divider(t) /\ t.cnt + 1 >= Divider(t)
    BY Divides DEF Sound, Expires
  <2> QED BY <1>1, <2>1
<1>3. h.since + 1 = Period(h.loaded, t)
  <2> DEFINE n == ToGo(h.loaded)
             d == Divider(t)
  <2>1. n \in Nat /\ ToGo(1) = 1 /\ d \in Nat
    BY <1>1, <1>2, Range1, TimerAssumption DEF ToGo
  <2>2. h.since = (n - 1) * d + t.cnt
    BY <1>1, <2>1 DEF Sound
  <2>3. Period(h.loaded, t) = n * d
    BY DEF Period, ToGo
  <2> HIDE DEF n, d
  <2>4. (n - 1) * d = n * d - d /\ n * d \in Nat
    BY <2>1
  <2>5. t.cnt + 1 = d
    BY <1>2 DEF d
  <2> QED BY <1>1, <2>1, <2>2, <2>3, <2>4, <2>5
<1>4. /\ e \in Timer /\ e.cnt = 0
      /\ ("OS" \in e.csr /\ "CAP" \notin e.csr) => ("RUN" \notin e.csr /\ "RUN" \in t.csr
                                                   /\ "OS" \in t.csr /\ "CAP" \notin t.csr)
  <2>1. "RUN" \in t.csr /\ "FL" \in Control
    BY DEF Expires, Counting, Control
  <2>2. CASE "CAP" \in t.csr
    <3>1. e = [t EXCEPT !.counter = 0, !.cnt = 0]
      BY <2>2 DEF Expiry
    <3> HIDE DEF e
    <3> QED BY <1>1, <2>1, <2>2, <3>1 DEF Timer
  <2>3. CASE "CAP" \notin t.csr
    <3> DEFINE flag == IF "MON" \in t.csr /\ t.rq THEN {"FL"} ELSE {}
               stop == IF "OS" \in t.csr THEN {"RUN"} ELSE {}
               csr  == (t.csr \cup flag) \ stop
               rq   == t.rq \/ "MON" \in t.csr
    <3>1. e = [t EXCEPT !.counter = t.reload, !.cnt = 0, !.csr = csr, !.rq = rq]
      BY <2>3, <1>1 DEF Expiry, Timer
    <3>2. csr \in SUBSET Control /\ rq \in BOOLEAN
      BY <1>1, <2>1
    <3>3. "OS" \in csr => ("OS" \in t.csr /\ "RUN" \notin csr)
      OBVIOUS
    <3> HIDE DEF e, csr, rq
    <3>4. e \in Timer /\ e.cnt = 0 /\ e.csr = csr
      BY <1>1, <3>1, <3>2 DEF Timer
    <3> QED BY <2>1, <2>3, <3>3, <3>4
  <2> QED BY <2>2, <2>3
<1>5. ("OS" \in t.csr /\ "CAP" \notin t.csr /\ "RUN" \in t.csr) => h.expired = 0
  BY DEF Sound
<1>6. g = [since |-> 0, loaded |-> e.counter, exact |-> TRUE,
           expired |-> IF h.expired = 0 THEN 1 ELSE 2]
  BY <1>3 DEF Sound
<1>7. Pulse([t |-> t, h |-> h]) = [t |-> e, h |-> g]
  <2>1. Timerprocess(t) = e
    BY <1>1, <1>2, TimerAssumption DEF Timerprocess, Expires
  <2> QED BY <2>1 DEF Pulse
<1>8. e.counter \in 0 .. Counts - 1
  BY <1>4 DEF Timer
<1> HIDE DEF e, g
<1>9. g \in Past /\ g.since = 0 /\ g.loaded = e.counter /\ g.exact
      /\ (h.expired = 0 => g.expired = 1)
  BY <1>1, <1>6, <1>8 DEF Past
<1>10. Sound(e, g)
  BY <1>4, <1>5, <1>9, FreshSound
<1> QED BY <1>7, <1>10

LEMMA CountSound ==
  ASSUME NEW t, NEW h, Sound(t, h), ~Expires(t)
  PROVE  LET c == Pulse([t |-> t, h |-> h]) IN Sound(c.t, c.h)
<1> DEFINE D == Divider(t)
           g == [h EXCEPT !.since = @ + 1]
<1>1. /\ t \in Timer /\ h \in Past /\ t.cnt \in Nat /\ D \in Nat \ {0} /\ D <= Slow
      /\ t.counter \in 0 .. Counts - 1 /\ h.loaded \in 0 .. Counts - 1 /\ h.since \in Nat
      /\ Slow \in Nat /\ t.cnt < D
  BY Divides, TimerAssumption DEF Sound, Timer, Past
<1>2. CASE ~Counting(t)
  <2>1. Timerprocess(t) = t /\ [h EXCEPT !.since = h.since] = h
    BY <1>1, <1>2 DEF Timerprocess, Past
  <2>2. Pulse([t |-> t, h |-> h]) = [t |-> t, h |-> h]
    BY <1>2, <2>1 DEF Pulse, Expires
  <2> QED BY <2>2
<1>3. ASSUME Counting(t) PROVE Pulse([t |-> t, h |-> h]) = [t |-> Timerprocess(t), h |-> g]
  BY <1>3 DEF Pulse
<1>4. /\ g \in Past /\ g.since = h.since + 1 /\ g.loaded = h.loaded /\ g.exact = h.exact
      /\ g.expired = h.expired
  BY <1>1 DEF Past
<1>5. CASE Counting(t) /\ t.cnt + 1 < D
  <2> DEFINE e == [t EXCEPT !.cnt = @ + 1]
  <2>1. e \in Timer /\ e.cnt = t.cnt + 1 /\ e.counter = t.counter /\ e.csr = t.csr
    BY <1>1, <1>5 DEF Timer
  <2>2. Timerprocess(t) = e
    BY <1>5 DEF Timerprocess
  <2>3. Divider(e) = D
    BY <2>1 DEF Divider
  <2>4. ToGo(t.counter) \in Int /\ ToGo(h.loaded) \in Int
    BY <1>1, Range1
  <2> HIDE DEF e, g
  <2>5. g.since = (ToGo(g.loaded) - ToGo(e.counter)) * Divider(e) + e.cnt
    <3> DEFINE x == (ToGo(h.loaded) - ToGo(t.counter)) * D
    <3>1. x \in Int
      BY <1>1, <2>4
    <3>2. h.since = x + t.cnt
      BY DEF Sound
    <3> HIDE DEF x
    <3>3. g.since = x + e.cnt
      BY <1>1, <1>4, <2>1, <3>1, <3>2
    <3> QED BY <1>4, <2>1, <2>3, <3>3 DEF x
  <2>6. Sound(e, g)
    BY <1>4, <1>5, <2>1, <2>3, <2>5 DEF Sound
  <2> QED BY <1>3, <1>5, <2>2, <2>6
<1>6. CASE Counting(t) /\ ~(t.cnt + 1 < D)
  <2> DEFINE x == (t.counter - 1) % Counts
             e == [t EXCEPT !.cnt = 0, !.counter = x]
  <2>1. t.counter # 1 /\ t.cnt + 1 = D
    BY <1>1, <1>6 DEF Expires
  <2>2. x \in 0 .. Counts - 1 /\ ToGo(x) = ToGo(t.counter) - 1
    BY <1>1, <2>1, CountsDown
  <2>3. Timerprocess(t) = e
    BY <1>6, <2>1, <1>1 DEF Timerprocess, Timer
  <2> HIDE DEF x
  <2>4. e \in Timer /\ e.cnt = 0 /\ e.counter = x /\ e.csr = t.csr
    <3>1. 0 \in 0 .. Slow - 1
      BY <1>1
    <3> QED BY <1>1, <2>2, <3>1 DEF Timer
  <2>5. Divider(e) = D
    BY <2>4 DEF Divider
  <2> HIDE DEF e, g
  <2>6. ToGo(t.counter) \in Int /\ ToGo(h.loaded) \in Int
    BY <1>1, Range1
  <2>7. g.since = (ToGo(g.loaded) - ToGo(e.counter)) * Divider(e) + e.cnt
    <3> DEFINE p == ToGo(h.loaded) - ToGo(t.counter)
    <3>1. p \in Int
      BY <2>6
    <3>2. h.since = p * D + t.cnt
      BY DEF Sound
    <3>3. ToGo(g.loaded) - ToGo(e.counter) = p + 1
      BY <1>4, <2>2, <2>4, <2>6
    <3> HIDE DEF p, D
    <3>4. (p + 1) * D = p * D + D /\ p * D \in Int
      BY <1>1, <3>1
    <3>5. g.since = (p + 1) * D + 0
      BY <1>1, <1>4, <2>1, <3>1, <3>2, <3>4
    <3> QED BY <2>4, <2>5, <3>3, <3>5 DEF D
  <2>8. ToGo(e.counter) <= ToGo(g.loaded)
    BY <1>4, <2>2, <2>4, <2>6 DEF Sound
  <2>9. Sound(e, g)
    BY <1>1, <1>4, <2>4, <2>5, <2>7, <2>8 DEF Sound
  <2> QED BY <1>3, <1>6, <2>3, <2>9
<1> QED BY <1>2, <1>5, <1>6

LEMMA PulsesSound ==
  ASSUME NEW t, NEW h, Sound(t, h), NEW N \in Nat
  PROVE  LET c == Pulses([t |-> t, h |-> h], N) IN Sound(c.t, c.h)
<1> DEFINE D == {c \in [t : Timer, h : Past] : Sound(c.t, c.h)}
<1>1. [t |-> t, h |-> h] \in D
  BY DEF Sound
<1>2. ASSUME NEW c \in D PROVE Pulse(c) \in D
  <2>1. c = [t |-> c.t, h |-> c.h] /\ Sound(c.t, c.h)
    OBVIOUS
  <2>2. Sound(Pulse(c).t, Pulse(c).h)
    BY <2>1, ExpirySound, CountSound
  <2>3. Pulse(c) = [t |-> Pulse(c).t, h |-> Pulse(c).h]
    BY DEF Pulse
  <2> QED BY <2>2, <2>3 DEF Sound
<1> HIDE DEF D
<1>3. Pulses([t |-> t, h |-> h], N) \in D
  BY <1>1, <1>2, PulsesKeep
<1> QED BY <1>3 DEF D

\* The timer after an instruction.
LEMMA ElapseSound ==
  ASSUME NEW cost \in Nat, NEW t, NEW h, NEW ticks \in Nat, Sound(t, h), Elapse(cost, t, h, ticks)
  PROVE  TimerInv'
<1>1. PulseTicks \in Nat \ {0}
  BY LoopAssumption
<1> DEFINE n == (ticks + cost) \div PulseTicks
<1>2. n \in Nat /\ (ticks + cost) % PulseTicks \in 0 .. PulseTicks - 1
  BY <1>1
<1>3. tve' = Pulses([t |-> t, h |-> h], n).t /\ past' = Pulses([t |-> t, h |-> h], n).h
  BY DEF Elapse
<1>4. m_nCmdTicks' = (ticks + cost) % PulseTicks
  BY DEF Elapse
<1> HIDE DEF n
<1>5. Sound(tve', past')
  BY <1>2, <1>3, PulsesSound
<1> QED BY <1>2, <1>4, <1>5 DEF TimerInv, Sound

\* Writing the registers of the timer, and taking its request.
LEMMA ControlSound ==
  ASSUME NEW t, NEW h, Sound(t, h), h = past, NEW csr \in SUBSET Control
  PROVE  Sound(WriteControl(t, csr), Loaded(WriteControl(t, csr)))
<1> DEFINE e == WriteControl(t, csr)
           rq == t.rq \/ ("MON" \in csr /\ t.counter = 0 /\ "CAP" \notin csr)
<1>1. t \in Timer /\ h \in Past /\ t.rq \in BOOLEAN /\ rq \in BOOLEAN
      /\ t.reload \in 0 .. Counts - 1 /\ 0 \in 0 .. Slow - 1 /\ h.exact
  BY TimerAssumption DEF Sound, Timer
<1>2. e = [t EXCEPT !.csr = csr, !.counter = t.reload, !.cnt = 0, !.rq = rq]
  BY <1>1 DEF WriteControl, Timer
<1> HIDE DEF e, rq
<1>3. e \in Timer /\ e.cnt = 0 /\ e.counter = t.reload
  BY <1>1, <1>2 DEF Timer
<1>4. Loaded(e) = [past EXCEPT !.since = 0, !.loaded = e.counter, !.expired = 0]
  BY DEF Loaded
<1>5. Loaded(e) \in Past /\ Loaded(e).since = 0 /\ Loaded(e).loaded = e.counter
      /\ Loaded(e).exact /\ Loaded(e).expired = 0
  <2> DEFINE l == Loaded(e)
  <2>1. l = [h EXCEPT !.since = 0, !.loaded = e.counter, !.expired = 0]
    BY <1>4
  <2>2. e.counter \in 0 .. Counts - 1
    BY <1>1, <1>3
  <2> HIDE DEF l
  <2>3. l \in Past /\ l.since = 0 /\ l.loaded = e.counter /\ l.exact = h.exact /\ l.expired = 0
    <3>1. l.since = 0 /\ l.loaded = e.counter /\ l.expired = 0
      BY <1>1, <2>1 DEF Past
    <3>2. l.exact = h.exact
      BY <1>1, <2>1, Zenon DEF Past
    <3>3. 0 \in Nat /\ 0 \in 0 .. 2
      OBVIOUS
    <3>4. l \in Past
      BY <1>1, <2>1, <2>2, <3>3 DEF Past
    <3> QED BY <3>1, <3>2, <3>4
  <2> QED BY <1>1, <2>3 DEF l
<1>6. Sound(e, Loaded(e))
  BY <1>3, <1>5, FreshSound
<1> QED BY <1>6 DEF e

LEMMA ReloadSound ==
  ASSUME NEW t, NEW h, Sound(t, h), NEW value \in 0 .. Counts - 1
  PROVE  Sound(WriteReload(t, value), h)
<1> DEFINE e == WriteReload(t, value)
<1>1. e = [t EXCEPT !.reload = value]
  BY DEF WriteReload
<1>2. t \in Timer
  BY DEF Sound
<1> HIDE DEF e
<1>3. e \in Timer /\ e.cnt = t.cnt /\ e.csr = t.csr /\ e.counter = t.counter
  BY <1>1, <1>2 DEF Timer
<1>4. Divider(e) = Divider(t)
  BY <1>3 DEF Divider
<1>5. Sound(e, h)
  BY <1>3, <1>4 DEF Sound
<1> QED BY <1>5 DEF e

LEMMA RequestSound ==
  ASSUME NEW t, NEW h, Sound(t, h)
  PROVE  Sound([t EXCEPT !.rq = FALSE], h)
<1> DEFINE e == [t EXCEPT !.rq = FALSE]
<1>1. t \in Timer
  BY DEF Sound
<1>2. e \in Timer /\ e.cnt = t.cnt /\ e.csr = t.csr /\ e.counter = t.counter
  BY <1>1 DEF Timer
<1> HIDE DEF e
<1>3. Divider(e) = Divider(t)
  BY <1>2 DEF Divider
<1>4. Sound(e, h)
  BY <1>2, <1>3 DEF Sound
<1> QED BY <1>4 DEF e

LEMMA Ticks ==
  ASSUME NEW cost \in Costs \cup {0}
  PROVE  cost \in Nat
  BY LoopAssumption

LEMMA TimerStep ==
  ASSUME TimerInv, [Next]_vars
  PROVE  TimerInv'
<1>1. Sound(tve, past) /\ m_nCmdTicks \in Nat /\ 0 \in Nat /\ ResetTicks \in Nat
  BY LoopAssumption DEF TimerInv
<1>2. ASSUME UNCHANGED timer PROVE TimerInv'
  BY <1>2 DEF timer, TimerInv, Sound
<1>3. ASSUME NEW cost \in Costs \cup {0}, Same(cost) PROVE TimerInv'
  BY <1>1, <1>3, Ticks, ElapseSound DEF Same
<1>4. ASSUME NEW k \in Keys \cup Modifiers, NEW down \in BOOLEAN,
             Key(k, down)
      PROVE  TimerInv'
  <2>1. UNCHANGED timer
    BY <1>4 DEF Key, Modifier, KeyCode
  <2> QED BY <1>2, <2>1
<1>5. ASSUME NEW cost \in Costs \cup {0}, TranslateInstruction(cost) PROVE TimerInv'
  <2>1. CASE Instruction(cost) \/ ReadData(cost) \/ (\E mask \in BOOLEAN : WriteMask(cost, mask))
             \/ DispatchKey(cost)
    <3>1. Same(cost)
      BY <2>1 DEF Instruction, ReadData, WriteMask, DispatchKey
    <3> QED BY <1>3, <3>1
  <2>2. CASE WriteTimer(cost)
    <3>1. CASE \E csr \in Controls :
                 LET t == WriteControl(tve, csr) IN Elapse(cost, t, Loaded(t), m_nCmdTicks)
      <4>1. PICK csr \in Controls :
              Elapse(cost, WriteControl(tve, csr), Loaded(WriteControl(tve, csr)), m_nCmdTicks)
        BY <3>1
      <4>2. csr \in SUBSET Control
        BY LoopAssumption
      <4>3. Sound(WriteControl(tve, csr), Loaded(WriteControl(tve, csr)))
        BY <1>1, <4>2, ControlSound
      <4> QED BY <1>1, <4>1, <4>3, Ticks, ElapseSound
    <3>2. CASE \E value \in Reloads :
                 Elapse(cost, WriteReload(tve, value), past, m_nCmdTicks)
      <4>1. PICK value \in Reloads : Elapse(cost, WriteReload(tve, value), past, m_nCmdTicks)
        BY <3>2
      <4>2. Sound(WriteReload(tve, value), past)
        BY <1>1, LoopAssumption, ReloadSound
      <4> QED BY <1>1, <4>1, <4>2, Ticks, ElapseSound
    <3> QED BY <2>2, <3>1, <3>2 DEF WriteTimer
  <2>3. CASE DispatchTimer(cost)
    <3>1. Elapse(cost, [tve EXCEPT !.rq = FALSE], past, m_nCmdTicks)
      BY <2>3 DEF DispatchTimer
    <3> QED BY <1>1, <3>1, RequestSound, Ticks, ElapseSound
  <2> QED BY <1>5, <2>1, <2>2, <2>3 DEF TranslateInstruction
<1>6. CASE RESET
  <2> DEFINE t == WriteControl(tve, {})
  <2>1. Elapse(ResetTicks, t, Loaded(t), 0)
    BY <1>6 DEF RESET
  <2>2. Sound(t, Loaded(t))
    BY <1>1, ControlSound
  <2> HIDE DEF t
  <2> QED BY <1>1, <2>1, <2>2, ElapseSound
<1>7. CASE UNCHANGED vars
  BY <1>2, <1>7 DEF vars
<1> QED BY <1>4, <1>5, <1>6, <1>7 DEF Next

LEMMA TimerInit ==
  ASSUME Init
  PROVE  TimerInv
<1>1. /\ tve.reload = 0 /\ tve.counter = 0 /\ tve.csr = {} /\ tve.cnt = 0 /\ tve \in Timer
  BY TimerAssumption DEF Init, Timer
<1>2. past = [since |-> 0, loaded |-> 0, exact |-> TRUE, expired |-> 0]
  BY DEF Init
<1>3. past \in Past /\ past.since = 0 /\ past.loaded = 0 /\ past.exact
  BY <1>2, TimerAssumption DEF Past
<1>4. Sound(tve, past)
  BY <1>1, <1>3, FreshSound
<1> QED BY <1>4, LoopAssumption DEF TimerInv, Init
-----------------------------------------------------------------------------
(* The keyboard.                                                            *)

\* The countdown over an instruction that starts with countdown and bit.
LEMMA CountdownRange ==
  ASSUME NEW cost \in Nat, NEW c \in 0 .. CleanTicks, NEW bit \in BOOLEAN,
         Countdown(cost, c, bit)
  PROVE  /\ m_nKeyCleanEvent' \in 0 .. CleanTicks /\ ready' \in BOOLEAN
         /\ m_nKeyCleanEvent' > 0 => (c > 0 /\ ready' = bit)
         /\ c = 0 => (ready' = bit /\ m_nKeyCleanEvent' = 0)
         /\ (c > 0 /\ m_nKeyCleanEvent' = 0) => ~ready'
         /\ ready' => bit
<1>1. CleanTicks \in Nat
  BY LoopAssumption
<1>2. CASE c = 0
  BY <1>1, <1>2 DEF Countdown
<1>3. CASE c > 0 /\ c <= cost
  <2>1. m_nKeyCleanEvent' = 0
    BY <1>3 DEF Countdown
  <2>2. ready' = FALSE
    BY <1>3, Zenon DEF Countdown
  <2>3. c # 0 /\ ~(m_nKeyCleanEvent' > 0) /\ m_nKeyCleanEvent' \in 0 .. CleanTicks
    BY <1>1, <1>3, <2>1
  <2> QED BY <2>2, <2>3, Zenon
<1>4. CASE c > cost
  BY <1>1, <1>4 DEF Countdown
<1> QED BY <1>1, <1>2, <1>3, <1>4

LEMMA KeyboardStep ==
  ASSUME KeyboardType, [Next]_vars
  PROVE  KeyboardType'
<1>1. CleanTicks \in Nat \ {0} /\ 0 \in 0 .. CleanTicks /\ CleanTicks \in 0 .. CleanTicks
      /\ ResetTicks \in Nat
  BY LoopAssumption
<1>2. ASSUME NEW k \in Keys \cup Modifiers, NEW down \in BOOLEAN, Key(k, down)
      PROVE  KeyboardType'
  <2>1. CASE k \in Modifiers
    BY <1>2, <2>1 DEF Key, Modifier, KeyboardType, keyboard
  <2>2. CASE k \notin Modifiers
    <3>1. KeyCode(k)
      BY <1>2, <2>2 DEF Key
    <3>2. ready' \in BOOLEAN /\ virq' \in BOOLEAN /\ asked' \in BOOLEAN
      BY <3>1, Zenon DEF KeyCode, KeepReady, KeyboardInterrupt, KeyboardType
    <3>3. unread' \in Unread
      BY <3>1 DEF KeyCode, KeepReady, KeyboardInterrupt, KeyboardType, Unread
    <3> QED BY <2>2, <3>1, <3>2, <3>3 DEF KeyCode, KeyboardType
  <2> QED BY <2>1, <2>2
<1>4. ASSUME NEW cost \in Costs \cup {0}, TranslateInstruction(cost) PROVE KeyboardType'
  <2>0. cost \in Nat
    BY Ticks
  <2> DEFINE c == IF m_nKeyCleanEvent = 0 THEN CleanTicks ELSE m_nKeyCleanEvent
  <2>1. m_nKeyCleanEvent \in 0 .. CleanTicks /\ c \in 0 .. CleanTicks /\ ready \in BOOLEAN
    BY <1>1 DEF KeyboardType
  <2>2. Countdown(cost, m_nKeyCleanEvent, ready) \/ Countdown(cost, c, ready)
    BY <1>4 DEF TranslateInstruction, Instruction, ReadData, WriteMask, WriteTimer,
                DispatchTimer, DispatchKey
  <2> HIDE DEF c
  <2>3. m_nKeyCleanEvent' \in 0 .. CleanTicks /\ ready' \in BOOLEAN
    BY <2>0, <2>1, <2>2, CountdownRange
  <2>4. /\ masked' \in BOOLEAN /\ virq' \in BOOLEAN /\ unread' \in Unread
        /\ asked' \in BOOLEAN
    BY <1>4 DEF TranslateInstruction, Instruction, ReadData, WriteMask, WriteTimer,
                DispatchTimer, DispatchKey, KeyboardType, Unread
  <2>5. UNCHANGED <<data, up, Key_Flags>>
    BY <1>4 DEF TranslateInstruction, Instruction, ReadData, WriteMask, WriteTimer,
                DispatchTimer, DispatchKey
  <2> QED BY <2>3, <2>4, <2>5 DEF KeyboardType
<1>5. CASE RESET
  <2>1. m_nKeyCleanEvent' \in 0 .. CleanTicks /\ ready' \in BOOLEAN
    BY <1>1, <1>5, CountdownRange DEF RESET, KeyboardType
  <2> QED BY <1>5, <2>1 DEF RESET, KeyboardType
<1>6. CASE UNCHANGED vars
  BY <1>6 DEF vars, keyboard, KeyboardType
<1> QED BY <1>2, <1>4, <1>5, <1>6 DEF Next

LEMMA KeyboardInit ==
  ASSUME Init
  PROVE  KeyboardType
<1>1. 0 \in 0 .. CleanTicks
  BY LoopAssumption
<1>2. {} \in SUBSET Modifiers /\ "no" \in Unread
  BY DEF Unread
<1> QED BY <1>1, <1>2 DEF Init, KeyboardType

LEMMA PendingStep ==
  ASSUME KeyboardType, InterruptPending, [Next]_vars
  PROVE  InterruptPending'
<1>1. ASSUME NEW k \in Keys \cup Modifiers, NEW down \in BOOLEAN, Key(k, down)
      PROVE  InterruptPending'
  BY <1>1, Zenon DEF Key, Modifier, KeyCode, KeepReady, KeyboardInterrupt, InterruptPending,
                     keyboard
<1>2. ASSUME NEW cost \in Costs \cup {0}, TranslateInstruction(cost) PROVE InterruptPending'
  BY <1>2 DEF TranslateInstruction, Instruction, ReadData, WriteMask, WriteTimer,
              DispatchTimer, DispatchKey, InterruptPending
<1>3. CASE RESET
  BY <1>3 DEF RESET, InterruptPending
<1>4. CASE UNCHANGED vars
  BY <1>4 DEF vars, keyboard, InterruptPending
<1> QED BY <1>1, <1>2, <1>3, <1>4 DEF Next

\* Every step of a careful guest keeps the countdown for a key that was read, and
\* takes the ready bit back only then.
Kept ==
  /\ (ready /\ ~ready') => (unread' # "announced" \/ up')
  /\ (unread # "silent" /\ unread' = "silent") => m_nKeyCleanEvent > 0

LEMMA CountdownStep ==
  ASSUME Careful, KeyboardType, CountdownInv, [Next]_vars
  PROVE  CountdownInv' /\ Kept
<1>1. CleanTicks \in Nat \ {0} /\ CleanTicks \in 0 .. CleanTicks /\ ResetTicks \in Nat
      /\ ResetTicks >= CleanTicks
  BY LoopAssumption
<1>2. m_nKeyCleanEvent \in 0 .. CleanTicks /\ ready \in BOOLEAN /\ unread \in Unread
  BY DEF KeyboardType
<1>3. ASSUME NEW k \in Keys \cup Modifiers, NEW down \in BOOLEAN, Key(k, down)
      PROVE  CountdownInv' /\ Kept
  <2>1. CASE k \in Modifiers
    BY <1>3, <2>1 DEF Key, Modifier, keyboard, CountdownInv, Kept
  <2>2. CASE k \notin Modifiers /\ ready
    <3>1. ready' = ready /\ m_nKeyCleanEvent' = m_nKeyCleanEvent
      BY <1>3, <2>2 DEF Key, KeyCode, KeepReady
    <3>2. unread' = unread \/ (unread = "no" /\ unread' = "silent")
      BY <1>3, <2>2 DEF Key, KeyCode, KeepReady
    <3> QED BY <2>2, <3>1, <3>2 DEF CountdownInv, Kept
  <2>3. CASE k \notin Modifiers /\ ~ready
    <3>1. m_nKeyCleanEvent' = m_nKeyCleanEvent /\ ~(m_nKeyCleanEvent > 0)
      BY <1>3, <2>3 DEF Key, KeyCode, CountdownInv
    <3>2. ready' /\ unread' = "announced"
      BY <1>3, <2>3 DEF Key, KeyCode, KeyboardInterrupt
    <3> QED BY <2>3, <3>1, <3>2 DEF CountdownInv, Kept
  <2> QED BY <2>1, <2>2, <2>3
<1>4. ASSUME NEW cost \in Costs \cup {0}, TranslateInstruction(cost)
      PROVE  CountdownInv' /\ Kept
  <2>0. cost \in Nat
    BY Ticks
  <2>1. CASE ReadData(cost)
    <3> DEFINE c == IF m_nKeyCleanEvent = 0 THEN CleanTicks ELSE m_nKeyCleanEvent
    <3>1. c \in 0 .. CleanTicks /\ c > 0
      BY <1>1, <1>2
    <3>2. Countdown(cost, c, ready) /\ ready /\ unread' = "no"
      BY <2>1, Zenon DEF ReadData
    <3> HIDE DEF c
    <3>3. m_nKeyCleanEvent' \in 0 .. CleanTicks /\ (m_nKeyCleanEvent' > 0 => (c > 0 /\ ready' = ready))
      BY <1>2, <2>0, <3>1, <3>2, CountdownRange
    <3>4. (c > 0 /\ m_nKeyCleanEvent' = 0) => ~ready'
      BY <1>2, <2>0, <3>1, <3>2, CountdownRange
    <3>5. m_nKeyCleanEvent' \in Nat
      BY <1>1, <3>3
    <3>6. m_nKeyCleanEvent' > 0 \/ m_nKeyCleanEvent' = 0
      BY <3>5
    <3>7. ~(m_nKeyCleanEvent' > 0 /\ m_nKeyCleanEvent' = 0)
      OBVIOUS
    <3>8. m_nKeyCleanEvent' > 0 <=> ready'
      BY <3>1, <3>2, <3>3, <3>4, <3>6, <3>7, Zenon
    <3> QED BY <3>2, <3>8 DEF CountdownInv, Kept
  <2>2. CASE ~ReadData(cost)
    <3>1. Countdown(cost, m_nKeyCleanEvent, ready) /\ unread' = unread
      BY <1>4, <2>2 DEF TranslateInstruction, Instruction, WriteMask, WriteTimer,
                        DispatchTimer, DispatchKey
    <3>2. /\ m_nKeyCleanEvent' > 0 => (m_nKeyCleanEvent > 0 /\ ready' = ready)
          /\ m_nKeyCleanEvent = 0 => (ready' = ready /\ m_nKeyCleanEvent' = 0)
          /\ (m_nKeyCleanEvent > 0 /\ m_nKeyCleanEvent' = 0) => ~ready'
          /\ m_nKeyCleanEvent' \in Nat
      BY <1>1, <1>2, <2>0, <3>1, CountdownRange
    <3>3. CASE m_nKeyCleanEvent = 0
      BY <1>2, <3>1, <3>2, <3>3 DEF CountdownInv, Kept
    <3>4. CASE m_nKeyCleanEvent > 0
      BY <1>2, <3>1, <3>2, <3>4 DEF CountdownInv, Kept
    <3> QED BY <1>1, <1>2, <3>3, <3>4
  <2> QED BY <2>1, <2>2
<1>5. CASE RESET
  <2>1. Countdown(ResetTicks, m_nKeyCleanEvent, FALSE) /\ up' = TRUE /\ unread' = unread
    BY <1>5 DEF RESET
  <2>2. m_nKeyCleanEvent' = 0
    BY <1>1, <1>2, <2>1 DEF Countdown
  <2>3. ready' = FALSE
    BY <2>1, Zenon DEF Countdown
  <2> QED BY <2>1, <2>2, <2>3 DEF CountdownInv, Kept
<1>6. CASE UNCHANGED vars
  BY <1>6 DEF vars, keyboard, CountdownInv, Kept
<1> QED BY <1>3, <1>4, <1>5, <1>6 DEF Next
-----------------------------------------------------------------------------
(* The theorems.                                                            *)

BoardInv == KeyboardType /\ TimerInv /\ InterruptPending

LEMMA Always == Spec => []BoardInv
<1>1. Init => BoardInv
  BY KeyboardInit, TimerInit DEF Init, BoardInv, InterruptPending
<1>2. BoardInv /\ [Next]_vars => BoardInv'
  BY KeyboardStep, TimerStep, PendingStep DEF BoardInv
<1> QED BY <1>1, <1>2, PTL DEF Spec

\* The registers hold what they can hold, and the countdown, the divider and the
\* ticks stay in their ranges.
THEOREM TypeCorrect == Spec => []TypeOK
<1>1. BoardInv => TypeOK
  BY DEF BoardInv, KeyboardType, TimerInv, Sound, TypeOK
<1> QED BY <1>1, Always, PTL

\* A key announced while its interrupt is allowed interrupts the guest.
THEOREM KeyInterrupts == Spec => []InterruptPending
<1>1. BoardInv => InterruptPending
  BY DEF BoardInv
<1> QED BY <1>1, Always, PTL

\* The timer expires exactly when its period is over, for every divider and
\* every value of the registers.
THEOREM TimerExact == Spec => []PeriodExact
<1>1. BoardInv => PeriodExact
  BY DEF BoardInv, TimerInv, Sound, PeriodExact
<1> QED BY <1>1, Always, PTL

\* A one-shot timer expires once for each write to its control register.
THEOREM TimerOnce == Spec => []OneShotOnce
<1>1. BoardInv => OneShotOnce
  <2>1. past \in Past => past.expired \in 0 .. 2
    BY DEF Past
  <2> QED BY <2>1 DEF BoardInv, TimerInv, Sound, OneShotOnce
<1> QED BY <1>1, Always, PTL

\* If the guest reads 177662 only while the ready bit is set, the bit of a key that
\* was announced is taken back only when the guest has read the register, or by
\* RESET; a key comes silently, and can be lost with the bit of another, only
\* while the countdown of one that was read is running.
THEOREM AnnouncedKeyKept == Careful => (Spec => ReadyUntilRead)
<1> SUFFICES ASSUME Careful PROVE Spec => ReadyUntilRead
  OBVIOUS
<1>1. Init => CountdownInv
  BY LoopAssumption DEF Init, CountdownInv
<1>2. KeyboardType /\ CountdownInv /\ [Next]_vars => CountdownInv'
  BY CountdownStep
<1>3. KeyboardType /\ CountdownInv /\ [Next]_vars
        => [ /\ (ready /\ ~ready') => (unread' # "announced" \/ up')
             /\ (unread # "silent" /\ unread' = "silent") => m_nKeyCleanEvent > 0]_vars
  BY CountdownStep DEF Kept
<1>4. BoardInv => KeyboardType
  BY DEF BoardInv
<1> QED BY <1>1, <1>2, <1>3, <1>4, Always, PTL DEF Spec, ReadyUntilRead

=============================================================================
