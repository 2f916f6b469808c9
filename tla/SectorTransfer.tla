---------------------------- MODULE SectorTransfer ----------------------------
(***************************************************************************)
(* What a drive promises about the data register: a command that moves     *)
(* data moves whole sectors, in the order in which they lie on the disk,   *)
(* each word once, and as many of them as the command was given.  It ends  *)
(* early only with an error or a reset.                                    *)
(***************************************************************************)
EXTENDS Integers

CONSTANTS Drives, First, Last, SectorWords, MaxCount

VARIABLE transfer   \* what each drive is doing

Transfer == [state : {"idle", "in", "out", "failed"},
             sector : First .. Last, word : 0 .. SectorWords, left : Int,
             signature : BOOLEAN]

Idle   == {"idle", "failed"}
Moving == {"in", "out"}

Init == transfer = [d \in Drives |->
          [state |-> "idle", sector |-> First, word |-> 0, left |-> 1,
           signature |-> FALSE]]

\* A command begins with the first word of a sector, or moves nothing.
Start(s, t) == s.state \in Idle /\ (t.state \in Moving => t.word = 0 /\ t.left < MaxCount)

Word(s, t) ==
  /\ s.state \in Moving /\ s.word < SectorWords - 1
  /\ t = [s EXCEPT !.word = @ + 1]

Sector(s, t) ==
  /\ s.state \in Moving /\ s.word = SectorWords - 1 /\ s.left > 0
  /\ t = [s EXCEPT !.sector = @ + 1, !.word = 0, !.left = @ - 1]

End(s, t) ==
  /\ s.state \in Moving /\ s.word = SectorWords - 1 /\ s.left = 0
  /\ t = [s EXCEPT !.state = "idle", !.word = 0]

Error(s, t) == s.state \in Moving /\ t.state = "failed"

\* A reset shows: by the signature, or by a buffer that has gone back to First.
Reset(t) ==
  /\ t.state = "idle" /\ t.word = 0 /\ t.left = 1
  /\ t.signature \/ t.sector = First

Next ==
  /\ transfer' \in [Drives -> Transfer]
  /\ \A d \in Drives :
       \/ transfer'[d] = transfer[d]
       \/ Start(transfer[d], transfer'[d]) \/ Word(transfer[d], transfer'[d])
       \/ Sector(transfer[d], transfer'[d]) \/ End(transfer[d], transfer'[d])
       \/ Error(transfer[d], transfer'[d]) \/ Reset(transfer'[d])

Spec == Init /\ [][Next]_transfer
=============================================================================
