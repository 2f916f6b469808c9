--------------------------- MODULE HangupEscalation ---------------------------
(***************************************************************************)
(* What BK/devemu/CPU.cpp says of bus hangups, without the processor.  By  *)
(* the table of interrupts a hangup in ordinary work is a plain one, or a  *)
(* vector error; a hangup in the entry of a plain hangup's trap is a       *)
(* double one, and in the entry of a double one's, which is no longer the  *)
(* first exception, a plain one again.  Of the entry of a vector error's   *)
(* trap the table is silent, and a comment of InterruptDispatch expects a  *)
(* double hangup there: either is allowed.  No hangup is dropped: its trap *)
(* is the very next thing to be entered.                                   *)
(***************************************************************************)

VARIABLES
  level,    \* the hangup that is pending
  trap      \* the hangup whose trap the last step entered

Levels == {"none", "plain", "double", "vector"}

Init == level = "none" /\ trap = "none"

\* Work without a hangup.
Work == level = "none" /\ level' = "none" /\ trap' = "none"

\* An instruction, or the entry of an interrupt, hangs up.
Raise == level = "none" /\ level' \in {"plain", "vector"} /\ trap' = "none"

\* The entry of the pending hangup's trap hangs up in its turn.
Escalate ==
  /\ level # "none"
  /\ trap' = level
  /\ level' \in CASE level = "plain"  -> {"double"}
                   [] level = "double" -> {"plain"}
                   [] level = "vector" -> {"plain", "double"}

\* The trap is entered, or a reset forgets the hangup.
Serve == level # "none" /\ level' = "none" /\ trap' \in {level, "none"}

Next == Work \/ Raise \/ Escalate \/ Serve

Spec == Init /\ [][Next]_<<level, trap>>

=============================================================================
