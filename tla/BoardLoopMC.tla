----------------------------- MODULE BoardLoopMC -----------------------------
(***************************************************************************)
(* The ways the guest runs the timer, for TLC.                             *)
(***************************************************************************)
EXTENDS BoardLoop

Modes == {{"RUN", "MON", "OS"}, {"RUN", "CAP", "DIV"}, {"RUN", "SP"}}
=============================================================================
