------------------------------ MODULE HardDiskMC ------------------------------
(***************************************************************************)
(* What the files of the drives refuse in one access, for TLC.             *)
(***************************************************************************)
EXTENDS HardDisk

MayFail == {{}, {Service, 1}}

Selections == {<<FALSE, FALSE, 1>>, <<FALSE, TRUE, 0>>, <<TRUE, FALSE, 1>>}
=============================================================================
