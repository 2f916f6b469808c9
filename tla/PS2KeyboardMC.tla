---------------------------- MODULE PS2KeyboardMC ----------------------------
(***************************************************************************)
(* Scan codes of every length and Num Lock, for TLC.                       *)
(***************************************************************************)
EXTENDS PS2Keyboard

KeyCodes == {<<"key">>, <<"E0", "F0", "key">>, <<"num">>, <<"F0", "num">>}
=============================================================================
