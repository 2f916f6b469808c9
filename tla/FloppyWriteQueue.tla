--------------------------- MODULE FloppyWriteQueue ---------------------------
(***************************************************************************)
(* What the write side of the floppy controller promises: the guest's      *)
(* words go to the disk in the order in which they were given, through two *)
(* places.  When the queue of a block runs dry, its checksum takes one of  *)
(* the places and goes out before anything given after it.                 *)
(***************************************************************************)
EXTENDS Integers, Sequences

CONSTANTS Words, None, Checksum

VARIABLES
  q,         \* the words given and not yet written
  sealing,   \* a checksum is to be written before them
  out        \* what was written last

Init == q = <<>> /\ sealing = FALSE /\ out = None

Taken == Len(q) + IF sealing THEN 1 ELSE 0

Put(w) == Taken < 2 /\ q' = Append(q, w) /\ UNCHANGED <<sealing, out>>

\* A word given without a request takes the place of the one before.
Overrun(w) == Taken = 2 /\ q' = [q EXCEPT ![Len(q)] = w] /\ UNCHANGED <<sealing, out>>

Write ==
  /\ ~sealing /\ q # <<>>
  /\ out' = Head(q) /\ q' = Tail(q)
  /\ sealing' \in {FALSE, Len(q) = 1}

Seal == sealing /\ out' = Checksum /\ sealing' = FALSE /\ UNCHANGED q

\* The guest turns to reading.
Drop == q' = <<>> /\ sealing' = FALSE /\ UNCHANGED out

Next == (\E w \in Words : Put(w) \/ Overrun(w)) \/ Write \/ Seal \/ Drop

Spec == Init /\ [][Next]_<<q, sealing, out>>

=============================================================================
