-------------------------- MODULE DocumentListener --------------------------
(***************************************************************************)
(* What a page that follows a Firestore document may rely on: it is shown  *)
(* states the document has been in, never an older one after a newer one,  *)
(* and possibly not all of them.  A state is the number of notes the       *)
(* server has written; 0 is also what is shown of a document before the    *)
(* server's data are there.                                                *)
(***************************************************************************)
EXTENDS Naturals

VARIABLES
  note,   \* notes the server has written
  shown   \* the note of the last snapshot shown

Init == note \in Nat /\ shown = 0

Write == note' = note + 1 /\ UNCHANGED shown

Show == shown' \in shown..note /\ UNCHANGED note

Next == Write \/ Show

Spec == Init /\ [][Next]_<<note, shown>>
=============================================================================
