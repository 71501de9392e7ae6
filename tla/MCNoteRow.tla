------------------------------ MODULE MCNoteRow ------------------------------
(* Instances of NoteRow.                                                      *)
EXTENDS NoteRow, TLC

CONSTANTS r1, r2

\* Requests are interchangeable.
Alike == Permutations({r1, r2})

=============================================================================
