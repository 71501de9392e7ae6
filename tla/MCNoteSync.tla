----------------------------- MODULE MCNoteSync -----------------------------
(* Small instances of NoteSync; the configurations choose the bounds. *)
EXTENDS NoteSync

\* Enough ids for every bound used: two to begin with, one per text typed and
\* its upload, its conflict copy and the upload of that, one per lost answer.
MCIds == 1..8

=============================================================================
