---------------------------- MODULE MCSharedSync -----------------------------
(* Instances of SharedSync: two notes that hold the same image and one of them *)
(* an attachment, or one note with an image.                                   *)
EXTENDS SharedSync, TLC

CONSTANTS n1, n2, img, att, v1, v2

\* Nothing tells one digest from another.
Alike == Permutations({v1, v2})

FileHolds == {<<n1, img>>, <<n2, img>>, <<n1, att>>}
ImageHold == {<<n1, img>>}

=============================================================================
