---------------------------- MODULE MCNotebooks -----------------------------
(* Instances of Notebooks.  Ids are interchangeable, and so are titles; the   *)
(* runs of temporal properties do without the symmetry.                       *)
EXTENDS Notebooks

SymmetryOfNames == Permutations(Ids) \cup Permutations(Titles)

=============================================================================
