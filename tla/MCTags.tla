------------------------------- MODULE MCTags --------------------------------
(* Instances of Tags. The configuration chooses the bounds.                   *)
EXTENDS Tags

=============================================================================
