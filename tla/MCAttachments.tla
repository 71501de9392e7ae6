---------------------------- MODULE MCAttachments ----------------------------
(* Instances of Attachments. The configuration chooses the bounds.            *)
EXTENDS Attachments

=============================================================================
