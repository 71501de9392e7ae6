-------------------------- MODULE MCMediaDownloads ---------------------------
(* Instances of MediaDownloads. The configuration chooses the bounds.         *)
EXTENDS MediaDownloads

=============================================================================
