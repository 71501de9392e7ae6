---------------------------- MODULE MCSyncControl ---------------------------
(* Small instances of SyncControl; the configurations choose the requests. *)
EXTENDS SyncControl

=============================================================================
