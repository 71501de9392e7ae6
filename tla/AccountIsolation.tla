-------------------------- MODULE AccountIsolation --------------------------
(***************************************************************************)
(* What app_sync_control.go promises of the jobs that write an account's   *)
(* cache (the registered sync operation, the background downloads, the     *)
(* shared-note service): a job starts for the account that is active, and  *)
(* the active account changes only once every job has come to its end.     *)
(***************************************************************************)
CONSTANTS
    Jobs,      \* kinds of writers
    Accounts,  \* users in the database
    None       \* nobody: no active user, no writer

VARIABLES
    account,   \* the active user
    writes     \* kind of writer -> account it writes to, or None

vars == <<account, writes>>

Init == /\ account \in Accounts \cup {None}
        /\ writes = [j \in Jobs |-> None]

Start(j) == /\ writes[j] = None
            /\ account # None
            /\ writes' = [writes EXCEPT ![j] = account]
            /\ UNCHANGED account

Stop(j) == /\ writes[j] # None
           /\ writes' = [writes EXCEPT ![j] = None]
           /\ UNCHANGED account

Switch(a) == /\ \A j \in Jobs : writes[j] = None
             /\ account' = a
             /\ UNCHANGED writes

Next == \/ \E j \in Jobs : Start(j) \/ Stop(j)
        \/ \E a \in Accounts \cup {None} : Switch(a)

Spec == Init /\ [][Next]_vars

=============================================================================
