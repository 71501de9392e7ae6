----------------------------- MODULE SharedView ------------------------------
(***************************************************************************)
(* What the shared-note service promises its readers: they see the notes of*)
(* one complete snapshot, less those the server has denied explicitly, and *)
(* a denial outlasts the snapshot that is rebuilt because of it.           *)
(***************************************************************************)
CONSTANT Notes

VARIABLES
    offer,   \* the notes of the snapshot the server made last
    view,    \* the notes readers see
    barred   \* the notes denied since the last publication

vars == <<offer, view, barred>>

Init == offer = {} /\ view = {} /\ barred = {}

Offer(S) == offer' = S /\ UNCHANGED <<view, barred>>

Publish == /\ view' = offer \ barred
           /\ barred' = {}
           /\ UNCHANGED offer

Deny(n) == /\ view' = view \ {n}
           /\ barred' = barred \cup {n}
           /\ UNCHANGED offer

Forget == view' = {} /\ barred' = {} /\ UNCHANGED offer

Next == \/ \E S \in SUBSET Notes : Offer(S)
        \/ Publish
        \/ \E n \in Notes : Deny(n)
        \/ Forget

Spec == Init /\ [][Next]_vars

=============================================================================
