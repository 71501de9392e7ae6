-------------------------------- MODULE Tags --------------------------------
(***************************************************************************)
(* The index of tags: the tags table (db/tag_repo.go), what the user does  *)
(* to it (webapi/local.go, app.go) and the part of a round that uploads    *)
(* and downloads it (sync/push.go, sync/pull.go).  The notes that carry a  *)
(* tag are the set used; they are synchronised by NoteSync.  A tag is      *)
(* known by its name, here and on the server.                              *)
(***************************************************************************)
EXTENDS Naturals, FiniteSets

CONSTANTS
    Names,          \* names of tags
    None,           \* no request under way
    MaxRemote,      \* bound: changes of the other devices
    MaxEdits,       \* bound: operations of the user
    MaxFaults,      \* bound: lost requests, lost answers, rounds cut off
    MaxRefused      \* bound: tags the server refuses

ASSUME TagsAssumption ==
    /\ IsFiniteSet(Names) /\ None \notin Names
    /\ {MaxRemote, MaxEdits, MaxFaults, MaxRefused} \subseteq Nat

VARIABLES
    srv,        \* the server's tags, tombstones included
    rows,       \* the tags table
    used,       \* tags of the visible notes
    last,       \* users.last_sync_usn
    pc, mode, pass, queue,  \* the round, and the tags its loop has still to handle
    snap,       \* GetDirtyTags' rows, then the server's list
    from,       \* lastUsn: the cursor as the round has read it before its upload
    state,      \* getSyncState's answer
    cur, reply, \* the tag a request or a count is about, and the request's answer
    failed,     \* firstErr # nil
    count       \* bounds

round == <<pc, mode, pass, queue, snap, from, state, cur, reply, failed>>
vars  == <<srv, rows, used, last, round, count>>

-----------------------------------------------------------------------------

\* The server's entry: known from the first time it was added.
Entry == [known : BOOLEAN, live : BOOLEAN, usn : Nat]

\* hidden: local_is_delete.
Row == [here : BOOLEAN, dirty : BOOLEAN, hidden : BOOLEAN, usn : Nat]

Answer == [kind : {"none", "ok", "deleted", "error"}, usn : Nat]

Counters == {"remote", "edits", "faults", "refused"}

NoRow == [here |-> FALSE, dirty |-> FALSE, hidden |-> FALSE, usn |-> 0]
Clean(usn) == [NoRow EXCEPT !.here = TRUE, !.usn = usn]
NoSnap == [t \in Names |-> NoRow]
Reply(kind, usn) == [kind |-> kind, usn |-> usn]
Silent == Reply("none", 0)

Here == {t \in Names : rows[t].here}
Visible == {t \in Here : ~rows[t].hidden}           \* GetTags
Dirty == {t \in Here : rows[t].dirty}               \* GetDirtyTags

\* The server's USN.
Top == LET usns == {srv[t].usn : t \in Names} \cup {0} IN CHOOSE n \in usns : \A m \in usns : m <= n

Counted(c) == count' = [count EXCEPT ![c] = @ + 1]

\* A new account, or one whose tags an earlier sync has brought.
Init ==
    /\ \E set \in SUBSET Names :
         /\ srv = [t \in Names |-> [known |-> t \in set, live |-> t \in set, usn |-> IF t \in set THEN 1 ELSE 0]]
         /\ used \in SUBSET set
         /\ rows = [t \in Names |-> IF t \in set THEN Clean(1) ELSE NoRow]
    /\ last = Top
    /\ pc = "idle" /\ mode = "incr" /\ pass = 1 /\ queue = {} /\ snap = NoSnap /\ from = 0 /\ state = 0
    /\ cur = None /\ reply = Silent /\ failed = FALSE
    /\ count = [c \in Counters |-> 0]

-----------------------------------------------------------------------------
(* The server and the other devices                                        *)

Written(t, live) == [srv EXCEPT ![t] = [known |-> TRUE, live |-> live, usn |-> Top + 1]]

RemoteStep ==
    /\ count.remote < MaxRemote /\ Counted("remote")
    /\ UNCHANGED <<rows, last, round>>

RemoteAdd == \E t \in Names :
    ~srv[t].live /\ srv' = Written(t, TRUE) /\ RemoteStep /\ UNCHANGED used

RemoteDelete == \E t \in Names :
    srv[t].live /\ srv' = Written(t, FALSE) /\ RemoteStep /\ UNCHANGED used

\* A note that carries the tag arrives or goes.
RemoteNote == \E t \in Names :
    /\ used' = IF t \in used THEN used \ {t} ELSE used \cup {t}
    /\ srv' = srv /\ RemoteStep

-----------------------------------------------------------------------------
(* The user                                                                *)

UserStep ==
    /\ count.edits < MaxEdits /\ Counted("edits")
    /\ UNCHANGED <<srv, last, round>>

\* AddOrUpdateTag without a USN: a row that is there, hidden or not, stays.
Indexed(t) == IF rows[t].here THEN rows
              ELSE [rows EXCEPT ![t] = [NoRow EXCEPT !.here = TRUE, !.dirty = TRUE]]

\* save, touchTags: a note gets a tag, and an index row with it.
TagNote == \E t \in Names \ used :
    rows' = Indexed(t) /\ used' = used \cup {t} /\ UserStep

\* The last note loses the tag: the index is not looked at.
UntagNote == \E t \in used :
    used' = used \ {t} /\ UserStep /\ UNCHANGED rows

AddTag == \E t \in Names \ Here :
    rows' = Indexed(t) /\ UserStep /\ UNCHANGED used

DeleteTag == \E t \in Here :
    /\ rows' = [rows EXCEPT ![t].dirty = TRUE, ![t].hidden = TRUE]
    /\ UserStep /\ UNCHANGED used

-----------------------------------------------------------------------------
(* Uploading: sendTagChanges                                               *)

Collect ==
    /\ pc' = "push" /\ queue' = Dirty /\ failed' = FALSE
    /\ snap' = [t \in Names |-> IF t \in Dirty THEN rows[t] ELSE NoRow]

Start(m) ==
    /\ pc = "idle" /\ mode' = m /\ pass' = 1 /\ from' = IF m = "incr" THEN last ELSE 0
    /\ Collect
    /\ UNCHANGED <<srv, rows, used, last, state, cur, reply, count>>

\* tag/addTag answers with the tag, new or not.
ServerAdd(t) == srv' = IF srv[t].live THEN srv ELSE Written(t, TRUE)

\* tag/deleteTag compares the USN the client sends.
ServerDelete(t, usn) == srv' = IF srv[t].live /\ srv[t].usn = usn THEN Written(t, FALSE) ELSE srv

Request(t) ==
    /\ pc = "push" /\ t \in queue /\ pc' = "answer"
    /\ IF snap[t].hidden
       THEN /\ ServerDelete(t, snap[t].usn)
            /\ reply' = IF srv' # srv THEN Reply("deleted", srv'[t].usn) ELSE Reply("error", 0)
       ELSE ServerAdd(t) /\ reply' = Reply("ok", srv'[t].usn)
    /\ cur' = t /\ queue' = queue \ {t}
    /\ UNCHANGED <<rows, used, last, mode, pass, snap, from, state, failed, count>>

\* A refused addTag: Client.AddTag reads {Ok: false} as a tag with USN 0.
RefuseTag(t) ==
    /\ pc = "push" /\ t \in queue /\ ~snap[t].hidden /\ pc' = "answer"
    /\ count.refused < MaxRefused /\ Counted("refused")
    /\ reply' = Reply("ok", 0) /\ cur' = t /\ queue' = queue \ {t}
    /\ UNCHANGED <<srv, rows, used, last, mode, pass, snap, from, state, failed>>

LoseRequest(t) ==
    /\ pc = "push" /\ t \in queue /\ queue' = queue \ {t}
    /\ count.faults < MaxFaults /\ Counted("faults")
    /\ failed' = TRUE
    /\ UNCHANGED <<srv, rows, used, last, pc, mode, pass, snap, from, state, cur, reply>>

LoseAnswer ==
    /\ pc = "answer" /\ reply.kind # "error" /\ reply' = Reply("error", 0)
    /\ count.faults < MaxFaults /\ Counted("faults")
    /\ UNCHANGED <<srv, rows, used, last, pc, mode, pass, queue, snap, from, state, cur, failed>>

\* SetTagNotDirtyAndUsn: whatever the row holds by now, hidden included.
Stamped(t, usn) == [rows EXCEPT ![t] = IF @.here THEN [@ EXCEPT !.dirty = FALSE, !.usn = usn] ELSE @]

\* SetTagNotDirty: a deleted tag stays, hidden.
Settled(t) == [rows EXCEPT ![t].dirty = FALSE]

Answered ==
    /\ pc = "answer" /\ pc' = "push" /\ cur' = None /\ reply' = Silent
    /\ UNCHANGED <<srv, used, mode, pass, queue, snap, from, state, count>>

\* Mutant of Advanced: the cursor follows every later answer.
AdvancedPast == IF reply.usn > last THEN reply.usn ELSE last

\* The cursor follows an answer that is the next change.
Advanced == IF reply.usn = last + 1 THEN reply.usn ELSE last

Acknowledge ==
    /\ reply.kind = "ok" /\ Answered
    /\ rows' = Stamped(cur, reply.usn)
    /\ last' = Advanced
    /\ UNCHANGED failed

AcknowledgeDelete ==
    /\ reply.kind = "deleted" /\ Answered
    /\ rows' = IF rows[cur].here THEN Settled(cur) ELSE rows
    /\ last' = Advanced
    /\ UNCHANGED failed

RecordError ==
    /\ reply.kind = "error" /\ Answered
    /\ failed' = TRUE /\ UNCHANGED <<rows, last>>

Rest == /\ pc' = "idle" /\ mode' = "incr" /\ pass' = 1 /\ queue' = {} /\ snap' = NoSnap /\ from' = 0
        /\ state' = 0 /\ cur' = None /\ reply' = Silent /\ failed' = FALSE

EndUpload ==
    /\ pc = "push" /\ queue = {}
    /\ IF failed \/ pass = 2 THEN Rest
       ELSE pc' = "state" /\ UNCHANGED <<mode, pass, queue, snap, from, state, cur, reply, failed>>
    /\ last' = IF ~failed /\ pass = 2 /\ mode = "full" THEN state ELSE last
    /\ UNCHANGED <<srv, rows, used, count>>

CutOff ==
    /\ pc # "idle" /\ count.faults < MaxFaults /\ Counted("faults")
    /\ Rest /\ UNCHANGED <<srv, rows, used, last>>

-----------------------------------------------------------------------------
(* Downloading: syncTags                                                   *)

\* A round downloads again what it has uploaded.
ReadState ==
    /\ pc = "state" /\ state' = Top
    /\ IF mode = "incr" /\ Top <= from THEN Collect /\ pass' = 2
       ELSE pc' = "pull" /\ UNCHANGED <<pass, queue, snap, failed>>
    /\ UNCHANGED <<srv, rows, used, last, mode, from, cur, reply, count>>

\* The list, as rows: hidden is the tombstone.
GetSyncTags ==
    /\ pc = "pull" /\ pc' = "merge"
    /\ snap' = [t \in Names |-> IF srv[t].known THEN [Clean(srv[t].usn) EXCEPT !.hidden = ~srv[t].live] ELSE NoRow]
    /\ queue' = {t \in Names : srv[t].known /\ (mode = "full" \/ srv[t].usn > from)}
    /\ UNCHANGED <<srv, rows, used, last, mode, pass, from, state, cur, reply, failed, count>>

\* Mutant of Merged: the tombstone of a tag that notes still carry is skipped.
MergedUnused(t, entry) ==
    IF entry.hidden THEN (IF t \in used THEN rows ELSE [rows EXCEPT ![t] = NoRow])
    ELSE IF rows[t].here THEN Stamped(t, entry.usn)
    ELSE [rows EXCEPT ![t] = Clean(entry.usn)]

\* processTagSync.
Merged(t, entry) ==
    IF entry.hidden THEN [rows EXCEPT ![t] = NoRow]
    ELSE IF rows[t].here THEN Stamped(t, entry.usn)
    ELSE [rows EXCEPT ![t] = Clean(entry.usn)]

MergeTag ==
    /\ pc = "merge"
    /\ \E t \in queue : rows' = Merged(t, snap[t]) /\ queue' = queue \ {t}
    /\ UNCHANGED <<srv, used, last, pc, mode, pass, snap, from, state, cur, reply, failed, count>>

\* After a full download CleanupUnusedTags lists the visible tags; ...
EndMerge ==
    /\ pc = "merge" /\ queue = {}
    /\ IF mode = "full"
       THEN pc' = "cleanup" /\ queue' = Visible /\ UNCHANGED <<pass, snap, failed>>
       ELSE Collect /\ pass' = 2
    /\ UNCHANGED <<srv, rows, used, last, mode, from, state, cur, reply, count>>

\* counts the visible notes that carry one; ...
CountTag(t) ==
    /\ pc = "cleanup" /\ t \in queue /\ queue' = queue \ {t}
    /\ IF t \in used THEN UNCHANGED <<pc, cur>> ELSE pc' = "unused" /\ cur' = t
    /\ UNCHANGED <<srv, rows, used, last, mode, pass, snap, from, state, reply, failed, count>>

\* deletes it when there were none, whatever the row or a note has become; ...
DeleteUnused ==
    /\ pc = "unused" /\ pc' = "cleanup" /\ cur' = None
    /\ rows' = [rows EXCEPT ![cur] = NoRow]
    /\ UNCHANGED <<srv, used, last, mode, pass, queue, snap, from, state, reply, failed, count>>

\* and the second upload begins.
PushAgain ==
    /\ pc = "cleanup" /\ queue = {} /\ pass' = 2 /\ Collect
    /\ UNCHANGED <<srv, rows, used, last, mode, from, state, cur, reply, count>>

-----------------------------------------------------------------------------

Remote == RemoteAdd \/ RemoteDelete \/ RemoteNote
User == TagNote \/ UntagNote \/ AddTag \/ DeleteTag
Faults == (\E t \in Names : LoseRequest(t) \/ RefuseTag(t)) \/ LoseAnswer \/ CutOff

Round == \/ \E t \in Names : Request(t) \/ CountTag(t)
         \/ Acknowledge \/ AcknowledgeDelete \/ RecordError \/ EndUpload
         \/ ReadState \/ GetSyncTags \/ MergeTag \/ EndMerge \/ DeleteUnused \/ PushAgain

Next == Remote \/ User \/ Faults \/ Round \/ Start("full") \/ Start("incr")

\* A round goes on, and the timer starts incremental ones.
Fairness == WF_vars(Round) /\ WF_vars(Start("incr"))

Spec == Init /\ [][Next]_vars /\ Fairness

-----------------------------------------------------------------------------
(* Properties                                                              *)

\* Every variable has its type; a row that is not there is empty, and one
\* that was never uploaded, so that it has no USN, is waiting to be, or hidden.
TypeOK ==
    /\ srv \in [Names -> Entry] /\ rows \in [Names -> Row] /\ snap \in [Names -> Row]
    /\ \A t \in Names : IF rows[t].here
                        THEN rows[t].usn = 0 /\ count.refused = 0 => rows[t].dirty \/ rows[t].hidden
                        ELSE rows[t] = NoRow
    /\ used \subseteq Names /\ queue \subseteq Names /\ cur \in Names \cup {None}
    /\ last \in Nat /\ from \in Nat /\ state \in Nat /\ reply \in Answer
    /\ pc \in {"idle", "push", "answer", "state", "pull", "merge", "cleanup", "unused"}
    /\ mode \in {"full", "incr"} /\ pass \in {1, 2} /\ failed \in BOOLEAN
    /\ count \in [Counters -> Nat]

\* A tag that is shown as synchronised is on the server, or its deletion is
\* still ahead of the cursor, so that a later download brings it: no answer,
\* late download or concurrent deletion settles a row the server does not have
\* and then steps over the tombstone.
CleanTagOnServer ==
    \A t \in Visible : ~rows[t].dirty /\ count.refused = 0 =>
        srv[t].live \/ srv[t].usn > last

\* The deletions of the other devices arrive while nobody edits tags here, also
\* when rounds are cut off.  (An upload in between may stop every download: see
\* DownloadsResume.)
TombstonesArrive == <>[](count["edits"] = 0 => \A t \in Visible : srv[t].live)

-----------------------------------------------------------------------------
(* What a doc, a comment or a test says, and the code does not do.  TLC finds *)
(* a counterexample to each; section 5 of the README has the constants.       *)

\* "checkAPIResponse turns the server's {Ok:false} response into an error"
\* (client_api.go:377): a refused tag is not taken for a synchronised one.
RefusedTagStaysDirty ==
    \A t \in Visible : ~rows[t].dirty => srv[t].known

\* "Always protect local work first" (sync.go:124): a deletion the server has
\* not accepted stays queued when a download meets it.
PullKeepsDeletion ==
    [][pc = "merge" => \A t \in Here : rows[t].hidden /\ rows[t].dirty =>
                           ~rows'[t].here \/ rows'[t].dirty]_vars

\* A round gets past its upload again and again (push.go:252).
DownloadsResume == []<>(pc = "state")

=============================================================================
