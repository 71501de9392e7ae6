----------------------------- MODULE Notebooks ------------------------------
(***************************************************************************)
(* The tree of notebooks: the notebooks table (db/notebook_repo.go), the   *)
(* user's operations on it (webapi/local.go, app.go) and the part of a     *)
(* round that uploads and downloads it (sync/push.go, sync/pull.go,        *)
(* sync/sync.go), full and incremental, against a server that other        *)
(* devices change and that may be restored from a backup.                  *)
(*                                                                         *)
(* Local ids and server ids are drawn from one set: a notebook that is     *)
(* pulled keeps the server's id as its local one, one created here gets    *)
(* another id when the server adds it.  The server's list is one page.     *)
(* Reading a row and writing it back is one step; sequence numbers, blog   *)
(* flags and counts follow the title and are left out.                     *)
(***************************************************************************)
EXTENDS Naturals, FiniteSets, SequencesExt

CONSTANTS
    Ids,            \* ids of notebooks, local and of the server
    Titles,         \* titles
    None,           \* no parent, no server id, no notebook
    Bindings,       \* whether App's bindings are used beside the local bridge
    MaxKept,        \* bound: notebooks the server starts with
    MaxRemote,      \* bound: changes of the other devices
    MaxEdits,       \* bound: operations of the user
    MaxFaults,      \* bound: requests that fail, rounds that are cut off
    MaxRestored     \* bound: restorations of the server from its backup

ASSUME NotebooksAssumption ==
    /\ IsFiniteSet(Ids) /\ IsFiniteSet(Titles) /\ Titles # {}
    /\ None \notin Ids \cup Titles /\ Bindings \in BOOLEAN
    /\ {MaxKept, MaxRemote, MaxEdits, MaxFaults, MaxRestored} \subseteq Nat

VARIABLES
    srv,        \* the server: its notebooks and its USN
    saved,      \* the server's backup
    rows,       \* the notebooks table
    noted,      \* local ids of notebooks that hold a visible note
    trashed,    \* local ids of notebooks that hold a note of the trash or a deleted one
    last,       \* users.last_sync_usn
    pc,         \* where the round is
    mode,       \* FullSync or IncrSync
    pass,       \* which sendChanges of the round
    from,       \* lastUsn: the cursor as the round has read it before its upload
    queue,      \* notebooks the loop has still to handle
    snap,       \* the rows a query of the round has read
    page,       \* the server's list
    top,        \* getSyncState's answer
    cur, reply, \* the notebook whose request is under way, and its answer
    failed,     \* firstErr # nil
    stuck,      \* observation: rows the foreign key of the notes kept in this round
    touched,    \* observation: rows the user wrote since GetDirtyNotebooks
    count       \* bounds

notes == <<noted, trashed>>
table == <<rows, notes>>
round == <<pc, mode, pass, from, queue, snap, page, top, cur, reply, failed, stuck>>
vars  == <<srv, saved, table, last, round, touched, count>>

-----------------------------------------------------------------------------

\* An object of the server; its id is the index.  A deleted one is a tombstone.
Object == [state : {"unused", "live", "deleted"}, parent : Ids \cup {None},
           title : Titles \cup {None}, usn : Nat]

\* hidden: local_is_delete; new: local_is_new; sid: server_notebook_id.
Row == [here : BOOLEAN, sid : Ids \cup {None}, parent : Ids \cup {None},
        title : Titles \cup {None}, usn : Nat,
        dirty : BOOLEAN, new : BOOLEAN, hidden : BOOLEAN]

Counters == {"remote", "edits", "faults", "restored"}

NoObject == [state |-> "unused", parent |-> None, title |-> None, usn |-> 0]
NoRow == [here |-> FALSE, sid |-> None, parent |-> None, title |-> None, usn |-> 0,
          dirty |-> FALSE, new |-> FALSE, hidden |-> FALSE]

Live == {s \in Ids : srv.nb[s].state = "live"}
Here == {i \in Ids : rows[i].here}
Visible == {i \in Here : ~rows[i].hidden}       \* GetNotebooks
Held == noted \cup trashed                      \* by the foreign key of the notes

\* utils.ObjectId: an id nobody mentions.
Fresh == {x \in Ids : /\ srv.nb[x].state = "unused" /\ page[x].state = "unused"
                      /\ \A i \in Ids : x \notin {rows[i].sid, rows[i].parent, snap[i].sid}
                      /\ \A s \in Ids : srv.nb[s].parent # x
                      /\ ~rows[x].here /\ ~snap[x].here /\ x \notin {cur, reply.id}}

Counted(c) == count' = [count EXCEPT ![c] = @ + 1]

NoRows == [i \in Ids |-> NoRow]
NoObjects == [s \in Ids |-> NoObject]

Silent == [kind |-> "none", id |-> None, object |-> NoObject]

Cached(nb) == [s \in Ids |-> IF nb[s].state # "live" THEN NoRow
    ELSE [NoRow EXCEPT !.here = TRUE, !.sid = s, !.parent = nb[s].parent,
                       !.title = nb[s].title, !.usn = nb[s].usn]]

\* A notebook of the user's, not uploaded yet.
Created(title) == [NoRow EXCEPT !.here = TRUE, !.title = title, !.dirty = TRUE, !.new = TRUE]

\* A server with some notebooks at the root, cached by an earlier sync or not,
\* and perhaps the user's first edit: a notebook created here, with one note,
\* which is in the trash.
Init ==
    /\ \E set \in {s \in SUBSET Ids : Cardinality(s) <= MaxKept}, title \in Titles :
       \E order \in Bijection(set, 1..Cardinality(set)) :
         srv = [top |-> Cardinality(set), nb |-> [s \in Ids |->
                  IF s \notin set THEN NoObject
                  ELSE [state |-> "live", parent |-> None, title |-> title, usn |-> order[s]]]]
    /\ saved = srv
    /\ \/ rows = Cached(srv.nb) /\ last = srv.top /\ trashed = {}
       \/ rows = NoRows /\ last = 0 /\ trashed = {}
       \/ /\ MaxEdits > 0 /\ last = srv.top
          /\ \E i \in {s \in Ids : srv.nb[s].state = "unused"}, title \in Titles :
               rows = [Cached(srv.nb) EXCEPT ![i] = Created(title)] /\ trashed = {i}
    /\ noted = {} /\ pc = "idle" /\ mode = "incr" /\ pass = 1 /\ from = 0 /\ queue = {}
    /\ snap = NoRows /\ page = NoObjects /\ top = 0
    /\ cur = None /\ reply = Silent /\ failed = FALSE /\ stuck = {} /\ touched = {}
    /\ count = [c \in Counters |-> IF c = "edits" /\ trashed # {} THEN 1 ELSE 0]

-----------------------------------------------------------------------------
(* The tree                                                                *)

\* The notebooks met on the way up from i, i first; the way leaves the tree
\* at a parent that is no member, or goes on round a cycle.
Up(parents) == [i \in DOMAIN parents \cup {None} |->
    IF i \in DOMAIN parents /\ parents[i] \in DOMAIN parents THEN parents[i] ELSE None]

Climb(parents, i) ==
    LET up == Up(parents)
        climb[k \in 0..Cardinality(DOMAIN parents)] == IF k = 0 THEN i ELSE up[climb[k - 1]]
    IN  climb

\* i and its ancestors, and whether i is one of its own ancestors.
Above(parents, i) == Range(Climb(parents, i)) \ {None}
Cyclic(parents, i) == \E k \in 1..Cardinality(DOMAIN parents) : Climb(parents, i)[k] = i

\* Mutant of Promote: only a notebook that is its own parent loses it.
PromoteSelf(parents, i) ==
    IF parents[i] = i THEN [parents EXCEPT ![i] = None] ELSE parents

\* Mutant of Promote: the notebook the walk began with loses its parent.
PromoteFirst(parents, i) ==
    LET climb == Climb(parents, i)
    IN  IF climb[Cardinality(DOMAIN parents)] = None THEN parents ELSE [parents EXCEPT ![i] = None]

\* The notebook whose parent the walk from i has already seen loses its parent.
Promote(parents, i) ==
    LET climb == Climb(parents, i)
        repeats == {k \in DOMAIN climb \ {0} : climb[k] # None /\ \E j \in 0..(k - 1) : climb[j] = climb[k]}
    IN  IF repeats = {} THEN parents
        ELSE [parents EXCEPT ![climb[Min(repeats) - 1]] = None]

\* MapNotebooks and RestoreNotebookParents walk up from every notebook in turn,
\* in the order of the query: what the parents may become.
BreakCycles(parents) == {FoldLeft(Promote, parents, order) : order \in SetToSeqs(DOMAIN parents)}

\* The same said of the cycles: each loses one of its parents.
CutCycles(parents) ==
    LET cyclic == {i \in DOMAIN parents : Cyclic(parents, i)}
        cuts == {cut \in SUBSET cyclic :
                   \A i \in cyclic : Cardinality(cut \cap Above(parents, i)) = 1}
    IN  {[i \in DOMAIN parents |-> IF i \in cut THEN None ELSE parents[i]] : cut \in cuts}

\* What the page shows of a tree: the roots, and what hangs on them.
Shown(parents) ==
    LET roots == {i \in DOMAIN parents : Up(parents)[i] = None}
    IN  {i \in DOMAIN parents : Above(parents, i) \cap roots # {}}

ParentsOf(set) == [i \in set |-> rows[i].parent]

-----------------------------------------------------------------------------
(* The server, the other devices                                           *)

Stored(s, object) == [top |-> srv.top + 1, nb |-> [srv.nb EXCEPT ![s] = [object EXCEPT !.usn = srv.top + 1]]]

RemoteStep ==
    /\ count.remote < MaxRemote /\ Counted("remote")
    /\ UNCHANGED <<saved, table, last, round, touched>>

RemoteAdd == \E s \in Fresh, parent \in Live \cup {None}, title \in Titles :
    /\ srv' = Stored(s, [state |-> "live", parent |-> parent, title |-> title, usn |-> 0])
    /\ RemoteStep

RemoteRename == \E s \in Live : \E title \in Titles \ {srv.nb[s].title} :
    srv' = Stored(s, [srv.nb[s] EXCEPT !.title = title]) /\ RemoteStep

RemoteMove == \E s \in Live, parent \in Live \cup {None} :
    /\ parent # srv.nb[s].parent
    /\ s \notin Above([t \in Live |-> srv.nb[t].parent], parent)
    /\ srv' = Stored(s, [srv.nb[s] EXCEPT !.parent = parent])
    /\ RemoteStep

RemoteDelete == \E s \in Live :
    srv' = Stored(s, [srv.nb[s] EXCEPT !.state = "deleted"]) /\ RemoteStep

\* The server is restored from its backup: its USN moves backwards.
RestoreServer ==
    /\ count.restored < MaxRestored /\ Counted("restored")
    /\ srv # saved /\ srv' = saved
    /\ UNCHANGED <<saved, table, last, round, touched>>

-----------------------------------------------------------------------------
(* The user                                                                *)

UserStep ==
    /\ count.edits < MaxEdits /\ Counted("edits")
    /\ UNCHANGED <<srv, saved, last, round>>

Write(i, row) ==
    /\ rows' = [rows EXCEPT ![i] = row]
    /\ touched' = IF pc = "idle" THEN {} ELSE touched \cup {i}
    /\ UNCHANGED notes
    /\ UserStep

AddNotebook == \E i \in Fresh, parent \in Visible \cup {None}, title \in Titles :
    Write(i, [NoRow EXCEPT !.here = TRUE, !.parent = parent, !.title = title,
                           !.dirty = TRUE, !.new = TRUE])

\* moveNotebook refuses a parent whose ancestors, itself included, go round a
\* cycle, meet the notebook or leave the visible rows.
MoveNotebook == \E i \in Visible, parent \in Visible \cup {None} :
    LET above == Above(ParentsOf(Visible), parent)
    IN  /\ i \notin above
        /\ \A j \in above : rows[j].parent \in Visible \cup {None} /\ ~Cyclic(ParentsOf(Visible), j)
        /\ Write(i, [rows[i] EXCEPT !.parent = parent, !.dirty = TRUE])

RenameNotebook == \E i \in Visible : \E title \in Titles \ {rows[i].title} :
    Write(i, [rows[i] EXCEPT !.title = title, !.dirty = TRUE])

\* The bindings: DragNotebooks looks at no ancestor, UpdateNotebookTitle
\* writes a notebook that has only a title.
DragNotebooks == \E i \in Here, parent \in Here \cup {None} :
    Bindings /\ Write(i, [rows[i] EXCEPT !.parent = parent, !.dirty = TRUE])

UpdateNotebookTitle == \E i \in Here : \E title \in Titles \ {rows[i].title} :
    Bindings /\ Write(i, [rows[i] EXCEPT !.title = title, !.parent = None, !.dirty = TRUE])

\* HasNotes, which the notes of the trash do not count for; the notebooks below
\* are not looked at.
DeleteNotebook == \E i \in Visible \ noted :
    Write(i, [rows[i] EXCEPT !.dirty = TRUE, !.hidden = TRUE])

\* The notes, told apart only by what the table of notebooks asks of them.
Refile(seen, thrown) ==
    /\ noted' \in seen /\ trashed' \in thrown
    /\ UserStep /\ UNCHANGED <<rows, touched>>

\* A note is added to a notebook; the last one of a notebook moves to another;
\* one of the trash, the last or not, leaves it when it moves.
FileNote == \E i \in Visible \ noted : Refile({noted \cup {i}}, {trashed})

MoveNote == \E i \in Visible, j \in noted : Refile({(noted \ {j}) \cup {i}}, {trashed})

MoveTrash == \E i \in Visible, j \in trashed :
    Refile({noted \cup {i}}, {trashed, trashed \ {j}})

\* A note goes to the trash, or is deleted here and not yet on the server; one
\* comes back, although its notebook may be gone from the list; the last row
\* that is left of such a note leaves the table of notes.
TrashNote == \E i \in noted : Refile({noted, noted \ {i}}, {trashed \cup {i}})

RestoreNote == \E i \in trashed : Refile({noted \cup {i}}, {trashed, trashed \ {i}})

PurgeNote == \E i \in trashed : Refile({noted}, {trashed \ {i}})

-----------------------------------------------------------------------------
(* Uploading: sendNotebookChanges                                          *)

\* GetDirtyNotebooks: the loop works on this copy.
Collect(table1) ==
    LET dirty == {i \in Ids : table1[i].here /\ table1[i].dirty}
    IN  /\ pc' = "push" /\ queue' = dirty /\ failed' = FALSE /\ page' = NoObjects
        /\ snap' = [i \in Ids |-> IF i \in dirty THEN table1[i] ELSE NoRow]

\* FullSync and ForceFullSync, or IncrSync.
Start(m) ==
    /\ pc = "idle"
    /\ mode' = m /\ pass' = 1 /\ touched' = {} /\ stuck' = {}
    /\ from' = IF m = "incr" THEN last ELSE 0
    /\ Collect(rows)
    /\ UNCHANGED <<srv, saved, table, last, top, cur, reply, count>>

\* Parents first; in a cycle of the copy, some notebook is first.
Turn(i) ==
    /\ pc = "push" /\ i \in queue
    /\ \/ snap[i].parent \notin queue
       \/ Cyclic([j \in queue |-> snap[j].parent], i)

\* One created and deleted before any round is only forgotten.  The foreign key
\* keeps the row of one that holds a note, and the error is ignored.
ForgetNotebook(i) ==
    /\ Turn(i) /\ snap[i].new /\ snap[i].hidden
    /\ rows' = IF i \in Held THEN rows ELSE [rows EXCEPT ![i] = NoRow]
    /\ stuck' = IF i \in Held THEN stuck \cup {i} ELSE stuck
    /\ queue' = queue \ {i}
    /\ UNCHANGED <<srv, saved, notes, from, last, pc, mode, pass, snap, page, top, cur, reply,
                   failed, touched, count>>

\* prepareNotebookForUpload: a parent without a server id is sent as it is.
ParentSent(i) ==
    LET parent == snap[i].parent
    IN  IF parent # None /\ rows[parent].here /\ rows[parent].sid # None
        THEN rows[parent].sid ELSE parent

Sent(i) == [state |-> "live", parent |-> ParentSent(i), title |-> snap[i].title, usn |-> 0]

Answers(kind, s, object) == reply' = [kind |-> kind, id |-> s, object |-> object]

Refused(kind) == srv' = srv /\ Answers(kind, None, NoObject)

\* The server writes an object and answers with it.
Accepted(kind, s, object) ==
    LET new == Stored(s, object)
    IN  srv' = new /\ Answers(kind, s, new.nb[s])

\* notebook/add; without an id left (a bound of the model) it fails.
ServerAdd(object) ==
    \/ \E s \in Fresh : Accepted("ok", s, object)
    \/ Fresh = {} /\ Refused("error")

\* notebook/update and notebook/delete compare the USN the client sends.
ServerUpdate(s, usn, object) ==
    IF srv.nb[s].state # "live" THEN Refused("missing")
    ELSE IF srv.nb[s].usn # usn THEN Refused("error")
    ELSE Accepted("ok", s, object)

ServerDelete(s, usn) ==
    IF srv.nb[s].state # "live" \/ srv.nb[s].usn # usn THEN Refused("error")
    ELSE Accepted("deleted", s, [srv.nb[s] EXCEPT !.state = "deleted"])

Request(i) ==
    /\ Turn(i) /\ ~(snap[i].new /\ snap[i].hidden)
    /\ IF snap[i].new THEN ServerAdd(Sent(i))
       ELSE IF snap[i].hidden THEN ServerDelete(snap[i].sid, snap[i].usn)
       ELSE ServerUpdate(snap[i].sid, snap[i].usn, Sent(i))
    /\ pc' = "answer" /\ cur' = i /\ queue' = queue \ {i}
    /\ UNCHANGED <<saved, table, from, stuck, last, mode, pass, snap, page, top, failed, touched, count>>

\* isMissingRemoteNotebook: the server does not know the id, it is added again.
AddAgain ==
    /\ pc = "answer" /\ reply.kind = "missing"
    /\ ServerAdd(Sent(cur))
    /\ UNCHANGED <<saved, table, from, stuck, last, pc, mode, pass, queue, snap, page, top, cur, failed,
                   touched, count>>

\* The request or its answer is lost.
LoseRequest(i) ==
    /\ Turn(i) /\ ~(snap[i].new /\ snap[i].hidden)
    /\ count.faults < MaxFaults /\ Counted("faults")
    /\ failed' = TRUE /\ queue' = queue \ {i}
    /\ UNCHANGED <<srv, saved, table, from, stuck, last, pc, mode, pass, snap, page, top, cur, reply, touched>>

LoseAnswer ==
    /\ pc = "answer" /\ reply.kind # "error"
    /\ count.faults < MaxFaults /\ Counted("faults")
    /\ Refused("error")
    /\ UNCHANGED <<saved, table, from, stuck, last, pc, mode, pass, queue, snap, page, top, cur, failed, touched>>

\* GetNotebookIDByServerID: a row without a server id answers to the empty id.
LocalIds(s) == {i \in Here : rows[i].sid = s}
OrNone(set) == IF set = {} THEN {None} ELSE set

\* Mutant of Acked: the title of the row is kept.
AckedTitle(i, s, object, parent) ==
    [rows EXCEPT ![i] = IF ~@.here THEN @
        ELSE [@ EXCEPT !.sid = s, !.parent = parent,
                       !.usn = object.usn, !.dirty = FALSE, !.new = FALSE, !.hidden = FALSE]]

\* UpdateNotebookAfterSync writes the answer over whatever the row holds now.
Acked(i, s, object, parent) ==
    [rows EXCEPT ![i] = IF ~@.here THEN @
        ELSE [@ EXCEPT !.sid = s, !.title = object.title, !.parent = parent,
                       !.usn = object.usn, !.dirty = FALSE, !.new = FALSE, !.hidden = FALSE]]

\* The delete was accepted: the row stays, hidden.
Settled(i) == [rows EXCEPT ![i].dirty = FALSE]

Answered ==
    /\ pc = "answer" /\ pc' = "push" /\ cur' = None /\ reply' = Silent
    /\ snap' = [snap EXCEPT ![cur] = NoRow]      \* this copy is used up

\* checkNeedSyncAgain: the cursor follows when no other change came in between.
Acknowledge ==
    /\ reply.kind = "ok" /\ Answered
    /\ \E parent \in OrNone(LocalIds(reply.object.parent)) :
         rows' = Acked(cur, reply.id, reply.object, parent)
    /\ last' = IF reply.object.usn = last + 1 THEN reply.object.usn ELSE last
    /\ UNCHANGED <<srv, saved, notes, from, stuck, mode, pass, queue, page, top, failed, touched, count>>

AcknowledgeDelete ==
    /\ reply.kind = "deleted" /\ Answered
    /\ rows' = Settled(cur)
    /\ UNCHANGED <<srv, saved, notes, from, stuck, last, mode, pass, queue, page, top, failed, touched, count>>

\* Mutant of RecordError: the error is only logged.
RecordNothing ==
    /\ reply.kind = "error" /\ Answered
    /\ UNCHANGED <<srv, saved, table, from, stuck, last, mode, pass, queue, page, top, failed, touched, count>>

\* firstErr is kept, the loop goes on.
RecordError ==
    /\ reply.kind = "error" /\ Answered
    /\ failed' = TRUE
    /\ UNCHANGED <<srv, saved, table, from, stuck, last, mode, pass, queue, page, top, touched, count>>

\* What the round has read is forgotten.
Rest == /\ pc' = "idle" /\ mode' = "incr" /\ pass' = 1 /\ queue' = {} /\ snap' = NoRows
        /\ page' = NoObjects /\ top' = 0 /\ cur' = None /\ reply' = Silent /\ failed' = FALSE
        /\ from' = 0 /\ stuck' = {} /\ touched' = {}

\* Mutant of EndUpload: the cursor of a full round is the server's present USN.
EndUploadLate ==
    /\ pc = "push" /\ queue = {}
    /\ IF failed \/ pass = 2 THEN Rest
       ELSE /\ pc' = "state" /\ snap' = NoRows
            /\ UNCHANGED <<mode, pass, from, stuck, queue, page, top, cur, reply, failed, touched>>
    /\ last' = IF ~failed /\ pass = 2 /\ mode = "full" THEN srv.top ELSE last
    /\ UNCHANGED <<srv, saved, table, count>>

\* An error of the upload ends the round; the second upload ends it anyway,
\* and only then FullSync moves the cursor.
EndUpload ==
    /\ pc = "push" /\ queue = {}
    /\ IF failed \/ pass = 2 THEN Rest
       ELSE /\ pc' = "state" /\ snap' = NoRows
            /\ UNCHANGED <<mode, pass, from, stuck, queue, page, top, cur, reply, failed, touched>>
    /\ last' = IF ~failed /\ pass = 2 /\ mode = "full" THEN top ELSE last
    /\ UNCHANGED <<srv, saved, table, count>>

\* A lost connection or a cancel anywhere else, the end of the process.
CutOff ==
    /\ pc # "idle" /\ count.faults < MaxFaults /\ Counted("faults")
    /\ Rest
    /\ UNCHANGED <<srv, saved, table, last>>

-----------------------------------------------------------------------------
(* Downloading: syncNotebooks                                              *)

Whole == mode \in {"full", "rollback"}      \* afterUsn < 0

\* IncrSync compares getSyncState's answer with the cursor it read before the
\* upload: a round downloads again what it has uploaded.
ReadState ==
    /\ pc = "state" /\ top' = srv.top
    /\ mode' = IF mode = "incr" /\ srv.top < from THEN "rollback" ELSE mode
    /\ IF mode = "incr" /\ srv.top = from
       THEN Collect(rows) /\ pass' = 2
       ELSE pc' = "pull" /\ UNCHANGED <<queue, snap, failed, pass, page>>
    /\ UNCHANGED <<srv, saved, table, from, stuck, last, cur, reply, touched, count>>

GetSyncNotebooks ==
    /\ pc = "pull" /\ pc' = "merge"
    /\ page' = srv.nb
    /\ queue' = {s \in Ids : srv.nb[s].state # "unused" /\ (Whole \/ srv.nb[s].usn > from)}
    /\ UNCHANGED <<srv, saved, table, from, stuck, last, mode, pass, snap, top, cur, reply, failed, touched, count>>

\* A parent that is known here gets its local id.
Translated(parent) == IF parent = None THEN {None} ELSE IF LocalIds(parent) = {} THEN {parent} ELSE LocalIds(parent)

\* UpdateNotebookForce, AddNotebookForce.
Pulled(i, s, object, parent) ==
    [rows EXCEPT ![i] = [here |-> TRUE, sid |-> s, parent |-> parent, title |-> object.title,
                         usn |-> object.usn, dirty |-> FALSE, new |-> FALSE, hidden |-> FALSE]]

\* DeleteNotebookForce: the foreign key of the notes may refuse, unnoticed.
Buried(s) == [i \in Ids |-> IF i \in LocalIds(s) \ Held THEN NoRow ELSE rows[i]]

\* The same version again repairs a clean row and leaves a dirty one alone.
Kept(i, object) == rows[i].usn = object.usn /\ rows[i].dirty

\* Mutant of Merged: the row is looked for under its local id.
MergedById(s, object) ==
    IF object.state = "deleted" THEN {IF Whole THEN rows ELSE Buried(s)}
    ELSE {IF Kept(s, object) THEN rows ELSE Pulled(s, s, object, parent) :
             parent \in Translated(object.parent)}

\* processNotebookSync.
Merged(s, object) ==
    IF object.state = "deleted" THEN {IF Whole THEN rows ELSE Buried(s)}
    ELSE IF LocalIds(s) = {} THEN {Pulled(s, s, object, parent) : parent \in Translated(object.parent)}
    ELSE {IF Kept(i, object) THEN rows ELSE Pulled(i, s, object, parent) :
             i \in LocalIds(s), parent \in Translated(object.parent)}

MergeNotebook ==
    /\ pc = "merge"
    /\ \E s \in queue :
         /\ \A t \in queue : page[s].usn <= page[t].usn
         /\ rows' \in Merged(s, page[s])
         /\ queue' = queue \ {s}
    /\ UNCHANGED <<srv, saved, notes, from, stuck, last, pc, mode, pass, snap, page, top, cur, reply, failed,
                   touched, count>>

\* The end of an incremental download; ReconcileFullNotebooks reads the rows.
EndMerge ==
    /\ pc = "merge" /\ queue = {}
    /\ IF Whole
       THEN pc' = "reconcile" /\ snap' = rows /\ UNCHANGED <<queue, failed, pass, page>>
       ELSE Collect(rows) /\ pass' = 2
    /\ UNCHANGED <<srv, saved, table, from, stuck, last, mode, top, cur, reply, touched, count>>

\* Mutant of Reconciled: what the snapshot lacks is left as it is.
ReconciledListed(i) ==
    LET e == snap[i]
    IN  IF ~rows[i].here \/ ~e.here \/ e.new \/ (e.hidden /\ e.dirty) THEN rows[i]
        ELSE IF page[e.sid].state = "live" /\ ~e.dirty THEN [rows[i] EXCEPT !.hidden = FALSE]
        ELSE rows[i]

\* What the snapshot lacks is queued for upload, what it has is visible.
Reconciled(i) ==
    LET e == snap[i]
    IN  IF ~rows[i].here \/ ~e.here \/ e.new \/ (e.hidden /\ e.dirty) THEN rows[i]
        ELSE IF page[e.sid].state = "live"
             THEN IF e.dirty THEN rows[i] ELSE [rows[i] EXCEPT !.hidden = FALSE]
             ELSE [rows[i] EXCEPT !.dirty = TRUE, !.new = FALSE, !.hidden = FALSE]

ReconcileFullNotebooks ==
    /\ pc = "reconcile" /\ pc' = "parents"
    /\ rows' = [i \in Ids |-> Reconciled(i)]
    /\ UNCHANGED <<srv, saved, notes, from, stuck, last, mode, pass, queue, snap, page, top, cur, reply, failed,
                   touched, count>>

\* RestoreNotebookParents asks for the local id of every parent, an empty one
\* included, and then breaks the cycles of the parents it had read first.
Local(s) == IF LocalIds(s) = {} THEN None ELSE CHOOSE i \in LocalIds(s) : TRUE

Restored(i, walked, blank) ==
    LET parent == rows[i].parent
        local  == IF parent = None THEN blank ELSE Local(parent)
    IN  IF walked[i] # parent THEN None
        ELSE IF local = None THEN parent ELSE local

RestoreNotebookParents ==
    /\ pc = "parents"
    /\ \E walked \in CutCycles(ParentsOf(Here)), blank \in OrNone(LocalIds(None)) :
         rows' = [i \in Ids |-> IF i \notin Here THEN rows[i]
                                ELSE [rows[i] EXCEPT !.parent = Restored(i, walked, blank)]]
    /\ last' = IF mode = "rollback" THEN top ELSE last
    /\ pass' = 2 /\ Collect(rows')
    /\ UNCHANGED <<srv, saved, notes, from, stuck, mode, top, cur, reply, touched, count>>

-----------------------------------------------------------------------------

Remote == RemoteAdd \/ RemoteRename \/ RemoteMove \/ RemoteDelete \/ RestoreServer

User == \/ AddNotebook \/ MoveNotebook \/ RenameNotebook \/ DeleteNotebook
        \/ DragNotebooks \/ UpdateNotebookTitle
        \/ FileNote \/ MoveNote \/ MoveTrash \/ TrashNote \/ RestoreNote \/ PurgeNote

Faults == (\E i \in Ids : LoseRequest(i)) \/ LoseAnswer \/ CutOff

Upload == \/ \E i \in Ids : ForgetNotebook(i) \/ Request(i)
          \/ AddAgain \/ Acknowledge \/ AcknowledgeDelete \/ RecordError \/ EndUpload

Download == \/ ReadState \/ GetSyncNotebooks \/ MergeNotebook \/ EndMerge
            \/ ReconcileFullNotebooks \/ RestoreNotebookParents

Next == \/ Remote \/ User \/ Faults \/ Upload \/ Download
        \/ Start("full") \/ Start("incr")

\* A round goes on, and the timer starts incremental ones; full ones are the
\* user's choice.
Fairness == WF_vars(Upload) /\ WF_vars(Download) /\ WF_vars(Start("incr"))

Spec == Init /\ [][Next]_vars /\ Fairness

-----------------------------------------------------------------------------
(* Properties                                                              *)

\* Every variable has its type; a row without a server id is a new one, and a
\* new one waits for its upload; a row that is not there is empty.
TypeOK ==
    /\ srv \in [top : Nat, nb : [Ids -> Object]] /\ saved \in [top : Nat, nb : [Ids -> Object]]
    /\ rows \in [Ids -> Row] /\ snap \in [Ids -> Row] /\ page \in [Ids -> Object]
    /\ \A i \in Ids : IF rows[i].here THEN /\ rows[i].new <=> rows[i].sid = None
                                           /\ rows[i].new => rows[i].dirty
                      ELSE rows[i] = NoRow
    /\ Held \subseteq Here /\ stuck \cup touched \subseteq Ids
    /\ last \in Nat /\ from \in Nat /\ top \in Nat /\ count \in [Counters -> Nat]
    /\ pc \in {"idle", "push", "answer", "state", "pull", "merge", "reconcile", "parents"}
    /\ mode \in {"full", "incr", "rollback"} /\ pass \in {1, 2} /\ failed \in BOOLEAN
    /\ queue \subseteq Ids /\ cur \in Ids \cup {None}
    /\ reply \in [kind : {"none", "ok", "deleted", "missing", "error"}, id : Ids \cup {None},
                  object : Object]

\* Uploads, re-creations under a new server id, pulls of one's own notebooks
\* and replaced rows never leave two rows for one notebook of the server.
OneRowPerNotebook ==
    \A i, j \in Here : rows[i].sid = rows[j].sid => i = j \/ rows[i].sid = None

\* "every dirty row that already existed when the sync started must be
\* accepted by the server before any download begins" (sync.go:124): what is
\* still dirty during the download was written since, or is a notebook created
\* and deleted here whose row the notes of the trash kept (push.go:99).
AcceptedBeforeDownload ==
    pass = 1 /\ pc \in {"state", "pull", "merge", "reconcile"} =>
        \A i \in Here : rows[i].dirty => i \in touched \cup stuck

\* A clean row holds the title of the version whose USN it carries, whatever
\* was edited while requests were under way.
CleanRowAgrees ==
    \A i \in Here : LET object == srv.nb[rows[i].sid]
                    IN  /\ ~rows[i].dirty /\ count.restored = 0
                        /\ object.state = "live" /\ object.usn = rows[i].usn
                        => object.title = rows[i].title

\* Whatever the parents are, cycles of two devices' moves included, the tree
\* the page shows has every notebook (MapNotebooks).
AllShown ==
    \A parents \in BreakCycles(ParentsOf(Visible)) : Shown(parents) = Visible

\* RestoreNotebookParents and MapNotebooks take one parent from every cycle and
\* none from the others, in whatever order they walk: a notebook below a cycle
\* keeps its place.
CyclesCutOnce == BreakCycles(ParentsOf(Here)) = CutCycles(ParentsOf(Here))

\* The tree shown here is the server's, but for the notebooks deleted elsewhere
\* that the foreign key of their notes keeps here.
InStep ==
    /\ \A s \in Live : \E i \in LocalIds(s) :
         /\ ~rows[i].hidden /\ rows[i].title = srv.nb[s].title
         /\ rows[i].parent \in Translated(srv.nb[s].parent)
    /\ \A i \in Visible \ Held : rows[i].sid \in Live

\* What other devices do arrives, also when rounds are cut off half-way.
TreeConverges == <>[](count["edits"] = 0 /\ count["restored"] = 0 => InStep)

\* After the server was restored from its backup, rounds over the complete
\* snapshot bring both sides together again (sync.go:243).
RestoredConverges == [](count["edits"] = 0) /\ []<><<Start("full")>>_vars => <>[]InStep

-----------------------------------------------------------------------------
(* What a doc, a comment or a test says, and the code does not do.  TLC finds *)
(* a counterexample to each; section 5 of the README has the constants.       *)

\* "do not send local ids to the server" (DEVELOPMENT.md:66): the server's
\* parents are ids it has given out.
ParentTranslated ==
    \A s \in Ids : LET parent == srv.nb[s].parent
                   IN  parent # None => srv.nb[parent].state # "unused"

\* A round gets past its upload again and again: no conflict "aborts the
\* entire sync before remote changes can be downloaded" (push.go:252).
DownloadsResume == []<>(pc = "state")

\* A clean row of a notebook at the server's root is at the root
\* (pull.go:130 knows of rows that are not).
RootsAgree ==
    \A i \in Here : LET object == srv.nb[rows[i].sid]
                    IN  /\ ~rows[i].dirty
                        /\ object.state = "live" /\ object.usn = rows[i].usn
                        => (object.parent = None => rows[i].parent = None)

\* "every dirty row that already existed when the sync started must be
\* accepted by the server before any download begins" (sync.go:124), without
\* the exception of AcceptedBeforeDownload.
EveryRowAccepted ==
    pass = 1 /\ pc \in {"state", "pull", "merge", "reconcile"} =>
        \A i \in Here : rows[i].dirty => i \in touched

\* "Always protect local work first" (sync.go:124): a download leaves a row
\* alone that the user has written since the upload.
PullKeepsDirtyRow ==
    [][pc = "merge" => \A i \in Here : rows[i].dirty => rows'[i].dirty]_vars

=============================================================================
