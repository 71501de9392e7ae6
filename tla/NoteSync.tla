------------------------------ MODULE NoteSync ------------------------------
(***************************************************************************)
(* The note half of the sync service: the rows of the local `notes' table, *)
(* the rounds of FullSync and IncrSync over them (push the dirty rows, ask *)
(* for the server's USN, pull, push again, move the cursor), the handlers  *)
(* of the local bridge that edit the same rows while a round is running,   *)
(* and the server with the other devices of the account behind it.         *)
(*                                                                         *)
(* A statement of SQLite is one step; between a request and the statement  *)
(* that uses its answer anything else may happen.                          *)
(*                                                                         *)
(* A text is the SET of the edits it incorporates.  An edit adds its own   *)
(* number to the text it was typed into, so "this text was overwritten by  *)
(* one that never saw it" is visible as a set that is not included.        *)
(* Everything a note carries beside its text and its two deletion flags    *)
(* (title, tags, star, notebook) is abstracted to the dirty bit it sets.   *)
(***************************************************************************)
EXTENDS Integers, FiniteSets

CONSTANTS
    Ids,          \* object ids: local note_id and server NoteId are drawn from them
    None,         \* SQL NULL, the empty string, a nil pointer
    PageSize,     \* SyncService.maxEntry
    Candidates,   \* notebooks recreateMissingNote tries before it gives up
    MaxEdits,     \* bound: texts typed, here and on other devices
    MaxActs,      \* bound: trash, restore, move and delete, here and elsewhere
    MaxFaults     \* bound: failed requests, lost answers, cancels and crashes

ASSUME NoteSyncAssumption ==
    /\ Ids \subseteq Nat /\ {1, 2} \subseteq Ids
    /\ None \notin Ids
    /\ PageSize \in Nat \ {0}
    /\ Candidates \in Nat \ {0}
    /\ MaxEdits \in Nat
    /\ MaxActs \in Nat
    /\ MaxFaults \in Nat

VARIABLES
    (* What survives a restart: the SQLite file. *)
    rows,      \* note_id -> row of the table, or None
    cursor,    \* users.last_sync_usn
    (* The server. *)
    srv,       \* NoteId -> object (a tombstone once deleted), or None
    susn,      \* the account's USN: the number of its latest change
    (* The round in progress: locals of fullSync/IncrSync and their callees. *)
    phase,     \* where the round is
    mode,      \* "full" or "incr"
    queue,     \* what GetDirtyNotes returned, minus the notes already handled
    failed,    \* firstErr # nil in sendNoteChanges
    work,      \* the request whose answer has not been written yet
    snapshot,  \* afterUsn < 0 in syncNotesMode: the whole account is listed
    after,     \* currentUsn of syncNotesMode
    page,      \* metadata of the current page still to be processed
    more,      \* the page was full, so another one is asked for
    seen,      \* remoteIDs: live notes of the snapshot
    target,    \* serverState.LastSyncUsn
    (* Observation and bounds: read by the properties and the guards only. *)
    edits, acts, faults,
    used,      \* ids generated so far (an ObjectId is never generated twice)
    discarded, \* edits of notes that somebody deleted on purpose
    raced      \* edits a late answer made the client forget

db      == <<rows, cursor>>
server  == <<srv, susn>>
pulling == <<snapshot, after, page, more, seen, target>>
round   == <<phase, mode, queue, failed, work, pulling>>
ghost   == <<discarded, raced>>
bounds  == <<edits, acts, faults>>
vars    == <<db, server, round, bounds, used, ghost>>

-----------------------------------------------------------------------------
(* Types *)

Text == SUBSET Nat

Row == [sid : Ids \cup {None},  \* server_note_id
        usn : Nat,
        text : Text,            \* content
        textDirty : BOOLEAN,    \* content_is_dirty
        dirty : BOOLEAN,        \* is_dirty
        new : BOOLEAN,          \* local_is_new
        trash : BOOLEAN,        \* is_trash
        del : BOOLEAN]          \* local_is_delete

Object == [usn : Nat, text : Text, trash : BOOLEAN, deleted : BOOLEAN]

ASSUME NoneAssumption == None \notin Row /\ None \notin Object

\* One entry of getSyncNotes: metadata only, the text is another request.
Meta == [sid : Ids, usn : Nat, trash : BOOLEAN, deleted : BOOLEAN]

NoWork == [kind |-> "none"]

Work ==
    {NoWork}
    \cup [kind : {"saved"}, id : Ids, sid : Ids, usn : Nat, sent : Row]
    \cup [kind : {"erased"}, id : Ids, usn : Nat, sent : Row]
    \cup [kind : {"conflict"}, id : Ids, sid : Ids]
    \cup [kind : {"resolve"}, id : Ids, meta : Meta]
    \cup [kind : {"recreate"}, id : Ids, tries : Nat, created : Nat]
    \cup [kind : {"insert"}, meta : Meta, text : Text]
    \cup [kind : {"apply"}, id : Ids, meta : Meta, text : Text, before : Row]

\* Mutant of NewRow: the row starts from users' default USN.
NewRowUnsynced(text) == [sid |-> None, usn |-> -1, text |-> text, textDirty |-> FALSE,
                         dirty |-> TRUE, new |-> TRUE, trash |-> FALSE, del |-> FALSE]

NewRow(text) == [sid |-> None, usn |-> 0, text |-> text, textDirty |-> FALSE,
                 dirty |-> TRUE, new |-> TRUE, trash |-> FALSE, del |-> FALSE]

CleanRow(s, u, text, trash) ==
    [sid |-> s, usn |-> u, text |-> text, textDirty |-> FALSE,
     dirty |-> FALSE, new |-> FALSE, trash |-> trash, del |-> FALSE]

\* What the handlers make of a row: save, SetNoteTrash, MoveNote,
\* MarkNoteLocalDelete, UpdateNoteAfterSync.
Edited(r, e) == [r EXCEPT !.text = @ \cup {e}, !.textDirty = TRUE, !.dirty = TRUE]
Trashed(r, b) == [r EXCEPT !.trash = b, !.dirty = TRUE]
Moved(r) == [r EXCEPT !.dirty = TRUE, !.trash = FALSE, !.del = FALSE]
Marked(r) == [r EXCEPT !.del = TRUE, !.dirty = TRUE, !.trash = TRUE]
Acked(r, s, u) == [r EXCEPT !.sid = s, !.usn = u, !.dirty = FALSE,
                            !.textDirty = FALSE, !.new = FALSE, !.del = FALSE]

\* utils.ObjectId and the server's generator: ids are random and only compared
\* for equality, so the least unused one stands for whichever comes out.
Fresh == {n \in Ids \ used : \A m \in Ids \ used : n <= m}

Exists(n) == rows[n] # None
IsLive(s) == srv[s] # None /\ ~srv[s].deleted

\* The rows that map to server note s (GetNoteByServerID, GetLocalNoteID).
RowsOf(s) == {n \in Ids : Exists(n) /\ rows[n].sid = s}

-----------------------------------------------------------------------------
(* A device that has just logged in, or one that has synced note 1, which   *)
(* it pulled (l = 1) or created itself (l = 2).                            *)

NoQueue == [n \in Ids |-> None]

Init ==
    /\ srv = [x \in Ids |-> IF x = 1
                THEN [usn |-> 1, text |-> {}, trash |-> FALSE, deleted |-> FALSE]
                ELSE None]
    /\ \/ /\ rows = [n \in Ids |-> None]
          /\ cursor = -1
          /\ used = {1}
       \/ \E l \in {1, 2} :
            /\ rows = [n \in Ids |-> IF n = l THEN CleanRow(1, 1, {}, FALSE) ELSE None]
            /\ cursor = 1
            /\ used = {1, l}
    /\ susn = 1
    /\ phase = "idle" /\ mode = "incr"
    /\ queue = NoQueue /\ failed = FALSE /\ work = NoWork
    /\ snapshot = FALSE /\ after = -1 /\ page = {} /\ more = FALSE /\ seen = {} /\ target = 0
    /\ edits = 0 /\ acts = 0 /\ faults = 0
    /\ discarded = {} /\ raced = {}

-----------------------------------------------------------------------------
(* The user, through the handlers of the local bridge.  Each reads the row *)
(* it owns (not marked deleted) and writes it; none looks at the sync.     *)

TypeText == /\ edits < MaxEdits
            /\ edits' = edits + 1
            /\ UNCHANGED <<acts, faults>>

Act == /\ acts < MaxActs
       /\ acts' = acts + 1
       /\ UNCHANGED <<edits, faults>>

Owned(n) == Exists(n) /\ ~rows[n].del

\* save with isNew=true
CreateNote(n) ==
    /\ n \in Fresh
    /\ TypeText
    /\ rows' = [rows EXCEPT ![n] = NewRow({edits + 1})]
    /\ used' = used \cup {n}
    /\ UNCHANGED <<cursor, server, round, ghost>>

\* Mutant of EditNote: content_is_dirty is not set.
EditNoteUnmarked(n) ==
    /\ Owned(n) /\ ~rows[n].trash
    /\ TypeText
    /\ rows' = [rows EXCEPT ![n] = [@ EXCEPT !.text = @ \cup {edits + 1}, !.dirty = TRUE]]
    /\ UNCHANGED <<cursor, server, round, used, ghost>>

\* save of an existing note with a changed text
EditNote(n) ==
    /\ Owned(n) /\ ~rows[n].trash
    /\ TypeText
    /\ rows' = [rows EXCEPT ![n] = Edited(@, edits + 1)]
    /\ UNCHANGED <<cursor, server, round, used, ghost>>

\* deleteNote and restore: SetNoteTrash
SetNoteTrash(n, b) ==
    /\ Owned(n)
    /\ b \/ rows[n].trash
    /\ Act
    /\ rows' = [rows EXCEPT ![n] = Trashed(@, b)]
    /\ UNCHANGED <<cursor, server, round, used, ghost>>

\* moveNote; on a note outside the trash also what a change of title, tags or
\* star does to the row
MoveNote(n) ==
    /\ Owned(n)
    /\ Act
    /\ rows' = [rows EXCEPT ![n] = Moved(@)]
    /\ UNCHANGED <<cursor, server, round, used, ghost>>

\* deleteTrashNote: MarkNoteLocalDelete
MarkNoteLocalDelete(n) ==
    /\ Owned(n)
    /\ Act
    /\ rows' = [rows EXCEPT ![n] = Marked(@)]
    /\ discarded' = discarded \cup rows[n].text
    /\ UNCHANGED <<cursor, server, round, used, raced>>

UserStep ==
    \E n \in Ids : \/ CreateNote(n)
                   \/ EditNote(n)
                   \/ \E b \in BOOLEAN : SetNoteTrash(n, b)
                   \/ MoveNote(n)
                   \/ MarkNoteLocalDelete(n)

-----------------------------------------------------------------------------
(* The server, and the other devices of the account.                       *)

NewObject(text) == [usn |-> 0, text |-> text, trash |-> FALSE, deleted |-> FALSE]

\* Every change takes the account's next USN.
Changed(s, object) ==
    /\ srv' = [srv EXCEPT ![s] = [object EXCEPT !.usn = susn + 1]]
    /\ susn' = susn + 1

RemoteCreate(s) ==
    /\ s \in Fresh
    /\ TypeText
    /\ Changed(s, NewObject({edits + 1}))
    /\ used' = used \cup {s}
    /\ UNCHANGED <<db, round, ghost>>

RemoteEdit(s) ==
    /\ IsLive(s)
    /\ TypeText
    /\ Changed(s, [srv[s] EXCEPT !.text = @ \cup {edits + 1}])
    /\ UNCHANGED <<db, round, used, ghost>>

RemoteTrash(s) ==
    /\ IsLive(s)
    /\ Act
    /\ Changed(s, [srv[s] EXCEPT !.trash = ~@])
    /\ UNCHANGED <<db, round, used, ghost>>

RemoteDelete(s) ==
    /\ IsLive(s)
    /\ Act
    /\ Changed(s, [srv[s] EXCEPT !.deleted = TRUE])
    /\ discarded' = discarded \cup srv[s].text
    /\ UNCHANGED <<db, round, used, raced>>

RemoteStep == \E s \in Ids : \/ RemoteCreate(s)
                             \/ RemoteEdit(s)
                             \/ RemoteTrash(s)
                             \/ RemoteDelete(s)

-----------------------------------------------------------------------------
(* One round of the sync service; SyncControl lets one run at a time.      *)

\* Something the network or the user does to the round: bounded, so that
\* every behaviour has a fault-free future.
Fault == /\ faults < MaxFaults
         /\ faults' = faults + 1
         /\ UNCHANGED <<edits, acts>>

\* The locals of the round go away; the database stays as it is.
EndRound ==
    /\ phase' = "idle" /\ mode' = "incr"
    /\ queue' = NoQueue /\ failed' = FALSE /\ work' = NoWork
    /\ snapshot' = FALSE /\ after' = -1 /\ page' = {} /\ more' = FALSE
    /\ seen' = {} /\ target' = 0

\* A request that cannot be answered, CancelSync, or the end of the process.
Abort ==
    /\ phase # "idle"
    /\ Fault
    /\ EndRound
    /\ UNCHANGED <<db, server, used, ghost>>

\* GetDirtyNotes: a copy of every dirty row of table t
DirtyNotes(t) == [n \in Ids |-> IF t[n] # None /\ t[n].dirty THEN t[n] ELSE None]

\* FullSync, IncrSync and ForceFullSync, which forgets the cursor first
StartSync(m) ==
    /\ phase = "idle"
    /\ phase' = "push1" /\ mode' = IF m = "incr" THEN "incr" ELSE "full"
    /\ cursor' = IF m = "force" THEN -1 ELSE cursor
    /\ after' = IF m = "incr" THEN cursor ELSE -1
    /\ queue' = DirtyNotes(rows)
    /\ UNCHANGED <<rows, server, failed, work, snapshot, page, more, seen, target,
                   bounds, used, ghost>>

(* sendNoteChanges: one note of the list after the other.                  *)

Pushing == phase \in {"push1", "push2"}

Turn(n) == Pushing /\ work = NoWork /\ queue[n] # None

IsNewRow(q) == q.new \/ q.sid = None

\* On to the next note of the list; ok is FALSE when this one goes to firstErr.
NextNote(n, ok) ==
    /\ queue' = [queue EXCEPT ![n] = None]
    /\ failed' = (failed \/ ~ok)
    /\ work' = NoWork
    /\ UNCHANGED <<phase, mode, pulling>>

\* The request of this note is out; the note stays in the list meanwhile.
Await(w) == work' = w /\ UNCHANGED <<phase, mode, queue, failed, pulling>>

\* addNote: the server gives the note an id of its own
AddNote(n, s) ==
    /\ s \in Fresh
    /\ Changed(s, NewObject(queue[n].text))
    /\ used' = used \cup {s}

PushAdd(n) ==
    /\ Turn(n)
    /\ LET q == queue[n] IN
        /\ IsNewRow(q) /\ ~q.trash /\ ~q.del
        /\ \E s \in Ids :
            /\ AddNote(n, s)
            /\ Await([kind |-> "saved", id |-> n, sid |-> s, usn |-> susn + 1, sent |-> q])
    /\ UNCHANGED <<db, bounds, ghost>>

\* Never uploaded and deleted again: the row goes without a request.
PushForget(n) ==
    /\ Turn(n)
    /\ IsNewRow(queue[n]) /\ queue[n].del
    /\ rows' = [rows EXCEPT ![n] = None]
    /\ raced' = raced \cup (rows[n].text \ queue[n].text)
    /\ NextNote(n, TRUE)
    /\ UNCHANGED <<cursor, server, bounds, used, discarded>>

\* Never uploaded and in the trash: no branch of the loop takes it.
PushPassOver(n) ==
    /\ Turn(n)
    /\ IsNewRow(queue[n]) /\ queue[n].trash /\ ~queue[n].del
    /\ NextNote(n, TRUE)
    /\ UNCHANGED <<db, server, bounds, used, ghost>>

\* deleteTrash, accepted: the server keeps a tombstone
PushErase(n) ==
    /\ Turn(n)
    /\ LET q == queue[n] IN
        /\ ~IsNewRow(q) /\ q.del
        /\ IsLive(q.sid) /\ srv[q.sid].usn = q.usn
        /\ Changed(q.sid, [srv[q.sid] EXCEPT !.deleted = TRUE])
        /\ Await([kind |-> "erased", id |-> n, usn |-> susn + 1, sent |-> q])
    /\ UNCHANGED <<db, bounds, used, ghost>>

\* deleteTrash of a note that is gone or has changed on the server: Ok=false,
\* which Client.DeleteTrash turns into an error before push.go looks at Msg
PushEraseRefused(n) ==
    /\ Turn(n)
    /\ LET q == queue[n] IN
        /\ ~IsNewRow(q) /\ q.del
        /\ ~(IsLive(q.sid) /\ srv[q.sid].usn = q.usn)
    /\ NextNote(n, FALSE)
    /\ UNCHANGED <<db, server, bounds, used, ghost>>

\* updateNote on the version the row is based on: the text travels only when
\* it is marked dirty, the flags always
PushUpdate(n) ==
    /\ Turn(n)
    /\ LET q == queue[n] IN
        /\ ~IsNewRow(q) /\ ~q.del
        /\ IsLive(q.sid) /\ srv[q.sid].usn = q.usn
        /\ Changed(q.sid, [srv[q.sid] EXCEPT !.text = IF q.textDirty THEN q.text ELSE @,
                                            !.trash = q.trash])
        /\ Await([kind |-> "saved", id |-> n, sid |-> q.sid, usn |-> susn + 1, sent |-> q])
    /\ UNCHANGED <<db, bounds, used, ghost>>

\* updateNote answers "conflict"
PushConflict(n) ==
    /\ Turn(n)
    /\ LET q == queue[n] IN
        /\ ~IsNewRow(q) /\ ~q.del
        /\ IsLive(q.sid) /\ srv[q.sid].usn # q.usn
        /\ Await([kind |-> "conflict", id |-> n, sid |-> q.sid])
    /\ UNCHANGED <<db, server, bounds, used, ghost>>

\* updateNote answers "noteIdNotExists"
PushMissing(n) ==
    /\ Turn(n)
    /\ LET q == queue[n] IN
        /\ ~IsNewRow(q) /\ ~q.del
        /\ ~IsLive(q.sid)
        /\ Await([kind |-> "recreate", id |-> n, tries |-> 0, created |-> 0])
    /\ UNCHANGED <<db, server, bounds, used, ghost>>

\* recreateMissingNote: addNote in one notebook after the other
Recreate ==
    /\ work.kind = "recreate" /\ work.tries < Candidates
    /\ \E s \in Ids :
        /\ AddNote(work.id, s)
        /\ Await([kind |-> "saved", id |-> work.id, sid |-> s, usn |-> susn + 1,
                  sent |-> queue[work.id]])
    /\ UNCHANGED <<db, bounds, ghost>>

\* The same addNote with its answer lost: the loop takes the next notebook.
RecreateLost ==
    /\ work.kind = "recreate" /\ work.tries < Candidates
    /\ Fault
    /\ \E s \in Ids : AddNote(work.id, s)
    /\ Await([kind |-> "recreate", id |-> work.id, tries |-> work.tries + 1,
              created |-> work.created + 1])
    /\ UNCHANGED <<db, ghost>>

RecreateRefused ==
    /\ work.kind = "recreate" /\ work.tries < Candidates
    /\ Fault
    /\ Await([work EXCEPT !.tries = @ + 1])
    /\ UNCHANGED <<db, server, used, ghost>>

RecreateGiveUp ==
    /\ work.kind = "recreate" /\ work.tries = Candidates
    /\ NextNote(work.id, FALSE)
    /\ UNCHANGED <<db, server, bounds, used, ghost>>

\* The request of a note is not delivered.
PushFails(n) ==
    /\ Turn(n)
    /\ ~IsNewRow(queue[n]) \/ ~queue[n].trash
    /\ Fault
    /\ NextNote(n, FALSE)
    /\ UNCHANGED <<db, server, used, ghost>>

\* The server has done it and the answer is lost.
AnswerLost ==
    /\ \/ work.kind = "saved" /\ work.sent.sid \in {None, work.sid}
       \/ work.kind = "erased"
    /\ Fault
    /\ NextNote(work.id, FALSE)
    /\ UNCHANGED <<db, server, used, ghost>>

\* Mutant of Advance: the cursor takes whatever USN the upload got.
AdvanceAlways(u) == cursor' = u

\* checkNeedSyncAgain: the cursor follows a USN that leaves no gap
Advance(u) == cursor' = IF u = cursor + 1 THEN u ELSE cursor

\* processNoteAfterSync: UpdateNoteAfterSync takes the row as it is now
AckSaved ==
    /\ work.kind = "saved"
    /\ LET n == work.id IN
        /\ rows' = [rows EXCEPT ![n] = Acked(@, work.sid, work.usn)]
        /\ raced' = raced \cup (rows[n].text \ work.sent.text)
        /\ NextNote(n, TRUE)
    /\ Advance(work.usn)
    /\ UNCHANGED <<server, bounds, used, discarded>>

\* DeleteLocalNote after deleteTrash
AckErased ==
    /\ work.kind = "erased"
    /\ rows' = [rows EXCEPT ![work.id] = None]
    /\ raced' = raced \cup (rows[work.id].text \ work.sent.text)
    /\ NextNote(work.id, TRUE)
    /\ Advance(work.usn)
    /\ UNCHANGED <<server, bounds, used, discarded>>

\* sendChanges returns: an error ends the round before anything is pulled.
\* The second time it is the last call that can: the cursor is written.
PushDone ==
    /\ Pushing /\ queue = NoQueue /\ work = NoWork
    /\ \/ failed /\ EndRound /\ UNCHANGED cursor
       \/ /\ ~failed /\ phase = "push1"
          /\ phase' = "state"
          /\ UNCHANGED <<mode, queue, failed, work, pulling, cursor>>
       \/ /\ ~failed /\ phase = "push2"
          /\ cursor' = IF mode = "full" THEN target ELSE cursor
          /\ EndRound
    /\ UNCHANGED <<rows, server, bounds, used, ghost>>

-----------------------------------------------------------------------------
(* syncNotesMode and processNoteSync.                                      *)

\* Mutant of GetLastSyncState: a single new change is not worth a pull.
GetLastSyncStateLate ==
    /\ phase = "state"
    /\ target' = susn
    /\ IF susn > after + 1
       THEN /\ phase' = "pull" /\ snapshot' = (after < 0) /\ more' = TRUE
            /\ UNCHANGED queue
       ELSE /\ phase' = "push2" /\ queue' = DirtyNotes(rows)
            /\ UNCHANGED <<snapshot, more>>
    /\ UNCHANGED <<mode, failed, work, after, page, seen, db, server, bounds, used, ghost>>

\* GetLastSyncState; afterwards IncrSync pulls only when the server is ahead.
GetLastSyncState ==
    /\ phase = "state"
    /\ target' = susn
    /\ IF susn > after
       THEN /\ phase' = "pull" /\ snapshot' = (after < 0) /\ more' = TRUE
            /\ UNCHANGED queue
       ELSE /\ phase' = "push2" /\ queue' = DirtyNotes(rows)
            /\ UNCHANGED <<snapshot, more>>
    /\ UNCHANGED <<mode, failed, work, after, page, seen, db, server, bounds, used, ghost>>

MetaOf(s) == [sid |-> s, usn |-> srv[s].usn, trash |-> srv[s].trash, deleted |-> srv[s].deleted]

\* getSyncNotes: the PageSize oldest changes after the cursor
GetSyncNotes ==
    /\ phase = "pull" /\ work = NoWork /\ page = {} /\ more
    /\ LET newer == {MetaOf(s) : s \in {x \in Ids : srv[x] # None /\ srv[x].usn > after}}
       IN page' = {m \in newer : Cardinality({k \in newer : k.usn < m.usn}) < PageSize}
    /\ more' = (Cardinality(page') = PageSize)
    /\ UNCHANGED <<phase, mode, queue, failed, work, snapshot, after, seen, target,
                   db, server, bounds, used, ghost>>

\* The next entry of the page.
Head(m) == /\ phase = "pull" /\ work = NoWork
           /\ m \in page
           /\ \A k \in page : m.usn <= k.usn

\* processNoteSync(m) has returned nil: the loop goes on behind m.
Processed(m) ==
    /\ page' = page \ {m}
    /\ after' = m.usn
    /\ seen' = IF m.deleted THEN seen ELSE seen \cup {m.sid}
    /\ work' = NoWork
    /\ UNCHANGED <<phase, mode, queue, failed, snapshot, more, target>>

\* A snapshot skips the tombstones: RequeueMissingDesktopNotes sees to them.
PullSkipTombstone(m) ==
    /\ Head(m) /\ m.deleted /\ snapshot
    /\ Processed(m)
    /\ UNCHANGED <<db, server, bounds, used, ghost>>

\* DeleteNoteForce(localID): WHERE server_note_id = the LOCAL id of the note
PullTombstone(m) ==
    /\ Head(m) /\ m.deleted /\ ~snapshot
    /\ LET doomed == {x \in Ids : Exists(x) /\ rows[x].sid \in RowsOf(m.sid)} IN
        /\ rows' = [x \in Ids |-> IF x \in doomed THEN None ELSE rows[x]]
        /\ raced' = raced \cup UNION {rows[x].text : x \in doomed}
    /\ Processed(m)
    /\ UNCHANGED <<cursor, server, bounds, used, discarded>>

\* processNoteSync asks for the text of a row that is not at this version; a
\* snapshot also re-reads the clean rows that are.
NeedsText(r, m) == r.usn # m.usn \/ (~r.dirty /\ snapshot)

PullUpToDate(m) ==
    /\ Head(m) /\ ~m.deleted
    /\ \E n \in RowsOf(m.sid) : ~NeedsText(rows[n], m)
    /\ Processed(m)
    /\ UNCHANGED <<db, server, bounds, used, ghost>>

\* Mutant of PullFetch: the row is looked up by note_id.
PullFetchByLocalId(m) ==
    /\ Head(m) /\ ~m.deleted /\ IsLive(m.sid)
    /\ IF Exists(m.sid)
       THEN /\ NeedsText(rows[m.sid], m)
            /\ Await([kind |-> "apply", id |-> m.sid, meta |-> m,
                      text |-> srv[m.sid].text, before |-> rows[m.sid]])
       ELSE Await([kind |-> "insert", meta |-> m, text |-> srv[m.sid].text])
    /\ UNCHANGED <<db, server, bounds, used, ghost>>

\* getNoteContent answers with the text of this moment, which may be newer
\* than the metadata of the page
PullFetch(m) ==
    /\ Head(m) /\ ~m.deleted /\ IsLive(m.sid)
    /\ \/ /\ RowsOf(m.sid) = {}
          /\ Await([kind |-> "insert", meta |-> m, text |-> srv[m.sid].text])
       \/ \E n \in RowsOf(m.sid) :
            /\ NeedsText(rows[n], m)
            /\ Await([kind |-> "apply", id |-> n, meta |-> m,
                      text |-> srv[m.sid].text, before |-> rows[n]])
    /\ UNCHANGED <<db, server, bounds, used, ghost>>

\* ... or with an error when the note has been deleted since.
PullVanished(m) ==
    /\ Head(m) /\ ~m.deleted /\ ~IsLive(m.sid)
    /\ \A n \in RowsOf(m.sid) : NeedsText(rows[n], m)
    /\ EndRound
    /\ UNCHANGED <<db, server, bounds, used, ghost>>

\* AddNoteForce: the local id of a pulled note is its server id
Insert ==
    /\ work.kind = "insert"
    /\ LET m == work.meta IN
        /\ rows' = [rows EXCEPT ![m.sid] = CleanRow(m.sid, m.usn, work.text, m.trash)]
        /\ Processed(m)
    /\ UNCHANGED <<cursor, server, bounds, used, ghost>>

\* After updateNote has answered "conflict": getNote, for the metadata ...
ResolveMeta ==
    /\ work.kind = "conflict" /\ IsLive(work.sid)
    /\ Await([kind |-> "resolve", id |-> work.id, meta |-> MetaOf(work.sid)])
    /\ UNCHANGED <<db, server, bounds, used, ghost>>

\* ... which is empty for a note that has been deleted since, ...
ResolveVanished ==
    /\ work.kind = "conflict" /\ ~IsLive(work.sid)
    /\ NextNote(work.id, FALSE)
    /\ UNCHANGED <<db, server, bounds, used, ghost>>

\* ... then processNoteSync, which reads the row and asks for the text.
ResolveFetch ==
    /\ work.kind = "resolve" /\ IsLive(work.meta.sid)
    /\ \E n \in RowsOf(work.meta.sid) :
        Await([kind |-> "apply", id |-> n, meta |-> work.meta,
               text |-> srv[work.meta.sid].text, before |-> rows[n]])
    /\ UNCHANGED <<db, server, bounds, used, ghost>>

\* The error of a getNoteContent that finds no note quotes the server's answer:
\* when it says "notExists" the note is re-created, otherwise the note fails.
ResolveLost ==
    /\ work.kind = "resolve" /\ ~IsLive(work.meta.sid)
    /\ \/ NextNote(work.id, FALSE)
       \/ Await([kind |-> "recreate", id |-> work.id, tries |-> 0, created |-> 0])
    /\ UNCHANGED <<db, server, bounds, used, ghost>>

\* Mutant of SameRow: only the version is compared.
SameUsn(r, before) == r.usn = before.usn

\* The WHERE clause of ApplyRemoteNote: the row is the one that was read.
SameRow(r, before) ==
    /\ r.usn = before.usn /\ r.text = before.text /\ r.dirty = before.dirty
    /\ r.trash = before.trash /\ r.del = before.del

\* Mutant of Applied: the metadata is written, the text is not.
AppliedWithoutText(r, m, text) ==
    [r EXCEPT !.usn = m.usn, !.trash = m.trash, !.dirty = FALSE,
              !.textDirty = FALSE, !.new = FALSE, !.del = FALSE]

Applied(r, m, text) ==
    [r EXCEPT !.usn = m.usn, !.text = text, !.trash = m.trash, !.dirty = FALSE,
              !.textDirty = FALSE, !.new = FALSE, !.del = FALSE]

\* What processNoteSync's caller does with its result.
Returned(ok) ==
    \/ Pushing /\ NextNote(work.id, ok)
    \/ phase = "pull" /\ ok /\ Processed(work.meta)
    \/ phase = "pull" /\ ~ok /\ EndRound

\* ApplyRemoteNote on a clean row, or on a dirty one with the same text.
Apply ==
    /\ work.kind = "apply"
    /\ ~work.before.dirty \/ work.before.text = work.text
    /\ LET n == work.id
           ok == SameRow(rows[n], work.before)
       IN /\ rows' = [rows EXCEPT ![n] = IF ok THEN Applied(@, work.meta, work.text) ELSE @]
          /\ Returned(ok)
    /\ UNCHANGED <<cursor, server, bounds, used, ghost>>

\* Mutant of ApplyConflict: the local text wins under the server's version.
ApplyConflictLocalWins ==
    /\ work.kind = "apply"
    /\ work.before.dirty /\ work.before.text # work.text
    /\ rows' = [rows EXCEPT ![work.id].usn = work.meta.usn]
    /\ Returned(TRUE)
    /\ UNCHANGED <<cursor, server, used, bounds, ghost>>

\* CopyNoteForConflict re-reads the row; the copy stays when ApplyRemoteNote
\* then finds the row changed.
ApplyConflict ==
    /\ work.kind = "apply"
    /\ work.before.dirty /\ work.before.text # work.text
    /\ \E c \in Fresh :
        LET n == work.id
            ok == SameRow(rows[n], work.before)
        IN /\ rows' = [rows EXCEPT
                        ![c] = NewRow(rows[n].text),
                        ![n] = IF ok THEN Applied(@, work.meta, work.text) ELSE @]
           /\ used' = used \cup {c}
           /\ Returned(ok)
    /\ UNCHANGED <<cursor, server, bounds, ghost>>

\* RequeueMissingDesktopNotes: clean rows the snapshot does not list are sent
\* again, under the server id they have.
Requeued(r) ==
    IF r # None /\ ~r.dirty /\ ~r.trash /\ r.sid \notin seen
    THEN [r EXCEPT !.dirty = TRUE, !.new = FALSE, !.del = FALSE]
    ELSE r

PullDone ==
    /\ phase = "pull" /\ work = NoWork /\ page = {} /\ ~more
    /\ rows' = IF snapshot THEN [n \in Ids |-> Requeued(rows[n])] ELSE rows
    /\ phase' = "push2"
    /\ queue' = DirtyNotes(rows')
    /\ UNCHANGED <<mode, failed, work, pulling, cursor, server, bounds, used, ghost>>

-----------------------------------------------------------------------------
PushStep ==
    \/ \E n \in Ids : \/ PushAdd(n) \/ PushForget(n) \/ PushPassOver(n)
                      \/ PushErase(n) \/ PushEraseRefused(n)
                      \/ PushUpdate(n) \/ PushConflict(n) \/ PushMissing(n)
    \/ Recreate \/ RecreateGiveUp
    \/ AckSaved \/ AckErased
    \/ ResolveMeta \/ ResolveVanished \/ ResolveFetch \/ ResolveLost
    \/ PushDone

PullStep ==
    \/ GetLastSyncState \/ GetSyncNotes
    \/ \E m \in page : \/ PullSkipTombstone(m) \/ PullTombstone(m)
                       \/ PullUpToDate(m) \/ PullFetch(m) \/ PullVanished(m)
    \/ Insert \/ PullDone

\* Both halves of a round end in ApplyRemoteNote.
ApplyStep == Apply \/ ApplyConflict

FaultStep ==
    \/ Abort \/ AnswerLost
    \/ RecreateLost \/ RecreateRefused
    \/ \E n \in Ids : PushFails(n)

RoundStep == PushStep \/ PullStep \/ ApplyStep

Next == \/ UserStep \/ RemoteStep
        \/ \E m \in {"full", "incr", "force"} : StartSync(m)
        \/ RoundStep \/ FaultStep

Spec == Init /\ [][Next]_vars

(* A round that runs is not suspended for ever, and startAutoSync starts   *)
(* one every five minutes.  Users, other devices and faults owe nothing.   *)
FairSpec == Spec /\ WF_vars(RoundStep) /\ WF_vars(StartSync("incr"))

-----------------------------------------------------------------------------
(* Properties *)

DbType == /\ rows \in [Ids -> Row \cup {None}]
          /\ cursor \in Int

ServerType == /\ srv \in [Ids -> Object \cup {None}]
              /\ susn \in Nat

RoundType ==
    /\ phase \in {"idle", "push1", "state", "pull", "push2"}
    /\ mode \in {"full", "incr"}
    /\ queue \in [Ids -> Row \cup {None}]
    /\ failed \in BOOLEAN
    /\ work \in Work
    /\ snapshot \in BOOLEAN
    /\ after \in Int
    /\ page \in SUBSET Meta
    /\ more \in BOOLEAN
    /\ seen \in SUBSET Ids
    /\ target \in Nat

ObservedType ==
    /\ edits \in Nat /\ acts \in Nat /\ faults \in Nat
    /\ used \in SUBSET Ids
    /\ discarded \in Text /\ raced \in Text

\* The shape of the database, the server and the locals of a round.
TypeOK == DbType /\ ServerType /\ RoundType /\ ObservedType

\* No two rows stand for the same server note, whatever the order of uploads,
\* lost answers, conflict copies, re-creations and pulls: GetNoteByServerID
\* and GetLocalNoteID return "the" row.
OneRowPerNote == \A s \in Ids : \A m, n \in RowsOf(s) : m = n

\* A row whose USN is the server's has seen the server's text.  updateNote
\* detects conflicts by comparing USNs, so this is what makes that sound.
BaseSeen ==
    \A n \in Ids :
        Exists(n) /\ rows[n].sid # None /\ srv[rows[n].sid] # None
            /\ rows[n].usn = srv[rows[n].sid].usn
        => srv[rows[n].sid].text \subseteq rows[n].text

\* No step of any device replaces a text on the server by one that has not
\* seen it: an upload of this client never wipes out another device's edit.
NoRemoteClobber ==
    [][\A s \in Ids : srv[s] # None
            => srv'[s] # None /\ srv[s].text \subseteq srv'[s].text]_vars

\* A clean row at the server's version holds nothing the server has not got,
\* save what a late answer overtook (see raced).
CleanRowAgrees ==
    \A n \in Ids :
        Exists(n) /\ ~rows[n].dirty /\ rows[n].sid # None
            /\ srv[rows[n].sid] # None /\ rows[n].usn = srv[rows[n].sid].usn
        => rows[n].text \subseteq srv[rows[n].sid].text \cup raced

\* Nothing typed on any device disappears: it is in a row or on the server,
\* unless somebody deleted the note it was in, or it was typed while the
\* answer to an upload of the same note was on its way (raced).
NoLostEdit ==
    \A e \in 1..edits \ (discarded \cup raced) :
        \/ \E n \in Ids : Exists(n) /\ e \in rows[n].text
        \/ \E s \in Ids : IsLive(s) /\ e \in srv[s].text

\* IncrSync asks only for changes after last_sync_usn: every note the server
\* changed up to there is in the cache, at that version or being pushed.
CursorSound ==
    \A s \in Ids :
        IsLive(s) /\ srv[s].usn <= cursor
        => \E n \in RowsOf(s) : rows[n].usn = srv[s].usn

\* While users type and create notes on several devices and requests fail now
\* and then, the account converges once they stop: nothing is left to upload
\* and every server note is in the cache at its version.  Not so once a note
\* has been trashed or deleted here: see TrashedNewNoteSettles, DeleteSettles.
Synced ==
    /\ \A n \in Ids : Exists(n) => ~rows[n].dirty
    /\ \A s \in Ids : IsLive(s) => \E n \in RowsOf(s) :
            rows[n].usn = srv[s].usn /\ srv[s].text \subseteq rows[n].text
Converges == <>[](acts = 0 => Synced)

-----------------------------------------------------------------------------
(* The strengthening that makes BaseSeen and OneRowPerNote inductive: what *)
(* is true of the copies of rows and server objects a round carries about. *)

\* usn u and text t of a copy of server note s are no newer than the note,
\* and at the note's USN they include its text.
Based(s, u, t) ==
    /\ srv[s] # None
    /\ u <= srv[s].usn
    /\ u = srv[s].usn => srv[s].text \subseteq t

IdsInUse ==
    \A x \in Ids : (Exists(x) \/ srv[x] # None) => x \in used

ServerUsns == \A s \in Ids : srv[s] # None => srv[s].usn <= susn

RowsBased ==
    \A n \in Ids : Exists(n) /\ rows[n].sid # None
                    => Based(rows[n].sid, rows[n].usn, rows[n].text)

\* A note waiting in the list still has its row, on the same base, with at
\* least the text that was read.
QueueBased ==
    \A n \in Ids : queue[n] # None =>
        /\ Pushing
        /\ Exists(n)
        /\ rows[n].sid = queue[n].sid
        /\ queue[n].text \subseteq rows[n].text
        /\ queue[n].sid # None => Based(queue[n].sid, queue[n].usn, queue[n].text)

PageBased ==
    \A m \in page : srv[m.sid] # None /\ m.usn <= srv[m.sid].usn

WorkSaved ==
    work.kind = "saved" =>
        /\ queue[work.id] # None /\ queue[work.id] = work.sent
        /\ Based(work.sid, work.usn, work.sent.text)
        /\ RowsOf(work.sid) \subseteq {work.id}

WorkPush ==
    /\ work.kind \in {"erased", "recreate"} => queue[work.id] # None
    /\ work.kind = "conflict" =>
        queue[work.id] # None /\ queue[work.id].sid = work.sid
    /\ work.kind = "resolve" =>
        /\ queue[work.id] # None
        /\ srv[work.meta.sid] # None /\ work.meta.usn <= srv[work.meta.sid].usn

WorkPull ==
    /\ work.kind = "insert" =>
        /\ phase = "pull" /\ RowsOf(work.meta.sid) = {}
        /\ Based(work.meta.sid, work.meta.usn, work.text)
    /\ work.kind = "apply" =>
        /\ Pushing \/ phase = "pull"
        /\ Exists(work.id) /\ rows[work.id].sid = work.meta.sid
        /\ Based(work.meta.sid, work.meta.usn, work.text)

SyncInv ==
    /\ IdsInUse
    /\ ServerUsns
    /\ OneRowPerNote
    /\ RowsBased
    /\ QueueBased
    /\ PageBased
    /\ WorkSaved
    /\ WorkPush
    /\ WorkPull

-----------------------------------------------------------------------------
(* What a doc, a comment or a test says, and the code does not do.  TLC finds *)
(* a counterexample to each; section 5 of the README has the constants.       *)

\* "A concurrent local edit must not be cleared by an in-flight network
\* response" (db/note_repo.go:349): writing the answer to an upload leaves a
\* row that has been edited since the upload dirty.
AckKeepsConcurrentEdit ==
    [][\A n \in Ids :
        work.kind = "saved" /\ work.id = n /\ work'.kind = "none" /\ Exists(n)
            /\ rows[n].text # work.sent.text /\ rows[n].dirty
        => rows'[n] # None /\ rows'[n].dirty]_vars

\* "If the note is modified locally during the download, stop overwriting,
\* keep the dirty data and report an error" (docs/DEVELOPMENT.md:7): no step
\* of the download takes a dirty row away.
PullKeepsDirtyRow ==
    [][\A n \in Ids : phase = "pull" /\ Exists(n) /\ rows[n].dirty => rows'[n] # None]_vars

\* "'Pending' only means local changes that still need uploading" (main.go:119):
\* a note trashed before its first upload stops being pending in the end.
TrashedNewNoteSettles ==
    \A n \in Ids :
        (Exists(n) /\ rows[n].dirty /\ rows[n].trash /\ ~rows[n].del)
            ~> ~(Exists(n) /\ rows[n].dirty /\ rows[n].trash /\ ~rows[n].del)

\* A delete the server has already applied ("notExists", sync/push.go:245)
\* removes the local row in the end.
DeleteSettles ==
    \A n \in Ids : (Exists(n) /\ rows[n].del) ~> ~(Exists(n) /\ rows[n].del)

\* "Do not retry these non-idempotent requests automatically: the server may
\* have committed the note even when the response was lost" (api/client.go:161):
\* after an addNote whose answer was lost, the same pass sends no second one.
NoBlindRetry ==
    [][work.kind = "recreate" /\ work.created > 0 /\ edits' = edits
        => \A s \in Ids : srv[s] = None => srv'[s] = None]_vars

=============================================================================
