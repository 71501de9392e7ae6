------------------------------ MODULE NoteRow -------------------------------
(***************************************************************************)
(* The row of one note, statement by statement.  NoteSync takes a request  *)
(* of the editor, and the repair after a full snapshot, as one step; here  *)
(* each is split where it lets go of the database: the editor's save reads *)
(* the row, adds to the history and writes the row back, RestoreLocalHis-  *)
(* tory reads before its transaction, the server's history is restored in  *)
(* three calls, and the repair selects before it updates.  The web server  *)
(* runs each request in a goroutine of its own and nothing serialises      *)
(* those of one note: any of them overlap.  Of a round only the download   *)
(* is here; the upload and its answers are NoteSync's.                     *)
(***************************************************************************)
EXTENDS Naturals, Sequences, SequencesExt

CONSTANTS
    Requests,       \* requests to the web server that may be under way at once
    Limit,          \* versions the local history keeps (20)
    MaxTexts,       \* bound: texts that are ever written
    MaxEdits,       \* bound: operations of the user
    MaxFaults       \* bound: requests that fail half-way, snapshots with a gap

ASSUME NoteRowAssumption ==
    /\ {Limit, MaxTexts, MaxEdits, MaxFaults} \subseteq Nat /\ Limit > 1

VARIABLES
    srv, past,  \* the server's note, and all texts it has had
    row,        \* the row of notes
    hist,       \* note_histories, oldest first
    copies,     \* texts of the conflict copies
    ask,        \* per request: what it has read and what it brings
    pull,       \* the download: what was read, what the server sent
    made,       \* number of texts written so far
    latest,     \* the text the user has written or chosen last
    dropped,    \* texts the history no longer holds
    raced,      \* texts a save wrote while another had read the row before
    count       \* bounds

handlers == <<ask, pull>>
ghosts   == <<made, latest, raced>>
history  == <<hist, dropped>>
vars     == <<srv, past, row, history, copies, handlers, ghosts, count>>

-----------------------------------------------------------------------------

Texts == 0 .. MaxTexts

\* meta: the columns ApplyRemoteNote compares besides the text (title, tags,
\* notebook, star); plain: is_markdown, which it does not compare.
Row == [text : Texts, meta : BOOLEAN, plain : BOOLEAN, usn : Nat,
        dirty : BOOLEAN, trash : BOOLEAN, hidden : BOOLEAN]
Remote == [text : Texts, usn : Nat]

\* complete: files_complete, the note had not been uploaded yet.
History == [text : Texts, plain : BOOLEAN, complete : BOOLEAN]

Synced(text, usn) == [text |-> text, meta |-> FALSE, plain |-> FALSE, usn |-> usn,
                      dirty |-> FALSE, trash |-> FALSE, hidden |-> FALSE]

\* Where a request stands, and where the download does.
Stages == {"idle", "saving", "kept", "restoring", "called", "erasing",
           "read", "fetched", "copied", "selected"}

Idle == [stage |-> "idle", row |-> Synced(0, 0), text |-> 0, meta |-> FALSE, plain |-> FALSE, usn |-> 0]
Handler == [stage : Stages, row : Row, text : Texts, meta : BOOLEAN, plain : BOOLEAN, usn : Nat]

Counters == {"edits", "faults"}

Counted(c) == count' = [count EXCEPT ![c] = @ + 1]

\* The note has been downloaded, or written here, changed and uploaded.
Init ==
    /\ \/ hist = <<>> /\ made = 0
       \/ hist = <<[text |-> 1, plain |-> FALSE, complete |-> TRUE]>> /\ made = 1 /\ MaxTexts > 0
    /\ srv = [text |-> 0, usn |-> 1] /\ past = {0}
    /\ row = Synced(0, 1) /\ copies = {}
    /\ ask = [r \in Requests |-> Idle] /\ pull = Idle
    /\ latest = 0 /\ dropped = {} /\ raced = {}
    /\ count = [c \in Counters |-> 0]

\* A text nobody has written before.
Writes == made < MaxTexts /\ made' = made + 1

\* The texts of a history.
Listed(h) == {version.text : version \in Range(h)}

\* What the history gives up: the oldest version, or all of them.
Drops == dropped' = dropped \cup (Listed(hist) \ Listed(hist'))

Owned == ~row.hidden                                \* ownedNote

-----------------------------------------------------------------------------
(* The server                                                              *)

RemoteEdit ==
    /\ Writes
    /\ srv' = [text |-> made + 1, usn |-> srv.usn + 1] /\ past' = past \cup {made + 1}
    /\ UNCHANGED <<row, history, copies, handlers, latest, raced, count>>

-----------------------------------------------------------------------------
(* The editor's requests                                                   *)

UserStep == count.edits < MaxEdits /\ Counted("edits")

\* A request begins, goes on, and ends.
Begins(r, handler) == ask[r] = Idle /\ ask' = [ask EXCEPT ![r] = handler]
GoesOn(r, from, to) == ask[r].stage = from /\ ask' = [ask EXCEPT ![r].stage = to]
Ends(r, from) == ask[r].stage = from /\ ask' = [ask EXCEPT ![r] = Idle]

\* save, up to the comparison: the text is new or the one that is there.
SaveReads(r) ==
    /\ Owned /\ ~row.trash
    /\ \E new, meta, plain \in BOOLEAN :
         /\ IF new THEN Writes ELSE made' = made
         /\ Begins(r, [stage |-> "saving", row |-> row, text |-> IF new THEN made + 1 ELSE row.text,
                       meta |-> meta, plain |-> plain, usn |-> 0])
    /\ UserStep
    /\ UNCHANGED <<srv, past, row, history, copies, pull, latest, raced>>

\* A version of a note that the server has.
Version(text, plain) == [text |-> text, plain |-> plain, complete |-> FALSE]

\* DeleteOldNoteHistories, InsertNoteHistory; the format is the row's of now.
Recorded(text) ==
    LET n == Len(hist)
    IN Append(IF n < Limit THEN hist ELSE SubSeq(hist, n - Limit + 2, n), Version(text, row.plain))

\* Mutant of SaveKeeps: only a row without changes has a version worth keeping.
SaveKeepsClean(r) ==
    LET save == ask[r]
    IN  /\ GoesOn(r, "saving", "kept")
        /\ hist' = IF save.text = save.row.text \/ save.row.dirty THEN hist ELSE Recorded(save.row.text)
        /\ Drops
        /\ UNCHANGED <<srv, past, row, copies, pull, ghosts, count>>

\* AddNoteHistory, if the text or the format changes.
SaveKeeps(r) ==
    LET save == ask[r]
    IN  /\ GoesOn(r, "saving", "kept")
        /\ hist' = IF save.text = save.row.text /\ save.plain = save.row.plain
                   THEN hist ELSE Recorded(save.row.text)
        /\ Drops
        /\ UNCHANGED <<srv, past, row, copies, pull, ghosts, count>>

\* A save that has read the row and not yet written it.
Saves(q) == ask[q].stage \in {"saving", "kept"}

\* UpdateNote: the columns of the request, whatever the row is by now.
SaveWrites(r) ==
    LET save == ask[r]
    IN  /\ Ends(r, "kept")
        /\ row' = [row EXCEPT !.text = save.text, !.meta = save.meta, !.plain = save.plain, !.dirty = TRUE]
        /\ latest' = save.text
        /\ raced' = IF \E q \in Requests \ {r} : Saves(q) THEN raced \cup {save.text} ELSE raced
        /\ UNCHANGED <<srv, past, history, copies, pull, made, count>>

\* historySaveFailed, saveFailed, offline, a statement whose error nobody reads,
\* or the process ends.
RequestFails(r) ==
    /\ \E stage \in Stages \ {"idle"} : Ends(r, stage)
    /\ count.faults < MaxFaults /\ Counted("faults")
    /\ UNCHANGED <<srv, past, row, history, copies, pull, ghosts>>

\* deleteNote, restore: SetNoteTrash.
SetTrash ==
    /\ Owned /\ row' = [row EXCEPT !.trash = ~@, !.dirty = TRUE]
    /\ UserStep
    /\ UNCHANGED <<srv, past, history, copies, handlers, ghosts>>

\* deleteTrashNote: MarkNoteLocalDelete, which takes a note that is not in the
\* trash as well ...
DeleteTrash(r) ==
    /\ Owned /\ row' = [row EXCEPT !.hidden = TRUE, !.dirty = TRUE, !.trash = TRUE]
    /\ Begins(r, [Idle EXCEPT !.stage = "erasing"])
    /\ UserStep
    /\ UNCHANGED <<srv, past, history, copies, pull, ghosts>>

\* ... and DeleteNoteHistories.
EraseHistories(r) ==
    /\ Ends(r, "erasing")
    /\ hist' = <<>> /\ Drops
    /\ UNCHANGED <<srv, past, row, copies, pull, ghosts, count>>

-----------------------------------------------------------------------------
(* Restoring an older version                                              *)

\* RestoreLocalHistory, up to its transaction: a version whose attachments
\* are known.
RestoreReads(r) ==
    /\ Owned /\ ~row.trash
    /\ \E h \in Range(hist) :
         /\ h.complete
         /\ Begins(r, [Idle EXCEPT !.stage = "restoring", !.row = row, !.text = h.text, !.plain = h.plain])
    /\ UserStep
    /\ UNCHANGED <<srv, past, row, history, copies, pull, ghosts>>

\* The transaction's WHERE clause.
StillThere(before) ==
    /\ row.text = before.text /\ row.plain = before.plain /\ row.usn = before.usn
    /\ ~row.trash /\ ~row.hidden

Chosen(back) == [row EXCEPT !.text = back.text, !.plain = back.plain, !.dirty = TRUE]

RestoreWrites(r) ==
    LET back == ask[r]
    IN  /\ Ends(r, "restoring")
        /\ IF StillThere(back.row)
           THEN /\ row' = Chosen(back)
                /\ hist' = Append(hist, Version(back.row.text, back.row.plain))
                /\ latest' = back.text
           ELSE UNCHANGED <<row, hist, latest>>
        /\ UNCHANGED <<srv, past, dropped, copies, pull, made, raced, count>>

\* restoreHistory of a server version: only over a row without changes ...
RestoreAsks(r) ==
    /\ Owned /\ ~row.trash /\ ~row.dirty
    /\ \E text \in past : Begins(r, [Idle EXCEPT !.stage = "called", !.row = row, !.text = text])
    /\ UserStep
    /\ UNCHANGED <<srv, past, row, history, copies, pull, ghosts>>

\* ... which the server compares too; the next download brings the text.
RestoreCalls(r) ==
    LET back == ask[r]
    IN  /\ Ends(r, "called")
        /\ srv' = IF srv.usn = back.row.usn THEN [text |-> back.text, usn |-> srv.usn + 1] ELSE srv
        /\ UNCHANGED <<past, row, history, copies, pull, ghosts, count>>

-----------------------------------------------------------------------------
(* The download: processNoteSync                                           *)

PullReads ==
    /\ pull.stage = "idle"
    /\ row.usn # srv.usn
    /\ pull' = [Idle EXCEPT !.stage = "read", !.row = row, !.usn = srv.usn]
    /\ UNCHANGED <<srv, past, row, history, copies, ask, ghosts, count>>

\* GetNoteContent: the text of the moment, which may be newer than the USN.
PullFetches ==
    /\ pull.stage = "read" /\ pull' = [pull EXCEPT !.stage = "fetched", !.text = srv.text]
    /\ UNCHANGED <<srv, past, row, history, copies, ask, ghosts, count>>

Conflict == pull.row.dirty /\ pull.row.text # pull.text

CopyNoteForConflict ==
    /\ pull.stage = "fetched" /\ Conflict
    /\ copies' = copies \cup {row.text} /\ pull' = [pull EXCEPT !.stage = "copied"]
    /\ UNCHANGED <<srv, past, row, history, ask, ghosts, count>>

\* Mutant of Unchanged: the text is not compared.
UnchangedFlags(before) ==
    /\ row.usn = before.usn /\ row.dirty = before.dirty /\ row.meta = before.meta
    /\ row.trash = before.trash /\ row.hidden = before.hidden

\* The WHERE clause of ApplyRemoteNote.
Unchanged(before) ==
    /\ row.usn = before.usn /\ row.dirty = before.dirty /\ row.text = before.text
    /\ row.meta = before.meta /\ row.trash = before.trash /\ row.hidden = before.hidden

Applied == Synced(pull.text, pull.usn)

ApplyRemoteNote ==
    /\ pull.stage = "copied" \/ (pull.stage = "fetched" /\ ~Conflict)
    /\ pull' = Idle
    /\ row' = IF Unchanged(pull.row) THEN Applied ELSE row
    /\ UNCHANGED <<srv, past, history, copies, ask, ghosts, count>>

-----------------------------------------------------------------------------
(* After a full snapshot: RequeueMissingDesktopNotes                       *)

\* The snapshot does not list the note.
SelectMissing ==
    /\ pull.stage = "idle" /\ ~row.dirty /\ ~row.trash
    /\ pull' = [Idle EXCEPT !.stage = "selected", !.row = row]
    /\ count.faults < MaxFaults /\ Counted("faults")
    /\ UNCHANGED <<srv, past, row, history, copies, ask, ghosts>>

UpdateMissing ==
    /\ pull.stage = "selected" /\ pull' = Idle
    /\ row' = [row EXCEPT !.dirty = TRUE, !.hidden = FALSE]
    /\ UNCHANGED <<srv, past, history, copies, ask, ghosts, count>>

\* The network fails, the user cancels or the process ends.
PullFails ==
    /\ pull.stage # "idle" /\ pull' = Idle
    /\ count.faults < MaxFaults /\ Counted("faults")
    /\ UNCHANGED <<srv, past, row, history, copies, ask, ghosts>>

-----------------------------------------------------------------------------

Save(r) == SaveReads(r) \/ SaveKeeps(r) \/ SaveWrites(r)
Delete(r) == DeleteTrash(r) \/ EraseHistories(r)
Restore(r) == RestoreReads(r) \/ RestoreWrites(r) \/ RestoreAsks(r) \/ RestoreCalls(r)
Download == PullReads \/ PullFetches \/ CopyNoteForConflict \/ ApplyRemoteNote \/ UpdateMissing

Request(r) == Save(r) \/ Delete(r) \/ Restore(r) \/ RequestFails(r)

Next == RemoteEdit \/ SetTrash \/ Download \/ SelectMissing \/ PullFails \/ \E r \in Requests : Request(r)

Spec == Init /\ [][Next]_vars

-----------------------------------------------------------------------------
(* Properties                                                              *)

\* Every variable has its type, and a row without changes is one of the server's.
TypeOK ==
    /\ srv \in Remote /\ past \subseteq Texts /\ srv.text \in past
    /\ row \in Row /\ (~row.dirty => row.text \in past /\ ~row.meta /\ ~row.trash /\ ~row.hidden)
    /\ hist \in Seq(History) /\ {dropped, copies, raced} \subseteq SUBSET Texts
    /\ ask \in [Requests -> Handler] /\ pull \in Handler
    /\ made \in Texts /\ latest \in Texts
    /\ count \in [Counters -> Nat]

\* Where a text can be found that is not in the row: on the server, in a
\* conflict copy or in the history, or it was in the history until that was
\* full or went with the deleted note.
Found == past \cup copies \cup Listed(hist) \cup dropped

\* No interleaving of saves, restores, deletions and a download loses what the
\* user has written or chosen last, but for the limit of the history, a deletion,
\* and a save that another one, which had read the row before, may overwrite
\* (EverySaveKept below): only that other save may, and nobody else.
LatestKept == latest \in {row.text} \cup Found \cup raced

\* Nor does it lose a text that is replaced in the row, whoever replaces it
\* and whatever row that handler has read, but for the same save.
ReplacedKept == [][row'.text # row.text => row.text \in (Found \cup raced)']_vars

-----------------------------------------------------------------------------
(* What a doc, a comment or a test says, or a user expects, and the code does *)
(* not do.  TLC finds a counterexample to each; section 5 of the README has   *)
(* the constants.                                                             *)

\* Two saves that have read the same row add that one to the history, and the
\* text of the first to write it is replaced without a trace.
EverySaveKept == [][row'.text # row.text => row.text \in Found']_vars

\* Nor does the text that was typed last stay: the later answered is not the
\* later typed.
LastTypedKept ==
    [][\A r \in Requests : SaveWrites(r) /\ row.text > ask[r].text => row.text \in Found']_vars

\* "The conflict copy owns the local edit" (pull.go:409): the text that a
\* download may now replace has been copied.
CopyOwnsEdit == pull.stage = "copied" /\ Unchanged(pull.row) => row.text \in copies

\* "Offline-first: the server-side usn conflict check is skipped; the sync
\* service resolves conflicts when the change is pushed" (local.go:520): what
\* is pushed carries the USN of the row it was written over.
ConflictSeen ==
    [][\A r \in Requests : SaveWrites(r) /\ ask[r].text \notin past => row.usn = ask[r].row.usn]_vars

\* "A concurrent local edit must not be cleared by an in-flight network
\* response" (note_repo.go:350): a download that clears is_dirty replaces
\* the row that was read, or its format.
ApplyKeepsEdit ==
    [][row.dirty /\ ~row'.dirty => row.plain = pull.row.plain]_vars

\* "queues clean local notes" (note_repo.go:270): the repair leaves alone what
\* the user has deleted.
RequeueKeepsDelete == [][row.hidden /\ pull.stage = "selected" => row'.hidden]_vars

=============================================================================
