---------------------------- MODULE Attachments -----------------------------
(***************************************************************************)
(* The attachments of one note: the attachs rows and their files, the      *)
(* round that uploads and downloads the note (sync/push.go, sync/pull.go,  *)
(* sync/history_attachments.go), the background batch that follows a fresh *)
(* sync (sync/snapshot_files.go) and the local history that may bring a    *)
(* set of attachments back (db/history_restore.go).                        *)
(*                                                                         *)
(* A file of the server is known by the document it holds.  An upload      *)
(* checks the originals, reads the rows and their files, and sends the     *)
(* list, in three steps: the user and the batch write rows in between.     *)
(* The answer's statements are one step, they write disjoint columns.  The *)
(* text of the note is a revision number; which text wins is the business  *)
(* of NoteSync.  The second pass of sendChanges is the same code as the    *)
(* first.                                                                  *)
(***************************************************************************)
EXTENDS Naturals, FiniteSets

CONSTANTS
    Ids,            \* file ids of attachs rows
    Docs,           \* documents: the bytes an attachment stands for
    None,           \* nothing in flight, no file id for a document
    MaxRemote,      \* bound: changes of the other devices
    MaxUploads,     \* bound: attachments the user adds
    MaxRemoved,     \* bound: attachments the user deletes
    MaxSaves,       \* bound: edits of the note's text
    MaxRestores,    \* bound: restored histories
    MaxFaults       \* bound: requests that fail, files that are lost

ASSUME AttachmentsAssumption ==
    /\ IsFiniteSet(Ids) /\ IsFiniteSet(Docs)
    /\ None \notin Ids \cup Docs
    /\ {MaxRemote, MaxUploads, MaxRemoved, MaxSaves, MaxRestores, MaxFaults} \subseteq Nat

VARIABLES
    srv,        \* server: the note's version and its set of files
    note,       \* the notes row
    rows, doc,  \* attachs by file id: state of the row, document it stands for
    disk,       \* attachs.path names a regular file
    hist,       \* note_histories with files_complete: the file ids they list
    last,       \* users.last_sync_usn
    jobs,       \* batch.jobs: attachments of the snapshot not yet stored
    pc, pass,   \* the round: where it is, which sendChanges comes next
    from,       \* lastUsn, read before the first sendChanges
    base,       \* the notes row the round has read
    remote,     \* the server's answer: metadata, or version after an upload
    sent,       \* file ids an upload lists
    files,      \* the set about to replace the rows
    restore,    \* RestoreLocalHistory between its reads and its transaction
    reached,    \* observation: documents the server has held
    removed,    \* observation: documents the user took off the note here
    known,      \* observation: documents a row has stood for
    missed,     \* observation: documents the list in hand lacks, because their file
                \* could not be read or their row is younger than the list
    count       \* bounds

local  == <<note, rows, doc, disk, hist>>
round  == <<pc, pass, from, base, remote, sent, files>>
seen   == <<reached, removed, known>>
watch  == <<seen, missed>>
vars   == <<srv, local, last, jobs, round, restore, watch, count>>

-----------------------------------------------------------------------------

\* The server's note: live is FALSE before it is added and after it is deleted.
Object == [live : BOOLEAN, usn : Nat, files : SUBSET Docs]

\* here: the row is in notes; mapped: server_note_id is set.
Row == [here : BOOLEAN, mapped : BOOLEAN, dirty : BOOLEAN, usn : Nat, rev : Nat]

\* pending: is_dirty and no server_file_id; synced: clean, with a server_file_id.
AttachStates == {"absent", "pending", "synced"}

Counters == {"remote", "uploads", "removed", "saves", "restores", "faults"}

In(state) == {i \in Ids : rows[i] = state}
Here == {i \in Ids : rows[i] # "absent"}
DocsOf(ids) == {doc[i] : i \in ids}

\* File ids (utils.ObjectId) no row, history or list refers to.
Free == {i \in Ids : /\ rows[i] = "absent" /\ i \notin sent
                     /\ \A h \in hist : i \notin h
                     /\ \A f \in Docs : files[f] # i
                     /\ restore # None => i \notin restore.ids \cup restore.backup}

Counted(c) == count' = [count EXCEPT ![c] = @ + 1]
Fault == count.faults < MaxFaults /\ Counted("faults")

NoFiles == [f \in Docs |-> None]
NoObject == [live |-> FALSE, usn |-> 0, files |-> {}]
NoRow == [here |-> FALSE, mapped |-> FALSE, dirty |-> FALSE, usn |-> 0, rev |-> 0]

\* queueSnapshotFiles: one job for every attachment of the snapshot.
Queued(object) == object.files

\* A new note nobody has uploaded; a note a fresh sync has just brought; a
\* note of another device that the next pull will bring.
Init ==
    /\ \/ /\ srv = NoObject /\ last = 0 /\ jobs = {}
          /\ note = [NoRow EXCEPT !.here = TRUE, !.dirty = TRUE]
       \/ \E set \in SUBSET Docs :
            /\ srv = [live |-> TRUE, usn |-> 1, files |-> set]
            /\ \/ /\ note = [NoRow EXCEPT !.here = TRUE, !.mapped = TRUE, !.usn = 1]
                  /\ last = 1 /\ jobs = Queued(srv)
               \/ note = NoRow /\ last = 0 /\ jobs = {}
    /\ rows = [i \in Ids |-> "absent"] /\ doc \in [Ids -> {None}]
    /\ disk = [i \in Ids |-> FALSE] /\ hist = {}
    /\ pc = "idle" /\ pass = 1 /\ from = 0 /\ base = NoRow /\ remote = NoObject
    /\ sent = {} /\ files = NoFiles /\ restore = None
    /\ reached = srv.files /\ removed = {} /\ known = {} /\ missed = {}
    /\ count = [c \in Counters |-> 0]

-----------------------------------------------------------------------------
(* The other devices                                                       *)

RemoteChange(object) ==
    /\ srv.live /\ count.remote < MaxRemote
    /\ srv' = object
    /\ reached' = reached \cup object.files
    /\ Counted("remote")
    /\ UNCHANGED <<local, last, jobs, round, restore, removed, known, missed>>

RemoteAdd == \E f \in Docs \ (reached \cup known) :
    RemoteChange([srv EXCEPT !.usn = @ + 1, !.files = @ \cup {f}])

RemoteRemove == \E f \in srv.files :
    RemoteChange([srv EXCEPT !.usn = @ + 1, !.files = @ \ {f}])

RemoteEdit == RemoteChange([srv EXCEPT !.usn = @ + 1])

RemoteDelete == RemoteChange([live |-> FALSE, usn |-> srv.usn + 1, files |-> {}])

-----------------------------------------------------------------------------
(* The user, through the local bridge                                      *)

UserStep == UNCHANGED <<srv, last, jobs, round, reached, missed>>

\* AddNoteHistory: only a note without a server id vouches for its whole set.
Recorded == hist' = IF note.mapped THEN hist ELSE hist \cup {Here}

\* save: a change of the text.
Save ==
    /\ note.here /\ count.saves < MaxSaves
    /\ note' = [note EXCEPT !.dirty = TRUE, !.rev = @ + 1]
    /\ Recorded
    /\ Counted("saves")
    /\ UNCHANGED <<rows, doc, disk, restore, removed, known>>
    /\ UserStep

\* storeUpload: a row to be uploaded; the note itself is not marked.
Upload ==
    /\ note.here /\ count.uploads < MaxUploads
    /\ \E i \in Free, f \in Docs \ (reached \cup known) :
         /\ rows' = [rows EXCEPT ![i] = "pending"]
         /\ doc' = [doc EXCEPT ![i] = f]
         /\ disk' = [disk EXCEPT ![i] = TRUE]
         /\ known' = known \cup {f}
    /\ Counted("uploads")
    /\ UNCHANGED <<note, hist, restore, removed>>
    /\ UserStep

\* deleteAttach: the row goes, the bytes stay, the note is not marked.
DeleteAttach ==
    /\ note.here /\ count.removed < MaxRemoved
    /\ \E i \in Here :
         /\ rows' = [rows EXCEPT ![i] = "absent"]
         /\ removed' = removed \cup {doc[i]}
    /\ Recorded
    /\ Counted("removed")
    /\ UNCHANGED <<note, doc, disk, restore, known>>
    /\ UserStep

\* retryAttachment: the statement of SetAttachmentCache checks the row again.
RetryAttachment ==
    /\ \E i \in In("synced") :
         /\ ~disk[i] /\ srv.live /\ doc[i] \in srv.files
         /\ disk' = [disk EXCEPT ![i] = TRUE]
    /\ UNCHANGED <<note, rows, doc, hist, restore, removed, known, count>>
    /\ UserStep

\* A file of the data directory is cleaned up by hand.
LoseFile ==
    /\ Fault
    /\ \E i \in Here : disk[i] /\ disk' = [disk EXCEPT ![i] = FALSE]
    /\ UNCHANGED <<note, rows, doc, hist, restore, removed, known>>
    /\ UserStep

\* RestoreLocalHistory reads the note, the history and the rows to back up.
RestoreRead ==
    /\ restore = None /\ note.here /\ count.restores < MaxRestores
    /\ \E h \in hist :
         /\ \A i \in h : disk[i]
         /\ restore' = [ids |-> h, backup |-> Here, note |-> note]
    /\ Counted("restores")
    /\ UNCHANGED <<local, removed, known>>
    /\ UserStep

\* Its transaction: the text must be the one read, the rows may have changed.
RestoreWrite ==
    /\ restore # None
    /\ note.here /\ note.usn = restore.note.usn /\ note.rev = restore.note.rev
    /\ note' = [note EXCEPT !.dirty = TRUE, !.rev = @ + 1]
    /\ rows' = [i \in Ids |-> IF i \in restore.ids THEN "pending" ELSE "absent"]
    /\ hist' = IF restore.note.mapped THEN hist ELSE hist \cup {restore.backup}
    /\ removed' = removed \cup DocsOf(Here \ restore.ids)
    /\ restore' = None
    /\ UNCHANGED <<doc, disk, known, count>>
    /\ UserStep

RestoreConflict ==
    /\ restore # None
    /\ ~note.here \/ note.usn # restore.note.usn \/ note.rev # restore.note.rev
    /\ restore' = None
    /\ UNCHANGED <<local, removed, known, count>>
    /\ UserStep

User == \/ Save \/ Upload \/ DeleteAttach \/ RetryAttachment \/ LoseFile
        \/ RestoreRead \/ RestoreWrite \/ RestoreConflict

-----------------------------------------------------------------------------
(* The round: sendChanges                                                  *)

Goto(stage) == pc' = stage

EndRound == /\ Goto("idle") /\ pass' = 1 /\ from' = 0 /\ sent' = {} /\ files' = NoFiles
            /\ base' = NoRow /\ remote' = NoObject

\* sendChanges has returned nil: the pull follows, or the round is over.
Pushed ==
    IF pass = 1 THEN Goto("pull") /\ sent' = {} /\ UNCHANGED <<pass, from, base, remote, files>>
                ELSE EndRound

StartRound ==
    /\ pc = "idle"
    /\ Goto("push") /\ from' = last /\ base' = note
    /\ UNCHANGED <<srv, local, last, jobs, pass, remote, sent, files, restore, watch, count>>

\* GetDirtyNotes does not list the note, or has read it before it was deleted.
PushNothing ==
    /\ pc = "push" /\ ~base.dirty
    /\ Pushed
    /\ UNCHANGED <<srv, local, last, jobs, restore, watch, count>>

\* A pending attachment whose original is gone keeps its note from being sent.
MissingOriginal == \E i \in In("pending") : ~disk[i]

PushRefused ==
    /\ pc = "push" /\ base.dirty /\ MissingOriginal
    /\ EndRound
    /\ UNCHANGED <<srv, local, last, jobs, restore, watch, count>>

PushChecked ==
    /\ pc = "push" /\ base.dirty /\ ~MissingOriginal
    /\ Goto("list")
    /\ UNCHANGED <<srv, local, last, jobs, pass, from, base, remote, sent, files, restore, watch, count>>

\* Mutant of ByReference: a placeholder, having no bytes, is not listed.
WithBytesOnly == {i \in In("synced") : disk[i]}

\* getNoteFilesForUpload: synced rows by reference, whether or not they have bytes.
ByReference == In("synced")

\* The others go with their bytes; one that cannot be read is left out, whether
\* it is gone by now or the read fails.
WithBytes(ids) ==
    LET readable == {i \in In("pending") : disk[i]}
    IN  \/ ids = readable /\ UNCHANGED count
        \/ Fault /\ \E i \in readable : ids = readable \ {i}

\* prepareNoteForUpload: the list of the request.
PushList ==
    /\ pc = "list"
    /\ \E ids \in SUBSET In("pending") :
         /\ WithBytes(ids)
         /\ sent' = ByReference \cup ids
         /\ missed' = DocsOf(In("pending") \ ids)
    /\ Goto("send")
    /\ UNCHANGED <<srv, local, last, jobs, pass, from, base, remote, files, restore, seen>>

\* The server takes the list for the whole set of the note's files.
Stored ==
    /\ srv' = [live |-> TRUE, usn |-> srv.usn + 1, files |-> DocsOf(sent)]
    /\ reached' = reached \cup srv'.files
    /\ missed' = {}

Answered == Goto("ack") /\ remote' = srv'

PushAdd ==
    /\ pc = "send" /\ ~base.mapped
    /\ Stored /\ Answered
    /\ UNCHANGED <<local, last, jobs, pass, from, base, sent, files, restore, removed, known, count>>

PushUpdate ==
    /\ pc = "send" /\ base.mapped /\ srv.live /\ base.usn = srv.usn
    /\ Stored /\ Answered
    /\ UNCHANGED <<local, last, jobs, pass, from, base, sent, files, restore, removed, known, count>>

\* The update is applied, its answer is lost: the next upload will conflict.
AnswerLost ==
    /\ pc = "send" /\ base.mapped /\ srv.live /\ base.usn = srv.usn
    /\ Fault
    /\ Stored /\ EndRound
    /\ UNCHANGED <<local, last, jobs, restore, removed, known>>

\* recreateMissingNote makes a list of its own; of the files sent by reference
\* the server may have some.
PushMissing ==
    /\ pc = "send" /\ base.mapped /\ ~srv.live
    /\ \E kept \in SUBSET ByReference, ids \in SUBSET In("pending") :
         WithBytes(ids) /\ sent' = kept \cup ids
    /\ missed' = {} /\ Goto("again")
    /\ UNCHANGED <<srv, local, last, jobs, pass, from, base, remote, files, restore, seen>>

PushAgain ==
    /\ pc = "again"
    /\ Stored /\ Answered
    /\ UNCHANGED <<local, last, jobs, pass, from, base, sent, files, restore, removed, known, count>>

\* The answer of getNote, and the row processNoteSync compares it with.
PushConflict ==
    /\ pc = "send" /\ base.mapped /\ srv.live /\ base.usn # srv.usn
    /\ Goto("resolve") /\ remote' = srv /\ base' = note
    /\ sent' = {} /\ missed' = {}
    /\ UNCHANGED <<srv, local, last, jobs, pass, from, files, restore, seen, count>>

\* UpdateAttachServerID for every file of the answer.
Acked == [i \in Ids |-> IF i \in sent /\ rows[i] = "pending" THEN "synced" ELSE rows[i]]

\* processNoteAfterSync, then checkNeedSyncAgain.
AckUpload ==
    /\ pc = "ack"
    /\ rows' = Acked
    /\ note' = IF note.here THEN [note EXCEPT !.mapped = TRUE, !.dirty = FALSE, !.usn = remote.usn]
                            ELSE note
    /\ last' = IF remote.usn = last + 1 THEN remote.usn ELSE last
    /\ Pushed
    /\ UNCHANGED <<srv, doc, disk, hist, jobs, restore, watch, count>>

-----------------------------------------------------------------------------
(* The round: syncNotesMode                                                *)

\* GetLastSyncState shows nothing after lastUsn: the second sendChanges follows.
PullNothing ==
    /\ pc = "pull" /\ srv.usn <= from
    /\ Goto("push") /\ pass' = 2 /\ base' = note
    /\ UNCHANGED <<srv, local, last, jobs, from, remote, sent, files, restore, watch, count>>

\* A page of metadata, the round's own upload too, and the row processNoteSync
\* compares it with.
PullNote ==
    /\ pc = "pull" /\ srv.usn > from
    /\ Goto("note") /\ remote' = srv /\ base' = note
    /\ UNCHANGED <<srv, local, last, jobs, pass, from, sent, files, restore, watch, count>>

PullDone == Goto("push") /\ pass' = 2 /\ base' = note'

\* A tombstone deletes the attachments, then the note: that fails when a
\* history refers to it or its local id is not the server's.
PullTombstone ==
    /\ pc = "note" /\ ~remote.live
    /\ IF base.here /\ base.mapped
       THEN /\ rows' = [i \in Ids |-> "absent"]
            /\ \E gone \in BOOLEAN : note' = IF gone THEN NoRow ELSE note
       ELSE UNCHANGED <<rows, note>>
    /\ PullDone
    /\ UNCHANGED <<srv, doc, disk, hist, last, jobs, from, remote, sent, files, restore, watch, count>>

\* AddNoteForce.
PullInsert ==
    /\ pc = "note" /\ remote.live /\ ~base.here
    /\ note' = [NoRow EXCEPT !.here = TRUE, !.mapped = TRUE, !.usn = remote.usn]
    /\ Goto("set")
    /\ UNCHANGED <<srv, rows, doc, disk, hist, last, jobs, pass, from, base, remote, sent, files,
                   restore, watch, count>>

\* ApplyRemoteNote takes the server's version if the row is the one compared.
\* The text of a dirty row goes to a conflict copy, its attachments stay here.
Applied == note' = [note EXCEPT !.usn = remote.usn, !.dirty = FALSE]

PullApply ==
    /\ pc = "note" /\ remote.live /\ base.here /\ base.usn # remote.usn
    /\ note = base
    /\ Applied /\ Goto("set")
    /\ UNCHANGED <<srv, rows, doc, disk, hist, last, jobs, pass, from, base, remote, sent, files,
                   restore, watch, count>>

ResolveConflict ==
    /\ pc = "resolve" /\ note = base
    /\ Applied /\ Pushed
    /\ UNCHANGED <<srv, rows, doc, disk, hist, last, jobs, restore, watch, count>>

PullUpToDate ==
    /\ pc = "note" /\ remote.live /\ base.here /\ base.usn = remote.usn
    /\ Goto("set")
    /\ UNCHANGED <<srv, local, last, jobs, pass, from, base, remote, sent, files, restore, watch, count>>

\* "note changed locally during download": the round fails.
NoteChanged ==
    /\ pc \in {"note", "resolve"} /\ remote.live /\ base.here
    /\ base.usn # remote.usn /\ note # base
    /\ EndRound
    /\ UNCHANGED <<srv, local, last, jobs, restore, watch, count>>

-----------------------------------------------------------------------------
(* The round: syncAttachmentSet                                            *)

\* "pending local attachment".
SetRefused ==
    /\ pc = "set" /\ In("pending") # {}
    /\ EndRound
    /\ UNCHANGED <<srv, local, last, jobs, restore, watch, count>>

\* The row a remote file already has keeps its ids; other files get fresh ones.
RowFor(f) == LET held == {i \in In("synced") : doc[i] = f}
             IN  IF held # {} THEN held ELSE Free

\* Files with bytes on disk are kept, the others downloaded.
SetRead ==
    /\ pc = "set" /\ In("pending") = {}
    /\ \E list \in [remote.files -> Ids] :
         /\ \A f \in remote.files : list[f] \in RowFor(f)
         /\ \A f, g \in remote.files : list[f] = list[g] => f = g
         /\ files' = [f \in Docs |-> IF f \in remote.files THEN list[f] ELSE None]
    /\ Goto("replace")
    /\ UNCHANGED <<srv, local, last, jobs, pass, from, base, remote, sent, restore, watch, count>>

\* Mutant of Replaceable: the rows are not counted again.
ReplaceableNote == note.here /\ note.usn = remote.usn /\ ~note.dirty

\* What ReplaceSyncedAttachments checks again inside its transaction.
Replaceable == note.here /\ note.usn = remote.usn /\ ~note.dirty /\ In("pending") = {}

\* Mutant of Replacing: an explicitly empty set is taken for no set.
ReplacingSome == IF remote.files = {} THEN Here ELSE {files[f] : f \in remote.files}

Replacing == {files[f] : f \in remote.files}

DocFor(i) == IF \E f \in remote.files : files[f] = i
             THEN CHOOSE f \in remote.files : files[f] = i
             ELSE doc[i]

\* One download may find the file missing (404, 410): its row is a placeholder.
ReplaceSynced ==
    /\ pc = "replace" /\ Replaceable
    /\ rows' = [i \in Ids |-> IF i \in Replacing THEN "synced" ELSE "absent"]
    /\ doc' = [i \in Ids |-> DocFor(i)]
    /\ \/ disk' = [i \in Ids |-> disk[i] \/ i \in Replacing] /\ UNCHANGED count
       \/ /\ Fault
          /\ \E lost \in Replacing :
               /\ ~disk[lost] \/ doc'[lost] # doc[lost]
               /\ disk' = [i \in Ids |-> i # lost /\ (disk[i] \/ i \in Replacing)]
    /\ known' = known \cup remote.files
    /\ Goto("push") /\ pass' = 2 /\ base' = note /\ files' = NoFiles
    /\ UNCHANGED <<srv, note, hist, last, jobs, from, remote, sent, restore, reached, removed, missed>>

\* "historyPendingChanges".
SetStale ==
    /\ pc = "replace" /\ ~Replaceable
    /\ EndRound
    /\ UNCHANGED <<srv, local, last, jobs, restore, watch, count>>

\* Any request of the round may fail, and with it the round.
RoundFails ==
    /\ pc \in {"push", "list", "send", "again", "resolve", "pull", "note", "set", "replace"}
    /\ Fault
    /\ EndRound /\ missed' = {}
    /\ UNCHANGED <<srv, local, last, jobs, restore, seen>>

Push == \/ PushNothing \/ PushRefused \/ PushChecked \/ PushList \/ PushAdd \/ PushUpdate
        \/ PushMissing \/ PushAgain \/ PushConflict \/ AckUpload \/ ResolveConflict

Pull == \/ PullNothing \/ PullNote \/ PullTombstone \/ PullInsert \/ PullApply
        \/ PullUpToDate \/ NoteChanged \/ SetRefused \/ SetRead \/ ReplaceSynced \/ SetStale

Round == StartRound \/ Push \/ Pull

-----------------------------------------------------------------------------
(* The background batch                                                    *)

\* A result of the workers is stored as a row of its own, whatever rows the
\* note has; a missing file (404, 410) leaves a placeholder.
StoreSnapshotFile ==
    /\ note.here
    /\ \E f \in jobs, i \in Free :
         /\ rows' = [rows EXCEPT ![i] = "synced"]
         /\ doc' = [doc EXCEPT ![i] = f]
         /\ \/ disk' = [disk EXCEPT ![i] = TRUE] /\ UNCHANGED count
            \/ disk' = [disk EXCEPT ![i] = FALSE] /\ Fault
         /\ known' = known \cup {f}
         /\ jobs' = jobs \ {f}
         /\ missed' = IF pc = "send" THEN missed \cup {f} ELSE missed
    /\ UNCHANGED <<srv, note, hist, last, round, restore, reached, removed>>

\* The download fails, or the note the row would refer to is gone.
DropSnapshotFile ==
    /\ \E f \in jobs : jobs' = jobs \ {f}
    /\ IF note.here THEN Fault ELSE UNCHANGED count
    /\ UNCHANGED <<srv, local, last, round, restore, watch>>

Remote == RemoteAdd \/ RemoteRemove \/ RemoteEdit \/ RemoteDelete

Next == \/ Remote \/ User \/ Round \/ AnswerLost \/ RoundFails
        \/ StoreSnapshotFile \/ DropSnapshotFile

\* Rounds are started by the timer and run on; users and faults owe nothing.
Spec == Init /\ [][Next]_vars /\ WF_vars(Round)

-----------------------------------------------------------------------------
(* Properties                                                              *)

TypeOK ==
    /\ srv \in Object /\ note \in Row
    /\ rows \in [Ids -> AttachStates] /\ doc \in [Ids -> Docs \cup {None}]
    /\ disk \in [Ids -> BOOLEAN] /\ hist \in SUBSET SUBSET Ids
    /\ last \in Nat /\ jobs \subseteq Docs
    /\ pc \in {"idle", "push", "list", "send", "again", "ack", "resolve", "pull", "note", "set", "replace"}
    /\ pass \in {1, 2} /\ from \in Nat /\ base \in Row /\ remote \in Object /\ sent \subseteq Ids
    /\ files \in [Docs -> Ids \cup {None}]
    /\ restore = None \/ restore \in [ids : SUBSET Ids, backup : SUBSET Ids, note : Row]
    /\ reached \subseteq Docs /\ removed \subseteq Docs /\ known \subseteq Docs /\ missed \subseteq Docs
    /\ count \in [Counters -> Nat]

\* Sync takes no pending attachment away: it ends uploaded, removed by the
\* user, or with a note that was deleted on the server.
PendingKept ==
    [][\A i \in Ids : rows[i] = "pending" /\ rows'[i] # "pending" =>
          \/ rows'[i] = "synced" /\ doc[i] \in reached
          \/ rows'[i] = "absent" /\ (doc[i] \in removed' \/ (pc = "note" /\ ~remote.live))]_vars

\* What an upload of the note makes the server drop.
Dropped == IF pc \in {"send", "again"} /\ pc' # pc THEN srv.files \ srv'.files ELSE {}

\* An upload makes the server drop no file this device has had a row for, unless
\* the user took it off the note here (push.go: clean rows are listed), its bytes
\* could not be read for the upload, or the batch stored its row after the list
\* was read: whatever else the user, the batch and other devices write meanwhile.
UploadKeepsApplied == [][Dropped \cap known \subseteq removed \cup missed]_vars

\* Nobody edits the note or its attachments on this device.
Untouched == \A c \in {"uploads", "removed", "saves", "restores"} : count[c] = 0

\* A set another device has changed reaches a note nobody changes here, the
\* empty set too.
SetConverges ==
    <>[](Untouched /\ srv.live /\ note.here /\ srv.usn > last => DocsOf(Here) = srv.files)

-----------------------------------------------------------------------------
(* What a doc, a comment or a test says, and the code does not do.  TLC finds *)
(* a counterexample to each; section 5 of the README has the constants.       *)

\* An upload makes the server drop no file this device has had a row for, unless
\* the user took it off here.
UploadKeepsHere == [][Dropped \cap known \subseteq removed]_vars

\* Nor any other file.
UploadKeepsRemote == [][Dropped \subseteq removed]_vars

\* A pending attachment is uploaded in the end, or taken off the note.
PendingUploaded == \A i \in Ids : rows[i] = "pending" ~> rows[i] # "pending"

\* What the user takes off the note does not come back by itself.
DeleteSticks ==
    [][\A f \in removed : f \notin DocsOf(Here) =>
          f \notin {doc'[i] : i \in {j \in Ids : rows'[j] = "synced"}}]_vars

\* The attachments a restore replaces are those it has backed up.
BackupIsReplaced ==
    [][restore # None /\ restore' = None /\ rows' # rows => Here \subseteq restore.backup]_vars

\* A complete restore is for a note the server does not have yet.
RestoresUnsynced == [][restore # None /\ restore' = None /\ rows' # rows => ~note.mapped]_vars

=============================================================================
