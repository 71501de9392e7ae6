# Verification of Gemsnote Desktop

TLA+ models of the offline-first synchronisation of Gemsnote Desktop (Go, Wails,
SQLite), the TLC runs that check them on small instances, and TLAPS proofs that
hold for every instance.

The program keeps an account's notebooks, notes, tags and files in one SQLite
database. A Vue page talks to it through a local HTTP bridge (`webapi`), the
bridge edits rows and marks them dirty, and a sync service exchanges dirty rows
and server changes with the Gemsnote server, which numbers every change of an
account with an update sequence number (USN). Logging in and out, cancelling,
resetting the cache and a five-minute timer all start or stop that service.

## 1. Inventory

| part | state it keeps | operations | talks to |
|---|---|---|---|
| note sync (`sync/sync.go`, `push.go`, `pull.go`) | none beyond a round; `isSyncing`, `needSyncAgain` | `FullSync`, `FreshSync`, `ForceFullSync`, `IncrSync`, `sendChanges`, `syncNotesMode`, `processNoteSync`, `recreateMissingNote` | database, API client |
| note table (`db/note_repo.go`) | `server_note_id, usn, content, is_dirty, content_is_dirty, local_is_new, local_is_delete, is_trash` | `GetDirtyNotes`, `UpdateNoteAfterSync`, `ApplyRemoteNote`, `AddNoteForce`, `CopyNoteForConflict`, `RequeueMissingDesktopNotes`, deletes | everybody |
| bridge handlers (`webapi/local.go`) | none | `save`, `deleteNote`, `restore`, `moveNote`, `deleteTrashNote`, login, logout | note table, `App` callbacks |
| sync control (`app_sync_control.go`, `app.go`, `main.go`) | `syncOperation`, `syncSequence`, `syncBlocked`, `sessionLive`, paused flag per account | `beginSyncOperation`, `endSyncOperation`, `CancelSync`, `stopSessionSync`, `SetSessionLive`, `resetSync`, `startAutoSync` | note sync, downloads, shared service |
| snapshot downloads (`sync/snapshot_files.go`) | the running batch | start, stop and join | file tables, disk |
| shared-note service (`sharedsync`) | `suspended`, `syncing`, generations in `db/shared_repo.go` | `SyncOnce`, `DownloadPending`, `SuspendAndWait`, `RunExclusive` | shared tables, disk |
| notebooks, tags | their tables | the same push and pull | note sync |
| attachments, images, history | file tables, histories | upload with a note, background download, retry, restore | note sync, disk |
| cache reset (`db/reset_repo.go`) | none | `ResetAccountCache` in one transaction | all tables of the account |
| API client, login proxy | host, token, cookie | requests; retry of the idempotent ones | server |

`PROJECT.json` lists every part with its status, and the hazards with the line
where each bites.

What is hard here:

* **Rows change under a round.** No lock is held between a request and the
  statement that writes its answer; the editor saves the same rows meanwhile.
* **Versions.** A conflict is seen only by comparing USNs, and texts, metadata
  and USNs arrive in different answers at different times.
* **Lost answers.** `addNote` is not idempotent; a lost answer leaves a server
  note the client does not know it made.
* **A round may stop anywhere** (error, cancel, exit): rows are already changed,
  the cursor is not.
* **Sessions.** A round, four download workers and the shared service write to
  "the active account"; a login changes which one that is.
* **Waiting.** Cancels, resets and logouts wait for jobs that wait for locks.

## 2. Modules

| module | what it is |
|---|---|
| `NoteSync` | the note table, the rounds over it, the bridge handlers and the server with its other devices |
| `NoteRow` | the row of one note, statement by statement: save, restore of the history, download, conflict copy, repair |
| `Notebooks` | the tree of notebooks: user operations, its half of a round, reconciliation after a server restore, the cycle cutting of the page |
| `Tags` | the index of tags: user operations, its half of a round, clean-up after a full one |
| `Attachments` | the attachments of one note: upload with the note, replacement by a download, background batch, local history |
| `MediaDownloads` | the batch of background downloads: workers, channel, writer, stop and join, image waiters |
| `SharedSync` | the shared-note service: snapshot pages, publication, revocation, cache cap, texts and files |
| `SharedView` | the promise of `SharedSync`: readers see one complete snapshot, less what was denied |
| `SyncControl` | who may run a sync and when: operations, cancel, sessions, reset, timer, downloads, shared service |
| `AccountIsolation` | the promise of `SyncControl`: a job belongs to the active account and the account changes only when no job runs |
| `NoteSyncProofs`, `NoteRowProofs`, `NotebooksProofs`, `TagsProofs`, `AttachmentsProofs`, `SyncControlProofs`, `MediaDownloadsProofs`, `SharedSyncProofs` | theorems about the module each is named after |
| `MC*` | instances for TLC |

How they fit together: `SyncControl` decides that one round runs, for which
account, and when it is cut off. `NoteSync`, `Notebooks`, `Tags` and
`Attachments` are what that round does to four tables; each has the whole round
(upload, state, download, second upload, cursor) over its own table and takes an
error in another table as a round that fails. `NoteRow` opens the steps that
`NoteSync` takes as one. `MediaDownloads` opens the `downloads` job of
`SyncControl`, `SharedSync` its `shared` job.

### NoteSync

A *text* is the set of edits it incorporates. An edit adds its own number, so
"this text was replaced by one that has never seen it" is a set that is not
included in its successor. Title, tags, star and notebook are only the dirty bit
they set; notes whose body is empty are not told apart from others.

Each SQL statement is one step. A request and the statement that writes its
answer are two steps with `work` holding the answer, so users, other devices and
the server act in between.

| model | code |
|---|---|
| `rows`, `cursor` | the `notes` table of the account, `users.last_sync_usn` |
| `srv`, `susn` | the server's notes (tombstones after a delete) and the account's USN; external, as the answers in `api/client_api.go` show it |
| `phase` | `idle`, first `sendChanges`, `GetLastSyncState`, `syncNotesMode`, second `sendChanges` |
| `queue`, `failed` | the slice of `GetDirtyNotes` and `firstErr` of `sendNoteChanges` |
| `snapshot, after, page, more, seen, target` | `afterUsn < 0`, `currentUsn`, the page, `len(notes) == pageSize`, `remoteIDs`, `serverState.LastSyncUsn` |
| `CreateNote … MarkNoteLocalDelete` | the handlers of `webapi/local.go` with the statement of `db/note_repo.go` they end in |
| `PushAdd … PushMissing` | one branch each of the loop in `sendNoteChanges` |
| `Recreate*` | the loop of `recreateMissingNote` |
| `AckSaved`, `AckErased` | `processNoteAfterSync` / `DeleteLocalNote` with `checkNeedSyncAgain` |
| `ResolveMeta … ResolveLost` | the branch after a `conflict` answer: `getNote`, then `processNoteSync` |
| `PullTombstone, PullFetch, Insert, Apply, ApplyConflict` | the branches of `processNoteSync` |
| `PullDone` | the end of `syncNotesMode` with `RequeueMissingDesktopNotes` |
| `Abort, PushFails, AnswerLost, RecreateLost, RecreateRefused` | a failed request, `CancelSync`, the end of the process, a lost answer |

Behaviour that looks odd and is in the code: `PullTombstone` deletes the rows
whose *server* id is the *local* id of the note (`DeleteNoteForce`), which for a
pulled note is the same id and for a note created here is not; a trashed note
that was never uploaded is passed over by the push loop; `IncrSync` never writes
the cursor after a pull, only uploads without a gap move it.

Two observation variables are read by properties only: `discarded` (edits of
notes somebody deleted) and `raced` (edits a late answer or a tombstone made the
client forget). `raced` keeps the known defects of section 5 out of the other
properties; the definitions it names show them directly.

### SyncControl

One process per goroutine that can take part: the timer, requests of the sync
panel, login and logout requests. `pc` says between which two statements of
`app_sync_control.go`, `app.go` or `sync.go` the goroutine is. Sections that run
under `syncControlMu` without waiting are one step; `endSyncOperation`, which
waits for the downloads under it, takes it (`End`) and gives it back (`Ended`).
A logout whose upload is over, cancelled or not, looks again whether anything is
pending and goes on or gives up (`Over`); one whose writes fail restores the
session it has stopped (`Logout`, `SetSessionLive`).
`syncRunMu` is held exactly while an operation is registered (`op # 0`). A round
is the interval between `Open` (the account is read) and its end; what it does to
the tables is `NoteSync`. `sharedsync.workMu` is the guard of `SharedOpen` against
a reset that is clearing.

The refinement mapping to `AccountIsolation` is `writes = [operation |-> writer,
downloads |-> downloads.acc, shared |-> shared.acc]`.

How the two meet: `SyncControl!OneOperation` is why `NoteSync` has one round at a
time, and its cancels and ends of sessions are `NoteSync!Abort`.

### NoteRow

| model | code |
|---|---|
| `ask[r]` | a request to the local web server; `net/http` runs each in a goroutine of its own and nothing serialises those of one note, so any of `Requests` overlap |
| `SaveReads, SaveKeeps, SaveWrites` | `save` in `webapi/local.go`: `GetNote`, the history it adds, `UpdateNote` |
| `DeleteTrash, EraseHistories` | `deleteTrashNote`: `MarkNoteLocalDelete`, `DeleteNoteHistories` |
| `RequestFails` | a request that fails, or dies with the process, after its first statement |
| `RestoreReads, RestoreWrites` | `RestoreLocalHistory`: the reads before the transaction, the transaction |
| `RestoreAsks, RestoreCalls` | the restore of a server version and the round it asks for |
| `PullReads, PullFetches, CopyNoteForConflict, ApplyRemoteNote` | `processNoteSync` for this note |
| `SelectMissing, UpdateMissing` | the two statements of `RequeueMissingDesktopNotes` |
| `hist`, `Limit` | `note_histories`, trimmed to 20 versions |

Texts are numbered in the order they are written. `latest` is the one the user
has typed or chosen last; `past` and `dropped` remember what the server and the
history once held, `raced` the texts a save wrote while another save had read the
row and not yet written it: those, and only those, may be overwritten without a
trace (`EverySaveKept` and `LastTypedKept` in section 5).

### Notebooks

`rows` is the table, keyed by local id; a pulled notebook keeps the server's id
and one created here gets another when the server adds it, so ids translate both
ways (`Translated`, `LocalIds`), with the empty string standing for "no parent"
and "no server id yet" as in the code. `Upload` is the notebook half of
`sendChanges` (parents first, then one request per notebook and its
acknowledgement), `Download` the page, `processNotebookSync` per entry, and after
a complete snapshot `ReconcileFullNotebooks` and `RestoreNotebookParents`.
`BreakCycles` is the pure algorithm by which the page and the repair cut cycles of
parents; `CutCycles` is its reference definition. The server may be restored
from a backup (`saved`): its USN is then behind the cursor, which is the branch
of `sync.go:243`.

The notes matter to the tree by their foreign key: `noted` are the notebooks with
a visible note, `trashed` those whose notes are in the trash or deleted, and neither
can be dropped (`Held`). The user's operations on notes move notebooks between the
two; the page shows and counts visible notes only, so a notebook whose notes are all
in the trash can be deleted. Two deletions then fail and nobody looks at the error:
that of a notebook which was never uploaded (`ForgetNotebook`, `sync/push.go:99`) stays
a dirty row, noted in `stuck`, in every later round; that of a notebook deleted on
another device (`Buried`) leaves it shown here. The round compares the server's
USN with `from`, the cursor as it was before the upload, so that it downloads again
what it has just sent.

### Tags

A tag is known by its name. `Indexed`, `Stamped` and `Clean` are the writes of
`db/tag_repo.go`; `used` are the tags notes carry, which decides what
`CleanupUnusedTags` removes: it lists the visible tags (`EndMerge`), then counts the
notes of each (`CountTag`) and deletes it when there are none (`DeleteUnused`), and
notes get and lose tags in between. As in `Notebooks`, the download starts from `from`,
the cursor before the upload. An answer
`{Ok:false}` to `addTag` is a reply with USN 0, as `Client.AddTag` decodes it.

### Attachments

A file id of the server is identified with the document it holds. Rows are
`pending` (dirty, no server id) or `synced`; `disk` says whether the bytes are
there, so a placeholder is a synced row without bytes. An upload is four steps:
the originals of pending rows are checked (`PushChecked`), the rows and their files
are read into a list (`PushList`, where a file that cannot be read is left out), the
server takes the list for the whole set (`PushAdd`, `PushUpdate`, or `PushMissing`
and `PushAgain` with a second list for a note it does not have), and the answer is
written. `missed` are the documents the list in hand could not have: their bytes were
not read, or their row is younger than the list. A round then resolves a conflict by
the download of the note, downloads bytes and replaces the set
(`ReplaceSyncedAttachments`).
Meanwhile the user adds and deletes attachments and saves the text, the batch
that follows a fresh sync inserts rows, and `RestoreLocalHistory` brings an old
set back (its reads and its transaction are two steps).

### MediaDownloads

One action per statement that blocks or may be interleaved: a worker takes a job,
fetches, sends its result; the writer receives, checks the context, stores the row,
or removes the file. A write that fails half-way leaves a file in `partial`
(`WriteFails`): `os.WriteFile` does not remove it and the result names no path, so
nobody else does. `Cancel` with `Joined` is
`StopBackgroundDownloads`, which holds `downloadMu` while it waits. `Ask` and
`Look` are the image handler with `WaitForBackgroundImage`.

### SharedSync

`World` is the server, the reader and the crash; `Running` the round: pages into
`staged`, `PublishSharedSnapshot` as one step, eviction and removal of files,
texts one by one, files by concurrent workers, revocation and one rebuild after a
denial (`attempt`). `storeSharedFile` is step by step (`Storing`): it opens and
truncates `id.tmp`, writes it and renames it to `id`. Workers for two notes that hold
one file share both names: `disk` and `tmp` are what lies under them, `Torn` for bytes
that are not all there, and a worker whose file another has renamed or removed writes
on in it (`trailing`, `lost`). The refinement mapping to `SharedView` is `offer <-` the
snapshot in hand, `view <-` the rows readers' queries return, `barred <-` rows
revoked with the next generation.

## 3. Runs

| run | checks | instance |
|---|---|---|
| `notes` | `TypeOK`, `BaseSeen`, `CleanRowAgrees`, `NoLostEdit`, `OneRowPerNote`, `CursorSound`, `NoRemoteClobber` | pages of 1, one candidate notebook, 2 texts, 1 act, 1 fault; 2.5 million states |
| `notes_live` | `Converges` | pages of 2, 2 texts, no acts, 2 faults; 0.1 million |
| `note_row` | `LatestKept`, `ReplacedKept` | 2 requests, 2 texts, 3 operations, 1 fault, histories of 2; 2.8 million |
| `notebooks` | `OneRowPerNotebook`, `AcceptedBeforeDownload`, `CleanRowAgrees`, `AllShown`, `CyclesCutOnce` | 3 ids, 2 titles, 1 change elsewhere, 2 operations, both front ends; 0.9 million |
| `notebooks_live` | `TreeConverges`, `RestoredConverges` | 4 ids, 1 change elsewhere, 1 fault, 1 restore of the server; 0.1 million |
| `tags` | `CleanTagOnServer`, `TombstonesArrive` | 2 names, 2 changes elsewhere, 2 operations, 1 fault, 1 refusal; 3.9 million |
| `attachments` | `PendingKept`, `UploadKeepsApplied`, `SetConverges` | 3 ids, 2 documents, one each of change elsewhere, upload, removal, save, restore, fault; 1.8 million |
| `media` | `FilesAgree`, `NothingAfterStop`, `ServedAfterWait`, `WaitersReturn`, `StopReturns` | 1 image, 1 attachment, 2 workers, a channel of 1, 2 batches, 1 stop, 1 fault; 0.5 million |
| `shared` | `OneSnapshot` (refinement of `SharedView`), `OneGeneration`, `ReadyIsTarget`, `ReadableOnDisk`, `LossAnnounced` | 2 notes that hold one image, an attachment, 2 workers, 2 changes, 1 fault or crash, a cache of 0, up to symmetry; 10.1 million |
| `shared_live` | `EventuallyReady` | 1 note with an image, 3 changes, 1 fault; 0.2 million |
| `control` | `TypeOK`, `OneOperation`, `ResetAlone`, `CancelSticks`, `CancelsItsOwn`, `RequestsReturn`, `IsolatedAccounts` (refinement of `AccountIsolation`) | 2 accounts, timer, 2 panel requests, 1 session request, 3 requests in all; 0.3 million |
| `ack` | `AckKeepsConcurrentEdit`, a statement of a comment | expected to be violated, see section 5 |

What the passing runs show:

* `BaseSeen` / `NoRemoteClobber`: whenever a row carries the server's USN it has
  seen the server's text, so the USN comparison in `updateNote` is a sound
  conflict check and no upload wipes out another device's edit, although text and
  metadata come from different requests, dirty lists are stale copies, and rounds
  stop anywhere.
* `CleanRowAgrees`, `NoLostEdit`: a clean row holds nothing the server lacks and
  nothing typed anywhere disappears, but for deletes on purpose and `raced`.
* `OneRowPerNote`, `OneRowPerNotebook`: rows and server objects stay one to one
  without a unique index, whatever answers are lost and ids are given anew.
* `CursorSound`, `CleanTagOnServer`: the cursor steps over no change, and over no
  tombstone, of another device.
* `Converges`, `TreeConverges`, `RestoredConverges`, `TombstonesArrive`,
  `SetConverges`: after the last edit and fault, fair rounds bring both sides
  together. Each is conditional on what section 5 shows to break it: notes not
  trashed or deleted here; notebooks, tags and attachments not changed here. A
  notebook deleted elsewhere stays while notes here hold it.
* `LatestKept`, `ReplacedKept`: no interleaving of saves, restores, downloads and
  repairs loses the text the user wrote or chose last, nor one that is replaced.
  Each is in the row, a conflict copy, the history, or on the server; only the
  history's limit of 20 versions and the deletion of the note take a text away, and
  a save that another save of the same note overlaps (section 5).
* `AcceptedBeforeDownload`: what is dirty during a download was written since the
  upload, so that nothing that failed to go up is overwritten; but for the row of a
  new notebook deleted here which the foreign key of its notes has kept (section 5).
* `AllShown`, `CyclesCutOnce`: two devices can move two notebooks below each
  other; the page still shows every notebook, and a notebook below a cycle keeps
  its place in whatever order the map is walked.
* `PendingKept`, `UploadKeepsApplied`: sync takes no attachment away that was not
  uploaded, and no upload makes the server drop a file this device has had, unless
  the user took it off, its bytes could not be read for the upload, or the batch
  stored its row after the list was read. The last two do happen (section 5).
* `FilesAgree`, `NothingAfterStop`: whatever is on the network when a batch is
  cut off, rows name files that are there and whole, a whole file has a row or is
  removed, and nothing is written once the stop has returned, when another account
  may be active. A file of which only a part was written stays (section 5).
* `ServedAfterWait`, `WaitersReturn`, `StopReturns`: no window waits for ever, none
  is told 404 about an image that is about to be stored, and the join cannot
  block on the channel the workers send to.
* `OneSnapshot`, `OneGeneration`, `ReadyIsTarget`, `ReadableOnDisk`,
  `LossAnnounced`, `EventuallyReady`: readers see one snapshot of shared notes
  with the texts and files it names, losses of permission are final until the
  next snapshot and are announced, and what is visible is downloaded in the end.
  A file that two notes hold may be there in part only (section 5).
* `ResetAlone`, `OneOperation`, `IsolatedAccounts`: nothing writes while a reset
  clears the cache, one round runs at a time, and no writer outlives a change of
  account (with one login or logout at a time).
* `CancelsItsOwn`, `CancelSticks`: a late cancel hits only its own run; a
  cancelled run leaves automatic sync paused even if it was a reset that went
  on to succeed.
* `RequestsReturn`: no circle of waits between cancel, logout, reset, downloads
  and the shared service.

**Bounds.** Conflicts need one edit here and one there, or two here around an
upload; `MaxEdits = 2` has both. A lost edit, a duplicate row or a skipped change
needs one act and one fault at the worst place, and every place is tried. `Ids =
1..8` suffices for every id the bounds of `NoteSync` can generate (a full id set
would only disable an action, and TLC checks deadlock). Its initial states are an
account just logged in, one that has pulled a note, and one that has created and
uploaded it: local and server id of a note agree in the second and differ in the
third. Three notebook ids allow a cycle of two with a notebook below it, or a
notebook, its re-creation and its child. Two names of tags are needed for a
cursor that one tag moves past the other. In `Attachments` two documents make a
set that shrinks and one that grows. A channel of one and two workers are the
smallest pool in which a worker blocks. The cache of `SharedSync` holds nothing,
so every attachment meets the cap. In `SyncControl` two accounts, two panel
requests and one session request put every pair of stages side by side; three
requests allow a sync, a cancel and a login in one behaviour.
`notebooks_live` has one change of another device, because a restored server that
is also changed half-way through a full round puts the round into the loop of
`Notebooks!DownloadsResume` (section 5). `notes_live` has no acts, because the acts
are those of the first defects of section 5, after which nothing converges; its two
faults let an answer be lost and the round that repeats the request be cut off.
In `NoteRow` a save, a restore and a deletion each take one operation, so three
have every pair of handlers, and a third, overlap; histories of two fill up within
them. A file that two notes hold needs two workers to be torn, and one image and one
attachment tell the files that are evicted from those that are not.
`CHECK_DEADLOCK FALSE` is said of the models whose users and rounds are bounded
and may stop: `SyncControl`, `SharedSync`, `NoteRow`, `MediaDownloads`.

**Fairness.** A running round takes its next step (requests have timeouts), and
the five-minute timer starts incremental rounds while none runs; full rounds are
not assumed but where `RestoredConverges` names them. Goroutines of the downloads
run. In `SharedSync` the ticker starts rounds and retry times come. In
`SyncControl` every goroutine that can step does, and downloads and shared rounds
end because each request in them has a timeout. Users, other devices and faults
owe nothing.

Every property of a passing run has a mutant of a modelled definition in
`PROJECT.json` that a plausible bug would produce and that the run refutes; the
mutated forms stand before the definitions they replace, under a comment that
says so. The inductive invariants of section 4 hold in the same instances.

## 4. Proofs

Every safety property a run checks, invariant, action property or refinement, is
also a theorem, for every value of the constants that satisfies the assumptions
of its module; `IsolatedAccounts` alone has a condition.

### NoteSyncProofs

For every id set, page size, number of candidates and bound that satisfy
`NoteSyncAssumption` and `NoneAssumption`:

| theorem | statement |
|---|---|
| `TypeCorrect` | `Spec => []TypeOK` |
| `SyncCorrect` | `Spec => [](TypeOK /\ SyncInv)` |
| `OneRow` | `Spec => []OneRowPerNote` |
| `BaseIsSeen` | `Spec => []BaseSeen` |
| `NothingClobbered` | `Spec => NoRemoteClobber` |
| `Invariant` | `Spec => []IInv`, `IInv == TypeOK /\ SyncInv /\ EditsInv /\ CursorInv` |
| `CleanRows` | `Spec => []CleanRowAgrees` |
| `NothingLost` | `Spec => []NoLostEdit` |
| `CursorIsSound` | `Spec => []CursorSound` |

`BaseSeen` is not inductive: rows are written from answers that were given
earlier. `SyncInv` therefore says the same of every copy in flight. `Based(s, u,
t)` means that version `u` with text `t` of server note `s` is not from the
future, and that at the note's present USN it includes the present text. It holds
of rows (`RowsBased`), of the dirty copies (`QueueBased`), of an upload's answer
(`WorkSaved`) and of a fetched text under its older metadata (`WorkPull`). It is
stable when the server moves on because every change takes a higher USN, and the
metadata of a page is never newer than the text fetched afterwards. Texts on the
server only grow, so a text fetched late under an old USN is harmless. Uniqueness
of rows needs that ids in use are never generated again (`IdsInUse`), that a
freshly added server note belongs to the one row waiting for its answer
(`WorkSaved`), and that an `insert` in flight still has no row (`WorkPull`).
`NothingClobbered` follows from the invariant before the step: the server accepts
an `updateNote` only at its own USN, where the queued text includes its text.

The proof has one lemma per kind of write (a row, a new row, a rebased row,
dropped rows, the server, the end of a round) and one step per action that cites
them.

`NoLostEdit` speaks of rows and server notes, but an edit is also in a copy that
a round carries, and a row may be overwritten from such a copy. `EditsInv` follows
it: whatever is not marked dirty, was sent or was fetched is on the server
(`TextsHeld`); a note is added again, or its row goes, only when the server has it
no longer (`Renewed`); what a deleted note held is `discarded`
(`TextsDiscarded`). That a tombstone deletes no row of another note needs the
relation between local and server ids (`OwnIds`): a row that is not filed under its
note's own id belongs to a note created here, and no live note has that id.
`CleanRowAgrees` turns out to hold of a clean row at any USN, not only at the
server's: its text is on the server, or it was raced.

`CursorSound` needs three things of the server's numbers: two changes never share
a USN (`UsnsApart`), an answer still to be written is ahead of the cursors
(`Answered`), and an entry in hand tells the note's present or the note has
changed beyond both cursors (`Entries`). `Listed` is the argument for full
rounds: a live note up to the target is at its version in the rows, or on the page,
or more pages follow and it is newer than this one. It rests on the lemmas
`Smallest` and `OldestPage` (a page is the oldest entries after the last one, and
one that leaves an entry out is full), which hold for every page size.

### SyncControlProofs

For every set of accounts, requests and sessions that satisfies
`SyncControlAssumption`, and for any number of them:

| theorem | statement |
|---|---|
| `TypeCorrect` | `Spec => []TypeOK` |
| `Invariant` | `Spec => []IInv` |
| `OwnerAlone` | `Spec => []OneOperation` |
| `ResetIsAlone` | `Spec => []ResetAlone` |
| `CancelIsKept` | `Spec => []CancelSticks` |
| `CancelOwnRun` | `Spec => CancelsItsOwn` |
| `AccountsIsolated` | `Spec /\ []NoOverlap => IsolatedAccounts`, the refinement of `AccountIsolation` |
| `OneSessionIsolated` | `Spec => IsolatedAccounts`, when `Sessions` has one member |

`IInv == TypeOK /\ OneOperation /\ Quiet /\ Sticks`. `OneOperation` is inductive
with the types: only `beginSyncOperation` opens, under a free slot, and only the
owner ends. `ResetAlone` is not: that no shared round writes while the cache is
cleared rests on the suspension that came before, and that no download does on
the join before that, so `Quiet` follows the reset through its stages
(`suspend`, `clear`). `CancelSticks` is about a run that is over; `Sticks` says of
one under way that an account which is held and not yet paused has a cancelled
operation still to come to `endSyncOperation`, where it will be paused. `CancelsItsOwn`
is read off each step, because a cancel compares the number it was given.

`IsolatedAccounts` does not hold of every value of the constants: two logins or
logouts that overlap break it (section 5). `AccountsIsolated` names the
behaviours in which it does: `NoOverlap`, no login goes live while another login or
logout has blocked sync and not yet switched the account. It is a condition on
behaviours, not on the number of sessions, so logins may follow each other without
bound; `OneSessionIsolated` discharges it for the run's instance. The refinement maps
each job of `AccountIsolation` to the account it writes for. `WritesActive` says that
a registered operation works on the active account from the moment it has read it
to its end; `Joined` that what a login has stopped on its way to the switch (the
operation, the downloads, the shared round) stays stopped, because `blocked` refuses
what would start it. `JobStep` and `JobsStep` then show, step by step, that jobs
start for the active account, and that at a switch none is left.

### NotebooksProofs, TagsProofs

| theorem | statement |
|---|---|
| `NotebooksProofs!Invariant`, `TypeCorrect` | `Spec => []IInv`, `Spec => []TypeOK` |
| `NotebooksProofs!OneRow` | `Spec => []OneRowPerNotebook` |
| `NotebooksProofs!LocalWorkFirst` | `Spec => []AcceptedBeforeDownload` |
| `NotebooksProofs!CleanRows` | `Spec => []CleanRowAgrees` |
| `NotebooksProofs!NoNotebookHidden` | `Spec => []AllShown` |
| `NotebooksProofs!OneCutPerCycle` | `Spec => []CyclesCutOnce` |
| `NotebooksProofs!CyclesAreCut` | `BreakCycles(p) = CutCycles(p)` for all parents `p` of finitely many notebooks |
| `TagsProofs!Invariant`, `TypeCorrect` | `Spec => []IInv`, `Spec => []TypeOK` |
| `TagsProofs!CleanTagIsOnServer` | `Spec => []CleanTagOnServer` |

`OneRowPerNotebook` is broken by an answer that gives a row an id some other row
or copy has. `Copied` says a round's copies stay copies of their rows, and
`Answering` that an accepted id is in no other row or copy, which holds because the
server draws it among ids that have not been used. `Uploading` carries
`AcceptedBeforeDownload` through the upload: until it fails, what is dirty and was
not written meanwhile is still queued or in hand, or was kept by its notes (`stuck`).
`Versions` carries
`CleanRowAgrees`: no copy in flight is from the server's future, and one of its
present has its title; a restored backup ends that, hence `count.restored = 0`.

`AllShown` and `CyclesCutOnce` are about an algorithm, not about steps: they hold of
any parents whatever, and the theorems say so. The tables of a walk (`Walks`) and of
the fold over an order of walks (`FoldTables`) exist by induction over sets of
numbers (`SetInduction`). A walk that has not left the tree after as many steps as
there are notebooks has repeated itself, by the pigeonhole principle
(`WalkRepeats`); so the ancestors of a notebook are the least set that has its
parent and, with a notebook, the notebook's parent (`AfterClosed`, `AfterLeast`), and
the rest is about such sets. Who is met on a cycle is on it and meets all of it
(`Cycle`), and has one child there (`OneChild`). One walk takes the parent of one
notebook of the cycle it meets and then ends, and so does every walk that did before
(`CutStep`, `EndsStay`); a cycle of what is left was a cycle before and is whole
(`CycleUncut`). Hence all walks end (`AllWalked`), every notebook hangs on a root
(`EndsShown`), and each cycle has lost one parent (`WholeCut`). Every such choice is
reached: the order that begins with the parents of the chosen notebooks makes it
(`FirstOrder`, `CutReached`).

`CleanTagOnServer` needs the same of tags (`ServerUSNs`, `Answering`, `Merging`)
and, for full rounds, which set the cursor at their end, `FullRound`: a tag the
round has gone past is on the server or was deleted after the state it has
read. `Cleaning` names the tag that was counted and is deleted next. The account's
USN is the largest of finitely many; that there is one is the lemma `FiniteMax`, by
well-foundedness of inclusion among finite sets.

### AttachmentsProofs

| theorem | statement |
|---|---|
| `Invariant`, `TypeCorrect` | `Spec => []IInv`, `Spec => []TypeOK` |
| `AppliedFilesAreHere` | `Spec => []AppliedIsHere` |
| `PendingIsKept` | `Spec => PendingKept` |
| `UploadKeepsFiles` | `Spec => UploadKeepsApplied` |

An upload sends the list of files the note shall have, and the server drops the
others. `UploadKeepsApplied` says that no file goes this way which this device has had
a row for, but for those the user took off and those the list in hand could not have
(`missed`). It is `ListCovers` of the state before the request: the server's files known
here are on the list, or excepted. When the list is read, that follows from
`AppliedIsHere`, such a file still has a row; afterwards the other devices add only
files no device had, what the user takes off is `removed`, and what the batch stores is
`missed`. `ListIsHere` is the converse, which `AppliedIsHere` needs once the server has
taken the list, and `AgainForGone` that the second list is for a note without files on
the server. `AppliedIsHere` is also threatened when a download replaces the rows by an
answer that other devices have overtaken. `AnswerCovers` says that the answer still
lists what the server has of the files known here, because a file that was removed does
not return (`OnServerOnce`); `ListComplete` that the list about to replace the rows has
an id of its own for each. What a restore of the history leaves out is the user's
removal. `PendingKept` is read off each step: an answer settles what was sent
(`OnServerOnce`), and the rows of a note go only with a tombstone that is still true
(`Tombstone`), because only an upload adds the note again (`AddedOnce`).

### NoteRowProofs

| theorem | statement |
|---|---|
| `Invariant`, `TypeCorrect` | `Spec => []IInv`, `Spec => []TypeOK` |
| `LatestIsKept` | `Spec => []LatestKept` |
| `ReplacedIsKept` | `Spec => ReplacedKept` |

Each handler writes from what it read before: `Saving` says, for each of any
number of saves, that the text it has read is safe or still in the row and that the
one in the row, which it will replace, is that one or safe as well; `Restoring`
and `Downloading` say the same of the others. Safe is what can be found in the
history, a copy or on the server, or was written under a save that is still
to write (`OverlapStep`). The attempt to prove this showed that `LatestKept`, without the history's
limit, is false beyond two operations: a conflict copy takes the row of the
moment (`CopyOwnsEdit`, section 5), and the text it should have copied is left in a
history that a later save pushes it out of; or the note's deletion clears the
history under a save. The property therefore names the limit (`dropped`), and the run
has three operations.

### MediaDownloadsProofs, SharedSyncProofs

| theorem | statement |
|---|---|
| `MediaDownloadsProofs!Invariant`, `TypeCorrect` | `Spec => []IInv`, `Spec => []TypeOK` |
| `MediaDownloadsProofs!FilesAndRows` | `Spec => []FilesAgree` |
| `MediaDownloadsProofs!StopJoinsWriters` | `Spec => NothingAfterStop` |
| `MediaDownloadsProofs!WaitingIsServed` | `Spec => ServedAfterWait` |
| `SharedSyncProofs!Invariant`, `TypeCorrect` | `Spec => []IInv`, `Spec => []TypeOK` |
| `SharedSyncProofs!ReadersSeeOneGeneration` | `Spec => []OneGeneration` |
| `SharedSyncProofs!ReadyTextIsPublished` | `Spec => []ReadyIsTarget` |
| `SharedSyncProofs!ReadableFilesOnDisk` | `Spec => []ReadableOnDisk` |
| `SharedSyncProofs!LossIsAnnounced` | `Spec => LossAnnounced` |
| `SharedSyncProofs!Implements` | `Spec => OneSnapshot`, the refinement of `SharedView` |

In a batch every job is in one place: the queue, one worker, the channel, or with
the writer (`OnePlace`), and its file is not named by a row before it arrives
(`NotYetNamed`), so a whole file that no row names is on its way to the writer
(`FilesKnown`) and a batch that is over has none. What a failed write has left is
in `partial`, in no result and named by no row. `Quiet` is the join: a batch that
is done has nobody at work. `Served` keeps for each job whether it is settled (a row,
a failure, or a batch cut off) or where it is, and for each waiting viewer which
batch it waits for, also when that one is no longer the running batch.

In the shared service `Generations` bounds every row by the next generation and
`Stages` says what a round holds at each of its steps. `ReadableOnDisk` is about
several notes that hold one file and whose workers write it through one temporary
path: one generation has one version of it (`OneVersion`), so that whoever writes,
truncates or renames there leaves that version or a part of it, and a part only when
another note holds the file (`StoredFile`, which follows a worker through its stages);
hence under the name of a ready file lie no other bytes (`ReadyOnDisk`). `Owed`
is what `LossAnnounced` needs of the round after it has published. `Implements`
maps the step of a publication to that of `SharedView` and every other step to a
denial, a new offer or a stutter.

### Assumptions and limits

The theorems use the named assumptions on the constants and nothing else: sets of
ids, names, notes, files and workers are finite, the value that stands for
"none" is none of them, bounds are natural numbers, pages and channels have room
for one. Bounds of users and faults are arbitrary numbers, so no theorem depends
on how often they act.

Only model-checked: liveness (`Converges`, `TreeConverges`, `RestoredConverges`,
`TombstonesArrive`, `SetConverges`, `WaitersReturn`, `StopReturns`,
`EventuallyReady`, `RequestsReturn`), which the prover cannot do under fairness.
`IsolatedAccounts` is proved under the condition named above and false without it.
The statements of section 5 are refuted, not proved, on the instances listed there.

## 5. Findings

The run `ack` refutes a statement of the repository: the answer to an upload marks
an edit clean that was saved meanwhile (`db/note_repo.go:562` against the comment at
349), and the edit is never uploaded.

The models also refute the statements below; each is a definition at the end of
its module, and a configuration with these constants (all others 0, `FALSE` or as
in the module's run) shows the counterexample. `F` marks `FairSpec`.

| module, definition | constants | what the code does |
|---|---|---|
| `NoteSync!PullKeepsDirtyRow` | `PageSize` 2, `MaxEdits` 1, `MaxActs` 1 | a tombstone deletes a row edited since the upload (`sync/pull.go:247` against `docs/DEVELOPMENT.md:8`) |
| `NoteSync!TrashedNewNoteSettles` | F, `PageSize` 2, `MaxEdits` 1, `MaxActs` 1 | a note trashed before its first upload is dirty for ever and blocks an unforced logout (`sync/push.go:208` against `main.go:119`) |
| `NoteSync!DeleteSettles` | F, `PageSize` 2, `MaxActs` 2 | a delete another device has overtaken is refused in every round, before the pull (`api/client_api.go:635` against `sync/push.go:252`) |
| `NoteSync!NoBlindRetry` | `PageSize` 2, `Candidates` 2, `MaxEdits` 1, `MaxActs` 1, `MaxFaults` 1 | re-creating a missing note repeats `addNote` after a lost answer (`sync/push.go:372` against `api/client.go:161`) |
| `SyncControl!IsolatedAccounts` | 1 handler, 2 sessions, 3 requests | of two concurrent logins or logouts one unblocks sync before the other switches the account (`app.go:440` against `app_sync_control.go:17`) |
| `SyncControl!AutoRespectsCancel` | 1 handler, 1 session, 3 requests | a tick that checked `CanAutoSync` before a cancel starts a run after it (`main.go:222` against `app_sync_control_test.go:94`) |
| `SharedSync!JobPublished` | 1 note, no files, 2 versions, `MaxChanges` 3, `MaxFaults` 1, `MaxGen` and `LastChange` 4 | a text that returns to an earlier digest stays `stale`: its job is `done` and not set to pending again (`db/shared_repo.go:82` against 36) |
| `SharedSync!PendingWhenQueued` | 2 notes that hold one attachment, `CacheMax` 0, `MaxChanges`, `MaxFaults`, `MaxQueued` 1, `MaxGen` and `LastChange` 4 | an evicted attachment is marked like a queued one and downloaded again (`db/shared_repo.go:633` against `sharedsync.go:364`) |
| `SharedSync!AnnouncedLatest` | 1 note, no files, 2 versions, `MaxChanges` 2, `MaxFaults` 1, `MaxGen` and `LastChange` 4 | a revocation is announced again two publications later (`db/shared_repo.go:470` against 537) |
| `SharedSync!ReadableWhole` | 2 notes that hold one image, 1 version, 2 workers, `MaxGen` 1 | two workers write one file through one temporary path; one renames what the other has just truncated, and a file of which only a part is there is ready (`sharedsync.go:442` against 450) |
| `MediaDownloads!NoOrphans` | 1 image, 1 attachment, 2 workers, `MaxBatches`, `MaxFaults` 1 | a write that fails half-way leaves its file, and the result has no path to remove it by (`api/client_api.go:310` against `sync/snapshot_files.go:222`) |
| `Attachments!UploadKeepsHere` | 2 ids, 1 document, `MaxSaves` 1 | a batch stores the row of a file between the list and the request of an upload, and the server drops the file (`sync/push.go:475`) |
| `Attachments!UploadKeepsRemote` | 3 ids, 2 documents, `MaxRemote` 1, `MaxSaves` 1 | a text saved before its attachments have rows is uploaded with a list that lacks them, and the server drops them (`sync/push.go:475`) |
| `Attachments!PendingUploaded` | 2 ids, 1 document, `MaxUploads` 1 | an attachment added to a clean note is not uploaded (`webapi/local.go:1050`) |
| `Attachments!DeleteSticks` | 2 ids, 1 document, `MaxRemote` 1, `MaxRemoved` 1 | an attachment deleted from a clean note comes back with the next pull (`service/file_service.go:436`) |
| `Attachments!BackupIsReplaced` | 3 ids, 2 documents, `MaxUploads` 2, `MaxRemoved` 1, `MaxRestores` 1 | an attachment added between the reads and the transaction of a restore is in neither set (`db/history_restore.go:45` against `docs/DEVELOPMENT.md:173`) |
| `Attachments!RestoresUnsynced` | 2 ids, 1 document, `MaxUploads`, `MaxRemoved`, `MaxRestores` 1 | a history recorded before the first upload is restored after it (`db/history_restore.go:31` against `docs/DEVELOPMENT.md:180`) |
| `Notebooks!ParentTranslated` | 3 ids, 1 title, `MaxKept` 1, `MaxEdits` 3, `MaxFaults` 1 | a child is sent with the local id of a parent whose upload has failed (`sync/push.go:421` against `docs/DEVELOPMENT.md:65`) |
| `Notebooks!DownloadsResume` | 3 ids, 2 titles, `MaxKept` 1, `MaxEdits` 1, `MaxFaults` 1 | after a lost answer every round is refused before its download (`sync/push.go:122` against 252) |
| `Notebooks!RootsAgree` | 2 ids, 1 title, `MaxKept` 1, `MaxEdits` 1 | an empty parent id finds a row that has no server id yet (`db/notebook_repo.go:418`) |
| `Notebooks!PullKeepsDirtyRow` | 2 ids, 2 titles, `MaxKept`, `MaxRemote`, `MaxEdits` 1 | a rename made after the upload is overwritten (`sync/pull.go:143` against `sync.go:124`) |
| `Notebooks!EveryRowAccepted` | 2 ids, 1 title, `MaxEdits` 2 | a notebook created here, whose notes are all in the trash, is deleted before its first upload; their foreign key keeps the row, the error is dropped, and the row stays dirty through this and every later download (`sync/push.go:100` against `sync.go:124`) |
| `Tags!RefusedTagStaysDirty` | 2 names, `MaxEdits` 1, `MaxRefused` 1 | a refused tag is marked clean (`api/client_api.go:650` against 377) |
| `Tags!DownloadsResume` | 2 names, `MaxEdits` 1, `MaxFaults` 1 | a deletion whose answer was lost is sent again with an old USN in every round; `Client.DeleteTag` turns the refusal into an error (`api/client_api.go:671`), so the branch for `notExists` (`sync/push.go:600`) is never taken and no round downloads any more (against `sync/push.go:252`) |
| `Tags!PullKeepsDeletion` | 2 names, `MaxEdits` 1 | a deletion made after the upload is marked clean and never uploaded (`sync/pull.go:652` against `sync.go:124`) |
| `NoteRow!EverySaveKept` | 2 requests, `Limit` 2, `MaxTexts` 2, `MaxEdits` 2 | two saves of one note read the same row and both add that one to the history; the text of the first to write is overwritten and nowhere else (`webapi/local.go:512` to 536) |
| `NoteRow!LastTypedKept` | 2 requests, `Limit` 2, `MaxTexts` 2, `MaxEdits` 2 | of two saves the later typed answers first and the earlier one overwrites it (`webapi/local.go:512` to 536) |
| `NoteRow!ConflictSeen` | `Limit` 2, `MaxTexts` 2, `MaxEdits` 1 | a save that spans a download is pushed under the downloaded USN, and no conflict is seen (`webapi/local.go:512` against 520) |
| `NoteRow!ApplyKeepsEdit` | `Limit` 2, `MaxTexts` 3, `MaxEdits` 3 | the WHERE clause of `ApplyRemoteNote` lacks `is_markdown` (`db/note_repo.go:359` against 349) |
| `NoteRow!CopyOwnsEdit` | `Limit` 2, `MaxTexts` 3, `MaxEdits` 3 | the conflict copy takes the row of the moment, not the edit the download has found and may now replace; that one is left to the history (`db/note_repo.go:659` against `sync/pull.go:409`) |
| `NoteRow!RequeueKeepsDelete` | `Limit` 2, `MaxTexts` 0, `MaxEdits` 3, `MaxFaults` 1 | the repair resurrects a note deleted between its two statements (`db/note_repo.go:309` against 270) |

## 6. What is assumed and what is left out

* The server: an account's changes are numbered without gaps, a deleted object
  stays deleted until a backup is restored, `getNote` of a deleted note names no
  note, `updateNote`, `deleteTrash` and their likes for notebooks and tags compare
  USNs. It is not in this repository.
* Legacy repairs: `RestoreLostServer*Mappings`, `init_sync`, a row that lost its
  server id. The branch for a server whose USN moved backwards is in `Notebooks`
  only.
* A round over all four tables at once: each module has the round over its own,
  and an error in another is a round that fails. What crosses tables besides (the
  notebook a note is sent to, tags a note carries, attachments listed by its
  upload) is an input of the module that reads it.
* The bodies that `FreshSync` gets with its pages: it runs on an empty cache,
  where they equal a fetch.
* A query that fails. The errors of reads on the way (a list of attachments that
  comes back empty, `sync/push.go:475`) are not modelled, those of requests and of
  writes where the code goes on afterwards are.
* Sequence numbers, blog flags and counts of notebooks; sizes of files other than
  one; shared notebooks, which follow the generations without the guard of the
  shared notes.
* The login proxy and the session's renewal (`webapi/proxy.go`): a proxied request
  that renews the session while a login or logout replaces it is not modelled.
* Export, menus, tray, avatars, sort order, the schema migrations and the release
  scripts have no state that interacts with the sync.

## 7. Plan

1. `Session`: the login proxy, the renewal of a session and the switch of the
   account, composed with `SyncControl`.
2. `ResetAccount`: `ResetAccountCache`, directories and `FreshSync` with crashes
   between them.
3. `ApiRetry`: the retry and timeout loop of the API client.
