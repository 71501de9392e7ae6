----------------------------- MODULE SharedSync ------------------------------
(***************************************************************************)
(* The shared-note service: sharedsync/sharedsync.go over the shared_*     *)
(* tables of db/shared_repo.go.  A round asks for a snapshot of what is    *)
(* shared with the account, publishes it under the next generation, makes  *)
(* room in the cache and downloads texts and files.                        *)
(*                                                                         *)
(* One round runs at a time (withLock); its file workers, the reader who   *)
(* queues an attachment, the server and a crash interleave with it.  A     *)
(* statement or transaction is one step.  A request and the statement that *)
(* writes its answer are one step where nothing the client does can fall   *)
(* between.  Files have size 1.  A row that is not there is NoNote, NoFile *)
(* or NoJob: revoked, of generation 0, nothing cached.  Shared notebooks   *)
(* follow the generations without the guard of the notes and are left out. *)
(***************************************************************************)
EXTENDS Naturals, FiniteSets

CONSTANTS
    Notes,        \* server notes that may be shared with the account
    Images, Attachments,
    Holds,        \* which note holds which file
    Versions,     \* digests of texts and files
    None,         \* no version: nothing cached, no file
    Torn,         \* the bytes of a file whose writing has not ended
    CacheMax,     \* sharedCacheMaxBytes
    MaxWorkers,   \* maxDownloadConcurrency
    MaxChanges,   \* bound: changes on the server
    MaxFaults,    \* bound: failed requests, denials without cause, crashes
    MaxQueued,    \* bound: attachments the reader queues
    MaxGen,       \* bound: no round begins at this generation
    LastChange    \* bound: the generation after which the server stands still

Files == Images \cup Attachments
Jobs == Notes \X Versions

ASSUME SharedAssumption ==
    /\ IsFiniteSet(Notes) /\ IsFiniteSet(Files)
    /\ Images \cap Attachments = {}
    /\ Notes \cap (Notes \X Files) = {}
    /\ Holds \subseteq Notes \X Files
    /\ Versions # {} /\ None \notin Versions /\ Torn \notin Versions \cup {None}
    /\ {CacheMax, MaxWorkers, MaxChanges, MaxFaults, MaxQueued, MaxGen, LastChange} \subseteq Nat

VARIABLES
    shared, ver,          \* server: what is shared, the version of every object
    gen,                  \* shared_sync_state.generation
    notes, jobs, files,   \* shared_notes, shared_download_jobs, shared_files
    disk, tmp,            \* the files id and id.tmp in the account's directory, by file id
    paused,               \* SharedProbePaused
    called,               \* go DownloadPending(), started by the reader's queueing
    pc, attempt, base,    \* the round: where it is, its attempt, generation at its start
    snap, staged,         \* the server's snapshot, the rows of shared_snapshot_items
    evict, todo, work,    \* lists the round goes through: evictions, texts, files
    loss,                 \* permissionLoss
    before, told,         \* observation: readable before the last publication, announced since
    changes, faults, asks \* bounds

server == <<shared, ver, changes>>
rows   == <<gen, notes, jobs, files>>
store  == <<disk, tmp>>
cache  == <<rows, store>>
calls  == <<paused, called>>
plan   == <<attempt, base, snap, staged>>
round  == <<pc, plan, evict, todo, work, loss>>
watch  == <<before, told>>
bounds == <<faults, asks>>
vars   == <<server, cache, calls, round, watch, bounds>>

-----------------------------------------------------------------------------
(* Rows                                                                    *)

NoteStates == {"pending", "ready", "stale", "revoked"}
NoteRow == [gen : Nat, revoked : BOOLEAN, target : Versions \cup {None},
            cached : Versions \cup {None}, state : NoteStates]
NoNote == [gen |-> 0, revoked |-> TRUE, target |-> None, cached |-> None, state |-> "revoked"]

\* denied: the job's error says noPermission; wait: next_retry_at lies ahead.
JobRow == [status : {"none", "pending", "done"}, denied : BOOLEAN, wait : BOOLEAN]
NoJob == [status |-> "none", denied |-> FALSE, wait |-> FALSE]

FileStates == {"available", "pending", "ready", "failed", "revoked"}
FileRow == [gen : Nat, revoked : BOOLEAN, target : Versions \cup {None},
            state : FileStates, path : BOOLEAN, wait : BOOLEAN]
NoFile == [gen |-> 0, revoked |-> TRUE, target |-> None, state |-> "revoked",
           path |-> FALSE, wait |-> FALSE]

Snapshot == [notes : SUBSET Notes, ver : [Notes \cup Files -> Versions]]

\* The items of a snapshot: its notes and the files they hold.
Items(s) == s.notes \cup {h \in Holds : h[1] \in s.notes}

\* What GetSharedNote and ListSharedNotes let a reader see.
Visible(n) == ~notes[n].revoked
View == {n \in Notes : Visible(n)}

\* GetSharedFilePath joins the file with its note.
Readable(h) == /\ Visible(h[1]) /\ ~files[h].revoked /\ files[h].state = "ready"

WorkStages == {"none", "queued", "writing", "trailing", "lost", "written", "unnamed",
               "stored", "failing", "evicted"}
Idle == [h \in Holds |-> "none"]

-----------------------------------------------------------------------------

Init ==
    /\ shared \in SUBSET Notes
    /\ \E v \in Versions : ver = [x \in Notes \cup Files |-> v]
    /\ gen = 0
    /\ notes = [n \in Notes |-> NoNote]
    /\ jobs = [j \in Jobs |-> NoJob]
    /\ files = [h \in Holds |-> NoFile]
    /\ disk = [f \in Files |-> None] /\ tmp = [f \in Files |-> None]
    /\ paused = FALSE /\ called = FALSE
    /\ pc = "idle" /\ attempt = 0 /\ base = 0
    /\ snap = [notes |-> {}, ver |-> ver] /\ staged = {}
    /\ evict = {} /\ todo = {} /\ work = Idle /\ loss = FALSE
    /\ before = {} /\ told = {}
    /\ changes = 0 /\ faults = 0 /\ asks = 0

Goto(stage) == pc' = stage

\* The end of a round, at whatever point.
Finished ==
    /\ Goto("idle")
    /\ attempt' = 0 /\ base' = 0 /\ staged' = {} /\ loss' = FALSE
    /\ evict' = {} /\ todo' = {} /\ work' = Idle
    /\ UNCHANGED snap

Fault == faults < MaxFaults /\ gen <= LastChange /\ faults' = faults + 1

-----------------------------------------------------------------------------
(* The server and the reader                                               *)

Change == changes < MaxChanges /\ gen <= LastChange /\ changes' = changes + 1

Share(n) == /\ Change
            /\ shared' = IF n \in shared THEN shared \ {n} ELSE shared \cup {n}
            /\ UNCHANGED <<ver, cache, calls, round, watch, bounds>>

NewVersion(x, v) ==
    /\ Change
    /\ v # ver[x]
    /\ ver' = [ver EXCEPT ![x] = v]
    /\ UNCHANGED <<shared, cache, calls, round, watch, bounds>>

\* QueueSharedAttachment: every row of the file that is not revoked
Queue(f) ==
    /\ asks < MaxQueued /\ asks' = asks + 1
    /\ \E h \in Holds : h[2] = f /\ ~files[h].revoked
    /\ files' = [h \in Holds |-> IF h[2] = f /\ ~files[h].revoked
                                 THEN [files[h] EXCEPT !.state = "pending", !.wait = FALSE]
                                 ELSE files[h]]
    /\ called' = TRUE
    /\ UNCHANGED <<server, gen, notes, jobs, store, paused, round, watch, faults>>

Waiting == (\E j \in Jobs : jobs[j].wait) \/ (\E h \in Holds : files[h].wait)

\* next_retry_at of the failed jobs has come.
RetryDue ==
    /\ Waiting
    /\ jobs' = [j \in Jobs |-> [jobs[j] EXCEPT !.wait = FALSE]]
    /\ files' = [h \in Holds |-> [files[h] EXCEPT !.wait = FALSE]]
    /\ UNCHANGED <<server, gen, notes, store, calls, round, watch, bounds>>

\* next_probe_at has come.
ProbeDue ==
    /\ paused /\ paused' = FALSE
    /\ UNCHANGED <<server, cache, called, round, watch, bounds>>

-----------------------------------------------------------------------------
(* A round, up to the publication                                          *)

\* A failed job waits one minute and the ticker five; sooner rounds (a start of
\* the program) are bounded by LastChange.
Settled == gen <= LastChange \/ ~Waiting

\* The five-minute ticker, or the second attempt of a round.  The snapshot is
\* a copy of what the server shares now.
Begin ==
    /\ \/ pc = "idle" /\ gen < MaxGen /\ Settled
       \/ pc = "again"
    /\ ~paused
    /\ base' = gen
    /\ snap' = [notes |-> shared, ver |-> ver]
    /\ staged' = {}
    /\ Goto("pages")
    /\ UNCHANGED <<server, cache, calls, attempt, evict, todo, work, loss, watch, bounds>>

\* GetSharedCapabilities or CreateSharedSnapshot fails; a server without the
\* feature is not asked again for half an hour.
BeginFails ==
    /\ pc \in {"idle", "again"}
    /\ ~paused
    /\ Fault
    /\ paused' \in BOOLEAN
    /\ Finished
    /\ UNCHANGED <<server, cache, called, watch, asks>>

\* The pages of one snapshot; a page of several items is several steps.
Page(i) ==
    /\ pc = "pages"
    /\ i \in Items(snap) \ staged
    /\ staged' = staged \cup {i}
    /\ UNCHANGED <<server, cache, calls, pc, attempt, base, snap, evict, todo, work, loss, watch, bounds>>

\* The upsert of a note, guarded by the generation.
PublishedNote(n, g) ==
    IF n \in staged /\ notes[n].gen < g
    THEN [notes[n] EXCEPT !.gen = g, !.revoked = FALSE, !.target = snap.ver[n],
             !.state = IF notes[n].cached = snap.ver[n] THEN "ready"
                       ELSE IF notes[n].cached = None THEN "pending" ELSE "stale"]
    ELSE IF notes[n].gen = g THEN notes[n]
    ELSE [notes[n] EXCEPT !.revoked = TRUE, !.state = "revoked"]

\* Mutant of PublishedFile: the denied notes are forgotten.
PublishedFileAlone(h, g, hidden) ==
    IF h \in staged /\ files[h].gen < g
    THEN [files[h] EXCEPT !.gen = g, !.revoked = FALSE, !.target = snap.ver[h[2]], !.state = "pending"]
    ELSE [files[h] EXCEPT !.revoked = TRUE, !.state = "revoked"]

PublishedFile(h, g, hidden) ==
    LET row == IF h \in staged /\ files[h].gen < g
               THEN [files[h] EXCEPT !.gen = g, !.revoked = FALSE, !.target = snap.ver[h[2]],
                       !.state = IF @ = "ready" /\ files[h].target = snap.ver[h[2]] THEN "ready"
                                 ELSE IF h[2] \in Images THEN "pending" ELSE "available"]
               ELSE files[h]
    IN IF row.gen # g \/ h[1] \in hidden
       THEN [row EXCEPT !.revoked = TRUE, !.state = "revoked"]
       ELSE row

\* Mutant of PublishedJob: only a note without a text gets a job.
PublishedJobNew(j, hidden) ==
    IF j[1] \in hidden THEN NoJob
    ELSE IF j[1] \in staged /\ j[2] = snap.ver[j[1]] /\ notes[j[1]].cached = None
    THEN [jobs[j] EXCEPT !.status = "pending"]
    ELSE jobs[j]

\* A job is inserted for a text that is not cached; a job that is done stays
\* done.  Jobs of revoked notes are deleted.
PublishedJob(j, hidden) ==
    IF j[1] \in hidden THEN NoJob
    ELSE IF j[1] \in staged /\ j[2] = snap.ver[j[1]] /\ notes[j[1]].cached # j[2]
              /\ jobs[j].status # "done"
    THEN [jobs[j] EXCEPT !.status = "pending"]
    ELSE jobs[j]

\* Mutant of Complete: nobody counts the items.
NoCount == TRUE

\* Every page has come and the items are as many as the server said.
Complete == Cardinality(staged) = Cardinality(Items(snap))

\* PublishSharedSnapshot is one transaction.
Publish ==
    LET g == gen + 1
        hidden == {n \in Notes : PublishedNote(n, g).revoked}
    IN /\ pc = "pages"
       /\ Complete
       /\ gen' = g
       /\ notes' = [n \in Notes |-> PublishedNote(n, g)]
       /\ jobs' = [j \in Jobs |-> PublishedJob(j, hidden)]
       /\ files' = [h \in Holds |-> PublishedFile(h, g, hidden)]
       /\ Goto("reclaim")
       /\ staged' = {}
       /\ before' = View /\ told' = {}
       /\ UNCHANGED <<server, store, calls, attempt, base, snap, evict, todo, work, loss, bounds>>

\* A request fails, the snapshot is incomplete, SuspendAndWait cancels the
\* round, or the process ends.
Abort ==
    /\ pc \notin {"idle", "again"}
    /\ Fault
    /\ Finished
    /\ UNCHANGED <<server, cache, calls, watch, asks>>

-----------------------------------------------------------------------------
(* reclaimCache: remove, forget, evict                                     *)

\* Mutant of Reclaimable: the file may be another note's too.
ReclaimableAlone == {f \in Files : \E h \in Holds : h[2] = f /\ files[h].revoked /\ files[h].path}

\* Paths of revoked rows, unless a row that is not revoked has the same path.
Reclaimable == {f \in Files : /\ \E h \in Holds : h[2] = f /\ files[h].revoked /\ files[h].path
                              /\ \A h \in Holds : h[2] = f => files[h].revoked \/ ~files[h].path}

RemoveRevoked ==
    /\ pc = "reclaim"
    /\ disk' = [f \in Files |-> IF f \in Reclaimable THEN None ELSE disk[f]]
    /\ Goto("forget")
    /\ UNCHANGED <<server, rows, tmp, calls, plan, evict, todo, work, loss, watch, bounds>>

\* ClearRevokedSharedFilePaths, cleanTempFiles; then the attachments that are
\* ready are listed.
ForgetRevoked ==
    /\ pc = "forget"
    /\ files' = [h \in Holds |-> IF files[h].revoked THEN [files[h] EXCEPT !.path = FALSE] ELSE files[h]]
    /\ evict' = {h \in Holds : h[2] \in Attachments /\ ~files[h].revoked /\ files[h].state = "ready"}
    /\ tmp' = [f \in Files |-> None]
    /\ Goto("evict")
    /\ UNCHANGED <<server, gen, notes, jobs, disk, calls, plan, todo, work, loss, watch, bounds>>

\* One attachment over the cap: its file goes first, its row next.
EvictFile(h) ==
    /\ pc = "evict" /\ h \in evict
    /\ Cardinality(evict) > CacheMax
    /\ evict' = evict \ {h}
    /\ disk' = [disk EXCEPT ![h[2]] = None]
    /\ work' = [work EXCEPT ![h] = "evicted"]
    /\ Goto("mark")
    /\ UNCHANGED <<server, rows, tmp, calls, plan, todo, loss, watch, bounds>>

\* MarkSharedFilePending
EvictRow(h) ==
    /\ pc = "mark" /\ work[h] = "evicted"
    /\ files' = [files EXCEPT ![h] = [@ EXCEPT !.path = FALSE, !.state = "pending"]]
    /\ work' = Idle
    /\ Goto("evict")
    /\ UNCHANGED <<server, gen, notes, jobs, store, calls, plan, evict, todo, loss, watch, bounds>>

\* PendingSharedContentJobs
PendingTexts == {j \in Jobs : jobs[j].status = "pending" /\ ~jobs[j].wait}

EvictDone ==
    /\ pc = "evict"
    /\ Cardinality(evict) <= CacheMax
    /\ evict' = {} /\ todo' = PendingTexts
    /\ Goto("texts")
    /\ UNCHANGED <<server, cache, calls, plan, work, loss, watch, bounds>>

-----------------------------------------------------------------------------
(* downloadSharedContent: one job after another                            *)

\* The answer is the text the server has now, whose digest is its version.
Answers(j) == j[1] \in shared /\ ver[j[1]] = j[2]

\* Mutant of Wanted: any version will do.
WantedAny(j) == ~notes[j[1]].revoked

\* CompleteSharedContent: the row must still be after this version.
Wanted(j) == notes[j[1]].target = j[2] /\ ~notes[j[1]].revoked

Text(j) ==
    /\ pc = "texts" /\ j \in todo
    /\ Answers(j)
    /\ todo' = todo \ {j}
    /\ IF Wanted(j)
       THEN /\ notes' = [notes EXCEPT ![j[1]] = [@ EXCEPT !.cached = j[2], !.state = "ready"]]
            /\ jobs' = [jobs EXCEPT ![j] = [@ EXCEPT !.status = "done", !.denied = FALSE]]
       ELSE UNCHANGED <<notes, jobs>>
    /\ UNCHANGED <<server, gen, files, store, calls, pc, plan, evict, work, loss, watch, bounds>>

\* Why FailSharedContent is called: no longer shared, another version, or a
\* request that fails although neither is so.
TextFails(j) ==
    /\ pc = "texts" /\ j \in todo
    /\ \E denied \in BOOLEAN :
         /\ \/ ~Answers(j) /\ denied = (j[1] \notin shared) /\ UNCHANGED faults
            \/ Fault
         /\ jobs' = [jobs EXCEPT ![j] = IF @.status = "none" THEN @
                                        ELSE [status |-> "pending", denied |-> denied, wait |-> TRUE]]
    /\ todo' = todo \ {j}
    /\ UNCHANGED <<server, gen, notes, files, store, calls, pc, plan, evict, work, loss, watch, asks>>

\* PendingSharedFileJobs
PendingFiles == {h \in Holds : /\ ~files[h].revoked
                               /\ files[h].state \in {"pending", "failed"} /\ ~files[h].wait}

TextsDone ==
    /\ pc = "texts" /\ todo = {}
    /\ work' = [h \in Holds |-> IF h \in PendingFiles THEN "queued" ELSE "none"]
    /\ Goto("files")
    /\ UNCHANGED <<server, cache, calls, plan, evict, todo, loss, watch, bounds>>

-----------------------------------------------------------------------------
(* downloadSharedFiles: workers side by side                               *)

\* DownloadPending does nothing while another run holds the service.
DownloadPending ==
    /\ called /\ called' = FALSE
    /\ IF pc = "idle"
       THEN /\ work' = [h \in Holds |-> IF h \in PendingFiles THEN "queued" ELSE "none"]
            /\ Goto("only files")
       ELSE UNCHANGED <<work, pc>>
    /\ UNCHANGED <<server, cache, paused, plan, evict, todo, loss, watch, bounds>>

Fetching == pc \in {"files", "only files"}
Busy == {h \in Holds : work[h] \notin {"none", "queued", "evicted"}}

Step(h, stage) == work' = [work EXCEPT ![h] = stage]

\* FailSharedFile looks at the version, not at revoked.
FailedFile(h) == files' = [files EXCEPT ![h] = [@ EXCEPT !.state = "failed", !.wait = TRUE]]

FileAnswers(h) == h[1] \in shared /\ ver[h[2]] = files[h].target

\* storeSharedFile opens id.tmp, writes it, and renames it to id.  The path is
\* that of the file, so workers for two notes that hold it share it; what
\* happens to a file does not stop those who write it: they go on, in the file
\* that is id now ("trailing"), or in one that has no name any more ("lost").
Writing == {"writing", "trailing", "lost"}

\* The bytes of the answer have been checked; a file that is there is truncated.
FileOpened(h) ==
    /\ Fetching /\ work[h] = "queued" /\ Cardinality(Busy) < MaxWorkers
    /\ FileAnswers(h)
    /\ tmp' = [tmp EXCEPT ![h[2]] = Torn]
    /\ Step(h, "writing")
    /\ UNCHANGED <<server, rows, disk, calls, pc, plan, evict, todo, loss, watch, bounds>>

\* Others who have the same file open.
Company(h) == {g \in Holds \ {h} : g[2] = h[2] /\ work[g] = work[h]}

\* A write ends and the file is whole, or, if another has opened it since, as
\* that one leaves it.
Ended(h, bytes) == {files[h].target} \cup (IF Company(h) = {} THEN {} ELSE {bytes})

FileWritten(h) ==
    /\ Fetching
    /\ LET f == h[2] IN
       \/ work[h] = "writing" /\ disk' = disk /\ \E b \in Ended(h, tmp[f]) : tmp' = [tmp EXCEPT ![f] = b]
       \/ work[h] = "trailing" /\ tmp' = tmp /\ \E b \in Ended(h, disk[f]) : disk' = [disk EXCEPT ![f] = b]
       \/ work[h] = "lost" /\ UNCHANGED store
    /\ Step(h, "written")
    /\ UNCHANGED <<server, rows, calls, pc, plan, evict, todo, loss, watch, bounds>>

\* What has been written stays.
WriteFails(h) ==
    /\ Fetching /\ work[h] \in Writing /\ Fault
    /\ Step(h, "failing")
    /\ UNCHANGED <<server, cache, calls, pc, plan, evict, todo, loss, watch, asks>>

\* os.Rename takes id.tmp as it is; the file that was id loses its name.
FileNamed(h) ==
    /\ Fetching /\ work[h] = "written" /\ tmp[h[2]] # None
    /\ disk' = [disk EXCEPT ![h[2]] = tmp[h[2]]]
    /\ tmp' = [tmp EXCEPT ![h[2]] = None]
    /\ work' = [g \in Holds |-> IF g = h THEN "stored"
                               ELSE IF g[2] = h[2] /\ work[g] = "writing" THEN "trailing"
                               ELSE IF g[2] = h[2] /\ work[g] = "trailing" THEN "lost"
                               ELSE work[g]]
    /\ UNCHANGED <<server, rows, calls, pc, plan, evict, todo, loss, watch, bounds>>

\* Another worker has renamed or removed id.tmp, or the rename fails.
NotNamed(h) ==
    /\ Fetching /\ work[h] = "written"
    /\ \/ tmp[h[2]] = None /\ UNCHANGED faults
       \/ Fault
    /\ Step(h, "unnamed")
    /\ UNCHANGED <<server, cache, calls, pc, plan, evict, todo, loss, watch, asks>>

\* os.Remove(tmp), whoever has opened it meanwhile.
TmpRemoved(h) ==
    /\ Fetching /\ work[h] = "unnamed"
    /\ tmp' = [tmp EXCEPT ![h[2]] = None]
    /\ work' = [g \in Holds |-> IF g = h THEN "failing"
                               ELSE IF g[2] = h[2] /\ work[g] = "writing" THEN "lost"
                               ELSE work[g]]
    /\ UNCHANGED <<server, rows, disk, calls, pc, plan, evict, todo, loss, watch, bounds>>

Storing(h) == \/ FileOpened(h) \/ FileWritten(h) \/ WriteFails(h)
              \/ FileNamed(h) \/ NotNamed(h) \/ TmpRemoved(h)

Unrevoked(h) == ~files[h].revoked

\* CompleteSharedFile: the row must not be revoked meanwhile.
FileReady(h) ==
    /\ Fetching /\ work[h] = "stored"
    /\ IF Unrevoked(h)
       THEN files' = [files EXCEPT ![h] = [@ EXCEPT !.path = TRUE, !.state = "ready"]]
       ELSE UNCHANGED files
    /\ Step(h, "none")
    /\ UNCHANGED <<server, gen, notes, jobs, store, calls, pc, plan, evict, todo, loss, watch, bounds>>

\* RevokeSharedNote: hidden under the generation of the next publication, so
\* that the rebuilt snapshot does not bring it back.
RevokedNote(n) == [notes[n] EXCEPT !.revoked = TRUE, !.state = "revoked", !.gen = gen + 1]

Revoke(n) ==
    /\ notes' = [notes EXCEPT ![n] = RevokedNote(n)]
    /\ files' = [h \in Holds |-> IF h[1] = n THEN [files[h] EXCEPT !.revoked = TRUE, !.state = "revoked"]
                                 ELSE files[h]]
    /\ jobs' = [j \in Jobs |-> IF j[1] = n THEN NoJob ELSE jobs[j]]
    /\ told' = told \cup {n}

\* The server denies the file: its note is revoked at once, the failure is
\* noted next.
FileDenied(h) ==
    /\ Fetching /\ work[h] = "queued" /\ Cardinality(Busy) < MaxWorkers
    /\ \/ h[1] \notin shared /\ UNCHANGED faults
       \/ Fault
    /\ Revoke(h[1])
    /\ loss' = TRUE
    /\ Step(h, "failing")
    /\ UNCHANGED <<server, gen, store, calls, pc, plan, evict, todo, before, asks>>

FailNoted(h) ==
    /\ Fetching /\ work[h] = "failing"
    /\ FailedFile(h)
    /\ Step(h, "none")
    /\ UNCHANGED <<server, gen, notes, jobs, store, calls, pc, plan, evict, todo, loss, watch, bounds>>

\* Another version than the row is after, or a failed request.
FileFails(h) ==
    /\ Fetching /\ work[h] = "queued" /\ Cardinality(Busy) < MaxWorkers
    /\ \/ h[1] \in shared /\ ~FileAnswers(h) /\ UNCHANGED faults
       \/ Fault
    /\ FailedFile(h)
    /\ Step(h, "none")
    /\ UNCHANGED <<server, gen, notes, jobs, store, calls, pc, plan, evict, todo, loss, watch, asks>>

FilesDone ==
    /\ Fetching /\ work = Idle
    /\ IF pc = "files" THEN Goto("revoke") /\ UNCHANGED <<plan, loss, evict, todo, work>>
                       ELSE Finished
    /\ UNCHANGED <<server, cache, calls, watch, bounds>>

-----------------------------------------------------------------------------
(* The end of a round                                                      *)

Denied == {n \in Notes : \E v \in Versions : jobs[<<n, v>>].denied}

\* revokeOnPermissionLoss, one transaction per note
RevokeDenied(n) ==
    /\ pc = "revoke" /\ n \in Denied
    /\ Revoke(n)
    /\ loss' = TRUE
    /\ UNCHANGED <<server, gen, store, calls, pc, plan, evict, todo, work, before, bounds>>

\* Mutant of Announced: the generation just published.
AnnouncedLate == {n \in Notes : /\ notes[n].revoked /\ notes[n].cached # None
                                /\ notes[n].gen = base + 1}

\* RecentlyRevokedSharedNotes(base + 1)
Announced == {n \in Notes : /\ notes[n].revoked /\ notes[n].cached # None
                            /\ notes[n].gen = base}

\* After a denial the snapshot is rebuilt once.
Rebuilds == loss /\ attempt < 1

\* OnRevocation
Announce ==
    /\ pc = "revoke" /\ Denied = {}
    /\ told' = told \cup Announced
    /\ IF Rebuilds
       THEN Goto("again") /\ attempt' = attempt + 1 /\ loss' = FALSE
            /\ UNCHANGED <<base, snap, staged, evict, todo, work>>
       ELSE Finished
    /\ UNCHANGED <<server, cache, calls, before, bounds>>

\* ResetAccountCache and the directory, under SuspendAndWait and RunExclusive;
\* the process may end between the two.
Reset ==
    /\ pc = "idle" /\ gen > 0
    /\ Fault
    /\ gen' = 0
    /\ notes' = [n \in Notes |-> NoNote]
    /\ jobs' = [j \in Jobs |-> NoJob]
    /\ files' = [h \in Holds |-> NoFile]
    /\ \/ disk' = [f \in Files |-> None] /\ tmp' = [f \in Files |-> None]
       \/ UNCHANGED store
    /\ paused' = FALSE
    /\ UNCHANGED <<server, called, round, watch, asks>>

World == \/ \E n \in Notes : Share(n)
         \/ \E x \in Notes \cup Files, v \in Versions : NewVersion(x, v)
         \/ \E f \in Attachments : Queue(f)
         \/ Reset \/ Abort \/ BeginFails

Time == RetryDue \/ ProbeDue

Worker(h) == Storing(h) \/ FileReady(h) \/ FileDenied(h) \/ FailNoted(h) \/ FileFails(h)

Running ==
    \/ \E i \in Items(snap) : Page(i)
    \/ Publish
    \/ RemoveRevoked \/ ForgetRevoked \/ EvictDone
    \/ \E h \in Holds : EvictFile(h) \/ EvictRow(h) \/ Worker(h)
    \/ \E j \in Jobs : Text(j) \/ TextFails(j)
    \/ TextsDone \/ FilesDone
    \/ \E n \in Notes : RevokeDenied(n)
    \/ Announce

Next == World \/ Time \/ Begin \/ DownloadPending \/ Running

Spec == Init /\ [][Next]_vars

\* The ticker starts rounds, a running round goes on (requests have timeouts),
\* retry times come.  The server, the reader and faults owe nothing.
FairSpec == Spec /\ WF_vars(Begin) /\ WF_vars(Running) /\ WF_vars(Time)

-----------------------------------------------------------------------------
(* Properties                                                              *)

TypeOK ==
    /\ shared \subseteq Notes /\ ver \in [Notes \cup Files -> Versions]
    /\ gen \in Nat /\ notes \in [Notes -> NoteRow] /\ jobs \in [Jobs -> JobRow]
    /\ files \in [Holds -> FileRow]
    /\ disk \in [Files -> Versions \cup {None, Torn}] /\ tmp \in [Files -> Versions \cup {None, Torn}]
    /\ paused \in BOOLEAN /\ called \in BOOLEAN
    /\ pc \in {"idle", "pages", "reclaim", "forget", "evict", "mark", "texts", "files",
               "only files", "revoke", "again"}
    /\ attempt \in 0..1 /\ base \in Nat
    /\ snap \in Snapshot /\ staged \subseteq Items(snap)
    /\ evict \subseteq Holds /\ todo \subseteq Jobs
    /\ work \in [Holds -> WorkStages]
    /\ loss \in BOOLEAN /\ before \subseteq Notes /\ told \subseteq Notes
    /\ changes \in Nat /\ faults \in Nat /\ asks \in Nat

\* Readers see one generation: a visible row carries the number published
\* last, and a visible file belongs to a visible note.  (Comments at
\* db/shared_repo.go:36 and 225.)
OneGeneration ==
    /\ \A n \in Notes : Visible(n) => notes[n].gen = gen
    /\ \A h \in Holds : ~files[h].revoked => files[h].gen = gen /\ Visible(h[1])

\* A text marked ready is the version the published snapshot names, although
\* jobs of older versions stay in the table and are tried again.
ReadyIsTarget ==
    \A n \in Notes : notes[n].state = "ready" => notes[n].cached = notes[n].target

\* Another note holds the file too.
HeldTwice(h) == \E g \in Holds \ {h} : g[2] = h[2]

\* A readable image is on disk, and the bytes of a readable file that is on disk
\* are of the published version, all of them if no other note holds the file:
\* file ids name the files of several notes, which are revoked and downloaded
\* one by one, through one temporary path.  (ReadableWhole asks for more.)
ReadableOnDisk ==
    \A h \in Holds : Readable(h) =>
        /\ h[2] \in Images => disk[h[2]] # None
        /\ disk[h[2]] \in {None, Torn, files[h].target}
        /\ disk[h[2]] = Torn => HeldTwice(h)

\* Who could be read before a publication and cannot be afterwards is announced
\* to the page by the end of the round.  (OnRevocation, sharedsync.go:236.)
LossAnnounced ==
    [][Announce => \A n \in before : ~Visible(n) /\ notes[n].cached # None => n \in told']_vars

\* The service keeps the promise of SharedView.
Barred == {n \in Notes : notes[n].revoked /\ notes[n].gen = gen + 1}
Promise == INSTANCE SharedView WITH offer <- snap.notes, view <- View, barred <- Barred
OneSnapshot == Promise!Spec

\* Every visible note and its images are ready in the end, but for a text that
\* was downloaded once, replaced, and is wanted again (see JobPublished).
Blocked(n) == jobs[<<n, notes[n].target>>].status = "done" /\ notes[n].state # "ready"
EventuallyReady ==
    /\ \A n \in Notes : <>[](Visible(n) => notes[n].state = "ready" \/ Blocked(n))
    /\ \A h \in Holds : <>[](h[2] \in Images /\ ~files[h].revoked => files[h].state = "ready")

-----------------------------------------------------------------------------
(* What a doc, a comment or a test says, and the code does not do.  TLC finds *)
(* a counterexample to each; section 5 of the README has the constants.       *)

\* "All metadata, revocations and retry jobs become visible
\* in one transaction" (db/shared_repo.go:36): a published note whose text is
\* not the published version has a job that will fetch it.
JobPublished ==
    \A n \in Notes : Visible(n) /\ notes[n].state # "ready" =>
        jobs[<<n, notes[n].target>>].status = "pending"

\* A file is marked ready once os.Rename has put it in place (sharedsync.go:450),
\* so a ready file is whole.  Two workers that share id.tmp break this: one
\* renames what the other has just truncated.
ReadableWhole == \A h \in Holds : Readable(h) => disk[h[2]] # Torn

\* "attachments stay pending until they are queued for
\* offline use" (sharedsync.go:364): an attachment becomes pending because the
\* reader queued it.
PendingWhenQueued ==
    [][\A h \in Holds :
         h[2] \in Attachments /\ files[h].state # "pending" /\ files[h]'.state = "pending"
            => Queue(h[2])]_vars

\* RecentlyRevokedSharedNotes "lists notes invalidated by
\* exactly the latest published generation" (db/shared_repo.go:537).
AnnouncedLatest == [][Announce => Announced \subseteq before]_vars

=============================================================================
