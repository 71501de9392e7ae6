--------------------------- MODULE MediaDownloads ---------------------------
(***************************************************************************)
(* The background downloads of a fresh sync (sync/snapshot_files.go): a    *)
(* pool of workers fetches the files of the snapshot, one writer stores    *)
(* them, a stop cancels the batch and waits for it, and the image handler  *)
(* (webapi/local.go) waits for an image that is still on its way.          *)
(* SyncControl says when a batch is started and stopped; here is what it   *)
(* does in between.                                                        *)
(***************************************************************************)
EXTENDS Naturals, Sequences, FiniteSets

CONSTANTS
    Images, Attachs,    \* jobs: image ids, attachments
    Workers,            \* the pool
    Viewers,            \* requests of the editor for an image
    Capacity,           \* of the channel of results
    None,
    MaxBatches,         \* bound: full syncs that start a batch
    MaxStops,           \* bound: logouts, resets, account switches
    MaxViews,           \* bound: images asked for
    MaxFaults           \* bound: failed downloads, writes and inserts

Jobs == Images \cup Attachs

\* A placeholder is stored for an attachment the server no longer has.
Result == [job : Jobs, kind : {"file", "missing", "error"}, keep : BOOLEAN]

ASSUME MediaAssumption ==
    /\ IsFiniteSet(Images) /\ IsFiniteSet(Attachs) /\ Images \cap Attachs = {}
    /\ IsFiniteSet(Workers) /\ Workers # {}
    /\ None \notin Jobs \cup Result
    /\ Capacity \in Nat \ {0}
    /\ {MaxBatches, MaxStops, MaxViews, MaxFaults} \subseteq Nat

VARIABLES
    lock,       \* downloadMu, while a stop or a start waits for the batch
    planned,    \* the files of the sync that starts a batch
    gen, batch, \* s.downloads: the number of the batch, and its state
    queue, pool, out, writer,   \* jobs, the workers, results, the writer
    ready,      \* images whose channel is closed
    profile,    \* the profile refresh runs
    files,      \* files on disk, by batch
    partial,    \* those a failed write has left
    rows,       \* images and attachs: the batch of the file a row names
    viewers,    \* WaitForBackgroundImage
    broken, cut,    \* jobs that failed, batches that were cancelled
    count       \* bounds

control == <<lock, planned, gen, batch, profile>>
work    == <<queue, pool, out, writer>>
media   == <<files, partial, rows, broken>>
vars    == <<control, work, media, ready, viewers, cut, count>>

-----------------------------------------------------------------------------

\* on: s.downloads # nil; done: its channel is closed.
Batch == [on : BOOLEAN, done : BOOLEAN, cancelled : BOOLEAN,
          jobs : SUBSET Jobs, completed : Nat, failed : Nat]

Worker == [at : {"off", "idle", "fetch", "send"}, result : Result \cup {None}]
Viewer == [at : {"idle", "wait"}, job : Images \cup {None}, gen : Nat]
Counters == {"batches", "stops", "views", "faults"}

Counted(c) == count' = [count EXCEPT ![c] = @ + 1]
Bounded(c, max) == count[c] < max /\ Counted(c)

Off == [at |-> "off", result |-> None]
Resting == [at |-> "idle", job |-> None, gen |-> 0]

Init ==
    /\ lock = "free" /\ planned = {} /\ gen = 0 /\ profile = FALSE
    /\ batch = [on |-> FALSE, done |-> TRUE, cancelled |-> FALSE, jobs |-> {}, completed |-> 0, failed |-> 0]
    /\ queue = {} /\ pool = [w \in Workers |-> Off] /\ out = <<>> /\ writer = None
    /\ ready = {} /\ files = {} /\ partial = {} /\ rows = [j \in Jobs |-> 0]
    /\ viewers = [v \in Viewers |-> Resting]
    /\ broken = {} /\ cut = {} /\ count = [c \in Counters |-> 0]

-----------------------------------------------------------------------------
(* Starting and stopping                                                   *)

\* stopDownloadsLocked, up to <-done.
Cancel ==
    /\ batch' = IF batch.on THEN [batch EXCEPT !.cancelled = TRUE] ELSE batch
    /\ cut' = IF batch.on /\ ~batch.done THEN cut \cup {gen} ELSE cut

StopBackgroundDownloads ==
    /\ lock = "free" /\ lock' = "stop"
    /\ Bounded("stops", MaxStops) /\ Cancel
    /\ UNCHANGED <<planned, gen, profile, work, media, ready, viewers>>

\* The end of a full sync; the key of a job is unique in the snapshot.
StartSnapshotDownloads ==
    /\ lock = "free" /\ lock' = "start"
    /\ Bounded("batches", MaxBatches) /\ Cancel
    /\ planned' \in SUBSET Jobs
    /\ UNCHANGED <<gen, profile, work, media, ready, viewers>>

\* Mutant of Joined: nobody waits for the batch.
JoinedAtOnce == TRUE

Joined == batch.on => batch.done

Stopped ==
    /\ lock = "stop" /\ Joined /\ lock' = "free"
    /\ batch' = [batch EXCEPT !.on = FALSE]
    /\ UNCHANGED <<planned, gen, profile, work, media, ready, viewers, cut, count>>

\* As many workers as there are jobs, at most.
Started ==
    /\ lock = "start" /\ Joined /\ lock' = "free" /\ planned' = {}
    /\ gen' = gen + 1 /\ ready' = {}
    /\ batch' = [on |-> TRUE, done |-> FALSE, cancelled |-> FALSE, jobs |-> planned, completed |-> 0, failed |-> 0]
    /\ queue' = planned /\ out' = <<>> /\ writer' = None
    /\ \E crew \in SUBSET Workers :
         /\ Cardinality(crew) = Cardinality(planned) \/ (crew = Workers /\ Cardinality(planned) > Cardinality(Workers))
         /\ pool' = [w \in Workers |-> IF w \in crew THEN [Off EXCEPT !.at = "idle"] ELSE Off]
    /\ profile' \in BOOLEAN
    /\ UNCHANGED <<media, viewers, cut, count>>

-----------------------------------------------------------------------------
(* The workers                                                             *)

Put(w, at, result) == pool' = [pool EXCEPT ![w] = [at |-> at, result |-> result]]

Take(w) ==
    /\ pool[w].at = "idle" /\ ~batch.cancelled
    /\ \E j \in queue : Put(w, "fetch", [job |-> j, kind |-> "error", keep |-> FALSE]) /\ queue' = queue \ {j}
    /\ UNCHANGED <<control, out, writer, media, ready, viewers, cut, count>>

Quit(w) ==
    /\ pool[w].at = "idle"
    /\ \/ queue = {} /\ queue' = queue
       \/ batch.cancelled /\ \E j \in queue : queue' = queue \ {j}
    /\ Put(w, "off", None)
    /\ UNCHANGED <<control, out, writer, media, ready, viewers, cut, count>>

\* Mutant of Fetch: the image is announced as soon as its file is there.
FetchAnnounce(w) ==
    /\ pool[w].at = "fetch"
    /\ Put(w, "send", [pool[w].result EXCEPT !.kind = "file"])
    /\ files' = files \cup {<<gen, pool[w].result.job>>}
    /\ ready' = ready \cup ({pool[w].result.job} \cap Images)
    /\ UNCHANGED <<control, queue, out, writer, partial, rows, broken, viewers, cut, count>>

\* GetImageContext, GetAttachContext: a file under a name of its own.
Fetch(w) ==
    /\ pool[w].at = "fetch"
    /\ Put(w, "send", [pool[w].result EXCEPT !.kind = "file"])
    /\ files' = files \cup {<<gen, pool[w].result.job>>}
    /\ UNCHANGED <<control, queue, out, writer, partial, rows, broken, ready, viewers, cut, count>>

\* The server does not have it, the network fails, or the batch is cancelled.
FetchFails(w) ==
    /\ pool[w].at = "fetch"
    /\ \E kind \in {"missing", "error"} :
         /\ kind = "missing" => pool[w].result.job \in Attachs
         /\ Put(w, "send", [pool[w].result EXCEPT !.kind = kind])
    /\ IF batch.cancelled THEN count' = count ELSE Bounded("faults", MaxFaults)
    /\ broken' = broken \cup {pool[w].result.job}
    /\ UNCHANGED <<control, queue, out, writer, files, partial, rows, ready, viewers, cut>>

\* os.WriteFile fails half-way: the file stays, and its path is not returned.
WriteFails(w) ==
    /\ pool[w].at = "fetch" /\ Bounded("faults", MaxFaults)
    /\ Put(w, "send", [pool[w].result EXCEPT !.kind = "error"])
    /\ files' = files \cup {<<gen, pool[w].result.job>>}
    /\ partial' = partial \cup {<<gen, pool[w].result.job>>}
    /\ broken' = broken \cup {pool[w].result.job}
    /\ UNCHANGED <<control, queue, out, writer, rows, ready, viewers, cut>>

Send(w) ==
    /\ pool[w].at = "send" /\ Len(out) < Capacity
    /\ out' = Append(out, pool[w].result) /\ Put(w, "idle", None)
    /\ UNCHANGED <<control, queue, writer, media, ready, viewers, cut, count>>

-----------------------------------------------------------------------------
(* The writer                                                              *)

\* Mutant of Receive: the writer stops at the first result after a cancel.
ReceiveUntilCancel ==
    /\ writer = None /\ out # <<>> /\ ~batch.cancelled
    /\ writer' = [Head(out) EXCEPT !.keep = ~batch.cancelled] /\ out' = Tail(out)
    /\ UNCHANGED <<control, queue, pool, media, ready, viewers, cut, count>>

Receive ==
    /\ writer = None /\ out # <<>>
    /\ writer' = [Head(out) EXCEPT !.keep = ~batch.cancelled] /\ out' = Tail(out)
    /\ UNCHANGED <<control, queue, pool, media, ready, viewers, cut, count>>

\* Only a result without an error has the path of its file.
Removed == IF writer.kind = "file" THEN files \ {<<gen, writer.job>>} ELSE files

\* Mutant of Discard: the file stays.
DiscardResult ==
    /\ writer # None /\ ~writer.keep /\ writer' = None
    /\ UNCHANGED <<control, queue, pool, out, media, ready, viewers, cut, count>>

\* A result that was received after the cancel.
Discard ==
    /\ writer # None /\ ~writer.keep /\ writer' = None /\ files' = Removed
    /\ UNCHANGED <<control, queue, pool, out, partial, rows, broken, ready, viewers, cut, count>>

Handled(failures) ==
    /\ writer # None /\ writer.keep /\ writer' = None
    /\ batch' = [batch EXCEPT !.completed = @ + 1, !.failed = @ + failures]
    /\ ready' = ready \cup ({writer.job} \cap Images)
    /\ UNCHANGED <<lock, planned, gen, profile, queue, pool, out, viewers, cut>>

\* InsertImage, InsertAttach.
Store ==
    /\ writer # None /\ writer.kind = "file" /\ Handled(0)
    /\ rows' = [rows EXCEPT ![writer.job] = gen]
    /\ UNCHANGED <<files, partial, broken, count>>

StoreFails ==
    /\ writer # None /\ writer.kind = "file" /\ Handled(1)
    /\ files' = Removed /\ broken' = broken \cup {writer.job}
    /\ Bounded("faults", MaxFaults) /\ UNCHANGED <<partial, rows>>

\* A placeholder names no file; InsertAttach gives it an id of its own, next
\* to any row the attachment has already.
Skip ==
    /\ writer # None /\ writer.kind # "file" /\ Handled(1)
    /\ UNCHANGED <<media, count>>

ProfileEnds ==
    /\ profile /\ profile' = FALSE
    /\ UNCHANGED <<lock, planned, gen, batch, work, media, ready, viewers, cut, count>>

Finished == /\ batch.on /\ ~batch.done /\ ~profile
            /\ \A w \in Workers : pool[w].at = "off"
            /\ out = <<>> /\ writer = None

\* Mutant of Finish: the channels of the images left over stay open.
FinishSilently ==
    /\ Finished /\ batch' = [batch EXCEPT !.done = TRUE]
    /\ UNCHANGED <<lock, planned, gen, profile, work, media, ready, viewers, cut, count>>

\* The results are closed, the profile refreshed; every channel is closed.
Finish ==
    /\ Finished /\ batch' = [batch EXCEPT !.done = TRUE]
    /\ ready' = batch.jobs \cap Images
    /\ UNCHANGED <<lock, planned, gen, profile, work, media, viewers, cut, count>>

-----------------------------------------------------------------------------
(* serveImage                                                              *)

\* WaitForBackgroundImage: the channel of the batch of now, if there is one.
Ask(v, i) ==
    /\ viewers[v].at = "idle" /\ lock = "free" /\ Bounded("views", MaxViews)
    /\ viewers' = [viewers EXCEPT ![v] = [at |-> "wait", job |-> i,
                       gen |-> IF batch.on /\ i \in batch.jobs THEN gen ELSE 0]]
    /\ UNCHANGED <<control, work, media, ready, cut>>

\* The channel is closed; one of an earlier batch has been.
Told(v) == viewers[v].gen = gen => viewers[v].job \in ready

\* Then the handler reads the row, and serves the file or answers 404.
Look(v) ==
    /\ viewers[v].at = "wait" /\ (viewers[v].gen = 0 \/ Told(v))
    /\ viewers' = [viewers EXCEPT ![v] = Resting]
    /\ UNCHANGED <<control, work, media, ready, cut, count>>

-----------------------------------------------------------------------------

WorkerStep(w) == Take(w) \/ Quit(w) \/ Fetch(w) \/ FetchFails(w) \/ WriteFails(w) \/ Send(w)
WriterStep == Receive \/ Discard \/ Store \/ StoreFails \/ Skip \/ Finish

Next ==
    \/ StopBackgroundDownloads \/ StartSnapshotDownloads \/ Stopped \/ Started
    \/ \E w \in Workers : WorkerStep(w)
    \/ WriterStep \/ ProfileEnds
    \/ \E v \in Viewers : Look(v) \/ \E i \in Images : Ask(v, i)

\* Goroutines run; a request of the network ends, at the latest by its timeout.
Fairness ==
    /\ \A w \in Workers : WF_vars(WorkerStep(w))
    /\ WF_vars(WriterStep) /\ WF_vars(ProfileEnds)
    /\ WF_vars(Stopped \/ Started)
    /\ \A v \in Viewers : WF_vars(Look(v))

Spec == Init /\ [][Next]_vars /\ Fairness

-----------------------------------------------------------------------------
(* Properties                                                              *)

TypeOK ==
    /\ lock \in {"free", "start", "stop"} /\ planned \subseteq Jobs /\ gen \in Nat /\ profile \in BOOLEAN
    /\ batch \in Batch /\ batch.failed <= batch.completed
    /\ queue \subseteq Jobs /\ pool \in [Workers -> Worker]
    /\ out \in Seq(Result) /\ Len(out) <= Capacity /\ writer \in Result \cup {None}
    /\ ready \subseteq Images /\ files \subseteq (Nat \X Jobs) /\ partial \subseteq (Nat \X Jobs) /\ rows \in [Jobs -> Nat]
    /\ viewers \in [Viewers -> Viewer] /\ broken \subseteq Jobs /\ cut \subseteq Nat
    /\ count \in [Counters -> Nat]

\* "Stop joins all writers" (snapshot_files.go:51): once a stop has returned,
\* no file and no row appears any more, whatever was under way.
NothingAfterStop == [][~batch.on => UNCHANGED <<files, rows>>]_vars

\* Files and rows are written one after the other, by batches that are cut off
\* and replaced: a row names a file that is there and whole, and a batch that
\* has ended leaves no file that no row names but those of failed writes, whose
\* path nobody has.
FilesAgree ==
    /\ \A j \in Jobs : rows[j] # 0 => <<rows[j], j>> \in files \ partial
    /\ batch.done => \A j \in Jobs : <<gen, j>> \in files \ partial => rows[j] = gen

\* "Let an image opened immediately after sync finish loading naturally,
\* rather than caching a 404" (snapshot_files.go:66): who has waited finds
\* the row, unless the download failed or the batch was cancelled.
ServedAfterWait ==
    [][\A v \in Viewers : Look(v) /\ viewers[v].gen # 0 =>
           \/ rows[viewers[v].job] # 0
           \/ viewers[v].job \in broken
           \/ viewers[v].gen \in cut]_vars

\* Nobody waits for ever for an image.
WaitersReturn == \A v \in Viewers : viewers[v].at = "wait" ~> viewers[v].at = "idle"

\* A stop, and the start that replaces a batch, come to an end: no worker is
\* left blocked on a full channel.
StopReturns == lock # "free" ~> lock = "free"

-----------------------------------------------------------------------------
(* What the removals of the code are for, and it does not keep; section 5 of *)
(* the README has the constants.                                             *)

\* A file that gets no row is removed (snapshot_files.go:222 and 249): a batch
\* that is over leaves none.  A write that fails half-way leaves its file, and
\* returns no path to remove it by (api/client_api.go:311).
NoOrphans == batch.done => \A j \in Jobs : <<gen, j>> \in files => rows[j] = gen

=============================================================================
