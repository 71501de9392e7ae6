---------------------------- MODULE SyncControl -----------------------------
(***************************************************************************)
(* Who may run a sync, and when: the registration of operations, CancelSync, *)
(* the end of a session, logins and logouts, the five-minute timer, the    *)
(* snapshot downloads that outlive a full sync and the shared-note service.*)
(*                                                                         *)
(* A process is one goroutine: Timer, a handler of the local              *)
(* bridge (Handlers), or a handler of a login or logout (Sessions).        *)
(* syncControlMu is a variable because endSyncOperation keeps it while it  *)
(* waits; the sections that never wait under it are single steps.  What a  *)
(* round does to the tables is the subject of NoteSync; here it is the     *)
(* interval during which the process writes to the account it has read.    *)
(***************************************************************************)
EXTENDS Naturals

CONSTANTS
    Accounts,     \* users in the database
    Timer,        \* the goroutine of startAutoSync
    Handlers,     \* concurrent requests of the sync panel
    Sessions,     \* concurrent login and logout requests
    None,         \* nobody, nil
    MaxRequests   \* bound: requests, timer ticks and rounds of the shared service

Procs == {Timer} \cup Handlers \cup Sessions

ASSUME SyncControlAssumption ==
    /\ None \notin Accounts \cup Procs
    /\ Timer \notin Handlers \cup Sessions
    /\ Handlers \cap Sessions = {}
    /\ MaxRequests \in Nat

VARIABLES
    pc,         \* where each goroutine is
    job,        \* what it was asked to do
    run,        \* its syncOperation.id, or the one it cancels or waits for
    ctl,        \* holder of syncControlMu across steps, or None
    op,         \* syncOperation.id of the registered operation, 0 for nil
    seq,        \* syncSequence
    cancelled,  \* the context of the registered operation is cancelled
    blocked,    \* syncBlocked
    live,       \* sessionLive
    account,    \* GetActiveUser
    paused,     \* "sync:paused:<user>"
    writer,     \* the account the registered operation works on
    downloads,  \* the snapshot downloads: their account, and whether cancelled
    shared,     \* the round of the shared service, likewise
    suspended,  \* sharedsync.Service.suspended
    held,       \* observation: a run was cancelled and nobody resumed since
    asked       \* bound

procs   == <<pc, job, run>>
control == <<ctl, op, seq, cancelled, blocked>>
session == <<live, account, paused, held>>
jobs    == <<writer, downloads, shared, suspended>>
vars    == <<procs, control, session, jobs, asked>>

-----------------------------------------------------------------------------
(* A background job: off, on for an account, or told to stop.              *)

Off == [acc |-> None, on |-> FALSE, stop |-> FALSE]
Background == [acc : Accounts \cup {None}, on : BOOLEAN, stop : BOOLEAN]
Told(b) == IF b.on THEN [b EXCEPT !.stop = TRUE] ELSE b

\* Stages in which a goroutine owns the registered operation.
Opened == {"open", "preflight", "quiesce", "suspend", "clear", "round",
           "publish", "started", "resume", "end", "ending"}

Stages == Opened \cup {"idle", "begin", "cancel", "joinCancel", "stop", "block",
                       "joinOp", "joinDownloads", "joinShared", "auth", "switch", "live"}

Asked == {"none", "auto", "sync", "full", "reset", "cancel", "logout", "login"}

\* SyncService.IsSyncing
IsSyncing == \E p \in Procs : pc[p] \in {"round", "publish", "started"}

Init ==
    /\ pc = [p \in Procs |-> "idle"]
    /\ job = [p \in Procs |-> "none"]
    /\ run = [p \in Procs |-> 0]
    /\ ctl = None /\ op = 0 /\ seq = 0 /\ cancelled = FALSE /\ blocked = FALSE
    /\ account \in Accounts \cup {None}
    /\ live = (account # None)
    /\ paused \in [Accounts -> BOOLEAN] /\ held = FALSE
    /\ writer = None /\ downloads = Off /\ shared = Off /\ suspended = FALSE
    /\ asked = 0

Goto(p, stage) == pc' = [pc EXCEPT ![p] = stage] /\ UNCHANGED <<job, run>>

\* One request less of the bound; process p works on job j from now on.
Request(p, j, stage) ==
    /\ pc[p] = "idle"
    /\ asked < MaxRequests
    /\ asked' = asked + 1
    /\ pc' = [pc EXCEPT ![p] = stage]
    /\ job' = [job EXCEPT ![p] = j]

Unlocked == ctl = None

\* SetAutoSyncPaused writes the setting of whoever is active.
Pause(b) == paused' = IF account = None THEN paused ELSE [paused EXCEPT ![account] = b]

-----------------------------------------------------------------------------
(* Triggers                                                                *)

\* The ticker looks at IsSyncing and CanAutoSync and then calls IncrSync.
AutoTick ==
    /\ account # None /\ ~IsSyncing /\ live /\ ~paused[account]
    /\ Request(Timer, "auto", "begin")
    /\ UNCHANGED <<run, control, session, jobs>>

\* OnSync and OnFullSync resume automatic sync before they start.
Click(p, j) ==
    /\ account # None
    /\ Request(p, j, "begin")
    /\ Pause(FALSE) /\ held' = FALSE
    /\ UNCHANGED <<run, control, live, account, jobs>>

ClickReset(p) ==
    /\ account # None
    /\ Request(p, "reset", "begin")
    /\ UNCHANGED <<run, control, session, jobs>>

\* The dialog cancels the run whose progress it has been showing.
ClickCancel(p) ==
    /\ account # None /\ seq > 0
    /\ Request(p, "cancel", "cancel")
    /\ run' = [run EXCEPT ![p] = seq]
    /\ UNCHANGED <<control, session, jobs>>

\* A logout uploads first unless nothing is pending or it is forced.
ClickLogout(s) ==
    /\ account # None
    /\ \E stage \in {"begin", "stop"} : Request(s, "logout", stage)
    /\ UNCHANGED <<run, control, session, jobs>>

ClickLogin(s) ==
    /\ Request(s, "login", "stop")
    /\ UNCHANGED <<run, control, session, jobs>>

-----------------------------------------------------------------------------
(* beginSyncOperation ... endSyncOperation                                 *)

\* Where a caller goes when its operation is over, cancelled or not, or was never
\* registered: OnLogout looks again whether anything is pending, goes on when
\* nothing is, and gives up otherwise.
Over(p) == \/ Goto(p, "idle")
           \/ job[p] = "logout" /\ Goto(p, "stop")

\* IncrSync asks sessionLive first; beginSyncOperation returns Canceled while
\* blocked and ErrAlreadySyncing while another operation is registered.
BeginRefused(p) ==
    /\ pc[p] = "begin"
    /\ \/ job[p] \in {"auto", "sync"} /\ ~live
       \/ Unlocked /\ (blocked \/ op # 0)
    /\ Over(p)
    /\ UNCHANGED <<control, session, jobs, asked>>

\* Mutant of Begin: syncBlocked is not looked at.
BeginUnblocked(p) ==
    /\ pc[p] = "begin"
    /\ job[p] \in {"auto", "sync"} => live
    /\ Unlocked /\ op = 0
    /\ seq' = seq + 1 /\ op' = seq + 1 /\ cancelled' = FALSE
    /\ pc' = [pc EXCEPT ![p] = "open"]
    /\ run' = [run EXCEPT ![p] = seq + 1]
    /\ UNCHANGED <<job, ctl, blocked, session, jobs, asked>>

\* Mutant of Begin: the TryLock is missing.
BeginAlways(p) ==
    /\ pc[p] = "begin"
    /\ job[p] \in {"auto", "sync"} => live
    /\ Unlocked /\ ~blocked
    /\ seq' = seq + 1 /\ op' = seq + 1 /\ cancelled' = FALSE
    /\ pc' = [pc EXCEPT ![p] = "open"]
    /\ run' = [run EXCEPT ![p] = seq + 1]
    /\ UNCHANGED <<job, ctl, blocked, session, jobs, asked>>

Begin(p) ==
    /\ pc[p] = "begin"
    /\ job[p] \in {"auto", "sync"} => live
    /\ Unlocked /\ ~blocked /\ op = 0
    /\ seq' = seq + 1 /\ op' = seq + 1 /\ cancelled' = FALSE
    /\ pc' = [pc EXCEPT ![p] = "open"]
    /\ run' = [run EXCEPT ![p] = seq + 1]
    /\ UNCHANGED <<job, ctl, blocked, session, jobs, asked>>

\* FullSync, IncrSync and resetSync ask for the active user once.
Open(p) ==
    /\ pc[p] = "open"
    /\ writer' = account
    /\ Goto(p, CASE account = None -> "end"
                 [] account # None /\ job[p] = "reset" -> "preflight"
                 [] OTHER -> "round")
    /\ UNCHANGED <<control, session, downloads, shared, suspended, asked>>

\* The server answers before a reset may clear anything; a cancelled request
\* does not.
Preflight(p) ==
    /\ pc[p] = "preflight"
    /\ \/ ~cancelled /\ Goto(p, "quiesce") /\ downloads' = Told(downloads) /\ UNCHANGED writer
       \/ Goto(p, "end") /\ writer' = None /\ UNCHANGED downloads
    /\ UNCHANGED <<control, session, shared, suspended, asked>>

\* Mutant of Quiesce: the downloads are told to stop and not joined.
QuiesceWithoutJoin(p) ==
    /\ pc[p] = "quiesce"
    /\ suspended' = TRUE /\ shared' = Told(shared)
    /\ Goto(p, "suspend")
    /\ UNCHANGED <<control, session, writer, downloads, asked>>

\* StopBackgroundDownloads has returned; SuspendAndWait begins.
Quiesce(p) ==
    /\ pc[p] = "quiesce"
    /\ ~downloads.on
    /\ suspended' = TRUE /\ shared' = Told(shared)
    /\ Goto(p, "suspend")
    /\ UNCHANGED <<control, session, writer, downloads, asked>>

\* SuspendAndWait has returned and RunExclusive has workMu.
Suspend(p) ==
    /\ pc[p] = "suspend"
    /\ ~shared.on
    /\ Goto(p, IF cancelled THEN "resume" ELSE "clear")
    /\ UNCHANGED <<control, session, jobs, asked>>

\* ResetAccountCache and the account's directories, then FreshSync; an error
\* of either ends the reset.
Clear(p) ==
    /\ pc[p] = "clear"
    /\ \E next \in {"round", "resume"} : Goto(p, next)
    /\ UNCHANGED <<control, session, jobs, asked>>

\* The last look at the context before last_sync_usn is written: a full round
\* then starts the downloads, an incremental one is over.
RoundSucceeds(p) ==
    /\ pc[p] = "round"
    /\ ~cancelled
    /\ IF job[p] \in {"auto", "sync"}
       THEN Goto(p, "end") /\ writer' = None /\ UNCHANGED downloads
       ELSE Goto(p, "publish") /\ downloads' = Told(downloads) /\ UNCHANGED writer
    /\ UNCHANGED <<control, session, shared, suspended, asked>>

RoundFails(p) ==
    /\ pc[p] = "round"
    /\ IF job[p] = "reset"
       THEN Goto(p, "resume") /\ UNCHANGED writer
       ELSE Goto(p, "end") /\ writer' = None
    /\ UNCHANGED <<control, session, downloads, shared, suspended, asked>>

\* startSnapshotDownloads, once the previous batch has stopped
Publish(p) ==
    /\ pc[p] = "publish"
    /\ ~downloads.on
    /\ downloads' = [acc |-> writer, on |-> TRUE, stop |-> FALSE]
    /\ Goto(p, "started")
    /\ UNCHANGED <<control, session, writer, shared, suspended, asked>>

\* FullSync returns; a reset that succeeded resumes automatic sync.
Started(p) ==
    /\ pc[p] = "started"
    /\ IF job[p] = "reset"
       THEN Goto(p, "resume") /\ Pause(FALSE) /\ held' = (held /\ cancelled) /\ UNCHANGED writer
       ELSE Goto(p, "end") /\ writer' = None /\ UNCHANGED <<paused, held>>
    /\ UNCHANGED <<control, live, account, downloads, shared, suspended, asked>>

\* defer a.sharedSync.Resume()
Resume(p) ==
    /\ pc[p] = "resume"
    /\ suspended' = FALSE
    /\ writer' = None
    /\ Goto(p, "end")
    /\ UNCHANGED <<control, session, downloads, shared, asked>>

\* Mutant of End: a cancelled operation is not paused again.
EndUnpaused(p) ==
    /\ pc[p] = "end"
    /\ Unlocked
    /\ ctl' = p
    /\ downloads' = IF cancelled THEN Told(downloads) ELSE downloads
    /\ Goto(p, "ending")
    /\ UNCHANGED <<op, seq, cancelled, blocked, session, writer, shared, suspended, asked>>

\* endSyncOperation takes syncControlMu ...
End(p) ==
    /\ pc[p] = "end"
    /\ Unlocked
    /\ ctl' = p
    /\ IF cancelled
       THEN Pause(TRUE) /\ downloads' = Told(downloads)
       ELSE UNCHANGED <<paused, downloads>>
    /\ Goto(p, "ending")
    /\ UNCHANGED <<op, seq, cancelled, blocked, live, account, held, writer, shared, suspended, asked>>

\* ... and gives it back when StopBackgroundDownloads has returned.
Ended(p) ==
    /\ pc[p] = "ending"
    /\ cancelled => ~downloads.on
    /\ ctl' = None /\ op' = 0
    /\ Over(p)
    /\ UNCHANGED <<seq, cancelled, blocked, session, jobs, asked>>

-----------------------------------------------------------------------------
(* CancelSync                                                              *)

CancelStale(p) ==
    /\ pc[p] = "cancel"
    /\ Unlocked
    /\ op # run[p]
    /\ Goto(p, "idle")
    /\ UNCHANGED <<control, session, jobs, asked>>

\* Mutant of Cancel: whatever runs now is cancelled.
CancelAny(p) ==
    /\ pc[p] = "cancel"
    /\ Unlocked
    /\ op # 0
    /\ Pause(TRUE) /\ held' = TRUE
    /\ cancelled' = TRUE
    /\ Goto(p, "joinCancel")
    /\ UNCHANGED <<ctl, op, seq, blocked, live, account, jobs, asked>>

\* Mutant of Cancel: syncControlMu is kept while the round is joined.
CancelHoldingLock(p) ==
    /\ pc[p] = "cancel"
    /\ Unlocked
    /\ op = run[p]
    /\ Pause(TRUE) /\ held' = TRUE
    /\ cancelled' = TRUE
    /\ ctl' = p
    /\ Goto(p, "joinCancel")
    /\ UNCHANGED <<op, seq, blocked, live, account, jobs, asked>>

Cancel(p) ==
    /\ pc[p] = "cancel"
    /\ Unlocked
    /\ op = run[p]
    /\ Pause(TRUE) /\ held' = TRUE
    /\ cancelled' = TRUE
    /\ Goto(p, "joinCancel")
    /\ UNCHANGED <<ctl, op, seq, blocked, live, account, jobs, asked>>

\* <-op.done: the registered operation is another one, or none
Cancelled(p) ==
    /\ pc[p] = "joinCancel"
    /\ op # run[p]
    /\ Goto(p, "idle")
    /\ UNCHANGED <<control, session, jobs, asked>>

-----------------------------------------------------------------------------
(* stopSessionSync and what a login or a logout does after it              *)

Stop(s) ==
    /\ pc[s] = "stop"
    /\ live' = FALSE
    /\ Goto(s, "block")
    /\ UNCHANGED <<control, account, paused, held, jobs, asked>>

\* Mutant of Block: the session keeps a nil operation to wait for.
BlockNil(s) ==
    /\ pc[s] = "block"
    /\ Unlocked
    /\ blocked' = TRUE
    /\ cancelled' = (cancelled \/ op # 0)
    /\ pc' = [pc EXCEPT ![s] = "joinOp"]
    /\ run' = [run EXCEPT ![s] = IF op = 0 THEN None ELSE op]
    /\ UNCHANGED <<job, ctl, op, seq, session, jobs, asked>>

Block(s) ==
    /\ pc[s] = "block"
    /\ Unlocked
    /\ blocked' = TRUE
    /\ cancelled' = (cancelled \/ op # 0)
    /\ pc' = [pc EXCEPT ![s] = "joinOp"]
    /\ run' = [run EXCEPT ![s] = op]
    /\ UNCHANGED <<job, ctl, op, seq, session, jobs, asked>>

JoinOp(s) ==
    /\ pc[s] = "joinOp"
    /\ run[s] = 0 \/ op # run[s]
    /\ downloads' = Told(downloads)
    /\ Goto(s, "joinDownloads")
    /\ UNCHANGED <<control, session, writer, shared, suspended, asked>>

JoinDownloads(s) ==
    /\ pc[s] = "joinDownloads"
    /\ ~downloads.on
    /\ suspended' = TRUE /\ shared' = Told(shared)
    /\ Goto(s, "joinShared")
    /\ UNCHANGED <<control, session, writer, downloads, asked>>

JoinShared(s) ==
    /\ pc[s] = "joinShared"
    /\ ~shared.on
    /\ Goto(s, IF job[s] = "login" THEN "auth" ELSE "switch")
    /\ UNCHANGED <<control, session, jobs, asked>>

\* A refused login leaves the session stopped.
Auth(s) ==
    /\ pc[s] = "auth"
    /\ \E next \in {"switch", "idle"} : Goto(s, next)
    /\ UNCHANGED <<control, session, jobs, asked>>

\* adoptServerUser pauses the account before it becomes visible.
Login(s, a) ==
    /\ pc[s] = "switch" /\ job[s] = "login"
    /\ paused' = [paused EXCEPT ![a] = TRUE]
    /\ account' = a
    /\ Goto(s, "live")
    /\ UNCHANGED <<control, live, held, jobs, asked>>

\* When a write of UpdateUserToken or DeactivateAllUsers fails, the account
\* stays and its session is restored.
Logout(s) ==
    /\ pc[s] = "switch" /\ job[s] = "logout"
    /\ \/ account' = None /\ Goto(s, "idle")
       \/ account' = account /\ Goto(s, "live")
    /\ UNCHANGED <<control, live, paused, held, jobs, asked>>

\* SetSessionLive(true); after a login also OnLogin, which pauses once more
SetSessionLive(s) ==
    /\ pc[s] = "live"
    /\ Unlocked
    /\ blocked' = FALSE /\ suspended' = FALSE /\ live' = TRUE
    /\ IF job[s] = "login" THEN Pause(TRUE) ELSE UNCHANGED paused
    /\ Goto(s, "idle")
    /\ UNCHANGED <<ctl, op, seq, cancelled, account, held, writer, downloads, shared, asked>>

-----------------------------------------------------------------------------
(* The jobs in the background                                              *)

\* downloadSnapshotFiles comes to its end, by itself or because it was told.
DownloadsEnd ==
    /\ downloads.on
    /\ downloads' = Off
    /\ UNCHANGED <<procs, control, session, writer, shared, suspended, asked>>

\* withLock: one round at a time, none while suspended
SharedStart ==
    /\ ~shared.on /\ ~suspended
    /\ asked < MaxRequests
    /\ asked' = asked + 1
    /\ shared' = [Off EXCEPT !.on = TRUE]
    /\ UNCHANGED <<procs, control, session, writer, downloads, suspended>>

\* It has workMu, its context is alive, and it asks who is active.
SharedOpen ==
    /\ shared.on /\ shared.acc = None /\ ~shared.stop
    /\ \A p \in Procs : pc[p] # "clear"
    /\ account # None
    /\ shared' = [shared EXCEPT !.acc = account]
    /\ UNCHANGED <<procs, control, session, writer, downloads, suspended, asked>>

SharedEnd ==
    /\ shared.on
    /\ shared' = Off
    /\ UNCHANGED <<procs, control, session, writer, downloads, suspended, asked>>

-----------------------------------------------------------------------------
Triggered ==
    \/ AutoTick
    \/ \E p \in Handlers : \/ \E j \in {"sync", "full"} : Click(p, j)
                           \/ ClickReset(p) \/ ClickCancel(p)
    \/ \E s \in Sessions : ClickLogout(s) \/ ClickLogin(s)
    \/ SharedStart

Operate(p) ==
    \/ BeginRefused(p) \/ Begin(p) \/ Open(p)
    \/ Preflight(p) \/ Quiesce(p) \/ Suspend(p) \/ Clear(p)
    \/ RoundSucceeds(p) \/ RoundFails(p) \/ Publish(p) \/ Started(p) \/ Resume(p)
    \/ End(p) \/ Ended(p)

CancelStep(p) == CancelStale(p) \/ Cancel(p) \/ Cancelled(p)

SessionStep(s) ==
    \/ Stop(s) \/ Block(s) \/ JoinOp(s) \/ JoinDownloads(s) \/ JoinShared(s)
    \/ Auth(s) \/ Logout(s) \/ SetSessionLive(s)
    \/ \E a \in Accounts : Login(s, a)

Step(p) == Operate(p) \/ CancelStep(p) \/ SessionStep(p)

BackgroundStep == DownloadsEnd \/ SharedOpen \/ SharedEnd

Next == Triggered \/ (\E p \in Procs : Step(p)) \/ BackgroundStep

Spec == Init /\ [][Next]_vars

(* Goroutines are scheduled and requests end: they fail, time out or are   *)
(* cancelled.  Nobody has to press a button.                               *)
FairSpec == /\ Spec
            /\ \A p \in Procs : WF_vars(Step(p))
            /\ WF_vars(DownloadsEnd) /\ WF_vars(SharedEnd)

-----------------------------------------------------------------------------
(* Properties *)

\* The shape of the application's state.
TypeOK ==
    /\ pc \in [Procs -> Stages]
    /\ job \in [Procs -> Asked]
    /\ run \in [Procs -> Nat]
    /\ ctl \in Procs \cup {None}
    /\ op \in Nat /\ seq \in Nat
    /\ cancelled \in BOOLEAN /\ blocked \in BOOLEAN
    /\ live \in BOOLEAN
    /\ account \in Accounts \cup {None}
    /\ paused \in [Accounts -> BOOLEAN] /\ held \in BOOLEAN
    /\ writer \in Accounts \cup {None}
    /\ downloads \in Background /\ shared \in Background
    /\ suspended \in BOOLEAN
    /\ asked \in Nat

\* The jobs of this module as the writers of the abstract specification.
Isolation == INSTANCE AccountIsolation
    WITH Jobs <- {"operation", "downloads", "shared"},
         writes <- [j \in {"operation", "downloads", "shared"} |->
                      CASE j = "operation" -> writer
                        [] j = "downloads" -> downloads.acc
                        [] j = "shared" -> shared.acc]

\* "No old-session operation can start between cancellation and switching the
\* active database account" (app_sync_control.go:17), nor a download or a
\* round of the shared service outlive the switch: with one login or logout at
\* a time every job writes to the account that is active until it ends.
IsolatedAccounts == Isolation!Spec

\* From the moment a reset clears the cache, nothing in the background is
\* writing files or rows of the account (app.go:384).
ResetAlone ==
    \A p \in Procs : pc[p] = "clear" => ~downloads.on /\ shared.acc = None

\* Whoever is in a round owns the registered operation, and nobody else does.
OneOperation ==
    /\ \A p \in Procs : pc[p] \in Opened => op = run[p] /\ op # 0
    /\ \A p, q \in Procs : pc[p] \in Opened /\ pc[q] \in Opened => p = q

\* "A delayed cancel from an earlier dialog must never cancel a newer sync"
\* (app_sync_control.go:56): a run is cancelled only by somebody who asked for
\* that very run, or because the session ends.
CancelsItsOwn ==
    [][cancelled' /\ ~cancelled =>
        \E p \in Procs : \/ pc[p] = "cancel" /\ run[p] = op
                         \/ pc[p] = "block"]_vars

\* A cancelled run does not come back by itself: whatever the run still did
\* after the cancel (a reset resumes automatic sync when it succeeds), once it
\* is over automatic sync is paused, until somebody asks for a sync.
CancelSticks ==
    held /\ op = 0 /\ account # None => paused[account]

\* Every request returns, whatever locks and jobs it waits for: cancels,
\* logouts and resets never wait for each other in a circle.
RequestsReturn == \A p \in Procs : pc[p] # "idle" ~> pc[p] = "idle"

-----------------------------------------------------------------------------
(* What a doc, a comment or a test says, and the code does not do.  TLC finds *)
(* a counterexample to each; section 5 of the README has the constants.       *)

\* "Canceled sync can immediately restart automatically" is what the cancel
\* must prevent (app_sync_control_test.go:94): between a cancel and the next
\* request for a sync the timer registers no operation.
AutoRespectsCancel ==
    [][held => \A p \in Procs : ~(job[p] = "auto" /\ pc[p] = "begin" /\ pc'[p] = "open")]_vars

=============================================================================
