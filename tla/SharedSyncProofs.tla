--------------------------- MODULE SharedSyncProofs ---------------------------
(***************************************************************************)
(* Proofs about SharedSync, for any notes, files, versions and bounds:     *)
(* readers see one generation, what they see is what SharedView promises,  *)
(* what is marked ready is the published version and on disk, and whoever  *)
(* loses a note is told.                                                   *)
(***************************************************************************)
EXTENDS SharedSync, FiniteSetTheorems, TLAPS

-----------------------------------------------------------------------------
(* The inductive invariant                                                 *)

\* Rows are of published generations; only a note that the server has denied
\* carries the next one.
Generations ==
    /\ \A n \in Notes : notes[n].gen <= gen + 1
    /\ \A h \in Holds : files[h].gen <= gen
    /\ OneGeneration

\* Where the round is decides what its lists hold.
Stages ==
    /\ pc = "pages" => base = gen
    /\ pc \notin {"files", "only files", "mark"} => work = Idle
    /\ pc = "mark" => \A h \in Holds : work[h] \in {"none", "evicted"}
    /\ pc \in {"files", "only files"} => \A h \in Holds : work[h] # "evicted"
    /\ \A h \in evict : h[2] \in Attachments

\* A file that is ready has a path and is not revoked.
ReadyFile ==
    \A h \in Holds : files[h].state = "ready" => files[h].path /\ ~files[h].revoked

\* The stages of a worker that may yet make its file ready.
AtWork == Writing \cup {"queued", "written", "unnamed", "stored"}

\* One generation has one version of a file, whichever notes hold it, and the
\* workers are after that version.
OneVersion ==
    /\ \A h, k \in Holds : h[2] = k[2] /\ files[h].gen = gen /\ files[k].gen = gen
                              => files[h].target = files[k].target
    /\ \A h \in Holds : work[h] \in AtWork => files[h].gen = gen

\* What a worker has written is where it believes it to be, or cut short by
\* another worker who writes the same file.
InPlace(h) ==
    /\ work[h] \in Writing \cup {"written", "stored"} => files[h].target \in Versions
    /\ work[h] = "writing" => tmp[h[2]] \in {Torn, files[h].target}
    /\ work[h] = "trailing" => disk[h[2]] \in {Torn, files[h].target}
    /\ work[h] \in {"trailing", "lost", "written"} => tmp[h[2]] \in {None, Torn, files[h].target}
    /\ work[h] \in {"trailing", "lost", "written"} /\ tmp[h[2]] = Torn => HeldTwice(h)
    /\ work[h] = "stored" => disk[h[2]] \in {Torn, files[h].target}
    /\ work[h] = "stored" /\ disk[h[2]] = Torn => HeldTwice(h)
StoredFile == \A h \in Holds : InPlace(h)

\* What is ready is on disk: an image for certain, and under a file's name lie
\* no bytes but those of the version the rows name, all of them if the file is
\* one note's only.
ReadyOnDisk ==
    \A h \in Holds : files[h].state = "ready" =>
        /\ h[2] \in Images => disk[h[2]] # None
        /\ disk[h[2]] \in {None, Torn, files[h].target}
        /\ disk[h[2]] = Torn => HeldTwice(h)

\* A round that has published: who could be read before it and cannot be read
\* now was told, or keeps the generation the round has replaced.
AfterPublish == {"reclaim", "forget", "evict", "mark", "texts", "files", "revoke"}
Owed == pc \in AfterPublish =>
            \A n \in before : ~Visible(n) => n \in told \/ notes[n].gen = base

IInv == TypeOK /\ Generations /\ Stages /\ ReadyIsTarget /\ ReadyFile /\ OneVersion
               /\ StoredFile /\ ReadyOnDisk /\ Owed

-----------------------------------------------------------------------------
(* The steps                                                               *)

\* A denied note is hidden under the next generation, and its files with it.
LEMMA RevokeStep ==
    ASSUME TypeOK, NEW n \in Notes, Revoke(n)
    PROVE  /\ notes' \in [Notes -> NoteRow] /\ jobs' \in [Jobs -> JobRow]
           /\ files' \in [Holds -> FileRow] /\ told' = told \cup {n}
           /\ notes'[n].gen = gen + 1 /\ notes'[n].revoked /\ notes'[n].state = "revoked"
           /\ \A m \in Notes : m # n => notes'[m] = notes[m]
           /\ \A h \in Holds : h[1] = n => /\ files'[h].revoked /\ files'[h].state = "revoked"
                                           /\ files'[h].gen = files[h].gen
                                           /\ files'[h].target = files[h].target
           /\ \A h \in Holds : h[1] # n => files'[h] = files[h]
  <1>1. RevokedNote(n) \in NoteRow /\ RevokedNote(n).gen = gen + 1
        /\ RevokedNote(n).revoked /\ RevokedNote(n).state = "revoked"
    <2>1. notes[n] \in NoteRow /\ gen \in Nat
      BY DEF TypeOK
    <2>2. gen + 1 \in Nat
      BY <2>1
    <2> QED
      BY <2>1, <2>2 DEF RevokedNote, NoteRow, NoteStates
  <1>2. notes' = [notes EXCEPT ![n] = RevokedNote(n)] /\ told' = told \cup {n}
    BY DEF Revoke
  <1>3. notes' \in [Notes -> NoteRow] /\ notes'[n] = RevokedNote(n)
        /\ \A m \in Notes : m # n => notes'[m] = notes[m]
    BY <1>1, <1>2 DEF TypeOK
  <1>4. jobs' \in [Jobs -> JobRow]
    BY DEF Revoke, TypeOK, JobRow, NoJob
  <1>5. \A h \in Holds : /\ [files[h] EXCEPT !.revoked = TRUE, !.state = "revoked"] \in FileRow
                         /\ files[h] \in FileRow
    BY DEF TypeOK, FileRow, FileStates
  <1>6. files' = [h \in Holds |-> IF h[1] = n THEN [files[h] EXCEPT !.revoked = TRUE, !.state = "revoked"]
                                  ELSE files[h]]
    BY DEF Revoke
  <1>7. files' \in [Holds -> FileRow]
    BY <1>5, <1>6
  <1>8. \A h \in Holds : h[1] = n => /\ files'[h].revoked /\ files'[h].state = "revoked"
                                     /\ files'[h].gen = files[h].gen
                                     /\ files'[h].target = files[h].target
    BY <1>5, <1>6 DEF FileRow
  <1>9. \A h \in Holds : h[1] # n => files'[h] = files[h]
    BY <1>6
  <1> QED
    BY <1>1, <1>2, <1>3, <1>4, <1>7, <1>8, <1>9

\* A failed file keeps everything but its state and the time of its retry.
LEMMA FailedStep ==
    ASSUME TypeOK, NEW h \in Holds, FailedFile(h)
    PROVE  /\ files' \in [Holds -> FileRow]
           /\ files'[h].state = "failed" /\ files'[h].gen = files[h].gen
           /\ files'[h].target = files[h].target /\ files'[h].revoked = files[h].revoked
           /\ \A k \in Holds : k # h => files'[k] = files[k]
  <1> DEFINE r == [files[h] EXCEPT !.state = "failed", !.wait = TRUE]
  <1>1. r \in FileRow /\ r.state = "failed" /\ r.gen = files[h].gen
        /\ r.target = files[h].target /\ r.revoked = files[h].revoked
    BY DEF TypeOK, FileRow, FileStates
  <1>2. files' = [files EXCEPT ![h] = r] /\ files \in [Holds -> FileRow]
    BY DEF FailedFile, TypeOK
  <1> HIDE DEF r
  <1> QED
    BY <1>1, <1>2

\* A row that is completed, or evicted, keeps its generation and its version.
LEMMA PathStep ==
    ASSUME TypeOK, NEW h \in Holds, NEW p \in BOOLEAN, NEW s \in FileStates,
           files' = [files EXCEPT ![h] = [@ EXCEPT !.path = p, !.state = s]]
    PROVE  /\ files' \in [Holds -> FileRow]
           /\ files'[h].state = s /\ files'[h].path = p /\ files'[h].gen = files[h].gen
           /\ files'[h].target = files[h].target /\ files'[h].revoked = files[h].revoked
           /\ \A k \in Holds : k # h => files'[k] = files[k]
  <1> DEFINE r == [files[h] EXCEPT !.path = p, !.state = s]
  <1>1. r \in FileRow /\ r.state = s /\ r.path = p /\ r.gen = files[h].gen
        /\ r.target = files[h].target /\ r.revoked = files[h].revoked
    BY DEF TypeOK, FileRow
  <1>2. files' = [files EXCEPT ![h] = r] /\ files \in [Holds -> FileRow]
    BY DEF TypeOK
  <1> HIDE DEF r
  <1> QED
    BY <1>1, <1>2

\* The reader's call changes the state of rows that are not revoked.
LEMMA QueueStep ==
    ASSUME TypeOK, NEW f \in Attachments, Queue(f)
    PROVE  /\ files' \in [Holds -> FileRow]
           /\ \A h \in Holds : /\ files'[h].gen = files[h].gen /\ files'[h].target = files[h].target
                               /\ files'[h].revoked = files[h].revoked /\ files'[h].path = files[h].path
                               /\ files'[h].state \in {files[h].state, "pending"}
  <1>1. \A h \in Holds : /\ [files[h] EXCEPT !.state = "pending", !.wait = FALSE] \in FileRow
                         /\ files[h] \in FileRow
    BY DEF TypeOK, FileRow, FileStates
  <1>2. files' = [h \in Holds |-> IF h[2] = f /\ ~files[h].revoked
                                  THEN [files[h] EXCEPT !.state = "pending", !.wait = FALSE]
                                  ELSE files[h]]
    BY DEF Queue
  <1>3. files' \in [Holds -> FileRow]
    BY <1>1, <1>2
  <1> QED
    BY <1>1, <1>2, <1>3 DEF FileRow

\* When the retry times have come nothing else has changed.
LEMMA RetryStep ==
    ASSUME TypeOK, RetryDue
    PROVE  /\ files' \in [Holds -> FileRow] /\ jobs' \in [Jobs -> JobRow]
           /\ \A h \in Holds : /\ files'[h].gen = files[h].gen /\ files'[h].target = files[h].target
                               /\ files'[h].revoked = files[h].revoked /\ files'[h].path = files[h].path
                               /\ files'[h].state = files[h].state
  <1>1. \A h \in Holds : [files[h] EXCEPT !.wait = FALSE] \in FileRow /\ files[h] \in FileRow
    BY DEF TypeOK, FileRow
  <1>4. \A j \in Jobs : [jobs[j] EXCEPT !.wait = FALSE] \in JobRow
    BY DEF TypeOK, JobRow
  <1>2. /\ files' = [h \in Holds |-> [files[h] EXCEPT !.wait = FALSE]]
        /\ jobs' = [j \in Jobs |-> [jobs[j] EXCEPT !.wait = FALSE]]
    BY DEF RetryDue
  <1>3. files' \in [Holds -> FileRow] /\ jobs' \in [Jobs -> JobRow]
    BY <1>1, <1>2, <1>4
  <1> QED
    BY <1>1, <1>2, <1>3 DEF FileRow

\* Forgetting paths is about revoked rows only.
LEMMA ForgetStep ==
    ASSUME TypeOK, ForgetRevoked
    PROVE  /\ files' \in [Holds -> FileRow]
           /\ \A h \in Holds : /\ files'[h].gen = files[h].gen /\ files'[h].target = files[h].target
                               /\ files'[h].revoked = files[h].revoked
                               /\ files'[h].state = files[h].state
                               /\ ~files[h].revoked => files'[h].path = files[h].path
  <1>1. \A h \in Holds : [files[h] EXCEPT !.path = FALSE] \in FileRow /\ files[h] \in FileRow
    BY DEF TypeOK, FileRow
  <1>2. files' = [h \in Holds |-> IF files[h].revoked THEN [files[h] EXCEPT !.path = FALSE] ELSE files[h]]
    BY DEF ForgetRevoked
  <1>3. files' \in [Holds -> FileRow]
    BY <1>1, <1>2
  <1> QED
    BY <1>1, <1>2, <1>3 DEF FileRow

\* A text that is stored leaves its note's generation and version alone.
LEMMA TextStep ==
    ASSUME TypeOK, NEW j \in Jobs, Text(j)
    PROVE  /\ notes' \in [Notes -> NoteRow] /\ jobs' \in [Jobs -> JobRow]
           /\ \A n \in Notes : /\ notes'[n].gen = notes[n].gen /\ notes'[n].revoked = notes[n].revoked
                               /\ notes'[n].target = notes[n].target
                               /\ \/ notes'[n] = notes[n]
                                  \/ /\ notes'[n].state = "ready" /\ ~notes[n].revoked
                                     /\ notes'[n].cached = notes[n].target
  <1>1. CASE Wanted(j)
    <2>1. j[1] \in Notes /\ j[2] \in Versions
      BY DEF Jobs
    <2> DEFINE r == [notes[j[1]] EXCEPT !.cached = j[2], !.state = "ready"]
               q == [jobs[j] EXCEPT !.status = "done", !.denied = FALSE]
    <2>2. r \in NoteRow /\ r.gen = notes[j[1]].gen /\ r.revoked = notes[j[1]].revoked
          /\ r.target = notes[j[1]].target /\ r.state = "ready" /\ r.cached = j[2]
      <3>1. notes[j[1]] \in NoteRow /\ "ready" \in NoteStates
        BY <2>1 DEF TypeOK, NoteStates
      <3> QED
        BY <2>1, <3>1 DEF NoteRow
    <2>3. q \in JobRow
      BY DEF TypeOK, JobRow
    <2>4. /\ notes' = [notes EXCEPT ![j[1]] = r] /\ notes \in [Notes -> NoteRow]
          /\ jobs' = [jobs EXCEPT ![j] = q] /\ jobs \in [Jobs -> JobRow]
      BY <1>1 DEF Text, TypeOK
    <2>5. notes[j[1]].target = j[2] /\ ~notes[j[1]].revoked
      BY <1>1 DEF Wanted
    <2> HIDE DEF r, q
    <2> QED
      BY <2>1, <2>2, <2>3, <2>4, <2>5
  <1>2. CASE ~Wanted(j)
    BY <1>2 DEF Text, TypeOK
  <1> QED
    BY <1>1, <1>2

\* A job that fails is a job.
LEMMA TextFailsStep ==
    ASSUME TypeOK, NEW j \in Jobs, TextFails(j)
    PROVE  jobs' \in [Jobs -> JobRow]
  <1>1. PICK denied \in BOOLEAN : jobs' = [jobs EXCEPT ![j] = IF @.status = "none" THEN @
                                        ELSE [status |-> "pending", denied |-> denied, wait |-> TRUE]]
    BY DEF TextFails
  <1>2. jobs[j] \in JobRow /\ [status |-> "pending", denied |-> denied, wait |-> TRUE] \in JobRow
    BY DEF TypeOK, JobRow
  <1> QED
    BY <1>1, <1>2 DEF TypeOK

\* What a publication makes of a note: the staged notes that the server has
\* not denied are visible under the new generation, the others are hidden.
LEMMA PublishedNoteStep ==
    ASSUME TypeOK, Generations, NEW n \in Notes
    PROVE  LET r == PublishedNote(n, gen + 1) IN
           /\ r \in NoteRow /\ r.gen <= gen + 1
           /\ ~r.revoked => r.gen = gen + 1
           /\ ~r.revoked <=> n \in staged /\ ~(notes[n].revoked /\ notes[n].gen = gen + 1)
           /\ r.revoked => r.gen = notes[n].gen
           /\ r.state = "ready" => r.cached = r.target \/ r = notes[n]
  <1>1. notes[n] \in NoteRow /\ notes[n].gen \in Nat /\ gen \in Nat /\ notes[n].gen <= gen + 1
    BY DEF TypeOK, NoteRow, Generations
  <1>2. ~notes[n].revoked => notes[n].gen = gen
    BY DEF Generations, OneGeneration, Visible
  <1>3. snap.ver[n] \in Versions
    BY DEF TypeOK, Snapshot
  <1> DEFINE state == IF notes[n].cached = snap.ver[n] THEN "ready"
                      ELSE IF notes[n].cached = None THEN "pending" ELSE "stale"
             a == [notes[n] EXCEPT !.gen = gen + 1, !.revoked = FALSE, !.target = snap.ver[n], !.state = state]
             b == [notes[n] EXCEPT !.revoked = TRUE, !.state = "revoked"]
  <1>7. /\ state \in {"pending", "ready", "stale"} /\ gen + 1 \in Nat
        /\ state = "ready" => notes[n].cached = snap.ver[n]
    BY <1>1
  <1> HIDE DEF state
  <1>4. a \in NoteRow /\ a.gen = gen + 1 /\ ~a.revoked /\ a.target = snap.ver[n]
        /\ a.cached = notes[n].cached /\ a.state = state
    BY <1>1, <1>3, <1>7 DEF NoteRow, NoteStates
  <1>5. b \in NoteRow /\ b.gen = notes[n].gen /\ b.revoked /\ b.state = "revoked"
    BY <1>1 DEF NoteRow, NoteStates
  <1>6. PublishedNote(n, gen + 1) = IF n \in staged /\ notes[n].gen < gen + 1 THEN a
                                    ELSE IF notes[n].gen = gen + 1 THEN notes[n] ELSE b
    BY DEF PublishedNote, state
  <1> HIDE DEF a, b
  <1>8. CASE n \in staged /\ notes[n].gen < gen + 1
    BY <1>1, <1>2, <1>4, <1>6, <1>7, <1>8
  <1>9. CASE notes[n].gen = gen + 1
    BY <1>1, <1>2, <1>6, <1>9
  <1>10. CASE ~(n \in staged /\ notes[n].gen < gen + 1) /\ notes[n].gen # gen + 1
    BY <1>1, <1>2, <1>5, <1>6, <1>10
  <1> QED
    BY <1>8, <1>9, <1>10

\* What a publication makes of a file.
LEMMA PublishedFileStep ==
    ASSUME TypeOK, Generations, ReadyFile, NEW h \in Holds, NEW hidden
    PROVE  LET r == PublishedFile(h, gen + 1, hidden) IN
           /\ r \in FileRow /\ r.gen <= gen + 1 /\ r.path = files[h].path
           /\ ~r.revoked => r.gen = gen + 1 /\ h[1] \notin hidden
           /\ r.gen = gen + 1 => r.target = snap.ver[h[2]]
           /\ r.state = "ready" => ~r.revoked /\ files[h].state = "ready" /\ r.target = files[h].target
  <1>1. files[h] \in FileRow /\ files[h].gen \in Nat /\ gen \in Nat /\ files[h].gen <= gen
    BY DEF TypeOK, FileRow, Generations
  <1>2. h[2] \in Files /\ snap.ver[h[2]] \in Versions
    BY SharedAssumption DEF TypeOK, Snapshot
  <1> DEFINE state == IF files[h].state = "ready" /\ files[h].target = snap.ver[h[2]] THEN "ready"
                      ELSE IF h[2] \in Images THEN "pending" ELSE "available"
             a == [files[h] EXCEPT !.gen = gen + 1, !.revoked = FALSE, !.target = snap.ver[h[2]], !.state = state]
             row == IF h \in staged /\ files[h].gen < gen + 1 THEN a ELSE files[h]
             b == [row EXCEPT !.revoked = TRUE, !.state = "revoked"]
  <1>4. /\ state \in {"available", "pending", "ready"} /\ gen + 1 \in Nat
        /\ state = "ready" => files[h].state = "ready" /\ files[h].target = snap.ver[h[2]]
    BY <1>1
  <1> HIDE DEF state
  <1>3. a \in FileRow /\ a.gen = gen + 1 /\ ~a.revoked /\ a.target = snap.ver[h[2]]
        /\ a.path = files[h].path /\ a.state = state
    BY <1>1, <1>2, <1>4 DEF FileRow, FileStates
  <1>5. PublishedFile(h, gen + 1, hidden) = IF row.gen # gen + 1 \/ h[1] \in hidden THEN b ELSE row
    BY DEF PublishedFile, state
  <1> HIDE DEF a
  <1>6. /\ row \in FileRow /\ row.gen <= gen + 1 /\ row.path = files[h].path
        /\ row.gen = gen + 1 => row = a
    BY <1>1, <1>3
  <1> HIDE DEF row
  <1>7. b \in FileRow /\ b.gen = row.gen /\ b.revoked /\ b.state = "revoked" /\ b.path = row.path
        /\ b.target = row.target
    BY <1>6 DEF FileRow, FileStates
  <1> HIDE DEF b
  <1> QED
    BY <1>1, <1>3, <1>4, <1>5, <1>6, <1>7

\* The publication as one step over all rows.
LEMMA PublishStep ==
    ASSUME TypeOK, Generations, ReadyFile, Publish
    PROVE  /\ notes' \in [Notes -> NoteRow] /\ jobs' \in [Jobs -> JobRow] /\ files' \in [Holds -> FileRow]
           /\ gen' = gen + 1
           /\ \A n \in Notes :
                /\ notes'[n].gen <= gen'
                /\ ~notes'[n].revoked => notes'[n].gen = gen'
                /\ ~notes'[n].revoked <=> n \in staged /\ ~(notes[n].revoked /\ notes[n].gen = gen + 1)
                /\ notes'[n].revoked => notes'[n].gen = notes[n].gen
                /\ notes'[n].state = "ready" => notes'[n].cached = notes'[n].target \/ notes'[n] = notes[n]
           /\ \A h \in Holds :
                /\ files'[h].gen <= gen' /\ files'[h].path = files[h].path
                /\ ~files'[h].revoked => files'[h].gen = gen' /\ (h[1] \in Notes => ~notes'[h[1]].revoked)
                /\ files'[h].gen = gen' => files'[h].target = snap.ver[h[2]]
                /\ files'[h].state = "ready" => /\ ~files'[h].revoked /\ files[h].state = "ready"
                                                /\ files'[h].target = files[h].target
  <1> DEFINE hidden == {n \in Notes : PublishedNote(n, gen + 1).revoked}
  <1>1. /\ gen' = gen + 1
        /\ notes' = [n \in Notes |-> PublishedNote(n, gen + 1)]
        /\ jobs' = [j \in Jobs |-> PublishedJob(j, hidden)]
        /\ files' = [h \in Holds |-> PublishedFile(h, gen + 1, hidden)]
    BY DEF Publish
  <1>2. \A n \in Notes : n \notin hidden => ~notes'[n].revoked
    BY <1>1
  <1>3. ASSUME NEW j \in Jobs PROVE PublishedJob(j, hidden) \in JobRow
    <2>1. jobs[j] \in JobRow /\ NoJob \in JobRow /\ [jobs[j] EXCEPT !.status = "pending"] \in JobRow
      BY DEF TypeOK, JobRow, NoJob
    <2> QED
      BY <2>1 DEF PublishedJob
  <1> HIDE DEF hidden
  <1>4. /\ \A n \in Notes : notes'[n] = PublishedNote(n, gen + 1)
        /\ \A h \in Holds : files'[h] = PublishedFile(h, gen + 1, hidden)
    BY <1>1
  <1>5. notes' \in [Notes -> NoteRow]
    BY <1>1, PublishedNoteStep
  <1>6. files' \in [Holds -> FileRow]
    BY <1>1, PublishedFileStep
  <1>7. jobs' \in [Jobs -> JobRow]
    BY <1>1, <1>3
  <1>8. \A n \in Notes :
                /\ notes'[n].gen <= gen'
                /\ ~notes'[n].revoked => notes'[n].gen = gen'
                /\ ~notes'[n].revoked <=> n \in staged /\ ~(notes[n].revoked /\ notes[n].gen = gen + 1)
                /\ notes'[n].revoked => notes'[n].gen = notes[n].gen
                /\ notes'[n].state = "ready" => notes'[n].cached = notes'[n].target \/ notes'[n] = notes[n]
    BY <1>1, <1>4, PublishedNoteStep
  <1>9. \A h \in Holds :
                /\ files'[h].gen <= gen' /\ files'[h].path = files[h].path
                /\ ~files'[h].revoked => files'[h].gen = gen' /\ h[1] \notin hidden
                /\ files'[h].gen = gen' => files'[h].target = snap.ver[h[2]]
                /\ files'[h].state = "ready" => /\ ~files'[h].revoked /\ files[h].state = "ready"
                                                /\ files'[h].target = files[h].target
    BY <1>1, <1>4, PublishedFileStep
  <1> QED
    BY <1>1, <1>2, <1>5, <1>6, <1>7, <1>8, <1>9

-----------------------------------------------------------------------------
(* Type correctness                                                        *)

\* The pages of a snapshot are finitely many, so a round that has counted as
\* many has them all.
LEMMA CompleteSnapshot ==
    ASSUME TypeOK, Complete
    PROVE  staged = Items(snap)
  <1>1. IsFiniteSet(Notes \X Files) /\ IsFiniteSet(Notes)
    BY SharedAssumption, FS_Product
  <1>2. IsFiniteSet(Notes \cup (Notes \X Files))
    BY <1>1, FS_Union
  <1>3. Items(snap) \subseteq Notes \cup (Notes \X Files)
    BY SharedAssumption DEF Items, TypeOK, Snapshot
  <1>4. IsFiniteSet(Items(snap))
    BY <1>2, <1>3, FS_Subset
  <1> QED
    BY <1>4, FS_Subset DEF TypeOK, Complete

\* A note is among the staged items exactly if the server shares it.
LEMMA StagedNotes ==
    ASSUME TypeOK, Complete
    PROVE  \A n \in Notes : n \in staged <=> n \in snap.notes
  <1>1. staged = Items(snap) /\ Holds \subseteq Notes \X Files /\ Notes \cap (Notes \X Files) = {}
    BY CompleteSnapshot, SharedAssumption
  <1>2. \A n \in Notes : n \notin Holds
    BY <1>1
  <1> QED
    BY <1>1, <1>2 DEF Items

\* The tables are empty at first.
LEMMA InitType == ASSUME Init PROVE TypeOK
  <1>1. NoNote \in NoteRow /\ NoJob \in JobRow /\ NoFile \in FileRow
    BY DEF NoNote, NoteRow, NoteStates, NoJob, JobRow, NoFile, FileRow, FileStates
  <1>2. notes \in [Notes -> NoteRow] /\ jobs \in [Jobs -> JobRow] /\ files \in [Holds -> FileRow]
    BY <1>1 DEF Init
  <1>3. ver \in [Notes \cup Files -> Versions] /\ snap = [notes |-> {}, ver |-> ver]
    BY DEF Init
  <1>4. snap \in Snapshot /\ staged \subseteq Items(snap)
    BY <1>3 DEF Snapshot, Init
  <1>5. /\ disk \in [Files -> Versions \cup {None, Torn}] /\ tmp \in [Files -> Versions \cup {None, Torn}]
        /\ pc = "idle" /\ attempt \in 0..1
    BY DEF Init
  <1>6. work \in [Holds -> WorkStages]
    BY DEF Init, Idle, WorkStages
  <1>7. /\ shared \subseteq Notes /\ gen = 0 /\ paused = FALSE /\ called = FALSE /\ base = 0
        /\ evict = {} /\ todo = {} /\ loss = FALSE /\ before = {} /\ told = {}
        /\ changes = 0 /\ faults = 0 /\ asks = 0
    BY DEF Init
  <1> QED
    BY <1>2, <1>3, <1>4, <1>5, <1>6, <1>7 DEF TypeOK

-----------------------------------------------------------------------------
(* Who writes what                                                         *)

\* Storing is about the directory and the workers, whatever it comes to.
OnlyStores(h) ==
    /\ UNCHANGED <<server, rows, calls, pc, plan, evict, todo, loss, watch, asks>>
    /\ Fetching /\ work[h] \in Writing \cup {"queued", "written", "unnamed"}
    /\ faults' \in {faults, faults + 1}
    /\ work' \in [Holds -> WorkStages]
    /\ \A k \in Holds : \/ work'[k] = work[k]
                        \/ (k = h /\ work'[k] \in {"writing", "written", "failing", "stored", "unnamed"})
                        \/ (work[k] \in Writing /\ work'[k] \in {"trailing", "lost"})

\* It writes no row and takes the round no further.
LEMMA StoringStep ==
    ASSUME TypeOK
    PROVE  \A h \in Holds : Storing(h) => OnlyStores(h)
  <1> USE DEF OnlyStores
  <1>t. work \in [Holds -> WorkStages]
    BY DEF TypeOK
  <1>1. SUFFICES ASSUME NEW h \in Holds, Storing(h) PROVE OnlyStores(h)
    OBVIOUS
  <1>2. CASE FileOpened(h)
    BY <1>t, <1>2 DEF FileOpened, Step, bounds, WorkStages, Writing
  <1>3. CASE FileWritten(h)
    BY <1>t, <1>3 DEF FileWritten, Step, bounds, WorkStages, Writing
  <1>4. CASE WriteFails(h)
    BY <1>t, <1>4 DEF WriteFails, Step, Fault, cache, WorkStages, Writing
  <1>5. CASE FileNamed(h)
    BY <1>t, <1>5 DEF FileNamed, bounds, WorkStages, Writing
  <1>6. CASE NotNamed(h)
    BY <1>t, <1>6 DEF NotNamed, Step, Fault, cache, WorkStages, Writing
  <1>7. CASE TmpRemoved(h)
    BY <1>t, <1>7 DEF TmpRemoved, bounds, WorkStages, Writing
  <1> QED
    BY <1>1, <1>2, <1>3, <1>4, <1>5, <1>6, <1>7 DEF Storing

\* The generation and the notes change in a few steps only.
LEMMA NotesWriters ==
    ASSUME TypeOK, [Next]_vars
    PROVE  \/ UNCHANGED <<gen, notes>>
           \/ Reset
           \/ Publish
           \/ \E j \in Jobs : Text(j)
           \/ \E h \in Holds : FileDenied(h)
           \/ \E n \in Notes : RevokeDenied(n)
  BY StoringStep DEF OnlyStores, Next, World, Time, Running, Worker, vars, server, rows, store, cache, calls, plan, round, watch, bounds,
         Share, Change, NewVersion, Queue, Abort, Fault, Finished, Goto, BeginFails, RetryDue,
         ProbeDue, Begin, DownloadPending, Page, RemoveRevoked, ForgetRevoked, EvictDone,
         EvictFile, EvictRow, Step, FileReady, FailNoted, FileFails, TextFails,
         TextsDone, FilesDone, Announce

\* So do the rows of the files,
LEMMA FilesWriters ==
    ASSUME TypeOK, [Next]_vars
    PROVE  \/ UNCHANGED <<gen, files>>
           \/ Reset
           \/ Publish
           \/ \E f \in Attachments : Queue(f)
           \/ RetryDue
           \/ ForgetRevoked
           \/ \E h \in Holds : EvictRow(h)
           \/ \E h \in Holds : FileReady(h)
           \/ \E h \in Holds : FileDenied(h)
           \/ \E h \in Holds : FailNoted(h)
           \/ \E h \in Holds : FileFails(h)
           \/ \E n \in Notes : RevokeDenied(n)
  BY StoringStep DEF OnlyStores, Next, World, Time, Running, Worker, vars, server, rows, store, cache, calls, plan, round, watch, bounds,
         Share, Change, NewVersion, Abort, Fault, Finished, Goto, BeginFails, ProbeDue, Begin,
         DownloadPending, Page, RemoveRevoked, EvictDone, EvictFile, Step, Text,
         TextFails, TextsDone, FilesDone, Announce

\* and the jobs.
LEMMA JobsWriters ==
    ASSUME TypeOK, [Next]_vars
    PROVE  \/ UNCHANGED jobs
           \/ Reset
           \/ RetryDue
           \/ Publish
           \/ \E j \in Jobs : Text(j)
           \/ \E j \in Jobs : TextFails(j)
           \/ \E h \in Holds : FileDenied(h)
           \/ \E n \in Notes : RevokeDenied(n)
  BY StoringStep DEF OnlyStores, Next, World, Time, Running, Worker, vars, server, rows, store, cache, calls, plan, round, watch, bounds,
         Share, Change, NewVersion, Queue, Abort, Fault, Finished, Goto, BeginFails, ProbeDue,
         Begin, DownloadPending, Page, RemoveRevoked, ForgetRevoked, EvictDone, EvictFile,
         EvictRow, Step, FileReady, FailNoted, FileFails, TextsDone, FilesDone,
         Announce

\* The directory is written by the workers and by the cleaning of the cache.
LEMMA DiskWriters ==
    ASSUME TypeOK, [Next]_vars
    PROVE  \/ UNCHANGED store
           \/ Reset
           \/ RemoveRevoked
           \/ ForgetRevoked
           \/ \E h \in Holds : EvictFile(h)
           \/ \E h \in Holds : Storing(h)
  BY DEF Next, World, Time, Running, Worker, vars, server, rows, store, cache, calls, plan, round, watch, bounds,
         Share, Change, NewVersion, Queue, Abort, Fault, Finished, Goto, BeginFails, RetryDue,
         ProbeDue, Begin, DownloadPending, Page, Publish, EvictDone, EvictRow,
         FileReady, Step, FileDenied, FailNoted, FileFails, Text, TextFails, TextsDone,
         FilesDone, RevokeDenied, Announce

\* A snapshot is made at the beginning of a round and then collected.
LEMMA SnapWriters ==
    ASSUME TypeOK, [Next]_vars
    PROVE  \/ UNCHANGED <<snap, staged>>
           \/ Abort
           \/ BeginFails
           \/ Begin
           \/ \E i \in Items(snap) : Page(i)
           \/ Publish
           \/ FilesDone
           \/ Announce
  BY StoringStep DEF OnlyStores, Next, World, Time, Running, Worker, vars, server, rows, store, cache, calls, plan, round, watch, bounds,
         Share, Change, NewVersion, Queue, Reset, Fault, RetryDue, ProbeDue, DownloadPending,
         Goto, RemoveRevoked, ForgetRevoked, EvictDone, EvictFile, EvictRow, Step,
         FileReady, FileDenied, FailNoted, FileFails, Text, TextFails, TextsDone,
         RevokeDenied

\* The observations are made at a publication and by announcements.
LEMMA WatchWriters ==
    ASSUME TypeOK, [Next]_vars
    PROVE  \/ UNCHANGED <<before, told>>
           \/ Publish
           \/ \E h \in Holds : FileDenied(h)
           \/ \E n \in Notes : RevokeDenied(n)
           \/ Announce
  BY StoringStep DEF OnlyStores, Next, World, Time, Running, Worker, vars, server, rows, store, cache, calls, plan, round, watch, bounds,
         Share, Change, NewVersion, Queue, Reset, Fault, Abort, Finished, Goto, BeginFails,
         RetryDue, ProbeDue, Begin, DownloadPending, Page, RemoveRevoked, ForgetRevoked,
         EvictDone, EvictFile, EvictRow, Step, FileReady, FailNoted, FileFails,
         Text, TextFails, TextsDone, FilesDone

-----------------------------------------------------------------------------
(* Every step keeps the types                                              *)

\* Rows of notes stay rows of notes,
LEMMA NotesType ==
    ASSUME TypeOK, Generations, ReadyFile, [Next]_vars
    PROVE  gen' \in Nat /\ notes' \in [Notes -> NoteRow]
  <1>t. gen \in Nat /\ notes \in [Notes -> NoteRow]
    BY DEF TypeOK
  <1>1. CASE UNCHANGED <<gen, notes>>
    BY <1>t, <1>1
  <1>2. CASE Reset
    BY <1>2 DEF Reset, NoNote, NoteRow, NoteStates
  <1>3. CASE Publish
    BY <1>t, <1>3, PublishStep
  <1>4. ASSUME NEW j \in Jobs, Text(j) PROVE gen' \in Nat /\ notes' \in [Notes -> NoteRow]
    BY <1>t, <1>4, TextStep DEF Text
  <1>5. ASSUME NEW h \in Holds, FileDenied(h) PROVE gen' \in Nat /\ notes' \in [Notes -> NoteRow]
    BY <1>t, <1>5, RevokeStep, SharedAssumption DEF FileDenied
  <1>6. ASSUME NEW n \in Notes, RevokeDenied(n) PROVE gen' \in Nat /\ notes' \in [Notes -> NoteRow]
    BY <1>t, <1>6, RevokeStep DEF RevokeDenied
  <1> QED
    BY <1>1, <1>2, <1>3, <1>4, <1>5, <1>6, NotesWriters

\* jobs stay jobs,
LEMMA JobsType ==
    ASSUME TypeOK, Generations, ReadyFile, [Next]_vars
    PROVE  jobs' \in [Jobs -> JobRow]
  <1>1. CASE UNCHANGED jobs
    BY <1>1 DEF TypeOK
  <1>2. CASE Reset
    BY <1>2 DEF Reset, NoJob, JobRow
  <1>3. CASE Publish
    BY <1>3, PublishStep
  <1>4. CASE RetryDue
    BY <1>4, RetryStep
  <1>5. ASSUME NEW j \in Jobs, Text(j) \/ TextFails(j) PROVE jobs' \in [Jobs -> JobRow]
    BY <1>5, TextStep, TextFailsStep
  <1>6. ASSUME NEW h \in Holds, FileDenied(h) PROVE jobs' \in [Jobs -> JobRow]
    BY <1>6, RevokeStep, SharedAssumption DEF FileDenied
  <1>7. ASSUME NEW n \in Notes, RevokeDenied(n) PROVE jobs' \in [Jobs -> JobRow]
    BY <1>7, RevokeStep DEF RevokeDenied
  <1> QED
    BY <1>1, <1>2, <1>3, <1>4, <1>5, <1>6, <1>7, JobsWriters

\* What completes, evicts or fails a file is about one row.
LEMMA FileSteps ==
    ASSUME TypeOK, NEW h \in Holds
    PROVE  /\ EvictRow(h) => /\ files' = [files EXCEPT ![h] = [@ EXCEPT !.path = FALSE, !.state = "pending"]]
                             /\ gen' = gen
           /\ FileReady(h) => /\ gen' = gen
                              /\ \/ files' = files
                                 \/ /\ ~files[h].revoked
                                    /\ files' = [files EXCEPT ![h] = [@ EXCEPT !.path = TRUE, !.state = "ready"]]
           /\ FileDenied(h) => h[1] \in Notes /\ Revoke(h[1]) /\ gen' = gen
           /\ FailNoted(h) => FailedFile(h) /\ gen' = gen
           /\ FileFails(h) => FailedFile(h) /\ gen' = gen
  BY SharedAssumption DEF EvictRow, FileReady, Unrevoked, FileDenied, FailNoted, FileFails

\* rows of files stay rows of files,
LEMMA FilesType ==
    ASSUME TypeOK, Generations, ReadyFile, [Next]_vars
    PROVE  files' \in [Holds -> FileRow]
  <1>t. files \in [Holds -> FileRow] /\ {"ready", "pending"} \subseteq FileStates
    BY DEF TypeOK, FileStates
  <1>1. CASE UNCHANGED <<gen, files>>
    BY <1>t, <1>1
  <1>2. CASE Reset
    BY <1>2 DEF Reset, NoFile, FileRow, FileStates
  <1>3. CASE Publish
    BY <1>3, PublishStep
  <1>4. CASE RetryDue \/ ForgetRevoked
    BY <1>4, RetryStep, ForgetStep
  <1>5. ASSUME NEW f \in Attachments, Queue(f) PROVE files' \in [Holds -> FileRow]
    BY <1>5, QueueStep
  <1>6. ASSUME NEW h \in Holds, EvictRow(h) PROVE files' \in [Holds -> FileRow]
    BY <1>t, <1>6, FileSteps, PathStep
  <1>7. ASSUME NEW h \in Holds, FileReady(h) PROVE files' \in [Holds -> FileRow]
    BY <1>t, <1>7, FileSteps, PathStep
  <1>8. ASSUME NEW h \in Holds, FileDenied(h) PROVE files' \in [Holds -> FileRow]
    BY <1>8, FileSteps, RevokeStep
  <1>9. ASSUME NEW h \in Holds, FailNoted(h) \/ FileFails(h) PROVE files' \in [Holds -> FileRow]
    BY <1>9, FileSteps, FailedStep
  <1>10. ASSUME NEW n \in Notes, RevokeDenied(n) PROVE files' \in [Holds -> FileRow]
    BY <1>10, RevokeStep DEF RevokeDenied
  <1> QED
    BY <1>1, <1>2, <1>3, <1>4, <1>5, <1>6, <1>7, <1>8, <1>9, <1>10, FilesWriters

\* the directory holds versions,
LEMMA DiskType ==
    ASSUME TypeOK, [Next]_vars
    PROVE  /\ disk' \in [Files -> Versions \cup {None, Torn}]
           /\ tmp' \in [Files -> Versions \cup {None, Torn}]
  <1> DEFINE Bytes == Versions \cup {None, Torn}
             Typed == disk' \in [Files -> Bytes] /\ tmp' \in [Files -> Bytes]
  <1>t. disk \in [Files -> Bytes] /\ tmp \in [Files -> Bytes] /\ None \in Bytes /\ Torn \in Bytes
        /\ \A h \in Holds : h[2] \in Files
    BY SharedAssumption DEF TypeOK
  <1>1. CASE UNCHANGED store
    BY <1>t, <1>1 DEF store
  <1>2. CASE Reset
    BY <1>t, <1>2 DEF Reset, store
  <1>3. CASE RemoveRevoked \/ ForgetRevoked
    BY <1>t, <1>3 DEF RemoveRevoked, ForgetRevoked
  <1>4. ASSUME NEW h \in Holds, EvictFile(h) PROVE Typed
    BY <1>t, <1>4 DEF EvictFile
  <1>5. ASSUME NEW h \in Holds, Storing(h), files[h].target \in Bytes PROVE Typed
    <2>1. disk[h[2]] \in Bytes /\ tmp[h[2]] \in Bytes
      BY <1>t
    <2>2. Ended(h, tmp[h[2]]) \subseteq Bytes /\ Ended(h, disk[h[2]]) \subseteq Bytes
      BY <1>5, <2>1 DEF Ended
    <2> HIDE DEF Bytes
    <2>3. CASE FileOpened(h) \/ TmpRemoved(h)
      BY <1>t, <2>3 DEF FileOpened, TmpRemoved
    <2>4. CASE FileWritten(h)
      BY <1>t, <2>2, <2>4 DEF FileWritten, store
    <2>5. CASE WriteFails(h) \/ NotNamed(h)
      BY <1>t, <2>5 DEF WriteFails, NotNamed, cache, store
    <2>6. CASE FileNamed(h)
      BY <1>t, <2>1, <2>6 DEF FileNamed
    <2> QED
      BY <1>5, <2>3, <2>4, <2>5, <2>6 DEF Storing
  <1>6. \A h \in Holds : files[h].target \in Bytes
    BY DEF TypeOK, FileRow
  <1> QED
    BY <1>1, <1>2, <1>3, <1>4, <1>5, <1>6, DiskWriters

\* what is staged belongs to the snapshot,
LEMMA SnapType ==
    ASSUME TypeOK, [Next]_vars
    PROVE  snap' \in Snapshot /\ staged' \subseteq Items(snap')
  <1>t. snap \in Snapshot /\ staged \subseteq Items(snap) /\ shared \subseteq Notes /\ ver \in [Notes \cup Files -> Versions]
    BY DEF TypeOK
  <1>1. CASE UNCHANGED <<snap, staged>>
    BY <1>t, <1>1
  <1>2. CASE Abort \/ BeginFails \/ Publish \/ FilesDone \/ Announce
    <2>1. snap' = snap /\ (staged' = {} \/ staged' = staged)
      BY <1>2 DEF Abort, BeginFails, Publish, FilesDone, Announce, Finished, plan
    <2> QED
      BY <1>t, <2>1
  <1>3. CASE Begin
    <2>1. snap' = [notes |-> shared, ver |-> ver] /\ staged' = {}
      BY <1>3 DEF Begin
    <2> QED
      BY <1>t, <2>1 DEF Snapshot
  <1>4. ASSUME NEW i \in Items(snap), Page(i) PROVE snap' \in Snapshot /\ staged' \subseteq Items(snap')
    <2>1. snap' = snap /\ staged' = staged \cup {i}
      BY <1>4 DEF Page
    <2> QED
      BY <1>t, <2>1
  <1> QED
    BY <1>1, <1>2, <1>3, <1>4, SnapWriters

\* the observations are about notes,
LEMMA WatchType ==
    ASSUME TypeOK, [Next]_vars
    PROVE  before' \subseteq Notes /\ told' \subseteq Notes
  <1>t. before \subseteq Notes /\ told \subseteq Notes
    BY DEF TypeOK
  <1>1. CASE UNCHANGED <<before, told>>
    BY <1>t, <1>1
  <1>2. CASE Publish
    BY <1>2 DEF Publish, View
  <1>3. ASSUME NEW h \in Holds, FileDenied(h) PROVE before' \subseteq Notes /\ told' \subseteq Notes
    BY <1>t, <1>3, FileSteps DEF FileDenied, Revoke
  <1>4. ASSUME NEW n \in Notes, RevokeDenied(n) PROVE before' \subseteq Notes /\ told' \subseteq Notes
    BY <1>t, <1>4 DEF RevokeDenied, Revoke
  <1>5. CASE Announce
    BY <1>t, <1>5 DEF Announce, Announced
  <1> QED
    BY <1>1, <1>2, <1>3, <1>4, <1>5, WatchWriters

\* the server stays a server and the bounds numbers,
LEMMA ServerType ==
    ASSUME TypeOK, [Next]_vars
    PROVE  /\ shared' \subseteq Notes
           /\ ver' \in [Notes \cup Files -> Versions]
           /\ changes' \in Nat
           /\ faults' \in Nat
           /\ asks' \in Nat
           /\ paused' \in BOOLEAN /\ called' \in BOOLEAN
  <1>1. shared' \subseteq Notes
    <2>1. shared \subseteq Notes
      BY DEF TypeOK
    <2> QED
      BY <2>1, StoringStep DEF OnlyStores, Next, World, Time, Running, Worker, vars, server, rows, store, cache, calls, plan, round,
           watch, bounds, Share, Change, NewVersion, Queue, Reset, Fault, Abort, Finished, Goto,
           BeginFails, RetryDue, ProbeDue, Begin, DownloadPending, Page, Publish, RemoveRevoked,
           ForgetRevoked, EvictDone, EvictFile, EvictRow, Step, FileReady,
           FileDenied, FailNoted, FileFails, Text, TextFails, TextsDone, FilesDone,
           RevokeDenied, Announce
  <1>2. ver' \in [Notes \cup Files -> Versions]
    <2>1. ver \in [Notes \cup Files -> Versions]
      BY DEF TypeOK
    <2> QED
      BY <2>1, StoringStep DEF OnlyStores, Next, World, Time, Running, Worker, vars, server, rows, store, cache, calls, plan, round,
           watch, bounds, Share, Change, NewVersion, Queue, Reset, Fault, Abort, Finished, Goto,
           BeginFails, RetryDue, ProbeDue, Begin, DownloadPending, Page, Publish, RemoveRevoked,
           ForgetRevoked, EvictDone, EvictFile, EvictRow, Step, FileReady,
           FileDenied, FailNoted, FileFails, Text, TextFails, TextsDone, FilesDone,
           RevokeDenied, Announce
  <1>3. changes' \in Nat
    <2>1. changes \in Nat
      BY DEF TypeOK
    <2>2. changes' = changes \/ changes' = changes + 1
      BY StoringStep DEF OnlyStores, Next, World, Time, Running, Worker, vars, server, rows, store, cache, calls, plan, round,
           watch, bounds, Share, Change, NewVersion, Queue, Reset, Fault, Abort, Finished, Goto,
           BeginFails, RetryDue, ProbeDue, Begin, DownloadPending, Page, Publish, RemoveRevoked,
           ForgetRevoked, EvictDone, EvictFile, EvictRow, Step, FileReady,
           FileDenied, FailNoted, FileFails, Text, TextFails, TextsDone, FilesDone,
           RevokeDenied, Announce
    <2> QED
      BY <2>1, <2>2
  <1>4. faults' \in Nat
    <2>1. faults \in Nat
      BY DEF TypeOK
    <2>2. faults' = faults \/ faults' = faults + 1
      BY StoringStep DEF OnlyStores, Next, World, Time, Running, Worker, vars, server, rows, store, cache, calls, plan, round,
           watch, bounds, Share, Change, NewVersion, Queue, Reset, Fault, Abort, Finished, Goto,
           BeginFails, RetryDue, ProbeDue, Begin, DownloadPending, Page, Publish, RemoveRevoked,
           ForgetRevoked, EvictDone, EvictFile, EvictRow, Step, FileReady,
           FileDenied, FailNoted, FileFails, Text, TextFails, TextsDone, FilesDone,
           RevokeDenied, Announce
    <2> QED
      BY <2>1, <2>2
  <1>5. asks' \in Nat
    <2>1. asks \in Nat
      BY DEF TypeOK
    <2>2. asks' = asks \/ asks' = asks + 1
      BY StoringStep DEF OnlyStores, Next, World, Time, Running, Worker, vars, server, rows, store, cache, calls, plan, round,
           watch, bounds, Share, Change, NewVersion, Queue, Reset, Fault, Abort, Finished, Goto,
           BeginFails, RetryDue, ProbeDue, Begin, DownloadPending, Page, Publish, RemoveRevoked,
           ForgetRevoked, EvictDone, EvictFile, EvictRow, Step, FileReady,
           FileDenied, FailNoted, FileFails, Text, TextFails, TextsDone, FilesDone,
           RevokeDenied, Announce
    <2> QED
      BY <2>1, <2>2
  <1>6. paused' \in BOOLEAN /\ called' \in BOOLEAN
    <2>1. paused \in BOOLEAN /\ called \in BOOLEAN
      BY DEF TypeOK
    <2> QED
      BY <2>1, StoringStep DEF OnlyStores, Next, World, Time, Running, Worker, vars, server, rows, store, cache, calls, plan, round,
           watch, bounds, Share, Change, NewVersion, Queue, Reset, Fault, Abort, Finished, Goto,
           BeginFails, RetryDue, ProbeDue, Begin, DownloadPending, Page, Publish, RemoveRevoked,
           ForgetRevoked, EvictDone, EvictFile, EvictRow, Step, FileReady,
           FileDenied, FailNoted, FileFails, Text, TextFails, TextsDone, FilesDone,
           RevokeDenied, Announce
  <1> QED
    BY <1>1, <1>2, <1>3, <1>4, <1>5, <1>6

\* the round is somewhere,
LEMMA RoundType ==
    ASSUME TypeOK, [Next]_vars
    PROVE  /\ pc' \in {"idle", "pages", "reclaim", "forget", "evict", "mark", "texts", "files", "only files", "revoke", "again"}
           /\ attempt' \in 0..1
           /\ base' \in Nat
           /\ evict' \subseteq Holds
           /\ todo' \subseteq Jobs
           /\ loss' \in BOOLEAN
  <1>1. pc' \in {"idle", "pages", "reclaim", "forget", "evict", "mark", "texts", "files", "only files", "revoke", "again"}
    <2>1. pc \in {"idle", "pages", "reclaim", "forget", "evict", "mark", "texts", "files", "only files", "revoke", "again"}
      BY DEF TypeOK
    <2> QED
      BY <2>1, StoringStep DEF OnlyStores, Next, World, Time, Running, Worker, vars, server, rows, store, cache, calls, plan, round,
           watch, bounds, Share, Change, NewVersion, Queue, Reset, Fault, Abort, Finished, Goto,
           BeginFails, RetryDue, ProbeDue, Begin, DownloadPending, Page, Publish, RemoveRevoked,
           ForgetRevoked, EvictDone, EvictFile, EvictRow, Step, FileReady,
           FileDenied, FailNoted, FileFails, Text, TextFails, TextsDone, FilesDone,
           RevokeDenied, Announce
  <1>2. attempt' \in 0..1
    <2>1. attempt \in 0..1
      BY DEF TypeOK
    <2>2. attempt' = attempt \/ attempt' = 0 \/ (attempt < 1 /\ attempt' = attempt + 1)
      BY StoringStep DEF OnlyStores, Rebuilds, Next, World, Time, Running, Worker, vars, server, rows, store, cache, calls, plan, round,
           watch, bounds, Share, Change, NewVersion, Queue, Reset, Fault, Abort, Finished, Goto,
           BeginFails, RetryDue, ProbeDue, Begin, DownloadPending, Page, Publish, RemoveRevoked,
           ForgetRevoked, EvictDone, EvictFile, EvictRow, Step, FileReady,
           FileDenied, FailNoted, FileFails, Text, TextFails, TextsDone, FilesDone,
           RevokeDenied, Announce
    <2> QED
      BY <2>1, <2>2
  <1>3. base' \in Nat
    <2>1. base \in Nat /\ gen \in Nat
      BY DEF TypeOK
    <2>2. base' = base \/ base' = 0 \/ base' = gen
      BY StoringStep DEF OnlyStores, Next, World, Time, Running, Worker, vars, server, rows, store, cache, calls, plan, round,
           watch, bounds, Share, Change, NewVersion, Queue, Reset, Fault, Abort, Finished, Goto,
           BeginFails, RetryDue, ProbeDue, Begin, DownloadPending, Page, Publish, RemoveRevoked,
           ForgetRevoked, EvictDone, EvictFile, EvictRow, Step, FileReady,
           FileDenied, FailNoted, FileFails, Text, TextFails, TextsDone, FilesDone,
           RevokeDenied, Announce
    <2> QED
      BY <2>1, <2>2
  <1>4. evict' \subseteq Holds
    <2>1. evict \subseteq Holds
      BY DEF TypeOK
    <2> QED
      BY <2>1, StoringStep DEF OnlyStores, Next, World, Time, Running, Worker, vars, server, rows, store, cache, calls, plan, round,
           watch, bounds, Share, Change, NewVersion, Queue, Reset, Fault, Abort, Finished, Goto,
           BeginFails, RetryDue, ProbeDue, Begin, DownloadPending, Page, Publish, RemoveRevoked,
           ForgetRevoked, EvictDone, EvictFile, EvictRow, Step, FileReady,
           FileDenied, FailNoted, FileFails, Text, TextFails, TextsDone, FilesDone,
           RevokeDenied, Announce
  <1>5. todo' \subseteq Jobs
    <2>1. todo \subseteq Jobs
      BY DEF TypeOK
    <2> QED
      BY <2>1, StoringStep DEF OnlyStores, PendingTexts, Next, World, Time, Running, Worker, vars, server, rows, store, cache, calls, plan, round,
           watch, bounds, Share, Change, NewVersion, Queue, Reset, Fault, Abort, Finished, Goto,
           BeginFails, RetryDue, ProbeDue, Begin, DownloadPending, Page, Publish, RemoveRevoked,
           ForgetRevoked, EvictDone, EvictFile, EvictRow, Step, FileReady,
           FileDenied, FailNoted, FileFails, Text, TextFails, TextsDone, FilesDone,
           RevokeDenied, Announce
  <1>6. loss' \in BOOLEAN
    <2>1. loss \in BOOLEAN
      BY DEF TypeOK
    <2> QED
      BY <2>1, StoringStep DEF OnlyStores, Next, World, Time, Running, Worker, vars, server, rows, store, cache, calls, plan, round,
           watch, bounds, Share, Change, NewVersion, Queue, Reset, Fault, Abort, Finished, Goto,
           BeginFails, RetryDue, ProbeDue, Begin, DownloadPending, Page, Publish, RemoveRevoked,
           ForgetRevoked, EvictDone, EvictFile, EvictRow, Step, FileReady,
           FileDenied, FailNoted, FileFails, Text, TextFails, TextsDone, FilesDone,
           RevokeDenied, Announce
  <1> QED
    BY <1>1, <1>2, <1>3, <1>4, <1>5, <1>6

\* and every file has a stage.
LEMMA WorkType ==
    ASSUME TypeOK, [Next]_vars
    PROVE  work' \in [Holds -> WorkStages]
  <1>t. work \in [Holds -> WorkStages]
    BY DEF TypeOK
  <1> QED
    BY <1>t, StoringStep DEF OnlyStores, WorkStages, Idle, Next, World, Time, Running, Worker, vars, server, rows, store, cache, calls, plan, round,
         watch, bounds, Share, Change, NewVersion, Queue, Reset, Fault, Abort, Finished, Goto,
         BeginFails, RetryDue, ProbeDue, Begin, DownloadPending, Page, Publish, RemoveRevoked,
         ForgetRevoked, EvictDone, EvictFile, EvictRow, Step, FileReady, FileDenied,
         FailNoted, FileFails, Text, TextFails, TextsDone, FilesDone, RevokeDenied,
         Announce

\* A step keeps the types.
LEMMA TypeStep ==
    ASSUME TypeOK, Generations, ReadyFile, [Next]_vars
    PROVE  TypeOK'
  BY NotesType, JobsType, FilesType, DiskType, SnapType, WatchType, ServerType, RoundType, WorkType
  DEF TypeOK

-----------------------------------------------------------------------------
(* Every step keeps the invariant                                          *)

\* A step that leaves generations, revocations and versions as they are.
Lasting(n) == /\ notes'[n].gen = notes[n].gen /\ notes'[n].revoked = notes[n].revoked
              /\ notes'[n].target = notes[n].target
LastingFile(h) == /\ files'[h].gen = files[h].gen /\ files'[h].revoked = files[h].revoked
                  /\ files'[h].target = files[h].target
Kept == gen' = gen /\ (\A n \in Notes : Lasting(n)) /\ (\A h \in Holds : LastingFile(h))

\* They change at a publication, at a reset and when the server denies a note.
LEMMA RowsStep ==
    ASSUME TypeOK, [Next]_vars
    PROVE  \/ Reset \/ Publish
           \/ \E n \in Notes : Revoke(n) /\ gen' = gen /\ told' = told \cup {n} /\ snap' = snap
           \/ Kept
  <1> USE DEF Kept, Lasting, LastingFile
  <1>t. files \in [Holds -> FileRow] /\ {"ready", "pending"} \subseteq FileStates
    BY DEF TypeOK, FileStates
  <1>1. CASE UNCHANGED <<gen, notes, files>>
    BY <1>1
  <1>2. CASE RetryDue
    BY <1>2, RetryStep DEF RetryDue
  <1>3. CASE ForgetRevoked
    BY <1>3, ForgetStep DEF ForgetRevoked
  <1>4. ASSUME NEW f \in Attachments, Queue(f) PROVE Kept
    BY <1>4, QueueStep DEF Queue
  <1>5. ASSUME NEW h \in Holds, EvictRow(h) PROVE Kept
    <2>1. notes' = notes
      BY <1>5 DEF EvictRow
    <2>2. gen' = gen /\ \A k \in Holds : LastingFile(k)
      BY <1>t, <1>5, FileSteps, PathStep
    <2> QED
      BY <2>1, <2>2
  <1>6. ASSUME NEW h \in Holds, FileReady(h) PROVE Kept
    <2>1. notes' = notes
      BY <1>6 DEF FileReady
    <2>2. gen' = gen /\ \A k \in Holds : LastingFile(k)
      BY <1>t, <1>6, FileSteps, PathStep
    <2> QED
      BY <2>1, <2>2
  <1>7. ASSUME NEW h \in Holds, FailNoted(h) \/ FileFails(h) PROVE Kept
    <2>1. notes' = notes
      BY <1>7 DEF FailNoted, FileFails
    <2>2. gen' = gen /\ \A k \in Holds : LastingFile(k)
      BY <1>7, FileSteps, FailedStep
    <2> QED
      BY <2>1, <2>2
  <1>8. ASSUME NEW j \in Jobs, Text(j) PROVE Kept
    BY <1>8, TextStep DEF Text
  <1>9. ASSUME NEW h \in Holds, FileDenied(h)
        PROVE  h[1] \in Notes /\ Revoke(h[1]) /\ gen' = gen /\ told' = told \cup {h[1]} /\ snap' = snap
    BY <1>9, FileSteps, RevokeStep DEF FileDenied, plan
  <1>10. ASSUME NEW n \in Notes, RevokeDenied(n)
         PROVE  Revoke(n) /\ gen' = gen /\ told' = told \cup {n} /\ snap' = snap
    BY <1>10, RevokeStep DEF RevokeDenied, plan
  <1>11. CASE UNCHANGED <<gen, notes>> /\ UNCHANGED <<gen, files>>
    BY <1>11
  <1>12. \A h \in Holds : EvictRow(h) \/ FileReady(h) \/ FailNoted(h) \/ FileFails(h) => Kept
    BY <1>5, <1>6, <1>7
  <1>13. \A f \in Attachments : Queue(f) => Kept
    BY <1>4
  <1>14. \A j \in Jobs : Text(j) => Kept
    BY <1>8
  <1> QED
    BY <1>2, <1>3, <1>9, <1>10, <1>11, <1>12, <1>13, <1>14, NotesWriters, FilesWriters

\* Publishing gives the visible rows the new number, denying hides a note with
\* its files.
LEMMA GenerationsStep ==
    ASSUME TypeOK, Generations, ReadyFile, [Next]_vars
    PROVE  Generations'
  <1> USE DEF Generations, OneGeneration, Visible
  <1>t. /\ gen \in Nat /\ \A n \in Notes : notes[n].gen \in Nat
        /\ \A h \in Holds : files[h].gen \in Nat /\ h[1] \in Notes
    BY SharedAssumption DEF TypeOK, NoteRow, FileRow
  <1>1. CASE Reset
    BY <1>1 DEF Reset, NoNote, NoFile
  <1>2. CASE Publish
    <2>1. /\ gen' = gen + 1
          /\ \A n \in Notes : notes'[n].gen \in Nat /\ notes'[n].gen <= gen'
                              /\ (~notes'[n].revoked => notes'[n].gen = gen')
          /\ \A h \in Holds : files'[h].gen <= gen'
                              /\ (~files'[h].revoked => files'[h].gen = gen' /\ ~notes'[h[1]].revoked)
      BY <1>t, <1>2, PublishStep DEF NoteRow
    <2> QED
      BY <1>t, <2>1
  <1>3. ASSUME NEW n \in Notes, Revoke(n), gen' = gen PROVE Generations'
    BY <1>t, <1>3, RevokeStep
  <1>4. CASE Kept
    BY <1>t, <1>4 DEF Kept, Lasting, LastingFile
  <1> QED
    BY <1>1, <1>2, <1>3, <1>4, RowsStep

\* A text is marked ready when it is the one the row names.
LEMMA ReadyIsTargetStep ==
    ASSUME TypeOK, Generations, ReadyFile, ReadyIsTarget, [Next]_vars
    PROVE  ReadyIsTarget'
  <1> USE DEF ReadyIsTarget
  <1>1. CASE UNCHANGED <<gen, notes>>
    BY <1>1
  <1>2. CASE Reset
    BY <1>2 DEF Reset, NoNote
  <1>3. CASE Publish
    BY <1>3, PublishStep
  <1>4. ASSUME NEW j \in Jobs, Text(j) PROVE ReadyIsTarget'
    BY <1>4, TextStep
  <1>5. ASSUME NEW h \in Holds, FileDenied(h) PROVE ReadyIsTarget'
    <2>1. Revoke(h[1]) /\ h[1] \in Notes
      BY <1>5, FileSteps
    <2> QED
      BY <2>1, RevokeStep
  <1>6. ASSUME NEW n \in Notes, RevokeDenied(n) PROVE ReadyIsTarget'
    BY <1>6, RevokeStep DEF RevokeDenied
  <1> QED
    BY <1>1, <1>2, <1>3, <1>4, <1>5, <1>6, NotesWriters

\* Only the completion of a download makes a file ready.
LEMMA ReadyFileStep ==
    ASSUME TypeOK, Generations, ReadyFile, [Next]_vars
    PROVE  ReadyFile'
  <1> USE DEF ReadyFile
  <1>t. files \in [Holds -> FileRow] /\ {"ready", "pending"} \subseteq FileStates
    BY DEF TypeOK, FileStates
  <1>1. CASE UNCHANGED <<gen, files>>
    BY <1>1
  <1>2. CASE Reset
    BY <1>2 DEF Reset, NoFile
  <1>3. CASE Publish
    BY <1>3, PublishStep
  <1>4. CASE RetryDue
    BY <1>4, RetryStep
  <1>5. CASE ForgetRevoked
    BY <1>5, ForgetStep
  <1>6. ASSUME NEW f \in Attachments, Queue(f) PROVE ReadyFile'
    BY <1>6, QueueStep
  <1>7. ASSUME NEW h \in Holds, EvictRow(h) PROVE ReadyFile'
    <2>1. files'[h].state = "pending" /\ \A k \in Holds : k # h => files'[k] = files[k]
      <3>1. files' = [files EXCEPT ![h] = [@ EXCEPT !.path = FALSE, !.state = "pending"]]
        BY <1>7, FileSteps
      <3> QED
        BY <1>t, <3>1, PathStep
    <2> QED
      BY <2>1
  <1>8. ASSUME NEW h \in Holds, FileReady(h) PROVE ReadyFile'
    <2>1. CASE files' = files
      BY <2>1
    <2>2. CASE /\ ~files[h].revoked
               /\ files' = [files EXCEPT ![h] = [@ EXCEPT !.path = TRUE, !.state = "ready"]]
      <3>1. /\ files'[h].path /\ files'[h].revoked = files[h].revoked
            /\ \A k \in Holds : k # h => files'[k] = files[k]
        BY <1>t, <2>2, PathStep
      <3> QED
        BY <2>2, <3>1
    <2> QED
      BY <1>8, <2>1, <2>2, FileSteps
  <1>9. ASSUME NEW h \in Holds, FileDenied(h) PROVE ReadyFile'
    <2>1. Revoke(h[1]) /\ h[1] \in Notes
      BY <1>9, FileSteps
    <2> QED
      BY <2>1, RevokeStep
  <1>10. ASSUME NEW h \in Holds, FailNoted(h) \/ FileFails(h) PROVE ReadyFile'
    BY <1>10, FileSteps, FailedStep
  <1>11. ASSUME NEW n \in Notes, RevokeDenied(n) PROVE ReadyFile'
    BY <1>11, RevokeStep DEF RevokeDenied
  <1> QED
    BY <1>1, <1>2, <1>3, <1>4, <1>5, <1>6, <1>7, <1>8, <1>9, <1>10, <1>11, FilesWriters

\* The lists are filled and emptied where the round moves on.
LEMMA StagesStep ==
    ASSUME TypeOK, Stages, [Next]_vars
    PROVE  Stages'
  <1> USE DEF vars, server, rows, store, cache, calls, plan, round, watch, bounds, Stages, Idle
  <1>t. work \in [Holds -> WorkStages]
    BY DEF TypeOK
  <1>1. ASSUME NEW n \in Notes, Share(n) PROVE Stages'
    BY <1>1 DEF Share, Change
  <1>2. ASSUME NEW x \in Notes \cup Files, NEW v \in Versions, NewVersion(x, v) PROVE Stages'
    BY <1>2 DEF NewVersion, Change
  <1>3. ASSUME NEW f \in Attachments, Queue(f) PROVE Stages'
    BY <1>3 DEF Queue
  <1>4. ASSUME Reset PROVE Stages'
    BY <1>4 DEF Reset, Fault
  <1>5. ASSUME Abort PROVE Stages'
    BY <1>5 DEF Abort, Fault, Finished, Goto
  <1>6. ASSUME BeginFails PROVE Stages'
    BY <1>6 DEF BeginFails, Fault, Finished, Goto
  <1>7. ASSUME RetryDue PROVE Stages'
    BY <1>7 DEF RetryDue
  <1>8. ASSUME ProbeDue PROVE Stages'
    BY <1>8 DEF ProbeDue
  <1>9. ASSUME Begin PROVE Stages'
    BY <1>9 DEF Begin, Goto
  <1>10. ASSUME DownloadPending PROVE Stages'
    BY <1>10 DEF DownloadPending, Goto
  <1>11. ASSUME NEW i \in Items(snap), Page(i) PROVE Stages'
    BY <1>11 DEF Page
  <1>12. ASSUME Publish PROVE Stages'
    BY <1>12 DEF Publish, Goto
  <1>13. ASSUME RemoveRevoked PROVE Stages'
    BY <1>13 DEF RemoveRevoked, Goto
  <1>14. ASSUME ForgetRevoked PROVE Stages'
    BY <1>14 DEF ForgetRevoked, Goto
  <1>15. ASSUME EvictDone PROVE Stages'
    BY <1>15 DEF EvictDone, Goto
  <1>16. ASSUME NEW h \in Holds, EvictFile(h) PROVE Stages'
    BY <1>16 DEF EvictFile, Goto
  <1>17. ASSUME NEW h \in Holds, EvictRow(h) PROVE Stages'
    BY <1>17 DEF EvictRow, Goto
  <1>18. ASSUME NEW h \in Holds, Storing(h) PROVE Stages'
    BY <1>t, <1>18, StoringStep DEF OnlyStores, Fetching
  <1>19. ASSUME NEW h \in Holds, FileReady(h) PROVE Stages'
    BY <1>t, <1>19 DEF FileReady, Step, Fetching
  <1>20. ASSUME NEW h \in Holds, FileDenied(h) PROVE Stages'
    BY <1>t, <1>20 DEF FileDenied, Step, Fault, Fetching
  <1>21. ASSUME NEW h \in Holds, FailNoted(h) PROVE Stages'
    BY <1>t, <1>21 DEF FailNoted, Step, Fetching
  <1>22. ASSUME NEW h \in Holds, FileFails(h) PROVE Stages'
    BY <1>t, <1>22 DEF FileFails, Step, Fault, Fetching
  <1>23. ASSUME NEW j \in Jobs, Text(j) PROVE Stages'
    BY <1>23 DEF Text
  <1>24. ASSUME NEW j \in Jobs, TextFails(j) PROVE Stages'
    BY <1>24 DEF TextFails, Fault
  <1>25. ASSUME TextsDone PROVE Stages'
    BY <1>25 DEF TextsDone, Goto
  <1>26. ASSUME FilesDone PROVE Stages'
    BY <1>26 DEF FilesDone, Goto, Finished
  <1>27. ASSUME NEW n \in Notes, RevokeDenied(n) PROVE Stages'
    BY <1>27 DEF RevokeDenied
  <1>28. ASSUME Announce PROVE Stages'
    BY <1>28 DEF Announce, Goto, Finished
  <1>29. CASE UNCHANGED vars
    BY <1>29
  <1> QED
    BY <1>1, <1>2, <1>3, <1>4, <1>5, <1>6, <1>7, <1>8, <1>9, <1>10, <1>11, <1>12, <1>13, <1>14, <1>15, <1>16, <1>17, <1>18, <1>19, <1>20, <1>21, <1>22, <1>23, <1>24, <1>25, <1>26, <1>27, <1>28, <1>29 DEF Next, World, Time, Running, Worker

\* A worker is given the files that wait for one, and stores before it completes.
LEMMA WorkStep ==
    ASSUME TypeOK, [Next]_vars, NEW h \in Holds
    PROVE  /\ work'[h] \in AtWork => work[h] \in AtWork \/ h \in PendingFiles
           /\ work'[h] \in AtWork \ {"queued"} => work'[h] = work[h] \/ \E k \in Holds : Storing(k)
  <1>t. work \in [Holds -> WorkStages]
    BY DEF TypeOK
  <1>1. ASSUME NEW k \in Holds, Storing(k) PROVE work'[h] \in AtWork => work[h] \in AtWork
    BY <1>1, StoringStep DEF OnlyStores, AtWork, Writing
  <1>2. CASE ~\E k \in Holds : Storing(k)
    BY <1>t, <1>2 DEF AtWork, Writing, Idle, Next, World, Time, Running, Worker, vars, server, rows, cache, calls, plan, round,
         watch, bounds, Share, Change, NewVersion, Queue, Reset, Fault, Abort, Finished, Goto,
         BeginFails, RetryDue, ProbeDue, Begin, DownloadPending, Page, Publish, RemoveRevoked,
         ForgetRevoked, EvictDone, EvictFile, EvictRow, FileReady, Step, FileDenied,
         FailNoted, FileFails, Text, TextFails, TextsDone, FilesDone, RevokeDenied,
         Announce
  <1> QED
    BY <1>1, <1>2

\* A round that has published goes on until it announces.
LEMMA AfterStep ==
    ASSUME TypeOK, [Next]_vars
    PROVE  \/ Publish
           \/ pc' \notin AfterPublish
           \/ pc \in AfterPublish /\ base' = base /\ before' = before /\ told \subseteq told'
  <1> DEFINE Held == base' = base /\ before' = before /\ told \subseteq told'
  <1>1. CASE UNCHANGED <<round, watch>>
    BY <1>1 DEF round, plan, watch
  <1>2. CASE Abort \/ BeginFails
    BY <1>2 DEF Abort, BeginFails, Finished, Goto, AfterPublish
  <1>3. CASE World \/ Time
    BY <1>1, <1>2, <1>3 DEF World, Time, Share, NewVersion, Queue, Reset, RetryDue, ProbeDue
  <1>4. CASE Begin
    BY <1>4 DEF Begin, Goto, AfterPublish
  <1>5. CASE DownloadPending
    BY <1>5 DEF DownloadPending, Goto, plan, watch, AfterPublish
  <1>6. ASSUME NEW i \in Items(snap), Page(i) PROVE Held /\ pc' = pc
    BY <1>6 DEF Page, watch
  <1>7. CASE RemoveRevoked \/ ForgetRevoked \/ EvictDone
    BY <1>7 DEF RemoveRevoked, ForgetRevoked, EvictDone, plan, watch, AfterPublish
  <1>8. CASE TextsDone \/ FilesDone
    BY <1>8 DEF TextsDone, FilesDone, Finished, Goto, plan, watch, AfterPublish
  <1>9. ASSUME NEW h \in Holds, EvictFile(h) \/ EvictRow(h) PROVE Held /\ pc \in AfterPublish
    BY <1>9 DEF EvictFile, EvictRow, plan, watch, AfterPublish
  <1>10. ASSUME NEW h \in Holds, Worker(h) PROVE Held /\ pc' = pc
    BY <1>10, StoringStep DEF OnlyStores, Worker, FileReady, FileDenied, FailNoted, FileFails, Revoke, plan, watch
  <1>11. ASSUME NEW j \in Jobs, Text(j) \/ TextFails(j) PROVE Held /\ pc' = pc
    BY <1>11 DEF Text, TextFails, plan, watch
  <1>12. ASSUME NEW n \in Notes, RevokeDenied(n) PROVE Held /\ pc' = pc
    BY <1>12 DEF RevokeDenied, Revoke, plan, watch
  <1>13. CASE Announce
    BY <1>13 DEF Announce, Finished, Goto, AfterPublish
  <1> QED
    BY <1>1, <1>3, <1>4, <1>5, <1>6, <1>7, <1>8, <1>9, <1>10, <1>11, <1>12, <1>13 DEF Next, Running, vars

\* The version of a file is that of its generation.
LEMMA OneVersionStep ==
    ASSUME TypeOK, Generations, ReadyFile, Stages, OneVersion, [Next]_vars
    PROVE  OneVersion'
  <1>t. /\ gen \in Nat /\ \A h \in Holds : files[h].gen \in Nat /\ h[1] \in Notes
        /\ work \in [Holds -> WorkStages]
    BY SharedAssumption DEF TypeOK, FileRow
  <1>1. CASE Reset
    <2>1. work' = Idle
      BY <1>1 DEF Reset, round, Stages
    <2> QED
      BY <1>1, <2>1 DEF Reset, NoFile, OneVersion, Idle
  <1>2. CASE Publish
    <2>1. work' = Idle
      BY <1>2 DEF Publish, round, Stages
    <2>2. \A h \in Holds : files'[h].gen = gen' => files'[h].target = snap.ver[h[2]]
      BY <1>2, PublishStep
    <2> QED
      BY <2>1, <2>2 DEF OneVersion, Idle, AtWork, Writing
  <1>3. ASSUME gen' = gen,
               \A h \in Holds : files'[h].gen = files[h].gen /\ files'[h].target = files[h].target
        PROVE  OneVersion'
    <2>1. \A h, k \in Holds : h[2] = k[2] /\ files'[h].gen = gen' /\ files'[k].gen = gen'
                              => files'[h].target = files'[k].target
      BY <1>3 DEF OneVersion
    <2>2. ASSUME NEW h \in Holds, work'[h] \in AtWork PROVE files'[h].gen = gen'
      <3>1. work[h] \in AtWork \/ h \in PendingFiles
        BY <2>2, WorkStep
      <3>2. h \in PendingFiles => files[h].gen = gen
        BY DEF PendingFiles, Generations, OneGeneration
      <3> QED
        BY <1>3, <3>1, <3>2 DEF OneVersion
    <2> QED
      BY <2>1, <2>2 DEF OneVersion
  <1>4. ASSUME NEW n \in Notes, Revoke(n), gen' = gen PROVE OneVersion'
    <2>1. \A h \in Holds : files'[h].gen = files[h].gen /\ files'[h].target = files[h].target
      BY <1>4, RevokeStep
    <2> QED
      BY <1>3, <1>4, <2>1
  <1>5. CASE Kept
    BY <1>3, <1>5 DEF Kept, LastingFile
  <1> QED
    BY <1>1, <1>2, <1>4, <1>5, RowsStep

\* Whatever else is done to the rows while workers run, theirs keep the version
\* they are after.
LEMMA StoredTarget ==
    ASSUME TypeOK, Stages, [Next]_vars, NEW h \in Holds, work[h] \in AtWork
    PROVE  files'[h].target = files[h].target /\ pc \in {"files", "only files"}
  <1>1. work # Idle /\ work[h] # "evicted" /\ work[h] # "none"
    BY DEF Idle, AtWork, Writing
  <1>2. pc \in {"files", "only files"}
    BY <1>1 DEF Stages
  <1>3. ~Reset /\ ~Publish
    BY <1>2 DEF Reset, Publish
  <1>4. ASSUME NEW n \in Notes, Revoke(n) PROVE files'[h].target = files[h].target
    BY <1>4, RevokeStep
  <1> QED
    BY <1>2, <1>3, <1>4, RowsStep DEF Kept, LastingFile

\* Workers write what the others write, so none finds bytes of another version.
LEMMA StoringKeepsStored ==
    ASSUME TypeOK, OneVersion, StoredFile, NEW k \in Holds, Storing(k), NEW h \in Holds
    PROVE  InPlace(h)'
  <1>t. /\ disk \in [Files -> Versions \cup {None, Torn}] /\ tmp \in [Files -> Versions \cup {None, Torn}]
        /\ work \in [Holds -> WorkStages] /\ ver \in [Notes \cup Files -> Versions]
        /\ None \notin Versions /\ Torn \notin Versions \cup {None} /\ h[2] \in Files /\ k[2] \in Files
    BY SharedAssumption DEF TypeOK
  <1>1. files' = files
    BY StoringStep DEF OnlyStores, rows
  <1> DEFINE target == files[h].target
             Goal == /\ work'[h] \in Writing \cup {"written", "stored"} => target \in Versions
                     /\ work'[h] = "writing" => tmp'[h[2]] \in {Torn, target}
                     /\ work'[h] = "trailing" => disk'[h[2]] \in {Torn, target}
                     /\ work'[h] \in {"trailing", "lost", "written"} => tmp'[h[2]] \in {None, Torn, target}
                     /\ work'[h] \in {"trailing", "lost", "written"} /\ tmp'[h[2]] = Torn => HeldTwice(h)
                     /\ work'[h] = "stored" => disk'[h[2]] \in {Torn, target}
                     /\ work'[h] = "stored" /\ disk'[h[2]] = Torn => HeldTwice(h)
  <1>2. SUFFICES Goal
    BY <1>1 DEF InPlace, HeldTwice
  <1> USE DEF Writing
  <1>3. h # k /\ h[2] = k[2] => HeldTwice(h) /\ HeldTwice(k)
    BY DEF HeldTwice
  <1>4. h[2] = k[2] /\ work[h] \in AtWork /\ work[k] \in AtWork => target = files[k].target
    BY DEF OneVersion
  <1>i. InPlace(h) /\ InPlace(k)
    BY DEF StoredFile
  <1>5. CASE FileOpened(k)
    <2>1. /\ tmp' = [tmp EXCEPT ![k[2]] = Torn] /\ disk' = disk
          /\ work' = [work EXCEPT ![k] = "writing"] /\ files[k].target \in Versions
      BY <1>t, <1>5 DEF FileOpened, Step, FileAnswers
    <2>2. CASE h = k
      BY <1>t, <2>1, <2>2
    <2>3. CASE h # k
      <3>1. work'[h] = work[h] /\ (h[2] # k[2] => tmp'[h[2]] = tmp[h[2]]) /\ (h[2] = k[2] => tmp'[h[2]] = Torn)
        BY <1>t, <2>1, <2>3
      <3> QED
        BY <1>3, <1>i, <2>1, <2>3, <3>1 DEF InPlace
    <2> QED
      BY <2>2, <2>3
  <1>6. CASE FileWritten(k)
    <2>1. work' = [work EXCEPT ![k] = "written"] /\ work[k] \in Writing
      BY <1>6 DEF FileWritten, Step
    <2>2. /\ files[k].target \in Versions
          /\ work[k] = "writing" => tmp[k[2]] \in {Torn, files[k].target}
          /\ work[k] = "trailing" => disk[k[2]] \in {Torn, files[k].target}
          /\ work[k] \in {"trailing", "lost"} => tmp[k[2]] \in {None, Torn, files[k].target}
          /\ work[k] \in {"trailing", "lost"} /\ tmp[k[2]] = Torn => HeldTwice(k)
      BY <1>i, <2>1 DEF InPlace
    <2>3. ASSUME NEW b, b \in Ended(k, Torn) \/ b \in Ended(k, files[k].target)
          PROVE  b \in {Torn, files[k].target} /\ (b = Torn => HeldTwice(k))
      BY <1>t, <2>2, <2>3 DEF Ended, Company, HeldTwice
    <2>4. CASE work[k] = "writing"
      <3>1. PICK b : /\ disk' = disk /\ tmp' = [tmp EXCEPT ![k[2]] = b]
                     /\ b \in {Torn, files[k].target} /\ (b = Torn => HeldTwice(k))
        BY <1>6, <2>2, <2>3, <2>4 DEF FileWritten
      <3>2. /\ h = k => work'[h] = "written" 
            /\ h # k => work'[h] = work[h]
            /\ h[2] = k[2] => tmp'[h[2]] = b
            /\ h[2] # k[2] => tmp'[h[2]] = tmp[h[2]]
        BY <1>t, <2>1, <3>1
      <3>3. CASE h = k
        BY <2>2, <3>1, <3>2, <3>3
      <3>4. CASE h # k /\ h[2] = k[2]
        BY <1>3, <1>4, <1>i, <2>1, <3>1, <3>2, <3>4 DEF InPlace, AtWork
      <3>5. CASE h[2] # k[2]
        BY <1>i, <3>1, <3>2, <3>5 DEF InPlace
      <3> QED
        BY <3>3, <3>4, <3>5
    <2>5. CASE work[k] = "trailing"
      <3>1. PICK b : /\ tmp' = tmp /\ disk' = [disk EXCEPT ![k[2]] = b]
                     /\ b \in {Torn, files[k].target} /\ (b = Torn => HeldTwice(k))
        BY <1>6, <2>2, <2>3, <2>5 DEF FileWritten
      <3>2. /\ h = k => work'[h] = "written" 
            /\ h # k => work'[h] = work[h]
            /\ h[2] = k[2] => disk'[h[2]] = b
            /\ h[2] # k[2] => disk'[h[2]] = disk[h[2]]
        BY <1>t, <2>1, <3>1
      <3>3. CASE h = k
        BY <2>2, <2>5, <3>1, <3>2, <3>3
      <3>4. CASE h # k /\ h[2] = k[2]
        BY <1>3, <1>4, <1>i, <2>1, <3>1, <3>2, <3>4 DEF InPlace, AtWork
      <3>5. CASE h[2] # k[2]
        BY <1>i, <3>1, <3>2, <3>5 DEF InPlace
      <3> QED
        BY <3>3, <3>4, <3>5
    <2>6. CASE work[k] = "lost"
      <3>1. tmp' = tmp /\ disk' = disk
        BY <1>6, <2>6 DEF FileWritten, store
      <3> QED
        BY <1>t, <1>i, <2>1, <2>2, <2>6, <3>1 DEF InPlace
    <2> QED
      BY <2>1, <2>4, <2>5, <2>6
  <1>7. CASE WriteFails(k) \/ NotNamed(k)
    <2>1. tmp' = tmp /\ disk' = disk /\ work'[h] \in {work[h], "failing", "unnamed"}
      BY <1>t, <1>7 DEF WriteFails, NotNamed, Step, cache, store
    <2> QED
      BY <1>i, <2>1 DEF InPlace
  <1>8. CASE FileNamed(k)
    <2>1. /\ disk' = [disk EXCEPT ![k[2]] = tmp[k[2]]] /\ tmp' = [tmp EXCEPT ![k[2]] = None]
          /\ work[k] = "written" /\ tmp[k[2]] # None
      BY <1>8 DEF FileNamed
    <2>2. /\ h = k => work'[h] = "stored"
          /\ h # k /\ h[2] # k[2] => work'[h] = work[h]
          /\ h # k /\ h[2] = k[2] => \/ work[h] = "writing" /\ work'[h] = "trailing"
                                     \/ work[h] = "trailing" /\ work'[h] = "lost"
                                     \/ work[h] \notin {"writing", "trailing"} /\ work'[h] = work[h]
      BY <1>8 DEF FileNamed
    <2>3. /\ tmp[k[2]] \in {Torn, files[k].target} /\ (tmp[k[2]] = Torn => HeldTwice(k))
          /\ files[k].target \in Versions
      BY <1>i, <2>1 DEF InPlace
    <2>4. /\ h[2] = k[2] => disk'[h[2]] = tmp[k[2]] /\ tmp'[h[2]] = None
          /\ h[2] # k[2] => disk'[h[2]] = disk[h[2]] /\ tmp'[h[2]] = tmp[h[2]]
      BY <1>t, <2>1
    <2>5. CASE h = k
      BY <1>t, <2>2, <2>3, <2>4, <2>5
    <2>6. CASE h # k /\ h[2] = k[2]
      BY <1>t, <1>3, <1>4, <1>i, <2>1, <2>2, <2>3, <2>4, <2>6 DEF InPlace, AtWork
    <2>7. CASE h[2] # k[2]
      BY <1>i, <2>2, <2>4, <2>7 DEF InPlace
    <2> QED
      BY <2>5, <2>6, <2>7
  <1>9. CASE TmpRemoved(k)
    <2>1. /\ tmp' = [tmp EXCEPT ![k[2]] = None] /\ disk' = disk
          /\ h = k => work'[h] = "failing"
          /\ h # k /\ h[2] # k[2] => work'[h] = work[h]
          /\ h # k /\ h[2] = k[2] => \/ work[h] = "writing" /\ work'[h] = "lost"
                                     \/ work[h] # "writing" /\ work'[h] = work[h]
      BY <1>9 DEF TmpRemoved
    <2>2. /\ h[2] = k[2] => tmp'[h[2]] = None
          /\ h[2] # k[2] => tmp'[h[2]] = tmp[h[2]]
      BY <1>t, <2>1
    <2>3. CASE h[2] = k[2]
      BY <1>t, <1>i, <2>1, <2>2, <2>3 DEF InPlace
    <2>4. CASE h[2] # k[2]
      BY <1>i, <2>1, <2>2, <2>4 DEF InPlace
    <2> QED
      BY <2>3, <2>4
  <1> QED
    BY <1>5, <1>6, <1>7, <1>8, <1>9 DEF Storing

\* Two workers that store the same file store the same bytes.
LEMMA StoredFileStep ==
    ASSUME TypeOK, Generations, Stages, OneVersion, StoredFile, [Next]_vars
    PROVE  StoredFile'
  <1>1. SUFFICES ASSUME NEW h \in Holds PROVE InPlace(h)'
    BY DEF StoredFile
  <1>2. ASSUME NEW k \in Holds, Storing(k) PROVE InPlace(h)'
    BY <1>2, StoringKeepsStored
  <1>3. ASSUME ~\E k \in Holds : Storing(k) PROVE InPlace(h)'
    <2>1. CASE work'[h] \notin AtWork \ {"queued"}
      BY <2>1 DEF AtWork, Writing, InPlace
    <2>2. CASE work'[h] \in AtWork \ {"queued"}
      <3>1. work'[h] = work[h] /\ work[h] \in AtWork
        BY <1>3, <2>2, WorkStep
      <3>2. files'[h].target = files[h].target /\ pc \in {"files", "only files"}
        BY <3>1, StoredTarget
      <3>3. disk' = disk /\ tmp' = tmp
        BY <1>3, <3>2, DiskWriters DEF Reset, RemoveRevoked, ForgetRevoked, EvictFile, store
      <3> QED
        BY <3>1, <3>2, <3>3 DEF StoredFile, InPlace, HeldTwice
    <2> QED
      BY <2>1, <2>2
  <1> QED
    BY <1>2, <1>3

\* What is ready was ready, or has just been completed.
LEMMA ReadyFrom ==
    ASSUME TypeOK, Generations, ReadyFile, [Next]_vars, NEW h \in Holds, files'[h].state = "ready"
    PROVE  \/ files[h].state = "ready" /\ files'[h].target = files[h].target
           \/ FileReady(h) /\ files'[h].target = files[h].target
  <1>t. files \in [Holds -> FileRow] /\ {"ready", "pending"} \subseteq FileStates
    BY DEF TypeOK, FileStates
  <1> DEFINE P == \/ files[h].state = "ready" /\ files'[h].target = files[h].target
                  \/ FileReady(h) /\ files'[h].target = files[h].target
  <1>1. CASE UNCHANGED <<gen, files>>
    BY <1>1
  <1>2. CASE Reset
    BY <1>2 DEF Reset, NoFile
  <1>3. CASE Publish
    BY <1>3, PublishStep
  <1>4. CASE RetryDue
    BY <1>4, RetryStep
  <1>5. CASE ForgetRevoked
    BY <1>5, ForgetStep
  <1>6. ASSUME NEW f \in Attachments, Queue(f) PROVE P
    BY <1>6, QueueStep
  <1>7. ASSUME NEW k \in Holds, EvictRow(k) PROVE P
    <2>1. files' = [files EXCEPT ![k] = [@ EXCEPT !.path = FALSE, !.state = "pending"]]
      BY <1>7, FileSteps
    <2>2. files'[k].state = "pending" /\ \A x \in Holds : x # k => files'[x] = files[x]
      BY <1>t, <2>1, PathStep
    <2> QED
      BY <2>2
  <1>8. ASSUME NEW k \in Holds, FileReady(k) PROVE P
    <2>1. CASE files' = files
      BY <2>1
    <2>2. CASE files' = [files EXCEPT ![k] = [@ EXCEPT !.path = TRUE, !.state = "ready"]]
      <3>1. files'[k].target = files[k].target /\ \A x \in Holds : x # k => files'[x] = files[x]
        BY <1>t, <2>2, PathStep
      <3> QED
        BY <1>8, <3>1
    <2> QED
      BY <1>8, <2>1, <2>2, FileSteps
  <1>9. ASSUME NEW k \in Holds, FileDenied(k) PROVE P
    <2>1. Revoke(k[1]) /\ k[1] \in Notes
      BY <1>9, FileSteps
    <2> QED
      BY <2>1, RevokeStep
  <1>10. ASSUME NEW k \in Holds, FailNoted(k) \/ FileFails(k) PROVE P
    BY <1>10, FileSteps, FailedStep
  <1>11. ASSUME NEW n \in Notes, RevokeDenied(n) PROVE P
    BY <1>11, RevokeStep DEF RevokeDenied
  <1> QED
    BY <1>1, <1>2, <1>3, <1>4, <1>5, <1>6, <1>7, <1>8, <1>9, <1>10, <1>11, FilesWriters

\* The cleaning takes no file that a row of another note still offers.
LEMMA ReadyOnDiskStep ==
    ASSUME TypeOK, Generations, Stages, ReadyFile, OneVersion, StoredFile, ReadyOnDisk, [Next]_vars
    PROVE  ReadyOnDisk'
  <1>t. /\ disk \in [Files -> Versions \cup {None, Torn}]
        /\ None \notin Versions /\ Torn \notin Versions \cup {None} /\ \A h \in Holds : h[2] \in Files
        /\ Images \cap Attachments = {}
    BY SharedAssumption DEF TypeOK
  <1> DEFINE OnDisk(h) == /\ h[2] \in Images => disk'[h[2]] # None
                          /\ disk'[h[2]] \in {None, Torn, files'[h].target}
                          /\ disk'[h[2]] = Torn => HeldTwice(h)
  <1>1. SUFFICES ASSUME NEW h \in Holds, files'[h].state = "ready"
                 PROVE  OnDisk(h)
    BY DEF ReadyOnDisk, HeldTwice
  <1>2. \/ files[h].state = "ready" /\ files'[h].target = files[h].target
        \/ FileReady(h) /\ files'[h].target = files[h].target
    BY <1>1, ReadyFrom
  <1>3. CASE disk' = disk
    <2>1. FileReady(h) => /\ disk[h[2]] # None /\ disk[h[2]] \in {Torn, files[h].target}
                          /\ disk[h[2]] = Torn => HeldTwice(h)
      BY <1>t DEF FileReady, StoredFile, InPlace
    <2> QED
      BY <1>2, <1>3, <2>1 DEF ReadyOnDisk
  <1>4. CASE Reset
    BY <1>1, <1>4 DEF Reset, NoFile
  <1>5. CASE RemoveRevoked
    <2>1. files' = files /\ disk' = [f \in Files |-> IF f \in Reclaimable THEN None ELSE disk[f]]
      BY <1>5 DEF RemoveRevoked, rows
    <2>2. h[2] \notin Reclaimable
      BY <1>1, <2>1 DEF Reclaimable, ReadyFile
    <2> QED
      BY <1>t, <1>1, <2>1, <2>2 DEF ReadyOnDisk
  <1>6. ASSUME NEW k \in Holds, EvictFile(k) PROVE OnDisk(h)
    <2>1. files' = files /\ disk' = [disk EXCEPT ![k[2]] = None] /\ k[2] \in Attachments
      BY <1>6 DEF EvictFile, rows, Stages
    <2>2. CASE h[2] = k[2]
      BY <1>t, <2>1, <2>2
    <2>3. CASE h[2] # k[2]
      BY <1>t, <1>1, <2>1, <2>3 DEF ReadyOnDisk
    <2> QED
      BY <2>2, <2>3
  <1>7. ASSUME NEW k \in Holds, Storing(k) PROVE OnDisk(h)
    <2>1. files' = files
      BY <1>7, StoringStep DEF OnlyStores, rows
    <2>2. files[h].gen = gen /\ (work[k] \in AtWork => files[k].gen = gen)
      BY <1>1, <2>1 DEF ReadyFile, Generations, OneGeneration, OneVersion
    <2>3. h[2] = k[2] /\ work[k] \in AtWork => files[h].target = files[k].target
      BY <2>2 DEF OneVersion
    <2>4. k # h /\ h[2] = k[2] => HeldTwice(h)
      BY DEF HeldTwice
    <2>5. CASE disk' = disk
      BY <1>3, <2>5
    <2>6. CASE FileWritten(k) /\ work[k] = "trailing"
      <3>1. /\ disk[k[2]] \in {Torn, files[k].target} /\ files[k].target \in Versions
            /\ work[k] \in AtWork
        BY <2>6 DEF StoredFile, InPlace, Writing, AtWork
      <3>2. PICK b \in Ended(k, disk[k[2]]) : disk' = [disk EXCEPT ![k[2]] = b]
        BY <2>6 DEF FileWritten
      <3>3. b \in {Torn, files[k].target} /\ (b = Torn => HeldTwice(k))
        BY <1>t, <3>1, <3>2 DEF Ended, Company, HeldTwice
      <3>4. CASE h[2] = k[2]
        BY <1>t, <2>1, <2>3, <2>4, <3>1, <3>2, <3>3, <3>4
      <3>5. CASE h[2] # k[2]
        BY <1>t, <1>1, <2>1, <3>2, <3>5 DEF ReadyOnDisk
      <3> QED
        BY <3>4, <3>5
    <2>7. CASE FileNamed(k)
      <3>1. /\ disk' = [disk EXCEPT ![k[2]] = tmp[k[2]]] /\ tmp[k[2]] # None /\ work[k] = "written"
            /\ work[k] \in AtWork
        BY <2>7 DEF FileNamed, AtWork
      <3>2. tmp[k[2]] \in {Torn, files[k].target} /\ (tmp[k[2]] = Torn => HeldTwice(k))
        BY <3>1 DEF StoredFile, InPlace
      <3>4. CASE h[2] = k[2]
        BY <1>t, <2>1, <2>3, <2>4, <3>1, <3>2, <3>4
      <3>5. CASE h[2] # k[2]
        BY <1>t, <1>1, <2>1, <3>1, <3>5 DEF ReadyOnDisk
      <3> QED
        BY <3>4, <3>5
    <2> QED
      BY <1>7, <2>5, <2>6, <2>7
      DEF Storing, FileOpened, FileWritten, WriteFails, NotNamed, TmpRemoved, cache, store
  <1>8. CASE ForgetRevoked
    BY <1>3, <1>8 DEF ForgetRevoked
  <1> QED
    BY <1>3, <1>4, <1>5, <1>6, <1>7, <1>8, DiskWriters DEF store

\* Who is hidden by the publication keeps the generation that was replaced, who
\* is hidden later has been told.
LEMMA OwedStep ==
    ASSUME TypeOK, Generations, ReadyFile, Stages, Owed, [Next]_vars
    PROVE  Owed'
  <1> USE DEF Visible
  <1>1. CASE Publish
    <2>1. /\ before' = {n \in Notes : ~notes[n].revoked} /\ base' = base /\ base = gen
      BY <1>1 DEF Publish, View, Stages
    <2>2. \A n \in Notes : ~notes[n].revoked => notes[n].gen = gen
      BY DEF Generations, OneGeneration
    <2>3. \A n \in Notes : notes'[n].revoked => notes'[n].gen = notes[n].gen
      BY <1>1, PublishStep
    <2> QED
      BY <2>1, <2>2, <2>3 DEF Owed
  <1>2. CASE pc' \notin AfterPublish
    BY <1>2 DEF Owed
  <1>3. ASSUME pc \in AfterPublish, base' = base, before' = before, told \subseteq told', ~Publish
        PROVE  Owed'
    <2>1. ~Reset
      BY <1>3 DEF Reset, AfterPublish
    <2>2. before \subseteq Notes /\ \A n \in before : notes[n].revoked => n \in told \/ notes[n].gen = base
      BY <1>3 DEF Owed, TypeOK
    <2>3. ASSUME NEW n \in Notes, Revoke(n), told' = told \cup {n} PROVE Owed'
      BY <1>3, <2>2, <2>3, RevokeStep DEF Owed
    <2>4. CASE Kept
      BY <1>3, <2>2, <2>4 DEF Owed, Kept, Lasting
    <2> QED
      BY <1>3, <2>1, <2>3, <2>4, RowsStep
  <1> QED
    BY <1>1, <1>2, <1>3, AfterStep

\* The invariant holds at the start.
LEMMA InitInvariant == ASSUME Init PROVE IInv
  <1>1. TypeOK
    BY InitType
  <1>2. Generations /\ OneVersion
    BY SharedAssumption DEF Init, Generations, OneGeneration, OneVersion, Visible, NoNote, NoFile, Idle
  <1>3. Stages /\ ReadyFile /\ StoredFile /\ ReadyOnDisk /\ Owed /\ ReadyIsTarget
    BY DEF Init, Stages, ReadyFile, StoredFile, InPlace, Writing, ReadyOnDisk, Owed, AfterPublish, ReadyIsTarget,
           NoNote, NoFile, Idle
  <1> QED
    BY <1>1, <1>2, <1>3 DEF IInv

\* Every step keeps it.
LEMMA StepInvariant == ASSUME IInv, [Next]_vars PROVE IInv'
  BY TypeStep, GenerationsStep, StagesStep, ReadyIsTargetStep, ReadyFileStep, OneVersionStep,
     StoredFileStep, ReadyOnDiskStep, OwedStep DEF IInv

-----------------------------------------------------------------------------
(* Theorems                                                                *)

\* The inductive invariant holds in every reachable state.
THEOREM Invariant == Spec => []IInv
  BY InitInvariant, StepInvariant, PTL DEF Spec

\* Every variable keeps its type.
THEOREM TypeCorrect == Spec => []TypeOK
  <1>1. IInv => TypeOK
    BY DEF IInv
  <1> QED
    BY <1>1, Invariant, PTL

\* Readers see the rows of one publication, and files of visible notes only
\* (db/shared_repo.go:36).
THEOREM ReadersSeeOneGeneration == Spec => []OneGeneration
  <1>1. IInv => OneGeneration
    BY DEF IInv, Generations
  <1> QED
    BY <1>1, Invariant, PTL

\* A text marked ready is the one the published snapshot names
\* (CompleteSharedContent compares the version).
THEOREM ReadyTextIsPublished == Spec => []ReadyIsTarget
  <1>1. IInv => ReadyIsTarget
    BY DEF IInv
  <1> QED
    BY <1>1, Invariant, PTL

\* A readable image is on disk, and nobody reads bytes of another version:
\* cleaning, eviction and the downloads of several notes that hold the same
\* file leave each other's rows true (reclaimCache, downloadSharedFiles).
THEOREM ReadableFilesOnDisk == Spec => []ReadableOnDisk
  <1>1. IInv => ReadableOnDisk
    BY DEF IInv, ReadyOnDisk, ReadableOnDisk, Readable
  <1> QED
    BY <1>1, Invariant, PTL

\* What LossAnnounced says of one step.
Telling == Announce => \A n \in before : ~Visible(n) /\ notes[n].cached # None => n \in told'

\* Whoever could read a note before the publication and cannot read it after
\* it is told by the end of the round (OnRevocation).
THEOREM LossIsAnnounced == Spec => LossAnnounced
  <1>1. ASSUME IInv, [Next]_vars PROVE [Telling]_vars
    <2>1. SUFFICES ASSUME Announce, NEW n \in before, ~Visible(n), notes[n].cached # None
                   PROVE  n \in told'
      BY DEF Telling
    <2>2. pc = "revoke" /\ told' = told \cup Announced
      BY <2>1 DEF Announce
    <2>3. n \in told \/ notes[n].gen = base
      BY <1>1, <2>1, <2>2 DEF IInv, Owed, AfterPublish
    <2>4. n \in Notes
      BY <1>1, <2>1 DEF IInv, TypeOK
    <2> QED
      BY <2>1, <2>2, <2>3, <2>4 DEF Announced, Visible
  <1> QED
    BY <1>1, Invariant, PTL DEF Spec, LossAnnounced, Telling

-----------------------------------------------------------------------------
(* The service implements SharedView                                       *)

\* At first nothing is offered, seen or barred.
LEMMA InitRefines == ASSUME Init PROVE Promise!Init
  BY DEF Init, Promise!Init, View, Visible, Barred, NoNote

\* A publication shows the snapshot less the notes that were denied.
LEMMA PublishRefines ==
    ASSUME IInv, Publish
    PROVE  View' = snap.notes \ Barred /\ Barred' = {} /\ snap' = snap
  <1>1. TypeOK /\ Generations /\ ReadyFile /\ Complete /\ snap.notes \subseteq Notes
    BY DEF IInv, Publish, TypeOK, Snapshot
  <1>2. \A n \in Notes : /\ ~notes'[n].revoked <=> n \in staged /\ ~(notes[n].revoked /\ notes[n].gen = gen + 1)
                         /\ notes'[n].gen <= gen' /\ notes'[n].gen \in Nat
    BY <1>1, PublishStep DEF NoteRow
  <1>3. \A n \in Notes : n \in staged <=> n \in snap.notes
    BY <1>1, StagedNotes
  <1>4. gen \in Nat /\ gen' = gen + 1
    BY <1>1 DEF TypeOK, Publish
  <1>5. \A n \in Notes : notes'[n].gen # gen' + 1
    BY <1>2, <1>4
  <1> QED
    BY <1>1, <1>2, <1>3, <1>5 DEF View, Visible, Barred, Publish, plan

\* A step of the service is a step of SharedView, or none.
LEMMA StepRefines == ASSUME IInv, [Next]_vars PROVE [Promise!Next]_(Promise!vars)
  <1> USE DEF Promise!Next, Promise!vars, Promise!Offer, Promise!Publish, Promise!Deny, Promise!Forget
  <1>t. TypeOK /\ Generations /\ ReadyFile
    BY DEF IInv
  <1>1. CASE Reset
    <2>1. View' = {} /\ Barred' = {} /\ snap' = snap
      BY <1>1 DEF Reset, View, Visible, Barred, NoNote, round, plan
    <2> QED
      BY <2>1
  <1>2. CASE Publish
    BY <1>2, PublishRefines
  <1>3. ASSUME NEW n \in Notes, Revoke(n), gen' = gen, snap' = snap
        PROVE  Promise!Deny(n)
    <2>1. /\ notes'[n].gen = gen + 1 /\ notes'[n].revoked
          /\ \A m \in Notes : m # n => notes'[m] = notes[m]
      BY <1>t, <1>3, RevokeStep
    <2>2. View' = View \ {n} /\ Barred' = Barred \cup {n}
      BY <1>3, <2>1 DEF View, Visible, Barred
    <2> QED
      BY <1>3, <2>2
  <1>4. CASE Kept
    <2>1. View' = View /\ Barred' = Barred
      BY <1>4 DEF Kept, Lasting, View, Visible, Barred
    <2>2. snap'.notes \in SUBSET Notes
      BY <1>t, SnapType DEF Snapshot
    <2> QED
      BY <2>1, <2>2
  <1> QED
    BY <1>t, <1>1, <1>2, <1>3, <1>4, RowsStep

\* What readers see is always the notes of one complete snapshot, less those
\* the server has denied: the tables of db/shared_repo.go keep the promise of
\* SharedView.
THEOREM Implements == Spec => OneSnapshot
  BY InitRefines, StepRefines, Invariant, PTL DEF Spec, OneSnapshot, Promise!Spec

=============================================================================
