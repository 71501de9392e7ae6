------------------------ MODULE MediaDownloadsProofs -------------------------
(***************************************************************************)
(* Proofs about MediaDownloads, for any set of files, pool, capacity and   *)
(* bounds: what a batch leaves on disk and in the tables, that nothing     *)
(* comes after a stop, and that who has waited for an image finds it.      *)
(***************************************************************************)
EXTENDS MediaDownloads, FiniteSetTheorems, TLAPS

-----------------------------------------------------------------------------
(* The inductive invariant                                                 *)

\* Workers that hold a job, and those whose result is known.
Carries(w) == pool[w].at \in {"fetch", "send"}
Fetched(w) == pool[w].at = "send"

\* A job is in one place: in the queue, with one worker, once among the
\* results, or with the writer.
OnePlace ==
    /\ \A w \in Workers : Carries(w) => pool[w].result # None /\ pool[w].result.job \notin queue
    /\ \A w, x \in Workers : Carries(w) /\ Carries(x) /\ w # x => pool[w].result.job # pool[x].result.job
    /\ \A i \in 1..Len(out) : /\ out[i].job \notin queue
                              /\ \A k \in 1..Len(out) : i # k => out[i].job # out[k].job
                              /\ \A w \in Workers : Carries(w) => pool[w].result.job # out[i].job
    /\ writer # None => /\ writer.job \notin queue
                        /\ \A i \in 1..Len(out) : out[i].job # writer.job
                        /\ \A w \in Workers : Carries(w) => pool[w].result.job # writer.job

\* No row names the file of a job that is still in one of these places, and no
\* failed write has left one before the answer.
NotYetNamed ==
    /\ \A j \in queue : rows[j] # gen /\ <<gen, j>> \notin partial
    /\ \A w \in Workers : Carries(w) => rows[pool[w].result.job] # gen
    /\ \A w \in Workers : pool[w].at = "fetch" => <<gen, pool[w].result.job>> \notin partial
    /\ \A i \in 1..Len(out) : rows[out[i].job] # gen
    /\ writer # None => rows[writer.job] # gen

\* The result of a job that is on its way to the writer satisfies R.
InFlight(j, kinds) ==
    \/ \E w \in Workers : Fetched(w) /\ pool[w].result.job = j /\ pool[w].result.kind \in kinds
    \/ \E i \in 1..Len(out) : out[i].job = j /\ out[i].kind \in kinds
    \/ writer # None /\ writer.job = j /\ writer.kind \in kinds

\* Files belong to batches that were started; the whole ones of this batch are
\* named by a row or on their way; rows, and results, name files that are there
\* and whole.
FilesKnown ==
    /\ \A j \in Jobs : rows[j] <= gen
    /\ \A j \in Jobs : rows[j] # 0 => <<rows[j], j>> \in files \ partial
    /\ partial \subseteq files /\ \A f \in files : f[1] <= gen
    /\ \A j \in Jobs : <<gen, j>> \in files \ partial => rows[j] = gen \/ InFlight(j, {"file"})
    /\ \A j \in Jobs : InFlight(j, {"file"}) => <<gen, j>> \in files \ partial

\* A batch that is over, or was never started, has nobody at work.
Quiet ==
    /\ ~batch.on => batch.done
    /\ batch.done => /\ \A w \in Workers : pool[w].at = "off"
                     /\ out = <<>> /\ writer = None
    /\ ~batch.done => gen > 0

\* What became of a job of this batch: a row names its file, it failed, or the
\* batch was cut off.
Settled(j) == rows[j] # 0 \/ j \in broken \/ gen \in cut

\* Every job of the batch is settled or still in one of the places; a channel
\* is closed for a settled job; and a viewer waits for a job of this batch, or
\* for one an earlier batch has settled.
Served ==
    /\ batch.cancelled => batch.done \/ gen \in cut
    /\ writer # None /\ ~writer.keep => gen \in cut
    /\ \A j \in Jobs : InFlight(j, {"missing", "error"}) => j \in broken
    /\ queue # {} => gen \in cut \/ \E w \in Workers : pool[w].at # "off"
    /\ \A j \in batch.jobs :
         \/ Settled(j) \/ j \in queue
         \/ InFlight(j, {"file", "missing", "error"})
         \/ \E w \in Workers : pool[w].at = "fetch" /\ pool[w].result.job = j
    /\ \A j \in ready : Settled(j)
    /\ \A v \in Viewers : viewers[v].gen # 0 =>
         /\ viewers[v].job \in Images /\ viewers[v].gen <= gen
         /\ viewers[v].gen = gen => viewers[v].job \in batch.jobs
         /\ viewers[v].gen < gen => \/ rows[viewers[v].job] # 0
                                    \/ viewers[v].job \in broken
                                    \/ viewers[v].gen \in cut

IInv == TypeOK /\ OnePlace /\ NotYetNamed /\ FilesKnown /\ Quiet /\ Served

-----------------------------------------------------------------------------
(* The steps                                                               *)

\* A counter that is counted stays one.
LEMMA CountedType ==
    ASSUME count \in [Counters -> Nat], NEW c \in Counters, Counted(c)
    PROVE  count' \in [Counters -> Nat]
  BY DEF Counted

\* Giving a job another stage or result keeps the type of the pool.
LEMMA PutType ==
    ASSUME pool \in [Workers -> Worker], NEW w \in Workers,
           NEW at \in {"off", "idle", "fetch", "send"}, NEW r \in Result \cup {None}, Put(w, at, r)
    PROVE  /\ pool' \in [Workers -> Worker]
           /\ pool'[w] = [at |-> at, result |-> r]
           /\ \A x \in Workers : x # w => pool'[x] = pool[x]
  BY DEF Put, Worker

\* A result that learns how its job went is about the same job.
LEMMA KindType ==
    ASSUME NEW r \in Result, NEW k \in {"file", "missing", "error"}
    PROVE  /\ [r EXCEPT !.kind = k] \in Result
           /\ [r EXCEPT !.kind = k].job = r.job
           /\ [r EXCEPT !.kind = k].kind = k
  BY DEF Result

\* The result the writer takes over, and those it leaves.
LEMMA HeadTail ==
    ASSUME NEW S, NEW s \in Seq(S), s # <<>>
    PROVE  /\ Len(s) \in Nat \ {0} /\ Head(s) \in S /\ Head(s) = s[1]
           /\ Tail(s) \in Seq(S) /\ Len(Tail(s)) = Len(s) - 1
           /\ \A i \in 1..Len(Tail(s)) : i + 1 \in 1..Len(s) /\ i + 1 # 1 /\ Tail(s)[i] = s[i + 1]
  OBVIOUS

\* The results with one more at the end.
LEMMA Appended ==
    ASSUME NEW S, NEW s \in Seq(S), NEW e \in S
    PROVE  /\ Append(s, e) \in Seq(S) /\ Len(Append(s, e)) = Len(s) + 1
           /\ \A i \in 1..Len(Append(s, e)) : i \in 1..Len(s) \/ i = Len(s) + 1
           /\ \A i \in 1..Len(s) : Append(s, e)[i] = s[i]
           /\ Append(s, e)[Len(s) + 1] = e
  <1>1. Append(s, e) \in Seq(S) /\ Len(Append(s, e)) = Len(s) + 1 /\ Len(s) \in Nat
    OBVIOUS
  <1>2. \A i \in 1..Len(s) + 1 : i \in 1..Len(s) \/ i = Len(s) + 1
    BY <1>1
  <1> QED
    BY <1>1, <1>2

\* No result is the absence of one.
LEMMA ResultNone ==
    ASSUME MediaAssumption
    PROVE  None \notin Result
  BY DEF MediaAssumption

\* A job whose result is in sight is a job.
LEMMA JobType ==
    ASSUME TypeOK, OnePlace
    PROVE  /\ \A w \in Workers : Carries(w) => pool[w].result \in Result /\ pool[w].result.job \in Jobs
           /\ \A i \in 1..Len(out) : out[i] \in Result /\ out[i].job \in Jobs
           /\ writer # None => writer \in Result /\ writer.job \in Jobs
  <1>1. \A r \in Result : r.job \in Jobs
    BY DEF Result
  <1>2. \A w \in Workers : Carries(w) => pool[w].result \in Result
    BY DEF TypeOK, OnePlace, Worker
  <1>3. \A i \in 1..Len(out) : out[i] \in Result
    BY DEF TypeOK
  <1>4. writer # None => writer \in Result
    BY DEF TypeOK
  <1> QED
    BY <1>1, <1>2, <1>3, <1>4

\* A worker takes a job from the queue.
LEMMA TakeStep ==
    ASSUME TypeOK, NEW w \in Workers, Take(w)
    PROVE  /\ pool' \in [Workers -> Worker] /\ pool'[w].at = "fetch"
           /\ pool'[w].result \in Result /\ pool'[w].result.job \in queue
           /\ queue' = queue \ {pool'[w].result.job}
           /\ \A x \in Workers : x # w => pool'[x] = pool[x]
  <1>1. PICK j \in queue : Put(w, "fetch", [job |-> j, kind |-> "error", keep |-> FALSE]) /\ queue' = queue \ {j}
    BY DEF Take
  <1> DEFINE r == [job |-> j, kind |-> "error", keep |-> FALSE]
  <1>2. r \in Result /\ r.job = j
    BY DEF Result, TypeOK
  <1>3. Put(w, "fetch", r)
    BY <1>1
  <1>4. pool \in [Workers -> Worker]
    BY DEF TypeOK
  <1> HIDE DEF r
  <1>5. pool' \in [Workers -> Worker] /\ pool'[w] = [at |-> "fetch", result |-> r]
        /\ \A x \in Workers : x # w => pool'[x] = pool[x]
    BY <1>2, <1>3, <1>4, PutType
  <1> QED
    BY <1>1, <1>2, <1>5

\* A worker has the answer for the job it holds.
LEMMA FetchedStep ==
    ASSUME TypeOK, OnePlace, NEW w \in Workers, NEW k \in {"file", "missing", "error"},
           pool[w].at = "fetch", Put(w, "send", [pool[w].result EXCEPT !.kind = k])
    PROVE  /\ pool' \in [Workers -> Worker] /\ pool'[w].at = "send"
           /\ pool'[w].result \in Result /\ pool'[w].result.kind = k
           /\ pool'[w].result.job = pool[w].result.job
           /\ \A x \in Workers : x # w => pool'[x] = pool[x]
  <1>1. pool[w].result \in Result
    BY JobType DEF Carries
  <1> DEFINE r == [pool[w].result EXCEPT !.kind = k]
  <1>2. r \in Result /\ r.job = pool[w].result.job /\ r.kind = k
    BY <1>1, KindType
  <1>3. Put(w, "send", r)
    OBVIOUS
  <1>4. pool \in [Workers -> Worker]
    BY DEF TypeOK
  <1> HIDE DEF r
  <1>5. pool' \in [Workers -> Worker] /\ pool'[w] = [at |-> "send", result |-> r]
        /\ \A x \in Workers : x # w => pool'[x] = pool[x]
    BY <1>2, <1>3, <1>4, PutType
  <1> QED
    BY <1>2, <1>5

\* A worker hands its result over.
LEMMA SendStep ==
    ASSUME MediaAssumption, TypeOK, OnePlace, NEW w \in Workers, Send(w)
    PROVE  /\ pool' \in [Workers -> Worker] /\ pool[w].result \in Result
           /\ pool[w].at = "send" /\ pool'[w].at = "idle"
           /\ \A x \in Workers : x # w => pool'[x] = pool[x]
           /\ out' \in Seq(Result) /\ Len(out') <= Capacity
           /\ Len(out) \in Nat /\ Len(out') = Len(out) + 1 /\ out'[Len(out) + 1] = pool[w].result
           /\ \A i \in 1..Len(out) : i \in 1..Len(out') /\ out'[i] = out[i]
           /\ \A i \in 1..Len(out') : i \in 1..Len(out) \/ i = Len(out) + 1
  <1>1. pool[w].result \in Result /\ pool[w].at = "send"
    BY JobType DEF Send, Carries
  <1>2. pool \in [Workers -> Worker] /\ out \in Seq(Result)
    BY DEF TypeOK
  <1>3. /\ pool' \in [Workers -> Worker] /\ pool'[w] = [at |-> "idle", result |-> None]
        /\ \A x \in Workers : x # w => pool'[x] = pool[x]
    BY <1>2, PutType DEF Send
  <1>4. out' = Append(out, pool[w].result) /\ Len(out) < Capacity
    BY DEF Send
  <1>5. /\ out' \in Seq(Result) /\ Len(out') = Len(out) + 1 /\ out'[Len(out) + 1] = pool[w].result
        /\ \A i \in 1..Len(out) : out'[i] = out[i]
        /\ \A i \in 1..Len(out') : i \in 1..Len(out) \/ i = Len(out) + 1
    BY <1>1, <1>2, <1>4, Appended
  <1>6. Len(out) \in Nat /\ Capacity \in Nat
    BY <1>2 DEF MediaAssumption
  <1> QED
    BY <1>1, <1>3, <1>4, <1>5, <1>6

\* The writer takes over the first result.
LEMMA ReceiveStep ==
    ASSUME TypeOK, Receive
    PROVE  /\ 1 \in 1..Len(out) /\ out[1] \in Result
           /\ out' \in Seq(Result) /\ Len(out') <= Len(out)
           /\ \A i \in 1..Len(out') : i + 1 \in 1..Len(out) /\ i + 1 # 1 /\ out'[i] = out[i + 1]
           /\ \A i \in 1..Len(out) : i = 1 \/ \E k \in 1..Len(out') : out[i] = out'[k]
           /\ writer' \in Result /\ writer'.job = out[1].job /\ writer'.kind = out[1].kind
           /\ writer'.keep = ~batch.cancelled
  <1>1. out \in Seq(Result) /\ out # <<>> /\ out' = Tail(out) /\ batch.cancelled \in BOOLEAN
    BY DEF Receive, TypeOK, Batch
  <1>2. /\ 1 \in 1..Len(out) /\ out[1] \in Result /\ Head(out) = out[1]
        /\ out' \in Seq(Result) /\ Len(out') = Len(out) - 1 /\ Len(out) \in Nat
        /\ \A i \in 1..Len(out') : i + 1 \in 1..Len(out) /\ i + 1 # 1 /\ out'[i] = out[i + 1]
    BY <1>1, HeadTail
  <1>3. ASSUME NEW i \in 1..Len(out), i # 1 PROVE \E k \in 1..Len(out') : out[i] = out'[k]
    <2>1. i - 1 \in 1..Len(out')
      BY <1>2, <1>3
    <2>2. out'[i - 1] = out[i]
      BY <1>2, <2>1
    <2> QED
      BY <2>1, <2>2
  <1>4. writer' \in Result /\ writer'.job = out[1].job /\ writer'.kind = out[1].kind
        /\ writer'.keep = ~batch.cancelled
    BY <1>1, <1>2 DEF Receive, Result
  <1> QED
    BY <1>2, <1>3, <1>4

\* A result that was kept is counted.
LEMMA BatchType ==
    ASSUME batch \in Batch, batch.failed <= batch.completed, NEW n \in {0, 1}, Handled(n)
    PROVE  batch' \in Batch /\ batch'.failed <= batch'.completed /\ batch'.on = batch.on
           /\ batch'.done = batch.done /\ batch'.cancelled = batch.cancelled /\ batch'.jobs = batch.jobs
  <1>1. batch' = [batch EXCEPT !.completed = @ + 1, !.failed = @ + n]
    BY DEF Handled
  <1>2. batch.completed \in Nat /\ batch.failed \in Nat
    BY DEF Batch
  <1>3. /\ batch'.completed = batch.completed + 1 /\ batch'.failed = batch.failed + n
        /\ batch'.on = batch.on /\ batch'.done = batch.done
        /\ batch'.cancelled = batch.cancelled /\ batch'.jobs = batch.jobs
    BY <1>1 DEF Batch
  <1>4. batch.completed + 1 \in Nat /\ batch.failed + n \in Nat
    BY <1>2
  <1>5. batch' \in Batch
    BY <1>1, <1>4 DEF Batch
  <1> QED
    BY <1>2, <1>3, <1>5

\* A worker goes home.
LEMMA QuitStep ==
    ASSUME TypeOK, NEW w \in Workers, Quit(w)
    PROVE  /\ pool' \in [Workers -> Worker] /\ pool[w].at = "idle" /\ pool'[w].at = "off"
           /\ \A x \in Workers : x # w => pool'[x] = pool[x]
  <1>1. pool \in [Workers -> Worker] /\ pool[w].at = "idle" /\ Put(w, "off", None)
    BY DEF TypeOK, Quit
  <1>2. pool' \in [Workers -> Worker] /\ pool'[w] = [at |-> "off", result |-> None]
        /\ \A x \in Workers : x # w => pool'[x] = pool[x]
    BY <1>1, PutType
  <1> QED
    BY <1>1, <1>2

\* What is on its way to the writer, when a worker takes a job or goes home ...
LEMMA InFlightIdle ==
    ASSUME NEW w \in Workers, ~Fetched(w), pool'[w].at # "send",
           \A x \in Workers : x # w => pool'[x] = pool[x], UNCHANGED <<out, writer>>,
           NEW j, NEW K
    PROVE  InFlight(j, K)' <=> InFlight(j, K)
  BY DEF InFlight, Fetched

\* ... has an answer ...
LEMMA InFlightFetched ==
    ASSUME NEW w \in Workers, ~Fetched(w), pool'[w].at = "send",
           \A x \in Workers : x # w => pool'[x] = pool[x], UNCHANGED <<out, writer>>,
           NEW j, NEW K
    PROVE  InFlight(j, K)' <=> \/ InFlight(j, K)
                               \/ pool'[w].result.job = j /\ pool'[w].result.kind \in K
  BY DEF InFlight, Fetched

\* ... hands it over ...
LEMMA InFlightSent ==
    ASSUME MediaAssumption, TypeOK, OnePlace, NEW w \in Workers, Send(w), NEW j, NEW K
    PROVE  InFlight(j, K)' <=> InFlight(j, K)
  <1>1. /\ pool[w].at = "send" /\ pool'[w].at = "idle" /\ writer' = writer
        /\ \A x \in Workers : x # w => pool'[x] = pool[x]
        /\ out'[Len(out) + 1] = pool[w].result /\ Len(out) + 1 \in 1..Len(out')
        /\ \A i \in 1..Len(out) : i \in 1..Len(out') /\ out'[i] = out[i]
        /\ \A i \in 1..Len(out') : i \in 1..Len(out) \/ i = Len(out) + 1
    BY SendStep DEF Send
  <1> QED
    BY <1>1 DEF InFlight, Fetched

\* ... when the writer takes it ...
LEMMA InFlightReceived ==
    ASSUME TypeOK, MediaAssumption, Receive, NEW j, NEW K
    PROVE  InFlight(j, K)' <=> InFlight(j, K)
  <1>1. /\ 1 \in 1..Len(out) /\ writer = None /\ pool' = pool
        /\ \A i \in 1..Len(out') : i + 1 \in 1..Len(out) /\ out'[i] = out[i + 1]
        /\ \A i \in 1..Len(out) : i = 1 \/ \E k \in 1..Len(out') : out[i] = out'[k]
        /\ writer' # None /\ writer'.job = out[1].job /\ writer'.kind = out[1].kind
    BY ReceiveStep, ResultNone DEF Receive
  <1>2. (\E i \in 1..Len(out) : out[i].job = j /\ out[i].kind \in K)
          <=> \/ writer'.job = j /\ writer'.kind \in K
              \/ \E i \in 1..Len(out') : out'[i].job = j /\ out'[i].kind \in K
    BY <1>1
  <1> QED
    BY <1>1, <1>2 DEF InFlight, Fetched

\* ... and is done with it.
LEMMA InFlightHandled ==
    ASSUME OnePlace, writer # None, writer' = None, UNCHANGED <<pool, out>>, NEW j, NEW K
    PROVE  InFlight(j, K)' <=> InFlight(j, K) /\ j # writer.job
  BY DEF InFlight, Fetched, OnePlace, Carries

\* Every step keeps the types.
LEMMA TypeStep ==
    ASSUME MediaAssumption, TypeOK, OnePlace, [Next]_vars
    PROVE  TypeOK'
  <1> USE DEF vars, control, work, media, TypeOK
  <1>1. ASSUME StopBackgroundDownloads PROVE TypeOK'
    <2>1. count' \in [Counters -> Nat]
      BY <1>1, CountedType DEF StopBackgroundDownloads, Bounded, Counters
    <2>2. batch' \in Batch /\ batch'.failed <= batch'.completed
      BY <1>1 DEF StopBackgroundDownloads, Cancel, Batch
    <2> QED
      BY <1>1, <2>1, <2>2 DEF StopBackgroundDownloads, Cancel
  <1>2. ASSUME StartSnapshotDownloads PROVE TypeOK'
    <2>1. count' \in [Counters -> Nat]
      BY <1>2, CountedType DEF StartSnapshotDownloads, Bounded, Counters
    <2>2. batch' \in Batch /\ batch'.failed <= batch'.completed
      BY <1>2 DEF StartSnapshotDownloads, Cancel, Batch
    <2> QED
      BY <1>2, <2>1, <2>2 DEF StartSnapshotDownloads, Cancel
  <1>3. ASSUME Stopped PROVE TypeOK'
    BY <1>3 DEF Stopped, Batch
  <1>4. ASSUME Started PROVE TypeOK'
    <2>1. batch' \in Batch /\ batch'.failed <= batch'.completed
      BY <1>4 DEF Started, Batch
    <2>2. pool' \in [Workers -> Worker]
      BY <1>4 DEF Started, Worker, Off
    <2>3. out' \in Seq(Result) /\ Len(out') <= Capacity
      BY <1>4 DEF Started, MediaAssumption
    <2>4. gen' \in Nat /\ lock' = "free" /\ planned' = {} /\ ready' = {} /\ queue' = planned /\ writer' = None
          /\ profile' \in BOOLEAN
      BY <1>4 DEF Started
    <2> QED
      BY <1>4, <2>1, <2>2, <2>3, <2>4 DEF Started
  <1>5. ASSUME NEW w \in Workers, Take(w) PROVE TypeOK'
    BY <1>5, TakeStep DEF Take
  <1>6. ASSUME NEW w \in Workers, Quit(w) PROVE TypeOK'
    BY <1>6, PutType DEF Quit
  <1>7. ASSUME NEW w \in Workers, Fetch(w) PROVE TypeOK'
    <2>1. /\ pool' \in [Workers -> Worker] /\ pool'[w].at = "send" /\ pool[w].at = "fetch"
          /\ pool'[w].result \in Result /\ pool'[w].result.kind = "file"
          /\ pool'[w].result.job = pool[w].result.job
          /\ \A x \in Workers : x # w => pool'[x] = pool[x]
      BY <1>7, FetchedStep DEF Fetch
    <2>j. pool[w].result.job \in Jobs
      BY <2>1, JobType DEF Carries
    <2> QED
      BY <1>7, <2>1, <2>j DEF Fetch
  <1>8. ASSUME NEW w \in Workers, FetchFails(w) PROVE TypeOK'
    <2>1. /\ pool' \in [Workers -> Worker] /\ pool'[w].at = "send" /\ pool[w].at = "fetch"
          /\ pool'[w].result \in Result /\ pool'[w].result.kind \in {"missing", "error"}
          /\ pool'[w].result.job = pool[w].result.job
          /\ \A x \in Workers : x # w => pool'[x] = pool[x]
      BY <1>8, FetchedStep DEF FetchFails
    <2>j. pool[w].result.job \in Jobs
      BY <2>1, JobType DEF Carries
    <2>3. count' \in [Counters -> Nat]
      BY <1>8, CountedType DEF FetchFails, Bounded, Counters
    <2> QED
      BY <1>8, <2>1, <2>3, <2>j DEF FetchFails
  <1>20. ASSUME NEW w \in Workers, WriteFails(w) PROVE TypeOK'
    <2>1. /\ pool' \in [Workers -> Worker] /\ pool'[w].at = "send" /\ pool[w].at = "fetch"
          /\ pool'[w].result \in Result /\ pool'[w].result.kind = "error"
          /\ pool'[w].result.job = pool[w].result.job
          /\ \A x \in Workers : x # w => pool'[x] = pool[x]
      BY <1>20, FetchedStep DEF WriteFails
    <2>j. pool[w].result.job \in Jobs
      BY <2>1, JobType DEF Carries
    <2>3. count' \in [Counters -> Nat]
      BY <1>20, CountedType DEF WriteFails, Bounded, Counters
    <2> QED
      BY <1>20, <2>1, <2>3, <2>j DEF WriteFails
  <1>9. ASSUME NEW w \in Workers, Send(w) PROVE TypeOK'
    BY <1>9, SendStep DEF Send
  <1>10. ASSUME Receive PROVE TypeOK'
    <2>1. Len(out) <= Capacity /\ Len(out) \in Nat /\ Capacity \in Nat
      BY DEF MediaAssumption
    <2>2. /\ Len(out') \in Nat /\ Len(out') <= Len(out)
          /\ out' \in Seq(Result) /\ writer' \in Result
      BY <1>10, ReceiveStep
    <2>3. Len(out') <= Capacity
      BY <2>1, <2>2
    <2>4. UNCHANGED <<lock, planned, gen, batch, profile, queue, pool, files, partial, rows, broken,
                      ready, viewers, cut, count>>
      BY <1>10 DEF Receive
    <2> QED
      BY <2>2, <2>3, <2>4
  <1>11. ASSUME Discard PROVE TypeOK'
    BY <1>11 DEF Discard, Removed
  <1>12. ASSUME Store PROVE TypeOK'
    <2>1. writer \in Result /\ writer.job \in Jobs
      BY <1>12, JobType DEF Store, Handled
    <2>2. batch' \in Batch /\ batch'.failed <= batch'.completed
      BY <1>12, BatchType DEF Store
    <2> QED
      BY <1>12, <2>1, <2>2 DEF Store, Handled, Removed
  <1>13. ASSUME StoreFails PROVE TypeOK'
    <2>1. writer \in Result /\ writer.job \in Jobs
      BY <1>13, JobType DEF StoreFails, Handled
    <2>2. batch' \in Batch /\ batch'.failed <= batch'.completed
      BY <1>13, BatchType DEF StoreFails
    <2>3. count' \in [Counters -> Nat]
      BY <1>13, CountedType DEF StoreFails, Bounded, Counters
    <2> QED
      BY <1>13, <2>1, <2>2, <2>3 DEF StoreFails, Handled, Removed
  <1>14. ASSUME Skip PROVE TypeOK'
    <2>1. writer \in Result /\ writer.job \in Jobs
      BY <1>14, JobType DEF Skip, Handled
    <2>2. batch' \in Batch /\ batch'.failed <= batch'.completed
      BY <1>14, BatchType DEF Skip
    <2> QED
      BY <1>14, <2>1, <2>2 DEF Skip, Handled, Removed
  <1>15. ASSUME Finish PROVE TypeOK'
    <2>1. batch' \in Batch /\ batch'.failed <= batch'.completed
      BY <1>15 DEF Finish, Batch
    <2> QED
      BY <1>15, <2>1 DEF Finish
  <1>16. ASSUME ProfileEnds PROVE TypeOK'
    BY <1>16 DEF ProfileEnds
  <1>17. ASSUME NEW v \in Viewers, Look(v) PROVE TypeOK'
    <2>1. viewers' \in [Viewers -> Viewer]
      BY <1>17 DEF Look, Resting, Viewer
    <2> QED
      BY <1>17, <2>1 DEF Look
  <1>18. ASSUME NEW v \in Viewers, NEW i \in Images, Ask(v, i) PROVE TypeOK'
    <2>1. count' \in [Counters -> Nat]
      BY <1>18, CountedType DEF Ask, Bounded, Counters
    <2>2. viewers' \in [Viewers -> Viewer]
      BY <1>18 DEF Ask, Viewer
    <2> QED
      BY <1>18, <2>1, <2>2 DEF Ask
  <1>19. CASE UNCHANGED vars
    BY <1>19
  <1> QED
    BY <1>1, <1>2, <1>3, <1>4, <1>5, <1>6, <1>7, <1>8, <1>20, <1>9, <1>10, <1>11, <1>12, <1>13, <1>14, <1>15, <1>16, <1>17, <1>18, <1>19 DEF Next, WorkerStep, WriterStep

\* Every step keeps a job in one place.
LEMMA OnePlaceStep ==
    ASSUME MediaAssumption, TypeOK, Quiet, OnePlace, [Next]_vars
    PROVE  OnePlace'
  <1> USE DEF vars, control, work, media, OnePlace, Carries
  <1>n. None \notin Result
    BY ResultNone
  <1>1. ASSUME StopBackgroundDownloads PROVE OnePlace'
    BY <1>1 DEF StopBackgroundDownloads, Bounded, Counted, Cancel
  <1>2. ASSUME StartSnapshotDownloads PROVE OnePlace'
    BY <1>2 DEF StartSnapshotDownloads, Bounded, Counted, Cancel
  <1>3. ASSUME Stopped PROVE OnePlace'
    BY <1>3 DEF Stopped, Joined
  <1>4. ASSUME Started PROVE OnePlace'
    BY <1>4 DEF Started, Off
  <1>5. ASSUME NEW w \in Workers, Take(w) PROVE OnePlace'
    <2>1. /\ pool'[w].at = "fetch" /\ pool[w].at = "idle"
          /\ pool'[w].result \in Result /\ pool'[w].result.job \in queue
          /\ queue' = queue \ {pool'[w].result.job}
          /\ \A x \in Workers : x # w => pool'[x] = pool[x]
      BY <1>5, TakeStep DEF Take
    <2> QED
      BY <1>5, <2>1, <1>n DEF Take
  <1>6. ASSUME NEW w \in Workers, Quit(w) PROVE OnePlace'
    <2>1. /\ pool[w].at = "idle" /\ pool'[w].at = "off"
          /\ \A x \in Workers : x # w => pool'[x] = pool[x]
      BY <1>6, QuitStep
    <2> QED
      BY <1>6, <2>1 DEF Quit
  <1>7. ASSUME NEW w \in Workers, Fetch(w) PROVE OnePlace'
    <2>1. /\ pool' \in [Workers -> Worker] /\ pool'[w].at = "send" /\ pool[w].at = "fetch"
          /\ pool'[w].result \in Result /\ pool'[w].result.kind = "file"
          /\ pool'[w].result.job = pool[w].result.job
          /\ \A x \in Workers : x # w => pool'[x] = pool[x]
      BY <1>7, FetchedStep DEF Fetch
    <2> QED
      BY <1>7, <2>1, <1>n DEF Fetch
  <1>8. ASSUME NEW w \in Workers, FetchFails(w) PROVE OnePlace'
    <2>1. /\ pool' \in [Workers -> Worker] /\ pool'[w].at = "send" /\ pool[w].at = "fetch"
          /\ pool'[w].result \in Result /\ pool'[w].result.kind \in {"missing", "error"}
          /\ pool'[w].result.job = pool[w].result.job
          /\ \A x \in Workers : x # w => pool'[x] = pool[x]
      BY <1>8, FetchedStep DEF FetchFails
    <2> QED
      BY <1>8, <2>1, <1>n DEF FetchFails
  <1>20. ASSUME NEW w \in Workers, WriteFails(w) PROVE OnePlace'
    <2>1. /\ pool' \in [Workers -> Worker] /\ pool'[w].at = "send" /\ pool[w].at = "fetch"
          /\ pool'[w].result \in Result /\ pool'[w].result.kind = "error"
          /\ pool'[w].result.job = pool[w].result.job
          /\ \A x \in Workers : x # w => pool'[x] = pool[x]
      BY <1>20, FetchedStep DEF WriteFails
    <2> QED
      BY <1>20, <2>1, <1>n DEF WriteFails
  <1>9. ASSUME NEW w \in Workers, Send(w) PROVE OnePlace'
    <2>1. /\ pool[w].at = "send" /\ pool'[w].at = "idle"
          /\ \A x \in Workers : x # w => pool'[x] = pool[x]
          /\ out'[Len(out) + 1] = pool[w].result /\ Len(out) + 1 \in 1..Len(out')
          /\ \A i \in 1..Len(out) : i \in 1..Len(out') /\ out'[i] = out[i]
          /\ \A i \in 1..Len(out') : i \in 1..Len(out) \/ i = Len(out) + 1
      BY <1>9, SendStep
    <2> QED
      BY <1>9, <2>1 DEF Send
  <1>10. ASSUME Receive PROVE OnePlace'
    <2>1. /\ 1 \in 1..Len(out)
          /\ \A i \in 1..Len(out') : i + 1 \in 1..Len(out) /\ i + 1 # 1 /\ out'[i] = out[i + 1]
          /\ \A i \in 1..Len(out) : i = 1 \/ \E k \in 1..Len(out') : out[i] = out'[k]
          /\ writer' \in Result /\ writer'.job = out[1].job /\ writer'.kind = out[1].kind
          /\ writer'.keep = ~batch.cancelled
      BY <1>10, ReceiveStep
    <2>2. writer' # None
      BY <2>1, <1>n
    <2>3. pool' = pool /\ queue' = queue
      BY <1>10 DEF Receive
    <2>4. \A i \in 1..Len(out') : /\ out'[i].job \notin queue
                                   /\ out'[i].job # writer'.job
                                   /\ \A w \in Workers : Carries(w) => pool[w].result.job # out'[i].job
      <3>1. SUFFICES ASSUME NEW i \in 1..Len(out')
                     PROVE  /\ out'[i].job \notin queue
                            /\ out'[i].job # writer'.job
                            /\ \A w \in Workers : Carries(w) => pool[w].result.job # out'[i].job
        OBVIOUS
      <3>2. i + 1 \in 1..Len(out) /\ i + 1 # 1 /\ out'[i] = out[i + 1]
        BY <2>1, <3>1
      <3>3. out[i + 1].job # out[1].job
        BY <2>1, <3>2
      <3>4. out[i + 1].job \notin queue /\ \A w \in Workers : Carries(w) => pool[w].result.job # out[i + 1].job
        BY <3>2
      <3> QED
        BY <2>1, <3>2, <3>3, <3>4
    <2>5. \A i, k \in 1..Len(out') : i # k => out'[i].job # out'[k].job
      <3>1. SUFFICES ASSUME NEW i \in 1..Len(out'), NEW k \in 1..Len(out'), i # k
                     PROVE  out'[i].job # out'[k].job
        OBVIOUS
      <3>2. i + 1 \in 1..Len(out) /\ k + 1 \in 1..Len(out) /\ i + 1 # k + 1
        BY <2>1, <3>1
      <3>3. out[i + 1].job # out[k + 1].job
        BY <3>2
      <3>4. out'[i] = out[i + 1] /\ out'[k] = out[k + 1]
        BY <2>1, <3>1
      <3> QED
        BY <3>3, <3>4
    <2>6. writer'.job \notin queue /\ \A w \in Workers : Carries(w) => pool[w].result.job # writer'.job
      BY <2>1
    <2> QED
      BY <2>2, <2>3, <2>4, <2>5, <2>6
  <1>11. ASSUME Discard PROVE OnePlace'
    BY <1>11 DEF Discard, Removed
  <1>12. ASSUME Store PROVE OnePlace'
    BY <1>12 DEF Store, Handled
  <1>13. ASSUME StoreFails PROVE OnePlace'
    BY <1>13 DEF StoreFails, Handled, Removed, Bounded, Counted
  <1>14. ASSUME Skip PROVE OnePlace'
    BY <1>14 DEF Skip, Handled
  <1>15. ASSUME Finish PROVE OnePlace'
    BY <1>15 DEF Finish, Finished
  <1>16. ASSUME ProfileEnds PROVE OnePlace'
    BY <1>16 DEF ProfileEnds
  <1>17. ASSUME NEW v \in Viewers, Look(v) PROVE OnePlace'
    BY <1>17 DEF Look, Resting
  <1>18. ASSUME NEW v \in Viewers, NEW i \in Images, Ask(v, i) PROVE OnePlace'
    BY <1>18 DEF Ask, Bounded, Counted
  <1>19. CASE UNCHANGED vars
    BY <1>19
  <1> QED
    BY <1>1, <1>2, <1>3, <1>4, <1>5, <1>6, <1>7, <1>8, <1>20, <1>9, <1>10, <1>11, <1>12, <1>13, <1>14, <1>15, <1>16, <1>17, <1>18, <1>19 DEF Next, WorkerStep, WriterStep

\* Every step keeps jobs under way unnamed.
LEMMA NotYetNamedStep ==
    ASSUME MediaAssumption, TypeOK, Quiet, FilesKnown, OnePlace, NotYetNamed, [Next]_vars
    PROVE  NotYetNamed'
  <1> USE DEF vars, control, work, media, NotYetNamed, Carries
  <1>t. /\ gen \in Nat /\ rows \in [Jobs -> Nat] /\ planned \subseteq Jobs /\ queue \subseteq Jobs /\ files \subseteq Nat \X Jobs /\ partial \subseteq Nat \X Jobs
      /\ broken \subseteq Jobs /\ batch \in Batch /\ batch.jobs \subseteq Jobs
    BY DEF TypeOK, Batch
  <1>1. ASSUME StopBackgroundDownloads PROVE NotYetNamed'
    BY <1>1 DEF StopBackgroundDownloads, Bounded, Counted, Cancel
  <1>2. ASSUME StartSnapshotDownloads PROVE NotYetNamed'
    BY <1>2 DEF StartSnapshotDownloads, Bounded, Counted, Cancel
  <1>3. ASSUME Stopped PROVE NotYetNamed'
    BY <1>3 DEF Stopped, Joined
  <1>4. ASSUME Started PROVE NotYetNamed'
    BY <1>4, <1>t DEF Started, Off, FilesKnown
  <1>5. ASSUME NEW w \in Workers, Take(w) PROVE NotYetNamed'
    <2>1. /\ pool'[w].at = "fetch" /\ pool[w].at = "idle"
          /\ pool'[w].result \in Result /\ pool'[w].result.job \in queue
          /\ queue' = queue \ {pool'[w].result.job}
          /\ \A x \in Workers : x # w => pool'[x] = pool[x]
      BY <1>5, TakeStep DEF Take
    <2> QED
      BY <1>5, <2>1 DEF Take
  <1>6. ASSUME NEW w \in Workers, Quit(w) PROVE NotYetNamed'
    <2>1. /\ pool[w].at = "idle" /\ pool'[w].at = "off"
          /\ \A x \in Workers : x # w => pool'[x] = pool[x]
      BY <1>6, QuitStep
    <2> QED
      BY <1>6, <2>1 DEF Quit
  <1>7. ASSUME NEW w \in Workers, Fetch(w) PROVE NotYetNamed'
    <2>1. /\ pool' \in [Workers -> Worker] /\ pool'[w].at = "send" /\ pool[w].at = "fetch"
          /\ pool'[w].result \in Result /\ pool'[w].result.kind = "file"
          /\ pool'[w].result.job = pool[w].result.job
          /\ \A x \in Workers : x # w => pool'[x] = pool[x]
      BY <1>7, FetchedStep DEF Fetch
    <2> QED
      BY <1>7, <2>1 DEF Fetch
  <1>8. ASSUME NEW w \in Workers, FetchFails(w) PROVE NotYetNamed'
    <2>1. /\ pool' \in [Workers -> Worker] /\ pool'[w].at = "send" /\ pool[w].at = "fetch"
          /\ pool'[w].result \in Result /\ pool'[w].result.kind \in {"missing", "error"}
          /\ pool'[w].result.job = pool[w].result.job
          /\ \A x \in Workers : x # w => pool'[x] = pool[x]
      BY <1>8, FetchedStep DEF FetchFails
    <2> QED
      BY <1>8, <2>1 DEF FetchFails
  <1>20. ASSUME NEW w \in Workers, WriteFails(w) PROVE NotYetNamed'
    <2>1. /\ pool' \in [Workers -> Worker] /\ pool'[w].at = "send" /\ pool[w].at = "fetch"
          /\ pool'[w].result \in Result /\ pool'[w].result.kind = "error"
          /\ pool'[w].result.job = pool[w].result.job
          /\ \A x \in Workers : x # w => pool'[x] = pool[x]
      BY <1>20, FetchedStep DEF WriteFails
    <2> QED
      <3>1. partial' = partial \cup {<<gen, pool[w].result.job>>} /\ UNCHANGED <<queue, gen, rows, out, writer>>
        BY <1>20 DEF WriteFails
      <3>2. \A j : <<gen, j>> \in partial' => <<gen, j>> \in partial \/ j = pool[w].result.job
        BY <3>1
      <3>3. /\ pool[w].result.job \notin queue
            /\ \A x \in Workers : x # w /\ Carries(x) => pool[x].result.job # pool[w].result.job
        BY <2>1 DEF OnePlace
      <3>4. \A j \in queue : <<gen, j>> \notin partial'
        BY <3>2, <3>3
      <3>5. \A x \in Workers : pool'[x].at = "fetch" => <<gen, pool'[x].result.job>> \notin partial'
        BY <2>1, <3>2, <3>3
      <3>6. \A x \in Workers : Carries(x)' => rows[pool'[x].result.job] # gen
        BY <2>1
      <3> QED
        BY <3>1, <3>4, <3>5, <3>6
  <1>9. ASSUME NEW w \in Workers, Send(w) PROVE NotYetNamed'
    <2>1. /\ pool[w].at = "send" /\ pool'[w].at = "idle"
          /\ \A x \in Workers : x # w => pool'[x] = pool[x]
          /\ out'[Len(out) + 1] = pool[w].result /\ Len(out) + 1 \in 1..Len(out')
          /\ \A i \in 1..Len(out) : i \in 1..Len(out') /\ out'[i] = out[i]
          /\ \A i \in 1..Len(out') : i \in 1..Len(out) \/ i = Len(out) + 1
      BY <1>9, SendStep
    <2> QED
      BY <1>9, <2>1 DEF Send
  <1>10. ASSUME Receive PROVE NotYetNamed'
    <2>1. /\ 1 \in 1..Len(out)
          /\ \A i \in 1..Len(out') : i + 1 \in 1..Len(out) /\ i + 1 # 1 /\ out'[i] = out[i + 1]
          /\ \A i \in 1..Len(out) : i = 1 \/ \E k \in 1..Len(out') : out[i] = out'[k]
          /\ writer' \in Result /\ writer'.job = out[1].job /\ writer'.kind = out[1].kind
          /\ writer'.keep = ~batch.cancelled
      BY <1>10, ReceiveStep
    <2> QED
      BY <1>10, <2>1 DEF Receive
  <1>11. ASSUME Discard PROVE NotYetNamed'
    BY <1>11 DEF Discard, Removed
  <1>12. ASSUME Store PROVE NotYetNamed'
    <2>1. \A j \in Jobs : j # writer.job => rows'[j] = rows[j]
      BY <1>12, <1>t DEF Store
    <2> QED
      BY <1>12, <1>t, <2>1, JobType DEF Store, Handled, OnePlace, Carries
  <1>13. ASSUME StoreFails PROVE NotYetNamed'
    BY <1>13 DEF StoreFails, Handled, Removed, Bounded, Counted
  <1>14. ASSUME Skip PROVE NotYetNamed'
    BY <1>14 DEF Skip, Handled
  <1>15. ASSUME Finish PROVE NotYetNamed'
    BY <1>15 DEF Finish, Finished
  <1>16. ASSUME ProfileEnds PROVE NotYetNamed'
    BY <1>16 DEF ProfileEnds
  <1>17. ASSUME NEW v \in Viewers, Look(v) PROVE NotYetNamed'
    BY <1>17 DEF Look, Resting
  <1>18. ASSUME NEW v \in Viewers, NEW i \in Images, Ask(v, i) PROVE NotYetNamed'
    BY <1>18 DEF Ask, Bounded, Counted
  <1>19. CASE UNCHANGED vars
    BY <1>19
  <1> QED
    BY <1>1, <1>2, <1>3, <1>4, <1>5, <1>6, <1>7, <1>8, <1>20, <1>9, <1>10, <1>11, <1>12, <1>13, <1>14, <1>15, <1>16, <1>17, <1>18, <1>19 DEF Next, WorkerStep, WriterStep

\* Every step keeps files and rows together.
LEMMA FilesStep ==
    ASSUME MediaAssumption, TypeOK, Quiet, OnePlace, NotYetNamed, FilesKnown, [Next]_vars
    PROVE  FilesKnown'
  <1> USE DEF vars, control, work, media, FilesKnown
  <1>t. /\ gen \in Nat /\ rows \in [Jobs -> Nat] /\ planned \subseteq Jobs /\ queue \subseteq Jobs /\ files \subseteq Nat \X Jobs /\ partial \subseteq Nat \X Jobs
      /\ broken \subseteq Jobs /\ batch \in Batch /\ batch.jobs \subseteq Jobs
    BY DEF TypeOK, Batch
  <1>1. ASSUME StopBackgroundDownloads PROVE FilesKnown'
    BY <1>1 DEF StopBackgroundDownloads, Bounded, Counted, Cancel, InFlight, Fetched
  <1>2. ASSUME StartSnapshotDownloads PROVE FilesKnown'
    BY <1>2 DEF StartSnapshotDownloads, Bounded, Counted, Cancel, InFlight, Fetched
  <1>3. ASSUME Stopped PROVE FilesKnown'
    BY <1>3 DEF Stopped, Joined, InFlight, Fetched
  <1>4. ASSUME Started PROVE FilesKnown'
    BY <1>4, <1>t DEF Started, Off, InFlight, Fetched, Quiet
  <1>5. ASSUME NEW w \in Workers, Take(w) PROVE FilesKnown'
    <2>1. /\ pool'[w].at = "fetch" /\ pool[w].at = "idle"
          /\ pool'[w].result \in Result /\ pool'[w].result.job \in queue
          /\ queue' = queue \ {pool'[w].result.job}
          /\ \A x \in Workers : x # w => pool'[x] = pool[x]
      BY <1>5, TakeStep DEF Take
    <2>2. \A j \in Jobs : InFlight(j, {"file"})' <=> InFlight(j, {"file"})
      BY <1>5, <2>1, InFlightIdle DEF Take, Fetched
    <2> QED
      BY <1>5, <2>2 DEF Take
  <1>6. ASSUME NEW w \in Workers, Quit(w) PROVE FilesKnown'
    <2>1. /\ pool[w].at = "idle" /\ pool'[w].at = "off"
          /\ \A x \in Workers : x # w => pool'[x] = pool[x]
      BY <1>6, QuitStep
    <2>2. \A j \in Jobs : InFlight(j, {"file"})' <=> InFlight(j, {"file"})
      BY <1>6, <2>1, InFlightIdle DEF Quit, Fetched
    <2> QED
      BY <1>6, <2>2 DEF Quit
  <1>7. ASSUME NEW w \in Workers, Fetch(w) PROVE FilesKnown'
    <2>1. /\ pool' \in [Workers -> Worker] /\ pool'[w].at = "send" /\ pool[w].at = "fetch"
          /\ pool'[w].result \in Result /\ pool'[w].result.kind = "file"
          /\ pool'[w].result.job = pool[w].result.job
          /\ \A x \in Workers : x # w => pool'[x] = pool[x]
      BY <1>7, FetchedStep DEF Fetch
    <2>2. \A j \in Jobs : InFlight(j, {"file"})' <=> InFlight(j, {"file"}) \/ j = pool[w].result.job
      BY <1>7, <2>1, InFlightFetched DEF Fetch, Fetched
    <2>3. pool[w].result.job \in Jobs /\ rows[pool[w].result.job] \in Nat
      BY <1>t, <2>1, JobType DEF Carries
    <2> QED
      <3>1. /\ files' = files \cup {<<gen, pool[w].result.job>>}
            /\ UNCHANGED <<partial, rows, gen>>
        BY <1>7 DEF Fetch
      <3>2. <<gen, pool[w].result.job>> \notin partial
        BY <2>1 DEF NotYetNamed
      <3>3. \A f \in files' : f[1] <= gen
        BY <1>t, <3>1
      <3>4. \A j \in Jobs : <<gen, j>> \in files' \ partial => \/ <<gen, j>> \in files \ partial
                                                             \/ j = pool[w].result.job
        BY <3>1
      <3>5. \A g : g \in files \ partial => g \in files' \ partial
        BY <3>1
      <3>6. <<gen, pool[w].result.job>> \in files' \ partial /\ partial \subseteq files'
        BY <3>1, <3>2
      <3> QED
        BY <2>2, <3>1, <3>3, <3>4, <3>5, <3>6
  <1>8. ASSUME NEW w \in Workers, FetchFails(w) PROVE FilesKnown'
    <2>1. /\ pool' \in [Workers -> Worker] /\ pool'[w].at = "send" /\ pool[w].at = "fetch"
          /\ pool'[w].result \in Result /\ pool'[w].result.kind \in {"missing", "error"}
          /\ pool'[w].result.job = pool[w].result.job
          /\ \A x \in Workers : x # w => pool'[x] = pool[x]
      BY <1>8, FetchedStep DEF FetchFails
    <2>2. \A j \in Jobs : InFlight(j, {"file"})' <=> InFlight(j, {"file"})
      BY <1>8, <2>1, InFlightFetched DEF FetchFails, Fetched
    <2> QED
      BY <1>8, <2>2 DEF FetchFails
  <1>20. ASSUME NEW w \in Workers, WriteFails(w) PROVE FilesKnown'
    <2>1. /\ pool' \in [Workers -> Worker] /\ pool'[w].at = "send" /\ pool[w].at = "fetch"
          /\ pool'[w].result \in Result /\ pool'[w].result.kind = "error"
          /\ pool'[w].result.job = pool[w].result.job
          /\ \A x \in Workers : x # w => pool'[x] = pool[x]
      BY <1>20, FetchedStep DEF WriteFails
    <2>2. \A j \in Jobs : InFlight(j, {"file"})' <=> InFlight(j, {"file"})
      BY <1>20, <2>1, InFlightFetched DEF WriteFails, Fetched
    <2> QED
      <3>1. /\ files' = files \cup {<<gen, pool[w].result.job>>}
            /\ partial' = partial \cup {<<gen, pool[w].result.job>>}
            /\ UNCHANGED <<rows, gen>>
        BY <1>20 DEF WriteFails
      <3>2. pool[w].result.job \in Jobs /\ rows[pool[w].result.job] # gen
        BY <2>1, JobType DEF Carries, NotYetNamed
      <3>3. ~InFlight(pool[w].result.job, {"file"})
        BY <2>1 DEF OnePlace, Carries, InFlight, Fetched
      <3>4. \A f \in files' : f[1] <= gen
        BY <1>t, <3>1
      <3>5. \A g, j : <<g, j>> \in files' \ partial' <=>
              <<g, j>> \in files \ partial /\ (g # gen \/ j # pool[w].result.job)
        BY <3>1
      <3>6. partial' \subseteq files'
        BY <3>1
      <3> QED
        BY <1>t, <2>2, <3>1, <3>2, <3>3, <3>4, <3>5, <3>6
  <1>9. ASSUME NEW w \in Workers, Send(w) PROVE FilesKnown'
    <2>2. \A j \in Jobs : InFlight(j, {"file"})' <=> InFlight(j, {"file"})
      BY <1>9, InFlightSent DEF Send
    <2> QED
      BY <1>9, <2>2 DEF Send
  <1>10. ASSUME Receive PROVE FilesKnown'
    <2>2. \A j \in Jobs : InFlight(j, {"file"})' <=> InFlight(j, {"file"})
      BY <1>10, InFlightReceived DEF Receive
    <2> QED
      BY <1>10, <2>2 DEF Receive
  <1>11. ASSUME Discard PROVE FilesKnown'
    <2>1. \A j \in Jobs : InFlight(j, {"file"})' <=> InFlight(j, {"file"}) /\ j # writer.job
      BY <1>11, InFlightHandled DEF Discard, Handled
    <2>2. writer \in Result /\ writer.job \in Jobs
      BY <1>11, JobType DEF Discard, Handled
    <2>3. /\ \A f \in files' : f \in files
          /\ \A g \in Nat, j \in Jobs : <<g, j>> \in files' <=> <<g, j>> \in files /\ (g # gen \/ j # writer.job \/ writer.kind # "file")
      BY <1>11, <1>t, <2>2 DEF Discard, Removed
    <2>4. rows[writer.job] # gen /\ rows' = rows /\ gen' = gen
      BY <1>11 DEF Discard, NotYetNamed
    <2>5. /\ partial' = partial
          /\ InFlight(writer.job, {"file"}) <=> writer.kind = "file"
      BY <1>11 DEF Discard, InFlight, OnePlace, Fetched, Carries
    <2> QED
      BY <1>t, <2>1, <2>2, <2>3, <2>4, <2>5
  <1>12. ASSUME Store PROVE FilesKnown'
    <2>1. \A j \in Jobs : InFlight(j, {"file"})' <=> InFlight(j, {"file"}) /\ j # writer.job
      BY <1>12, InFlightHandled DEF Store, Handled
    <2>2. writer \in Result /\ writer.job \in Jobs
      BY <1>12, JobType DEF Store, Handled
    <2>3. /\ rows'[writer.job] = gen /\ \A j \in Jobs : j # writer.job => rows'[j] = rows[j]
      BY <1>12, <1>t, <2>2 DEF Store
    <2>4. InFlight(writer.job, {"file"}) /\ files' = files /\ partial' = partial /\ gen' = gen
      BY <1>12 DEF Store, Handled, InFlight
    <2> QED
      BY <1>t, <2>1, <2>2, <2>3, <2>4
  <1>13. ASSUME StoreFails PROVE FilesKnown'
    <2>1. \A j \in Jobs : InFlight(j, {"file"})' <=> InFlight(j, {"file"}) /\ j # writer.job
      BY <1>13, InFlightHandled DEF StoreFails, Handled
    <2>2. writer \in Result /\ writer.job \in Jobs
      BY <1>13, JobType DEF StoreFails, Handled
    <2>3. /\ \A f \in files' : f \in files
          /\ \A g \in Nat, j \in Jobs : <<g, j>> \in files' <=> <<g, j>> \in files /\ (g # gen \/ j # writer.job)
      BY <1>13, <1>t, <2>2 DEF StoreFails, Removed
    <2>4. rows[writer.job] # gen /\ rows' = rows /\ gen' = gen
      BY <1>13 DEF StoreFails, Handled, NotYetNamed
    <2>5. /\ partial' = partial
          /\ InFlight(writer.job, {"file"}) <=> writer.kind = "file"
      BY <1>13 DEF StoreFails, InFlight, OnePlace, Fetched, Carries, Handled
    <2>6. <<gen, writer.job>> \in files \ partial
      BY <1>13, <2>2, <2>5 DEF StoreFails
    <2>7. partial \subseteq files'
      BY <1>13, <2>6 DEF StoreFails, Removed
    <2> QED
      BY <1>t, <2>1, <2>2, <2>3, <2>4, <2>5, <2>6, <2>7
  <1>14. ASSUME Skip PROVE FilesKnown'
    <2>1. \A j \in Jobs : InFlight(j, {"file"})' <=> InFlight(j, {"file"}) /\ j # writer.job
      BY <1>14, InFlightHandled DEF Skip, Handled
    <2>2. writer \in Result /\ writer.job \in Jobs
      BY <1>14, JobType DEF Skip, Handled
    <2>3. ~InFlight(writer.job, {"file"})
      BY <1>14 DEF Skip, Handled, InFlight, OnePlace, Fetched, Carries
    <2> QED
      BY <1>14, <1>t, <2>1, <2>2, <2>3 DEF Skip, Handled
  <1>15. ASSUME Finish PROVE FilesKnown'
    BY <1>15 DEF Finish, Finished, InFlight, Fetched
  <1>16. ASSUME ProfileEnds PROVE FilesKnown'
    BY <1>16 DEF ProfileEnds, InFlight, Fetched
  <1>17. ASSUME NEW v \in Viewers, Look(v) PROVE FilesKnown'
    BY <1>17 DEF Look, Resting, InFlight, Fetched
  <1>18. ASSUME NEW v \in Viewers, NEW i \in Images, Ask(v, i) PROVE FilesKnown'
    BY <1>18 DEF Ask, Bounded, Counted, InFlight, Fetched
  <1>19. CASE UNCHANGED vars
    BY <1>19 DEF InFlight, Fetched
  <1> QED
    BY <1>1, <1>2, <1>3, <1>4, <1>5, <1>6, <1>7, <1>8, <1>20, <1>9, <1>10, <1>11, <1>12, <1>13, <1>14, <1>15, <1>16, <1>17, <1>18, <1>19 DEF Next, WorkerStep, WriterStep

\* Every step keeps a finished batch quiet.
LEMMA QuietStep ==
    ASSUME MediaAssumption, TypeOK, Quiet, [Next]_vars
    PROVE  Quiet'
  <1> USE DEF vars, control, work, media, Quiet
  <1>1. ASSUME StopBackgroundDownloads PROVE Quiet'
    BY <1>1 DEF StopBackgroundDownloads, Bounded, Counted, Cancel
  <1>2. ASSUME StartSnapshotDownloads PROVE Quiet'
    BY <1>2 DEF StartSnapshotDownloads, Bounded, Counted, Cancel
  <1>3. ASSUME Stopped PROVE Quiet'
    BY <1>3 DEF Stopped, Joined
  <1>4. ASSUME Started PROVE Quiet'
    <2>1. gen \in Nat
      BY DEF TypeOK
    <2> QED
      BY <1>4, <2>1 DEF Started
  <1>5. ASSUME NEW w \in Workers, Take(w) PROVE Quiet'
    BY <1>5 DEF Take, Put
  <1>6. ASSUME NEW w \in Workers, Quit(w) PROVE Quiet'
    BY <1>6 DEF Quit, Put
  <1>7. ASSUME NEW w \in Workers, Fetch(w) PROVE Quiet'
    BY <1>7 DEF Fetch, Put
  <1>8. ASSUME NEW w \in Workers, FetchFails(w) PROVE Quiet'
    BY <1>8 DEF FetchFails, Put, Bounded, Counted
  <1>20. ASSUME NEW w \in Workers, WriteFails(w) PROVE Quiet'
    BY <1>20 DEF WriteFails, Put, Bounded, Counted
  <1>9. ASSUME NEW w \in Workers, Send(w) PROVE Quiet'
    BY <1>9 DEF Send, Put
  <1>10. ASSUME Receive PROVE Quiet'
    BY <1>10 DEF Receive
  <1>11. ASSUME Discard PROVE Quiet'
    BY <1>11 DEF Discard, Removed
  <1>12. ASSUME Store PROVE Quiet'
    BY <1>12 DEF Store, Handled
  <1>13. ASSUME StoreFails PROVE Quiet'
    BY <1>13 DEF StoreFails, Handled, Removed, Bounded, Counted
  <1>14. ASSUME Skip PROVE Quiet'
    BY <1>14 DEF Skip, Handled
  <1>15. ASSUME Finish PROVE Quiet'
    BY <1>15 DEF Finish, Finished
  <1>16. ASSUME ProfileEnds PROVE Quiet'
    BY <1>16 DEF ProfileEnds
  <1>17. ASSUME NEW v \in Viewers, Look(v) PROVE Quiet'
    BY <1>17 DEF Look, Resting
  <1>18. ASSUME NEW v \in Viewers, NEW i \in Images, Ask(v, i) PROVE Quiet'
    BY <1>18 DEF Ask, Bounded, Counted
  <1>19. CASE UNCHANGED vars
    BY <1>19
  <1> QED
    BY <1>1, <1>2, <1>3, <1>4, <1>5, <1>6, <1>7, <1>8, <1>20, <1>9, <1>10, <1>11, <1>12, <1>13, <1>14, <1>15, <1>16, <1>17, <1>18, <1>19 DEF Next, WorkerStep, WriterStep

\* A pool that is given jobs has somebody to do them.
LEMMA CrewWorks ==
    ASSUME MediaAssumption, planned \subseteq Jobs, planned # {}, Started
    PROVE  \E w \in Workers : pool'[w].at # "off"
  <1>1. PICK crew \in SUBSET Workers :
          /\ Cardinality(crew) = Cardinality(planned) \/ (crew = Workers /\ Cardinality(planned) > Cardinality(Workers))
          /\ pool' = [w \in Workers |-> IF w \in crew THEN [Off EXCEPT !.at = "idle"] ELSE Off]
    BY DEF Started
  <1>2. IsFiniteSet(planned) /\ IsFiniteSet(crew)
    BY FS_Union, FS_Subset DEF MediaAssumption, Jobs
  <1>3. Cardinality(planned) # 0
    BY <1>2, FS_EmptySet
  <1>4. crew # {}
    BY <1>1, <1>2, <1>3, FS_EmptySet DEF MediaAssumption
  <1> QED
    BY <1>1, <1>4 DEF Off

\* When a batch is over all its jobs are settled.
LEMMA DoneSettled ==
    ASSUME TypeOK, Quiet, Served, batch.done, NEW j \in batch.jobs
    PROVE  Settled(j)
  BY DEF Quiet, Served, Settled, InFlight, Fetched

\* Every step keeps who waits served.
LEMMA ServedStep ==
    ASSUME MediaAssumption, TypeOK, Quiet, OnePlace, Served, [Next]_vars
    PROVE  Served'
  <1> USE DEF vars, control, work, media, Served, Settled
  <1>t. /\ gen \in Nat /\ rows \in [Jobs -> Nat] /\ planned \subseteq Jobs /\ queue \subseteq Jobs /\ files \subseteq Nat \X Jobs /\ partial \subseteq Nat \X Jobs
      /\ broken \subseteq Jobs /\ batch \in Batch /\ batch.jobs \subseteq Jobs
    BY DEF TypeOK, Batch
  <1>1. ASSUME StopBackgroundDownloads PROVE Served'
    BY <1>1 DEF StopBackgroundDownloads, Bounded, Counted, Cancel, InFlight, Fetched
  <1>2. ASSUME StartSnapshotDownloads PROVE Served'
    BY <1>2 DEF StartSnapshotDownloads, Bounded, Counted, Cancel, InFlight, Fetched
  <1>3. ASSUME Stopped PROVE Served'
    BY <1>3 DEF Stopped, Joined, InFlight, Fetched
  <1>4. ASSUME Started PROVE Served'
    <2>1. batch.done
      BY <1>4 DEF Started, Joined, Quiet
    <2>2. \A j \in batch.jobs : Settled(j)
      BY <2>1, DoneSettled
    <2>3. /\ gen' = gen + 1 /\ ready' = {} /\ queue' = planned /\ out' = <<>> /\ writer' = None
          /\ batch'.jobs = planned /\ ~batch'.cancelled
          /\ UNCHANGED <<files, rows, broken, viewers, cut>>
      BY <1>4 DEF Started
    <2>4. \A w \in Workers : ~Fetched(w)'
      BY <1>4 DEF Started, Off, Fetched
    <2>5. \A j \in Jobs, K \in {{"missing", "error"}, {"file", "missing", "error"}} : ~InFlight(j, K)'
      BY <2>3, <2>4 DEF InFlight
    <2>6. queue' # {} => \E w \in Workers : pool'[w].at # "off"
      BY <1>4, <1>t, <2>3, CrewWorks
    <2>7. \A v \in Viewers : viewers[v].gen \in Nat
      BY DEF TypeOK, Viewer
    <2> QED
      BY <1>t, <2>2, <2>3, <2>5, <2>6, <2>7
  <1>5. ASSUME NEW w \in Workers, Take(w) PROVE Served'
    <2>1. /\ pool'[w].at = "fetch" /\ pool[w].at = "idle"
          /\ pool'[w].result \in Result /\ pool'[w].result.job \in queue
          /\ queue' = queue \ {pool'[w].result.job}
          /\ \A x \in Workers : x # w => pool'[x] = pool[x]
      BY <1>5, TakeStep DEF Take
    <2>2. \A j \in Jobs, K \in {{"missing", "error"}, {"file", "missing", "error"}} : InFlight(j, K)' <=> InFlight(j, K)
      BY <1>5, <2>1, InFlightIdle DEF Take, Fetched
    <2> QED
      BY <1>5, <1>t, <2>1, <2>2 DEF Take
  <1>6. ASSUME NEW w \in Workers, Quit(w) PROVE Served'
    <2>1. /\ pool[w].at = "idle" /\ pool'[w].at = "off"
          /\ \A x \in Workers : x # w => pool'[x] = pool[x]
      BY <1>6, QuitStep
    <2>2. \A j \in Jobs, K \in {{"missing", "error"}, {"file", "missing", "error"}} : InFlight(j, K)' <=> InFlight(j, K)
      BY <1>6, <2>1, InFlightIdle DEF Quit, Fetched
    <2>3. \A x \in Workers : pool'[x].at = "fetch" <=> pool[x].at = "fetch"
      BY <2>1
    <2>4. queue = {} \/ gen \in cut
      BY <1>6, <2>1 DEF Quit, Quiet
    <2> QED
      BY <1>6, <1>t, <2>1, <2>2, <2>3, <2>4 DEF Quit
  <1>7. ASSUME NEW w \in Workers, Fetch(w) PROVE Served'
    <2>1. /\ pool' \in [Workers -> Worker] /\ pool'[w].at = "send" /\ pool[w].at = "fetch"
          /\ pool'[w].result \in Result /\ pool'[w].result.kind = "file"
          /\ pool'[w].result.job = pool[w].result.job
          /\ \A x \in Workers : x # w => pool'[x] = pool[x]
      BY <1>7, FetchedStep DEF Fetch
    <2>2. \A j \in Jobs, K \in {{"missing", "error"}, {"file", "missing", "error"}} :
            InFlight(j, K)' <=> InFlight(j, K) \/ (j = pool[w].result.job /\ "file" \in K)
      BY <1>7, <2>1, InFlightFetched DEF Fetch, Fetched
    <2> QED
      BY <1>7, <1>t, <2>1, <2>2 DEF Fetch
  <1>8. ASSUME NEW w \in Workers, FetchFails(w) PROVE Served'
    <2>1. /\ pool' \in [Workers -> Worker] /\ pool'[w].at = "send" /\ pool[w].at = "fetch"
          /\ pool'[w].result \in Result /\ pool'[w].result.kind \in {"missing", "error"}
          /\ pool'[w].result.job = pool[w].result.job
          /\ \A x \in Workers : x # w => pool'[x] = pool[x]
      BY <1>8, FetchedStep DEF FetchFails
    <2>2. \A j \in Jobs, K \in {{"missing", "error"}, {"file", "missing", "error"}} :
            InFlight(j, K)' <=> InFlight(j, K) \/ j = pool[w].result.job
      BY <1>8, <2>1, InFlightFetched DEF FetchFails, Fetched
    <2> QED
      BY <1>8, <1>t, <2>1, <2>2 DEF FetchFails
  <1>20. ASSUME NEW w \in Workers, WriteFails(w) PROVE Served'
    <2>1. /\ pool' \in [Workers -> Worker] /\ pool'[w].at = "send" /\ pool[w].at = "fetch"
          /\ pool'[w].result \in Result /\ pool'[w].result.kind = "error"
          /\ pool'[w].result.job = pool[w].result.job
          /\ \A x \in Workers : x # w => pool'[x] = pool[x]
      BY <1>20, FetchedStep DEF WriteFails
    <2>2. \A j \in Jobs, K \in {{"missing", "error"}, {"file", "missing", "error"}} :
            InFlight(j, K)' <=> InFlight(j, K) \/ j = pool[w].result.job
      BY <1>20, <2>1, InFlightFetched DEF WriteFails, Fetched
    <2> QED
      BY <1>20, <1>t, <2>1, <2>2 DEF WriteFails
  <1>9. ASSUME NEW w \in Workers, Send(w) PROVE Served'
    <2>1. /\ pool[w].at = "send" /\ pool'[w].at = "idle"
          /\ \A x \in Workers : x # w => pool'[x] = pool[x]
      BY <1>9, SendStep
    <2>2. \A j \in Jobs : InFlight(j, {"missing", "error"})' <=> InFlight(j, {"missing", "error"})
      BY <1>9, InFlightSent
    <2>3. \A j \in Jobs : InFlight(j, {"file", "missing", "error"})'
                          <=> InFlight(j, {"file", "missing", "error"})
      BY <1>9, InFlightSent
    <2>4. UNCHANGED <<lock, planned, gen, batch, profile, queue, writer, files, partial, rows, broken,
                      ready, viewers, cut>>
      BY <1>9 DEF Send
    <2>5. \A j \in batch.jobs :
            \/ Settled(j) \/ j \in queue
            \/ InFlight(j, {"file", "missing", "error"})'
            \/ \E x \in Workers : pool'[x].at = "fetch" /\ pool'[x].result.job = j
      BY <1>t, <2>1, <2>3
    <2>6. queue # {} => gen \in cut \/ \E x \in Workers : pool'[x].at # "off"
      BY <2>1
    <2> QED
      BY <2>2, <2>4, <2>5, <2>6
  <1>10. ASSUME Receive PROVE Served'
    <2>3. /\ 1 \in 1..Len(out)
          /\ \A i \in 1..Len(out') : i + 1 \in 1..Len(out) /\ i + 1 # 1 /\ out'[i] = out[i + 1]
          /\ \A i \in 1..Len(out) : i = 1 \/ \E k \in 1..Len(out') : out[i] = out'[k]
          /\ writer' \in Result /\ writer'.job = out[1].job /\ writer'.kind = out[1].kind
          /\ writer'.keep = ~batch.cancelled
      BY <1>10, ReceiveStep
    <2>2. \A j \in Jobs, K \in {{"missing", "error"}, {"file", "missing", "error"}} : InFlight(j, K)' <=> InFlight(j, K)
      BY <1>10, InFlightReceived DEF Receive
    <2>4. batch.cancelled => gen \in cut
      BY <1>10 DEF Receive, Quiet
    <2> QED
      BY <1>10, <1>t, <2>2, <2>3, <2>4 DEF Receive
  <1>11. ASSUME Discard PROVE Served'
    <2>1. \A j \in Jobs, K \in {{"missing", "error"}, {"file", "missing", "error"}} : InFlight(j, K)' <=> InFlight(j, K) /\ j # writer.job
      BY <1>11, InFlightHandled DEF Discard, Handled
    <2>2. writer \in Result /\ writer.job \in Jobs
      BY <1>11, JobType DEF Discard, Handled
    <2> QED
      BY <1>11, <1>t, <2>1, <2>2 DEF Discard
  <1>12. ASSUME Store PROVE Served'
    <2>1. \A j \in Jobs, K \in {{"missing", "error"}, {"file", "missing", "error"}} : InFlight(j, K)' <=> InFlight(j, K) /\ j # writer.job
      BY <1>12, InFlightHandled DEF Store, Handled
    <2>2. writer \in Result /\ writer.job \in Jobs
      BY <1>12, JobType DEF Store, Handled
    <2>3. /\ batch'.done = batch.done /\ batch'.cancelled = batch.cancelled /\ batch'.jobs = batch.jobs
      BY <1>12, BatchType DEF Store, TypeOK
    <2>4. writer.job \notin queue /\ (\A w \in Workers : pool[w].at = "fetch" => pool[w].result.job # writer.job)
      BY <1>12 DEF Store, Handled, OnePlace, Carries
    <2>5. rows'[writer.job] # 0 /\ \A j \in Jobs : j # writer.job => rows'[j] = rows[j]
      BY <1>12, <1>t, <2>2 DEF Store, Handled, Quiet
    <2> QED
      BY <1>12, <1>t, <2>1, <2>2, <2>3, <2>4, <2>5 DEF Store, Handled
  <1>13. ASSUME StoreFails PROVE Served'
    <2>1. \A j \in Jobs, K \in {{"missing", "error"}, {"file", "missing", "error"}} : InFlight(j, K)' <=> InFlight(j, K) /\ j # writer.job
      BY <1>13, InFlightHandled DEF StoreFails, Handled
    <2>2. writer \in Result /\ writer.job \in Jobs
      BY <1>13, JobType DEF StoreFails, Handled
    <2>3. /\ batch'.done = batch.done /\ batch'.cancelled = batch.cancelled /\ batch'.jobs = batch.jobs
      BY <1>13, BatchType DEF StoreFails, TypeOK
    <2>4. writer.job \notin queue /\ (\A w \in Workers : pool[w].at = "fetch" => pool[w].result.job # writer.job)
      BY <1>13 DEF StoreFails, Handled, OnePlace, Carries
    <2> QED
      BY <1>13, <1>t, <2>1, <2>2, <2>3, <2>4 DEF StoreFails, Handled
  <1>14. ASSUME Skip PROVE Served'
    <2>1. \A j \in Jobs, K \in {{"missing", "error"}, {"file", "missing", "error"}} : InFlight(j, K)' <=> InFlight(j, K) /\ j # writer.job
      BY <1>14, InFlightHandled DEF Skip, Handled
    <2>2. writer \in Result /\ writer.job \in Jobs
      BY <1>14, JobType DEF Skip, Handled
    <2>3. /\ batch'.done = batch.done /\ batch'.cancelled = batch.cancelled /\ batch'.jobs = batch.jobs
      BY <1>14, BatchType DEF Skip, TypeOK
    <2>4. writer.job \notin queue /\ (\A w \in Workers : pool[w].at = "fetch" => pool[w].result.job # writer.job)
      BY <1>14 DEF Skip, Handled, OnePlace, Carries
    <2>5. writer.job \in broken
      BY <1>14, <2>2 DEF Skip, Handled, InFlight, Result
    <2> QED
      BY <1>14, <1>t, <2>1, <2>2, <2>3, <2>4, <2>5 DEF Skip, Handled
  <1>15. ASSUME Finish PROVE Served'
    <2>1. \A j \in Jobs, K \in {{"missing", "error"}, {"file", "missing", "error"}} : ~InFlight(j, K)' /\ ~InFlight(j, K)
      BY <1>15 DEF Finish, Finished, InFlight, Fetched
    <2> QED
      BY <1>15, <1>t, <2>1 DEF Finish, Finished
  <1>16. ASSUME ProfileEnds PROVE Served'
    BY <1>16 DEF ProfileEnds, InFlight, Fetched
  <1>17. ASSUME NEW v \in Viewers, Look(v) PROVE Served'
    BY <1>17 DEF Look, Resting, InFlight, Fetched
  <1>18. ASSUME NEW v \in Viewers, NEW i \in Images, Ask(v, i) PROVE Served'
    <2>1. \A j \in Jobs, K \in {{"missing", "error"}, {"file", "missing", "error"}} : InFlight(j, K)' <=> InFlight(j, K)
      BY <1>18 DEF Ask, InFlight, Fetched
    <2>2. \A x \in Viewers : viewers'[x] = IF x = v THEN [at |-> "wait", job |-> i, gen |-> IF batch.on /\ i \in batch.jobs THEN gen ELSE 0] ELSE viewers[x]
      BY <1>18 DEF Ask, TypeOK
    <2> QED
      BY <1>18, <1>t, <2>1, <2>2 DEF Ask
  <1>19. CASE UNCHANGED vars
    BY <1>19 DEF InFlight, Fetched
  <1> QED
    BY <1>1, <1>2, <1>3, <1>4, <1>5, <1>6, <1>7, <1>8, <1>20, <1>9, <1>10, <1>11, <1>12, <1>13, <1>14, <1>15, <1>16, <1>17, <1>18, <1>19 DEF Next, WorkerStep, WriterStep

-----------------------------------------------------------------------------
(* The theorems                                                            *)

\* The program starts without a batch.
LEMMA InitIInv == MediaAssumption /\ Init => IInv
  <1> SUFFICES ASSUME MediaAssumption, Init PROVE IInv
    OBVIOUS
  <1>1. TypeOK
    <2>1. batch \in Batch /\ batch.failed <= batch.completed
      BY DEF Init, Batch
    <2>2. pool \in [Workers -> Worker] /\ viewers \in [Viewers -> Viewer]
      BY DEF Init, Worker, Viewer, Off, Resting
    <2>3. out \in Seq(Result) /\ Len(out) <= Capacity
      BY DEF Init, MediaAssumption
    <2>4. rows \in [Jobs -> Nat] /\ count \in [Counters -> Nat]
      BY DEF Init
    <2> QED
      BY <2>1, <2>2, <2>3, <2>4 DEF Init, TypeOK
  <1>2. OnePlace /\ NotYetNamed
    BY DEF Init, OnePlace, NotYetNamed, Carries, Off
  <1>3. FilesKnown
    BY DEF Init, FilesKnown, InFlight, Fetched, Off
  <1>4. Quiet /\ Served
    BY DEF Init, Quiet, Served, InFlight, Fetched, Off, Resting
  <1> QED
    BY <1>1, <1>2, <1>3, <1>4 DEF IInv

\* Every step keeps the invariant.
LEMMA StepIInv == MediaAssumption /\ IInv /\ [Next]_vars => IInv'
  BY TypeStep, OnePlaceStep, NotYetNamedStep, FilesStep, QuietStep, ServedStep DEF IInv

\* The inductive invariant holds in every reachable state.
THEOREM Invariant == Spec => []IInv
  BY MediaAssumption, InitIInv, StepIInv, PTL DEF Spec

\* The types hold for any pool, any number of files and any channel.
THEOREM TypeCorrect == Spec => []TypeOK
  <1>1. IInv => TypeOK
    BY DEF IInv
  <1> QED
    BY <1>1, Invariant, PTL

\* snapshot_files.go, the writer: however workers, writer and stop interleave,
\* rows name whole files that are there, and a batch that is over leaves no
\* whole file behind that no row names.
THEOREM FilesAndRows == Spec => []FilesAgree
  <1>1. ASSUME IInv PROVE FilesAgree
    <2>1. \A j \in Jobs : rows[j] # 0 => <<rows[j], j>> \in files \ partial
      BY <1>1 DEF IInv, FilesKnown
    <2>2. ASSUME batch.done, NEW j \in Jobs, <<gen, j>> \in files \ partial PROVE rows[j] = gen
      BY <1>1, <2>2 DEF IInv, FilesKnown, Quiet, InFlight, Fetched
    <2> QED
      BY <2>1, <2>2 DEF FilesAgree
  <1> QED
    BY <1>1, Invariant, PTL

\* One step of NothingAfterStop.
NothingWritten == ~batch.on => UNCHANGED <<files, rows>>

\* snapshot_files.go:51, "Stop joins all writers": after a stop has returned
\* no step writes a file or a row.
THEOREM StopJoinsWriters == Spec => NothingAfterStop
  <1>1. ASSUME IInv, [Next]_vars PROVE [NothingWritten]_vars
    <2>1. ~batch.on => /\ \A w \in Workers : pool[w].at = "off"
                       /\ out = <<>> /\ writer = None
      BY <1>1 DEF IInv, Quiet
    <2> SUFFICES ASSUME ~batch.on PROVE UNCHANGED <<files, rows>>
      BY DEF NothingWritten
    <2> USE DEF vars, control, work, media
    <2>2. CASE StopBackgroundDownloads \/ StartSnapshotDownloads \/ Stopped \/ Started
      BY <2>2 DEF StopBackgroundDownloads, StartSnapshotDownloads, Stopped, Started
    <2>3. ASSUME NEW w \in Workers, WorkerStep(w) PROVE UNCHANGED <<files, rows>>
      BY <2>1, <2>3 DEF WorkerStep, Take, Quit, Fetch, FetchFails, WriteFails, Send
    <2>4. CASE WriterStep
      BY <2>1, <2>4 DEF WriterStep, Receive, Discard, Store, StoreFails, Skip, Handled, Finish, Finished
    <2>5. CASE ProfileEnds
      BY <2>5 DEF ProfileEnds
    <2>6. ASSUME NEW v \in Viewers, Look(v) \/ \E i \in Images : Ask(v, i) PROVE UNCHANGED <<files, rows>>
      BY <2>6 DEF Look, Ask
    <2> QED
      BY <1>1, <2>2, <2>3, <2>4, <2>5, <2>6 DEF Next
  <1> QED
    BY <1>1, Invariant, PTL DEF Spec, NothingAfterStop, NothingWritten

\* One step of ServedAfterWait.
ViewerServed ==
    \A v \in Viewers : Look(v) /\ viewers[v].gen # 0 =>
        \/ rows[viewers[v].job] # 0
        \/ viewers[v].job \in broken
        \/ viewers[v].gen \in cut

\* snapshot_files.go:66: whoever has waited for an image, through any number of
\* batches, finds its row, unless the download failed or was cancelled.
THEOREM WaitingIsServed == Spec => ServedAfterWait
  <1>1. ASSUME IInv, [Next]_vars PROVE [ViewerServed]_vars
    <2> SUFFICES ASSUME NEW v \in Viewers, Look(v), viewers[v].gen # 0
                 PROVE  \/ rows[viewers[v].job] # 0
                        \/ viewers[v].job \in broken
                        \/ viewers[v].gen \in cut
      BY DEF ViewerServed
    <2>1. gen \in Nat /\ viewers[v].gen \in Nat
      BY <1>1 DEF IInv, TypeOK, Viewer
    <2>2. CASE viewers[v].gen = gen
      BY <1>1, <2>2 DEF IInv, Served, Settled, Look, Told
    <2>3. CASE viewers[v].gen < gen
      BY <1>1, <2>3 DEF IInv, Served
    <2> QED
      BY <1>1, <2>1, <2>2, <2>3 DEF IInv, Served
  <1> QED
    BY <1>1, Invariant, PTL DEF Spec, ServedAfterWait, ViewerServed

=============================================================================
