------------------------------ MODULE TagsProofs ------------------------------
(***************************************************************************)
(* Proofs about Tags, for any names and bounds: the types, and that a tag  *)
(* shown as synchronised is on the server or its deletion is still ahead   *)
(* of the cursor.                                                          *)
(***************************************************************************)
EXTENDS Tags, FiniteSetTheorems, WellFoundedInduction, TLAPS

-----------------------------------------------------------------------------
(* The inductive invariant                                                 *)

\* The server's state has been read in this round.
Listed == pc \in {"pull", "merge", "cleanup", "unused"} \/ pass = 2

\* The USN of a change no cursor of the client has passed.
Ahead(usn) == usn > last /\ (Listed => usn > state)

\* The server numbers its changes: no cursor is beyond the last of them, and
\* two tags with the same number are from before the account's first round.
ServerUSNs ==
    /\ last <= Top /\ state <= Top
    /\ \A t \in Names : /\ srv[t].live => srv[t].known
                        /\ srv[t].known <=> srv[t].usn > 0
    /\ \A t, u \in Names : t # u /\ srv[t].usn = srv[u].usn
          => srv[t].usn <= last /\ (Listed => srv[t].usn <= state)

\* The second upload ends the round; between collecting and answering a tag
\* that is to be deleted stays hidden.
Uploading ==
    /\ pass = 2 => pc \in {"push", "answer"}
    /\ pc \in {"push", "answer"} => \A t \in Names : snap[t].hidden => rows[t].hidden

\* The tag found unused is one.
Cleaning == pc = "unused" => cur \in Names

\* What the server has answered: the number it names is its own, and a tag it
\* has taken is still there or was deleted by a later change.
Answering == pc = "answer" =>
    /\ cur \in Names /\ reply.kind \in {"ok", "deleted", "error"} /\ reply.usn <= Top
    /\ reply.kind = "deleted" => rows[cur].hidden
    /\ reply.kind = "ok" => reply.usn > 0 \/ count.refused > 0
    /\ reply.kind # "error" => \A t \in Names : t # cur /\ srv[t].usn = reply.usn => reply.usn <= last
    /\ reply.kind = "ok" /\ count.refused = 0
         => srv[cur].live \/ (srv[cur].usn > reply.usn /\ Ahead(srv[cur].usn))

\* What the list says is still true, or a later change has a number ahead.
Merging == pc = "merge" =>
    /\ \A t \in queue : snap[t].here
    /\ \A t \in Names : snap[t].here =>
         /\ snap[t].usn > 0
         /\ ~snap[t].hidden => srv[t].live \/ Ahead(srv[t].usn)

\* A full round will set the cursor to the state it has read: the tags it has
\* been through are not clean by a deletion before that state.
Covered(t) == (pc = "merge" /\ t \notin queue) \/ pc \in {"cleanup", "unused"} \/ pass = 2
FullRound == mode = "full" =>
    \A t \in Visible : Covered(t) /\ ~rows[t].dirty /\ count.refused = 0
        => srv[t].live \/ srv[t].usn > state

IInv == /\ TypeOK /\ ServerUSNs /\ Uploading /\ Cleaning /\ Answering /\ Merging
        /\ FullRound /\ CleanTagOnServer

-----------------------------------------------------------------------------
(* Numbers of the server                                                   *)

\* A finite set of numbers has a largest one: of the sets of elements from one
\* upwards take one that contains no other.
LEMMA FiniteMax ==
    ASSUME NEW S \in SUBSET Nat, IsFiniteSet(S), S # {}
    PROVE  \E n \in S : \A m \in S : m <= n
  <1> DEFINE Above(n) == {m \in S : n <= m}
             T == {Above(n) : n \in S}
  <1>1. IsWellFoundedOn(StrictSubsetOrdering(S), FiniteSubsetsOf(S)) /\ FiniteSubsetsOf(S) = SUBSET S
    BY FS_StrictSubsetOrderingWellFounded, FS_FiniteSubsetsOfFinite
  <1>2. T \subseteq SUBSET S /\ T # {}
    OBVIOUS
  <1>3. \E x \in T : \A y \in T : <<y, x>> \notin StrictSubsetOrdering(S)
    <2>1. IsWellFoundedOn(StrictSubsetOrdering(S), SUBSET S)
      BY <1>1
    <2> HIDE DEF T, Above
    <2> QED
      BY <2>1, <1>2, WFMin
  <1>4. PICK n \in S : \A y \in T : <<y, Above(n)>> \notin StrictSubsetOrdering(S)
    BY <1>3
  <1>5. ASSUME NEW m \in S, m > n PROVE FALSE
    <2>1. \A k \in S : k \in Nat
      OBVIOUS
    <2>2. \A k \in S : m <= k => n <= k
      BY <1>5, <2>1
    <2>3. n <= n /\ ~(m <= n)
      BY <1>5, <2>1
    <2>4. Above(m) \subseteq Above(n) /\ n \in Above(n) /\ n \notin Above(m)
      BY <2>2, <2>3
    <2>5. <<Above(m), Above(n)>> \in StrictSubsetOrdering(S)
      BY <2>4 DEF StrictSubsetOrdering
    <2> QED
      BY <1>4, <2>5
  <1> QED
    BY <1>5

\* Of the numbers of finitely many tags, and 0, there is a largest.
LEMMA LargestUSN ==
    ASSUME NEW s \in [Names -> Entry]
    PROVE  LET usns == {s[t].usn : t \in Names} \cup {0}
               top == CHOOSE n \in usns : \A m \in usns : m <= n
           IN top \in Nat /\ \A t \in Names : s[t].usn \in Nat /\ s[t].usn <= top
  <1> DEFINE U == {s[t].usn : t \in Names}
             usns == U \cup {0}
             top == CHOOSE n \in usns : \A m \in usns : m <= n
  <1>1. usns \in SUBSET Nat /\ usns # {} /\ \A t \in Names : s[t].usn \in Nat /\ s[t].usn \in usns
    BY DEF Entry
  <1>2. IsFiniteSet(U)
    <2>1. [t \in Names |-> s[t].usn] \in Surjection(Names, U)
      BY DEF Surjection
    <2> HIDE DEF U
    <2> QED
      BY <2>1, TagsAssumption, FS_Surjection
  <1>3. IsFiniteSet(usns)
    BY <1>2, FS_Singleton, FS_Union
  <1> HIDE DEF usns
  <1>4. \E n \in usns : \A m \in usns : m <= n
    BY <1>1, <1>3, FiniteMax
  <1>5. top \in usns /\ \A m \in usns : m <= top
    BY <1>4
  <1> HIDE DEF top
  <1>6. top \in Nat /\ \A t \in Names : s[t].usn \in Nat /\ s[t].usn <= top
    BY <1>1, <1>5
  <1> QED
    BY <1>6 DEF top, usns

\* The server's USN is the largest of its tags' numbers, before a step
LEMMA TopIs ==
    ASSUME srv \in [Names -> Entry]
    PROVE  Top \in Nat /\ \A t \in Names : srv[t].usn \in Nat /\ srv[t].usn <= Top
  BY LargestUSN DEF Top

\* and after it.
LEMMA TopIsNext ==
    ASSUME srv' \in [Names -> Entry]
    PROVE  Top' \in Nat /\ \A t \in Names : srv'[t].usn \in Nat /\ srv'[t].usn <= Top'
  BY LargestUSN DEF Top

-----------------------------------------------------------------------------
(* Who writes what                                                         *)

\* The server changes by the other devices and by requests.
LEMMA ServerWriters ==
    ASSUME [Next]_vars
    PROVE  \/ UNCHANGED srv
           \/ RemoteAdd
           \/ RemoteDelete
           \/ \E t \in Names : Request(t)
  BY DEF Next, Remote, User, Faults, Round, vars, round, RemoteNote, RemoteStep, Counted,
         TagNote, UserStep, UntagNote, AddTag, DeleteTag, LoseRequest, RefuseTag, LoseAnswer,
         CutOff, Rest, Acknowledge, Answered, AcknowledgeDelete, RecordError, EndUpload,
         ReadState, Collect, GetSyncTags, MergeTag, EndMerge, CountTag, DeleteUnused, PushAgain,
         Start

\* The rows change by the user, by answers and by what is downloaded.
LEMMA RowsWriters ==
    ASSUME [Next]_vars
    PROVE  \/ UNCHANGED rows
           \/ TagNote
           \/ AddTag
           \/ DeleteTag
           \/ Acknowledge
           \/ AcknowledgeDelete
           \/ MergeTag
           \/ DeleteUnused
  BY DEF Next, Remote, User, Faults, Round, vars, round, RemoteAdd, RemoteStep, Counted,
         RemoteDelete, RemoteNote, UntagNote, UserStep, LoseRequest, RefuseTag, LoseAnswer,
         CutOff, Rest, Request, RecordError, Answered, EndUpload, ReadState, Collect,
         GetSyncTags, EndMerge, CountTag, PushAgain, Start

\* The cursor follows answers, and the state that a full round has read.
LEMMA CursorWriters ==
    ASSUME [Next]_vars
    PROVE  \/ UNCHANGED last
           \/ Acknowledge
           \/ AcknowledgeDelete
           \/ EndUpload
  BY DEF Next, Remote, User, Faults, Round, vars, round, RemoteAdd, RemoteStep, Counted,
         RemoteDelete, RemoteNote, TagNote, UserStep, UntagNote, AddTag, DeleteTag, LoseRequest,
         RefuseTag, LoseAnswer, CutOff, Rest, Request, RecordError, Answered, ReadState, Collect,
         GetSyncTags, MergeTag, EndMerge, CountTag, DeleteUnused, PushAgain, Start

\* The list of the round is made by collecting, by downloading, and forgotten.
LEMMA SnapWriters ==
    ASSUME [Next]_vars
    PROVE  \/ UNCHANGED <<snap, pass>>
           \/ CutOff
           \/ EndUpload
           \/ ReadState
           \/ GetSyncTags
           \/ EndMerge
           \/ PushAgain
           \/ \E m \in {"full", "incr"} : Start(m)
  BY DEF Next, Remote, User, Faults, Round, vars, round, RemoteAdd, RemoteStep, Counted,
         RemoteDelete, RemoteNote, TagNote, UserStep, UntagNote, AddTag, DeleteTag, LoseRequest,
         RefuseTag, LoseAnswer, Request, Acknowledge, Answered, AcknowledgeDelete, RecordError,
         MergeTag, CountTag, DeleteUnused

-----------------------------------------------------------------------------
(* The steps                                                               *)

\* A change on the server gets the next number.
LEMMA WrittenStep ==
    ASSUME TypeOK, NEW t \in Names, NEW live \in BOOLEAN, srv' = Written(t, live)
    PROVE  /\ srv' \in [Names -> Entry] /\ srv'[t].known /\ srv'[t].live = live
           /\ srv'[t].usn = Top + 1 /\ \A u \in Names : u # t => srv'[u] = srv[u]
           /\ Top \in Nat /\ Top' \in Nat /\ Top < Top'
  <1>1. srv \in [Names -> Entry] /\ Top \in Nat
    BY TopIs DEF TypeOK
  <1> DEFINE e == [known |-> TRUE, live |-> live, usn |-> Top + 1]
  <1>2. Top + 1 \in Nat
    BY <1>1
  <1>3. e \in Entry /\ e.known /\ e.live = live /\ e.usn = Top + 1
    BY <1>2 DEF Entry
  <1>4. srv' = [srv EXCEPT ![t] = e]
    BY DEF Written
  <1> HIDE DEF e
  <1>5. srv' \in [Names -> Entry] /\ srv'[t] = e /\ \A u \in Names : u # t => srv'[u] = srv[u]
    BY <1>1, <1>3, <1>4
  <1>6. Top' \in Nat /\ \A u \in Names : srv'[u].usn \in Nat /\ srv'[u].usn <= Top'
    <2>1. ASSUME srv' \in [Names -> Entry]
          PROVE  Top' \in Nat /\ \A u \in Names : srv'[u].usn \in Nat /\ srv'[u].usn <= Top'
      BY <2>1, TopIsNext
    <2> QED
      BY <1>5, <2>1
  <1> QED
    BY <1>1, <1>3, <1>5, <1>6

\* One tag at most changes on the server, and then no cursor moves.
LEMMA ServerMoves ==
    ASSUME TypeOK, [Next]_vars
    PROVE  /\ srv' \in [Names -> Entry] /\ Top \in Nat /\ Top' \in Nat /\ Top <= Top'
           /\ \A t \in Names : srv'[t].usn \in Nat /\ srv[t].usn \in Nat /\ srv[t].usn <= Top
           /\ \A t \in Names : srv'[t] = srv[t] \/ (srv'[t].usn = Top + 1 /\ srv'[t].known)
           /\ \A t, u \in Names : t # u => srv'[t] = srv[t] \/ srv'[u] = srv[u]
           /\ srv' # srv => last' = last /\ state' = state /\ pass' = pass /\ (Listed' <=> Listed)
  <1>1. /\ srv \in [Names -> Entry] /\ Top \in Nat
        /\ \A t \in Names : srv[t].usn \in Nat /\ srv[t].usn <= Top
    BY TopIs DEF TypeOK
  <1>2. CASE srv' = srv
    <2>1. Top' = Top
      BY <1>2 DEF Top
    <2> QED
      BY <1>1, <1>2, <2>1
  <1>3. ASSUME NEW t \in Names, NEW live \in BOOLEAN, srv' = Written(t, live),
               last' = last /\ state' = state /\ pass' = pass /\ (Listed' <=> Listed)
        PROVE  /\ srv' \in [Names -> Entry] /\ Top \in Nat /\ Top' \in Nat /\ Top <= Top'
               /\ \A u \in Names : srv'[u].usn \in Nat /\ srv[u].usn \in Nat /\ srv[u].usn <= Top
               /\ \A u \in Names : srv'[u] = srv[u] \/ (srv'[u].usn = Top + 1 /\ srv'[u].known)
               /\ \A u, x \in Names : u # x => srv'[u] = srv[u] \/ srv'[x] = srv[x]
               /\ srv' # srv => last' = last /\ state' = state /\ pass' = pass /\ (Listed' <=> Listed)
    <2>1. /\ srv' \in [Names -> Entry] /\ srv'[t].known
          /\ srv'[t].usn = Top + 1 /\ \A u \in Names : u # t => srv'[u] = srv[u]
          /\ Top \in Nat /\ Top' \in Nat /\ Top < Top'
      BY <1>3, WrittenStep
    <2> QED
      BY <1>1, <1>3, <2>1
  <1>4. \/ srv' = srv
        \/ \E t \in Names, live \in BOOLEAN :
             srv' = Written(t, live) /\ last' = last /\ state' = state /\ pass' = pass /\ (Listed' <=> Listed)
    <2>1. CASE RemoteAdd \/ RemoteDelete
      BY <2>1 DEF RemoteAdd, RemoteDelete, RemoteStep, round, Listed
    <2>2. ASSUME NEW t \in Names, Request(t)
          PROVE  /\ srv' = srv \/ \E live \in BOOLEAN : srv' = Written(t, live)
                 /\ last' = last /\ state' = state /\ pass' = pass /\ (Listed' <=> Listed)
      BY <2>2 DEF Request, ServerDelete, ServerAdd, Listed
    <2> QED
      BY <2>1, <2>2, ServerWriters
  <1> QED
    BY <1>2, <1>3, <1>4

\* What a step makes of a row: the user adds or deletes it, ...
Added(t) == ~rows[t].here /\ rows'[t].here /\ rows'[t].dirty /\ ~rows'[t].hidden
Deleted(t) == rows[t].here /\ rows'[t].here /\ rows'[t].dirty /\ rows'[t].hidden

\* an answer settles it, ...
Stamp(t) == /\ Acknowledge /\ t = cur /\ rows[t].here
            /\ rows'[t].here /\ ~rows'[t].dirty /\ rows'[t].usn = reply.usn
            /\ rows'[t].hidden = rows[t].hidden
Gone(t) == /\ AcknowledgeDelete /\ t = cur /\ rows[t].here
           /\ rows'[t].here /\ rows'[t].hidden = rows[t].hidden

\* the list names it, or it is removed.
Listing(t) == /\ MergeTag /\ t \in queue /\ t \notin queue' /\ ~snap[t].hidden
              /\ rows'[t].here /\ ~rows'[t].dirty /\ rows'[t].usn = snap[t].usn
              /\ rows'[t].hidden = (rows[t].here /\ rows[t].hidden)
Removed(t) == (MergeTag \/ DeleteUnused) /\ rows'[t] = NoRow

\* The rows the table is written with.
LEMMA RowTypes ==
    ASSUME NEW r \in Row, NEW usn \in Nat
    PROVE  /\ NoRow \in Row /\ Clean(usn) \in Row
           /\ ~NoRow.here /\ ~NoRow.dirty /\ ~NoRow.hidden
           /\ [r EXCEPT !.dirty = FALSE, !.usn = usn] \in Row
           /\ [r EXCEPT !.dirty = FALSE] \in Row
           /\ [NoRow EXCEPT !.here = TRUE, !.dirty = TRUE] \in Row
           /\ [r EXCEPT !.dirty = TRUE, !.hidden = TRUE] \in Row
  BY DEF Row, NoRow, Clean

\* The index gains a tag.
LEMMA IndexedStep ==
    ASSUME TypeOK, NEW t \in Names, rows' = Indexed(t)
    PROVE  /\ rows' \in [Names -> Row]
           /\ \A u \in Names : u # t => rows'[u] = rows[u]
           /\ rows'[t] = rows[t] \/ Added(t)
  <1> DEFINE r == [NoRow EXCEPT !.here = TRUE, !.dirty = TRUE]
  <1>1. r \in Row /\ r.here /\ r.dirty /\ ~r.hidden
    BY DEF Row, NoRow
  <1>2. rows \in [Names -> Row]
    BY DEF TypeOK
  <1>3. rows' = IF rows[t].here THEN rows ELSE [rows EXCEPT ![t] = r]
    BY DEF Indexed
  <1> HIDE DEF r
  <1> QED
    BY <1>1, <1>2, <1>3 DEF Added

\* A tag takes the USN of an answer.
LEMMA StampedStep ==
    ASSUME TypeOK, NEW t \in Names, NEW usn \in Nat, rows' = Stamped(t, usn)
    PROVE  /\ rows' \in [Names -> Row]
           /\ \A u \in Names : u # t => rows'[u] = rows[u]
           /\ ~rows[t].here => rows'[t] = rows[t]
           /\ rows[t].here => /\ rows'[t].here /\ ~rows'[t].dirty /\ rows'[t].usn = usn
                              /\ rows'[t].hidden = rows[t].hidden
  <1>1. rows \in [Names -> Row] /\ rows[t] \in Row
    BY DEF TypeOK
  <1> DEFINE r == [rows[t] EXCEPT !.dirty = FALSE, !.usn = usn]
  <1>2. r \in Row /\ r.here = rows[t].here /\ ~r.dirty /\ r.usn = usn /\ r.hidden = rows[t].hidden
    BY <1>1 DEF Row
  <1>3. rows' = [rows EXCEPT ![t] = IF rows[t].here THEN r ELSE rows[t]]
    BY DEF Stamped
  <1> HIDE DEF r
  <1> QED
    BY <1>1, <1>2, <1>3

\* A tag is marked clean.
LEMMA SettledStep ==
    ASSUME TypeOK, NEW t \in Names, rows' = Settled(t)
    PROVE  /\ rows' \in [Names -> Row]
           /\ \A u \in Names : u # t => rows'[u] = rows[u]
           /\ rows'[t].here = rows[t].here /\ rows'[t].hidden = rows[t].hidden
  BY DEF TypeOK, Row, Settled

\* A tag goes.
LEMMA DeletedStep ==
    ASSUME TypeOK, NEW t \in Names, rows' = [rows EXCEPT ![t].dirty = TRUE, ![t].hidden = TRUE]
    PROVE  /\ rows' \in [Names -> Row]
           /\ \A u \in Names : u # t => rows'[u] = rows[u]
           /\ rows'[t].here = rows[t].here /\ rows'[t].hidden /\ rows'[t].dirty
  BY DEF TypeOK, Row

\* A tag takes what the list says.
LEMMA MergedStep ==
    ASSUME TypeOK, NEW t \in Names, NEW e \in Row, rows' = Merged(t, e)
    PROVE  /\ rows' \in [Names -> Row]
           /\ \A u \in Names : u # t => rows'[u] = rows[u]
           /\ e.hidden => rows'[t] = NoRow
           /\ ~e.hidden => /\ rows'[t].here /\ ~rows'[t].dirty /\ rows'[t].usn = e.usn
                           /\ rows'[t].hidden = (rows[t].here /\ rows[t].hidden)
  <1>1. rows \in [Names -> Row] /\ NoRow \in Row /\ e.usn \in Nat
    BY RowTypes DEF TypeOK, Row
  <1>2. CASE e.hidden
    BY <1>1, <1>2 DEF Merged
  <1>3. CASE ~e.hidden /\ rows[t].here
    <2>1. rows' = Stamped(t, e.usn)
      BY <1>3 DEF Merged
    <2>2. rows[t].hidden \in BOOLEAN
      BY <1>1 DEF Row
    <2> QED
      BY <1>1, <1>3, <2>1, <2>2, StampedStep
  <1>4. CASE ~e.hidden /\ ~rows[t].here
    <2>1. rows' = [rows EXCEPT ![t] = Clean(e.usn)]
      BY <1>4 DEF Merged
    <2>2. /\ Clean(e.usn) \in Row /\ Clean(e.usn).here /\ ~Clean(e.usn).dirty
          /\ Clean(e.usn).usn = e.usn /\ Clean(e.usn).hidden = FALSE
      BY <1>1 DEF Clean, NoRow, Row
    <2> QED
      BY <1>1, <1>4, <2>1, <2>2
  <1> QED
    BY <1>2, <1>3, <1>4

\* Every row after a step.
LEMMA RowsMove ==
    ASSUME TypeOK, Cleaning, Answering, [Next]_vars
    PROVE  /\ rows' \in [Names -> Row]
           /\ \A t \in Names : \/ rows'[t] = rows[t] \/ Added(t) \/ Deleted(t) \/ Stamp(t)
                               \/ Gone(t) \/ Listing(t) \/ Removed(t)
  <1> DEFINE Moves == /\ rows' \in [Names -> Row]
                      /\ \A t \in Names : \/ rows'[t] = rows[t] \/ Added(t) \/ Deleted(t) \/ Stamp(t)
                                          \/ Gone(t) \/ Listing(t) \/ Removed(t)
  <1>t. rows \in [Names -> Row] /\ snap \in [Names -> Row] /\ reply.usn \in Nat /\ queue \subseteq Names
    BY DEF TypeOK, Answer
  <1>1. CASE UNCHANGED rows
    BY <1>t, <1>1
  <1>2. CASE TagNote \/ AddTag
    <2>1. \E t \in Names : rows' = Indexed(t)
      BY <1>2 DEF TagNote, AddTag
    <2> QED
      BY <2>1, IndexedStep
  <1>3. CASE DeleteTag
    <2>1. PICK t \in Here : rows' = [rows EXCEPT ![t].dirty = TRUE, ![t].hidden = TRUE]
      BY <1>3 DEF DeleteTag
    <2>2. t \in Names /\ rows[t].here
      BY DEF Here
    <2>3. /\ rows' \in [Names -> Row] /\ \A u \in Names : u # t => rows'[u] = rows[u]
          /\ rows'[t].here = rows[t].here /\ rows'[t].hidden /\ rows'[t].dirty
      BY <2>1, <2>2, DeletedStep
    <2>4. Deleted(t)
      BY <2>2, <2>3 DEF Deleted
    <2> QED
      BY <2>3, <2>4
  <1>4. CASE Acknowledge
    <2>1. cur \in Names /\ rows' = Stamped(cur, reply.usn)
      BY <1>4 DEF Acknowledge, Answered, Answering
    <2>2. /\ rows' \in [Names -> Row]
          /\ \A u \in Names : u # cur => rows'[u] = rows[u]
          /\ ~rows[cur].here => rows'[cur] = rows[cur]
          /\ rows[cur].here => /\ rows'[cur].here /\ ~rows'[cur].dirty /\ rows'[cur].usn = reply.usn
                               /\ rows'[cur].hidden = rows[cur].hidden
      BY <1>t, <2>1, StampedStep
    <2>3. rows'[cur] = rows[cur] \/ Stamp(cur)
      BY <1>4, <2>2 DEF Stamp
    <2> QED
      BY <2>2, <2>3
  <1>5. CASE AcknowledgeDelete
    <2>1. cur \in Names /\ rows' = IF rows[cur].here THEN Settled(cur) ELSE rows
      BY <1>5 DEF AcknowledgeDelete, Answered, Answering
    <2>2. CASE rows[cur].here
      <3>1. /\ rows' \in [Names -> Row]
            /\ \A u \in Names : u # cur => rows'[u] = rows[u]
            /\ rows'[cur].here = rows[cur].here /\ rows'[cur].hidden = rows[cur].hidden
        BY <2>1, <2>2, SettledStep
      <3>2. Gone(cur)
        BY <1>5, <2>2, <3>1 DEF Gone
      <3> QED
        BY <3>1, <3>2
    <2> QED
      BY <1>t, <2>1, <2>2
  <1>6. CASE MergeTag
    <2>1. PICK t \in queue : rows' = Merged(t, snap[t]) /\ queue' = queue \ {t}
      BY <1>6 DEF MergeTag
    <2>2. t \in Names /\ snap[t] \in Row /\ t \notin queue'
      BY <1>t, <2>1
    <2>3. /\ rows' \in [Names -> Row] /\ \A u \in Names : u # t => rows'[u] = rows[u]
          /\ snap[t].hidden => rows'[t] = NoRow
          /\ ~snap[t].hidden => /\ rows'[t].here /\ ~rows'[t].dirty /\ rows'[t].usn = snap[t].usn
                                /\ rows'[t].hidden = (rows[t].here /\ rows[t].hidden)
      BY <2>1, <2>2, MergedStep
    <2>4. Listing(t) \/ Removed(t)
      BY <1>6, <2>2, <2>3 DEF Listing, Removed
    <2> QED
      BY <2>3, <2>4
  <1>7. CASE DeleteUnused
    <2>1. rows' = [rows EXCEPT ![cur] = NoRow] /\ cur \in Names /\ NoRow \in Row
      BY <1>7 DEF DeleteUnused, Cleaning, NoRow, Row
    <2>2. rows' \in [Names -> Row] /\ rows'[cur] = NoRow /\ \A u \in Names : u # cur => rows'[u] = rows[u]
      BY <1>t, <2>1
    <2>3. Removed(cur)
      BY <1>7, <2>2 DEF Removed
    <2> QED
      BY <2>2, <2>3
  <1> QED
    BY <1>1, <1>2, <1>3, <1>4, <1>5, <1>6, <1>7, RowsWriters

-----------------------------------------------------------------------------
(* Type correctness                                                        *)

\* The types hold at first.
LEMMA InitType == ASSUME Init PROVE TypeOK
  <1>1. PICK set \in SUBSET Names :
          /\ srv = [t \in Names |-> [known |-> t \in set, live |-> t \in set, usn |-> IF t \in set THEN 1 ELSE 0]]
          /\ used \in SUBSET set
          /\ rows = [t \in Names |-> IF t \in set THEN Clean(1) ELSE NoRow]
    BY DEF Init
  <1>2. srv \in [Names -> Entry] /\ used \subseteq Names
    BY <1>1 DEF Entry
  <1>3. NoRow \in Row /\ Clean(1) \in Row /\ ~NoRow.here /\ Clean(1).here /\ Clean(1).usn = 1
    BY DEF NoRow, Clean, Row
  <1>4. rows \in [Names -> Row] /\ snap \in [Names -> Row]
        /\ \A t \in Names : rows[t] = NoRow \/ rows[t] = Clean(1)
    BY <1>1, <1>3 DEF Init, NoSnap
  <1>5. last \in Nat
    BY <1>2, TopIs DEF Init
  <1>6. reply \in Answer /\ count \in [Counters -> Nat]
    BY DEF Init, Silent, Reply, Answer, Counters
  <1>7. \A t \in Names : IF rows[t].here
                         THEN rows[t].usn = 0 /\ count.refused = 0 => rows[t].dirty \/ rows[t].hidden
                         ELSE rows[t] = NoRow
    BY <1>3, <1>4
  <1>8. /\ queue = {} /\ cur = None /\ state = 0 /\ from = 0 /\ pc = "idle" /\ mode = "incr" /\ pass = 1
        /\ failed = FALSE
    BY DEF Init
  <1> QED
    BY <1>2, <1>4, <1>5, <1>6, <1>7, <1>8 DEF TypeOK

\* No counter is counted down.
LEMMA CountType ==
    ASSUME TypeOK, [Next]_vars
    PROVE  count' \in [Counters -> Nat] /\ (count'.refused = 0 => count.refused = 0)
  <1>t. count \in [Counters -> Nat] /\ Counters = {"remote", "edits", "faults", "refused"}
    BY DEF TypeOK, Counters
  <1>1. count' = count \/ \E c \in Counters : Counted(c)
    BY <1>t DEF Next, Remote, User, Faults, Round, vars, round, RemoteAdd, RemoteStep, Counted,
          RemoteDelete, RemoteNote, TagNote, UserStep, UntagNote, AddTag, DeleteTag, LoseRequest,
          RefuseTag, LoseAnswer, CutOff, Rest, Request, Acknowledge, Answered, AcknowledgeDelete,
          RecordError, EndUpload, ReadState, Collect, GetSyncTags, MergeTag, EndMerge,
          CountTag, DeleteUnused, PushAgain, Start
  <1>2. ASSUME NEW c \in Counters, Counted(c)
        PROVE  count' \in [Counters -> Nat] /\ (count'.refused = 0 => count.refused = 0)
    BY <1>t, <1>2 DEF Counted
  <1> QED
    BY <1>t, <1>1, <1>2

\* The copies keep their type.
LEMMA SnapType ==
    ASSUME TypeOK, [Next]_vars
    PROVE  snap' \in [Names -> Row] /\ pass' \in {1, 2}
  <1>t. snap \in [Names -> Row] /\ rows \in [Names -> Row] /\ pass \in {1, 2} /\ NoRow \in Row
    BY DEF TypeOK, NoRow, Row
  <1>1. CASE UNCHANGED <<snap, pass>>
    BY <1>t, <1>1
  <1>2. CASE CutOff \/ EndUpload
    BY <1>t, <1>2 DEF CutOff, EndUpload, Rest, NoSnap
  <1>3. CASE ReadState \/ EndMerge \/ PushAgain \/ \E m \in {"full", "incr"} : Start(m)
    BY <1>t, <1>3 DEF ReadState, EndMerge, PushAgain, Start, Collect
  <1>4. CASE GetSyncTags
    <2>1. ASSUME NEW t \in Names PROVE [Clean(srv[t].usn) EXCEPT !.hidden = ~srv[t].live] \in Row
      BY DEF TypeOK, Entry, Clean, NoRow, Row
    <2> QED
      BY <1>t, <1>4, <2>1 DEF GetSyncTags
  <1> QED
    BY <1>1, <1>2, <1>3, <1>4, SnapWriters

\* The round is somewhere, and its lists and numbers are of their types.
LEMMA RoundType ==
    ASSUME TypeOK, [Next]_vars
    PROVE  /\ used' \subseteq Names
           /\ queue' \subseteq Names
           /\ cur' \in Names \cup {None}
           /\ state' \in Nat
           /\ last' \in Nat
           /\ from' \in Nat
           /\ pc' \in {"idle", "push", "answer", "state", "pull", "merge", "cleanup", "unused"}
           /\ mode' \in {"full", "incr"}
           /\ failed' \in BOOLEAN
  <1>1. used' \subseteq Names
    <2>1. used \subseteq Names
      BY DEF TypeOK
    <2> QED
      BY <2>1 DEF Next, Remote, User, Faults, Round, vars, round, RemoteAdd, RemoteStep, Counted,
             RemoteDelete, RemoteNote, TagNote, UserStep, UntagNote, AddTag, DeleteTag,
             LoseRequest, RefuseTag, LoseAnswer, CutOff, Rest, Request, Acknowledge, Answered,
             AcknowledgeDelete, RecordError, EndUpload, ReadState, Collect, GetSyncTags,
             MergeTag, EndMerge, CountTag, DeleteUnused, PushAgain, Start
  <1>2. queue' \subseteq Names
    <2>1. queue \subseteq Names
      BY DEF TypeOK
    <2> QED
      BY <2>1 DEF Next, Remote, User, Faults, Round, vars, round, Dirty, Visible, Here, RemoteAdd, RemoteStep,
             Counted, RemoteDelete, RemoteNote, TagNote, UserStep, UntagNote, AddTag, DeleteTag,
             LoseRequest, RefuseTag, LoseAnswer, CutOff, Rest, Request, Acknowledge, Answered,
             AcknowledgeDelete, RecordError, EndUpload, ReadState, Collect, GetSyncTags,
             MergeTag, EndMerge, CountTag, DeleteUnused, PushAgain, Start
  <1>3. cur' \in Names \cup {None}
    <2>1. cur \in Names \cup {None}
      BY DEF TypeOK
    <2> QED
      BY <2>1 DEF Next, Remote, User, Faults, Round, vars, round, RemoteAdd, RemoteStep, Counted,
             RemoteDelete, RemoteNote, TagNote, UserStep, UntagNote, AddTag, DeleteTag,
             LoseRequest, RefuseTag, LoseAnswer, CutOff, Rest, Request, Acknowledge, Answered,
             AcknowledgeDelete, RecordError, EndUpload, ReadState, Collect, GetSyncTags,
             MergeTag, EndMerge, CountTag, DeleteUnused, PushAgain, Start
  <1>4. state' \in Nat
    <2>1. state \in Nat /\ Top \in Nat
      BY TopIs DEF TypeOK
    <2>2. state' = state \/ state' = 0 \/ state' = Top
      BY DEF Next, Remote, User, Faults, Round, vars, round, RemoteAdd, RemoteStep, Counted,
             RemoteDelete, RemoteNote, TagNote, UserStep, UntagNote, AddTag, DeleteTag,
             LoseRequest, RefuseTag, LoseAnswer, CutOff, Rest, Request, Acknowledge, Answered,
             AcknowledgeDelete, RecordError, EndUpload, ReadState, Collect, GetSyncTags,
             MergeTag, EndMerge, CountTag, DeleteUnused, PushAgain, Start
    <2> QED
      BY <2>1, <2>2
  <1>5. last' \in Nat
    <2>1. last \in Nat /\ state \in Nat /\ reply.usn \in Nat
      BY DEF TypeOK, Answer
    <2>2. last' = last \/ last' = state \/ last' = reply.usn
      BY DEF Next, Remote, User, Faults, Round, vars, round, Advanced, RemoteAdd, RemoteStep,
             Counted, RemoteDelete, RemoteNote, TagNote, UserStep, UntagNote, AddTag, DeleteTag,
             LoseRequest, RefuseTag, LoseAnswer, CutOff, Rest, Request, Acknowledge, Answered,
             AcknowledgeDelete, RecordError, EndUpload, ReadState, Collect, GetSyncTags,
             MergeTag, EndMerge, CountTag, DeleteUnused, PushAgain, Start
    <2> QED
      BY <2>1, <2>2
  <1>6. pc' \in {"idle", "push", "answer", "state", "pull", "merge", "cleanup", "unused"}
    <2>1. pc \in {"idle", "push", "answer", "state", "pull", "merge", "cleanup", "unused"}
      BY DEF TypeOK
    <2> QED
      BY <2>1 DEF Next, Remote, User, Faults, Round, vars, round, RemoteAdd, RemoteStep, Counted,
             RemoteDelete, RemoteNote, TagNote, UserStep, UntagNote, AddTag, DeleteTag,
             LoseRequest, RefuseTag, LoseAnswer, CutOff, Rest, Request, Acknowledge, Answered,
             AcknowledgeDelete, RecordError, EndUpload, ReadState, Collect, GetSyncTags,
             MergeTag, EndMerge, CountTag, DeleteUnused, PushAgain, Start
  <1>7. mode' \in {"full", "incr"}
    <2>1. mode \in {"full", "incr"}
      BY DEF TypeOK
    <2> QED
      BY <2>1 DEF Next, Remote, User, Faults, Round, vars, round, RemoteAdd, RemoteStep, Counted,
             RemoteDelete, RemoteNote, TagNote, UserStep, UntagNote, AddTag, DeleteTag,
             LoseRequest, RefuseTag, LoseAnswer, CutOff, Rest, Request, Acknowledge, Answered,
             AcknowledgeDelete, RecordError, EndUpload, ReadState, Collect, GetSyncTags,
             MergeTag, EndMerge, CountTag, DeleteUnused, PushAgain, Start
  <1>8. failed' \in BOOLEAN
    <2>1. failed \in BOOLEAN
      BY DEF TypeOK
    <2> QED
      BY <2>1 DEF Next, Remote, User, Faults, Round, vars, round, RemoteAdd, RemoteStep, Counted,
             RemoteDelete, RemoteNote, TagNote, UserStep, UntagNote, AddTag, DeleteTag,
             LoseRequest, RefuseTag, LoseAnswer, CutOff, Rest, Request, Acknowledge, Answered,
             AcknowledgeDelete, RecordError, EndUpload, ReadState, Collect, GetSyncTags,
             MergeTag, EndMerge, CountTag, DeleteUnused, PushAgain, Start
  <1>9. from' \in Nat
    <2>1. from \in Nat /\ last \in Nat
      BY DEF TypeOK
    <2>2. from' = from \/ from' = 0 \/ from' = last
      BY DEF Next, Remote, User, Faults, Round, vars, round, RemoteAdd, RemoteStep, Counted,
             RemoteDelete, RemoteNote, TagNote, UserStep, UntagNote, AddTag, DeleteTag, LoseRequest,
             RefuseTag, LoseAnswer, CutOff, Rest, Request, Acknowledge, Answered, AcknowledgeDelete,
             RecordError, EndUpload, ReadState, Collect, GetSyncTags, MergeTag, EndMerge, CountTag,
             DeleteUnused, PushAgain, Start
    <2> QED
      BY <2>1, <2>2
  <1> QED
    BY <1>1, <1>2, <1>3, <1>4, <1>5, <1>6, <1>7, <1>8, <1>9

\* The answer keeps its type.
LEMMA ReplyType ==
    ASSUME TypeOK, [Next]_vars
    PROVE  reply' \in Answer
  <1>1. reply \in Answer /\ Reply("error", 0) \in Answer /\ Reply("ok", 0) \in Answer
        /\ Reply("none", 0) \in Answer
    BY DEF TypeOK, Reply, Answer
  <1>2. ASSUME NEW t \in Names, Request(t) PROVE reply' \in Answer
    <2>1. srv'[t].usn \in Nat
      BY ServerMoves
    <2>2. Reply("ok", srv'[t].usn) \in Answer /\ Reply("deleted", srv'[t].usn) \in Answer
      BY <2>1 DEF Reply, Answer
    <2> QED
      BY <1>1, <1>2, <2>2 DEF Request
  <1>3. CASE ~\E t \in Names : Request(t)
    BY <1>1, <1>3 DEF Silent, Next, Remote, User, Faults, Round, vars, round, RemoteAdd, RemoteStep, Counted,
          RemoteDelete, RemoteNote, TagNote, UserStep, UntagNote, AddTag, DeleteTag, LoseRequest,
          RefuseTag, LoseAnswer, CutOff, Rest, Acknowledge, Answered, AcknowledgeDelete,
          RecordError, EndUpload, ReadState, Collect, GetSyncTags, MergeTag, EndMerge,
          CountTag, DeleteUnused, PushAgain, Start
  <1> QED
    BY <1>2, <1>3

\* A row without a USN waits for its first upload.
LEMMA RowsType ==
    ASSUME TypeOK, Cleaning, Answering, Merging, [Next]_vars
    PROVE  /\ rows' \in [Names -> Row]
           /\ \A t \in Names : IF rows'[t].here
                               THEN rows'[t].usn = 0 /\ count'.refused = 0 => rows'[t].dirty \/ rows'[t].hidden
                               ELSE rows'[t] = NoRow
  <1>1. SUFFICES ASSUME NEW t \in Names
                 PROVE  IF rows'[t].here
                        THEN rows'[t].usn = 0 /\ count'.refused = 0 => rows'[t].dirty \/ rows'[t].hidden
                        ELSE rows'[t] = NoRow
    BY RowsMove
  <1>t. /\ IF rows[t].here
           THEN rows[t].usn = 0 /\ count.refused = 0 => rows[t].dirty \/ rows[t].hidden
           ELSE rows[t] = NoRow
        /\ count'.refused = 0 => count.refused = 0
        /\ ~NoRow.here
    BY CountType DEF TypeOK, NoRow
  <1>2. CASE rows'[t] = rows[t] \/ Added(t) \/ Deleted(t) \/ Removed(t)
    BY <1>t, <1>2 DEF Added, Deleted, Removed
  <1>3. CASE Stamp(t)
    <2>1. reply.usn > 0 \/ count.refused > 0
      BY <1>3 DEF Stamp, Acknowledge, Answered, Answering
    <2>2. reply.usn \in Nat /\ count.refused \in Nat
      BY DEF TypeOK, Answer, Counters
    <2> QED
      BY <1>t, <1>3, <2>1, <2>2 DEF Stamp
  <1>4. CASE Gone(t)
    <2>1. rows[t].hidden
      BY <1>4 DEF Gone, AcknowledgeDelete, Answered, Answering
    <2> QED
      BY <1>4, <2>1 DEF Gone
  <1>5. CASE Listing(t)
    <2>1. snap[t].usn > 0 /\ snap[t].usn \in Nat
      BY <1>5 DEF Listing, MergeTag, Merging, TypeOK, Row
    <2> QED
      BY <1>5, <2>1 DEF Listing
  <1> QED
    BY <1>2, <1>3, <1>4, <1>5, RowsMove

\* Every step keeps the types.
LEMMA TypeStep ==
    ASSUME TypeOK, Cleaning, Answering, Merging, [Next]_vars
    PROVE  TypeOK'
  BY ServerMoves, RowsType, SnapType, RoundType, ReplyType, CountType DEF TypeOK

-----------------------------------------------------------------------------
(* Every step keeps the invariant                                          *)

\* The numbers as numbers.
LEMMA Numbers ==
    ASSUME TypeOK
    PROVE  /\ last \in Nat /\ state \in Nat /\ reply.usn \in Nat /\ Top \in Nat
           /\ \A t \in Names : srv[t].usn \in Nat /\ srv[t].usn <= Top
  BY TopIs DEF TypeOK, Answer

\* How the cursor moves.
LEMMA CursorStep ==
    ASSUME [Next]_vars
    PROVE  \/ last' = last
           \/ Acknowledge /\ reply.usn = last + 1 /\ last' = reply.usn
           \/ AcknowledgeDelete /\ reply.usn = last + 1 /\ last' = reply.usn
           \/ EndUpload /\ mode = "full" /\ pass = 2 /\ last' = state /\ ~Listed'
  <1>1. CASE Acknowledge \/ AcknowledgeDelete
    BY <1>1 DEF Acknowledge, AcknowledgeDelete, Advanced
  <1>2. CASE EndUpload
    <2>1. CASE ~failed /\ pass = 2 /\ mode = "full"
      BY <1>2, <2>1 DEF EndUpload, Rest, Listed
    <2>2. CASE ~(~failed /\ pass = 2 /\ mode = "full")
      BY <1>2, <2>2 DEF EndUpload
    <2> QED
      BY <2>1, <2>2
  <1> QED
    BY <1>1, <1>2, CursorWriters

\* The server's state is read once in a round.
LEMMA ListedStep ==
    ASSUME [Next]_vars
    PROVE  /\ Listed' => (Listed /\ state' = state) \/ state' = Top
           /\ state' = state \/ state' = 0 \/ state' = Top
  <1>1. CASE EndUpload
    BY <1>1 DEF EndUpload, Rest, Listed
  <1>2. CASE ReadState
    BY <1>2 DEF ReadState
  <1>3. CASE EndMerge \/ PushAgain \/ GetSyncTags \/ MergeTag \/ DeleteUnused \/ \E t \in Names : CountTag(t)
    BY <1>3 DEF EndMerge, PushAgain, GetSyncTags, MergeTag, CountTag, DeleteUnused, Listed
  <1>4. CASE Acknowledge \/ AcknowledgeDelete \/ RecordError
    BY <1>4 DEF Acknowledge, AcknowledgeDelete, RecordError, Answered, Listed
  <1>5. CASE UNCHANGED round
    BY <1>5 DEF round, Listed
  <1>6. CASE CutOff \/ \E m \in {"full", "incr"} : Start(m)
    BY <1>6 DEF CutOff, Rest, Start, Collect, Listed
  <1>7. CASE LoseAnswer \/ \E t \in Names : LoseRequest(t) \/ RefuseTag(t) \/ Request(t)
    BY <1>7 DEF LoseAnswer, LoseRequest, RefuseTag, Request, Listed
  <1> QED
    BY <1>1, <1>2, <1>3, <1>4, <1>5, <1>6, <1>7
    DEF Next, Remote, User, Faults, Round, vars, RemoteAdd, RemoteDelete, RemoteNote, RemoteStep,
        TagNote, UntagNote, AddTag, DeleteTag, UserStep

\* Every step keeps the cursors within the server's numbers.
LEMMA ServerUSNsStep ==
    ASSUME TypeOK, ServerUSNs, Answering, Uploading, [Next]_vars
    PROVE  ServerUSNs'
  <1>1. /\ last \in Nat /\ state \in Nat /\ reply.usn \in Nat /\ Top \in Nat /\ Top' \in Nat
        /\ Top <= Top' /\ last <= Top /\ state <= Top
        /\ \A t \in Names : srv'[t].usn \in Nat /\ srv[t].usn \in Nat /\ srv[t].usn <= Top
    BY Numbers, ServerMoves DEF ServerUSNs
  <1>2. (Acknowledge \/ AcknowledgeDelete) => reply.usn <= Top
    BY DEF Acknowledge, AcknowledgeDelete, Answered, Answering
  <1>3. last' <= Top' /\ state' <= Top'
    BY <1>1, <1>2, CursorStep, ListedStep
  <1>4. \A t \in Names : /\ srv'[t].live => srv'[t].known
                         /\ srv'[t].known <=> srv'[t].usn > 0
    BY <1>1, ServerMoves DEF ServerUSNs
  <1>5. ASSUME NEW t \in Names, NEW u \in Names, t # u, srv'[t].usn = srv'[u].usn
        PROVE  srv'[t].usn <= last' /\ (Listed' => srv'[t].usn <= state')
    <2>1. srv'[t] = srv[t] /\ srv'[u] = srv[u]
      <3>1. /\ srv'[t] = srv[t] \/ srv'[t].usn = Top + 1
            /\ srv'[u] = srv[u] \/ srv'[u].usn = Top + 1
            /\ srv'[t] = srv[t] \/ srv'[u] = srv[u]
        BY <1>5, ServerMoves
      <3> QED
        BY <1>1, <1>5, <3>1
    <2>2. srv[t].usn <= last /\ (Listed => srv[t].usn <= state)
      BY <1>5, <2>1 DEF ServerUSNs
    <2>3. srv[t].usn <= last'
      <3>1. CASE last' = last
        BY <2>2, <3>1
      <3>2. CASE last' = reply.usn /\ reply.usn = last + 1
        BY <1>1, <2>2, <3>2
      <3>3. CASE pass = 2 /\ last' = state
        BY <2>2, <3>3 DEF Listed
      <3> QED
        BY <3>1, <3>2, <3>3, CursorStep
    <2>4. Listed' => srv[t].usn <= state'
      BY <1>1, <2>2, ListedStep
    <2> QED
      BY <2>1, <2>3, <2>4
  <1> QED
    BY <1>3, <1>4, <1>5 DEF ServerUSNs

\* A round that uploads has collected the rows as they were.
LEMMA PushStep ==
    ASSUME [Next]_vars, pc' \in {"push", "answer"}
    PROVE  \/ pc \in {"push", "answer"} /\ snap' = snap
           \/ Collect /\ rows' = rows
  BY DEF Next, Remote, User, Faults, Round, vars, round, RemoteAdd, RemoteStep, Counted,
         RemoteDelete, RemoteNote, TagNote, UserStep, UntagNote, AddTag, DeleteTag, LoseRequest,
         RefuseTag, LoseAnswer, CutOff, Rest, Request, Acknowledge, Answered, AcknowledgeDelete,
         RecordError, EndUpload, ReadState, GetSyncTags, MergeTag, EndMerge,
         CountTag, DeleteUnused, PushAgain, Start

\* What is sent as a deletion stays hidden.
LEMMA UploadingStep ==
    ASSUME TypeOK, Cleaning, Answering, Uploading, [Next]_vars
    PROVE  Uploading'
  <1>1. pass' = 2 => pc' \in {"push", "answer"}
    <2>1. CASE UNCHANGED <<snap, pass>>
      <3>1. pass = 2 => pc \in {"push", "answer"}
        BY DEF Uploading
      <3>2. pc \in {"push", "answer"} => pc' \in {"push", "answer"} \/ CutOff \/ EndUpload
        BY DEF Next, Remote, User, Faults, Round, vars, round, RemoteAdd, RemoteStep, Counted,
               RemoteDelete, RemoteNote, TagNote, UserStep, UntagNote, AddTag, DeleteTag,
               LoseRequest, RefuseTag, LoseAnswer, Request, Acknowledge, Answered,
               AcknowledgeDelete, RecordError, ReadState, Collect, GetSyncTags, MergeTag,
               EndMerge, CountTag, DeleteUnused, PushAgain, Start
      <3>3. (CutOff \/ EndUpload) /\ pass = 2 => pass' = 1
        BY DEF CutOff, EndUpload, Rest
      <3> QED
        BY <2>1, <3>1, <3>2, <3>3
    <2>2. CASE CutOff \/ EndUpload \/ GetSyncTags
      BY <2>2 DEF CutOff, EndUpload, GetSyncTags, Rest, Uploading
    <2>3. CASE ReadState
      BY <2>3 DEF ReadState, Collect, Uploading
    <2>4. CASE EndMerge \/ PushAgain \/ \E m \in {"full", "incr"} : Start(m)
      BY <2>4 DEF EndMerge, PushAgain, Start, Collect, Uploading
    <2> QED
      BY <2>1, <2>2, <2>3, <2>4, SnapWriters
  <1>2. ASSUME NEW t \in Names, pc' \in {"push", "answer"}, snap'[t].hidden
        PROVE  rows'[t].hidden
    <2>1. ~NoRow.hidden /\ ~NoRow.here
      BY DEF NoRow
    <2>2. CASE pc \in {"push", "answer"} /\ snap' = snap
      <3>1. rows[t].hidden /\ rows[t].here
        BY <1>2, <2>1, <2>2 DEF Uploading, TypeOK
      <3>2. ~Added(t) /\ ~Listing(t) /\ ~Removed(t)
        BY <2>2, <3>1 DEF Added, Listing, Removed, MergeTag, DeleteUnused
      <3> QED
        BY <3>1, <3>2, RowsMove DEF Deleted, Stamp, Gone
    <2>3. CASE Collect /\ rows' = rows
      BY <1>2, <2>1, <2>3 DEF Collect
    <2> QED
      BY <1>2, <2>2, <2>3, PushStep
  <1> QED
    BY <1>1, <1>2 DEF Uploading

\* A tag found unused is removed next.
LEMMA CleaningStep == ASSUME Cleaning, [Next]_vars PROVE Cleaning'
  BY DEF Cleaning, Next, Remote, User, Faults, Round, vars, round, RemoteAdd, RemoteStep, Counted,
         RemoteDelete, RemoteNote, TagNote, UserStep, UntagNote, AddTag, DeleteTag, LoseRequest,
         RefuseTag, LoseAnswer, CutOff, Rest, Request, Acknowledge, Answered, AcknowledgeDelete,
         RecordError, EndUpload, ReadState, Collect, GetSyncTags, MergeTag, EndMerge, CountTag,
         DeleteUnused, PushAgain, Start

\* A change of the server is ahead of every cursor.
LEMMA NewIsAhead ==
    ASSUME TypeOK, ServerUSNs, [Next]_vars, NEW t \in Names, srv'[t] # srv[t]
    PROVE  Ahead(srv[t].usn)' /\ srv'[t].usn > Top /\ last' = last /\ state' = state
  <1>1. srv'[t].usn = Top + 1 /\ last' = last /\ state' = state /\ (Listed' <=> Listed)
    BY ServerMoves
  <1> QED
    BY <1>1, Numbers DEF Ahead, ServerUSNs

\* A request is answered by what the server has made of it.
LEMMA RequestStep ==
    ASSUME TypeOK, ServerUSNs, Uploading, NEW t \in Names, Request(t)
    PROVE  Answering'
  <1>1. /\ pc = "push" /\ cur' = t /\ rows' = rows /\ last' = last
        /\ srv' = srv \/ \E live \in BOOLEAN : srv' = Written(t, live)
    BY DEF Request, ServerAdd, ServerDelete
  <1>2. [Next]_vars
    BY DEF Next, Round
  <1>3. /\ Top \in Nat /\ Top' \in Nat /\ last \in Nat /\ state \in Nat
        /\ \A u \in Names : srv'[u].usn \in Nat /\ srv'[u].usn <= Top' /\ srv[u].usn \in Nat /\ srv[u].usn <= Top
        /\ srv' \in [Names -> Entry] /\ Top <= Top'
    BY <1>2, Numbers, ServerMoves, TopIsNext
  <1>4. ASSUME srv'[t] # srv[t]
        PROVE  \A u \in Names : u # t => srv'[u].usn # srv'[t].usn
    <2>1. srv'[t].usn > Top /\ \A u \in Names : u # t => srv'[u] = srv[u]
      BY <1>2, <1>4, NewIsAhead, ServerMoves
    <2> QED
      BY <1>3, <2>1
  <1>5. \A u \in Names : u # t /\ srv'[u].usn = srv'[t].usn => srv'[t].usn <= last
    <2>1. CASE srv'[t] = srv[t] /\ srv' # srv
      <3>1. PICK live \in BOOLEAN : srv' = Written(t, live)
        BY <1>1, <2>1
      <3>2. srv'[t].usn = Top + 1
        BY <3>1, WrittenStep
      <3> QED
        BY <1>3, <2>1, <3>2
    <2>2. CASE srv' = srv
      BY <2>2 DEF ServerUSNs
    <2> QED
      BY <1>4, <2>1, <2>2
  <1>6. CASE snap[t].hidden
    <2>1. rows[t].hidden
      BY <1>1, <1>6 DEF Uploading
    <2>2. reply' = Reply("deleted", srv'[t].usn) \/ reply' = Reply("error", 0)
      BY <1>6 DEF Request
    <2>3. CASE reply' = Reply("deleted", srv'[t].usn)
      <3>1. reply'.kind = "deleted" /\ reply'.usn = srv'[t].usn
        BY <2>3 DEF Reply
      <3> QED
        BY <1>1, <1>3, <1>5, <2>1, <3>1 DEF Answering
    <2>4. CASE reply' = Reply("error", 0)
      <3>1. reply'.kind = "error" /\ reply'.usn = 0
        BY <2>4 DEF Reply
      <3> QED
        BY <1>1, <1>3, <2>1, <3>1 DEF Answering
    <2> QED
      BY <2>2, <2>3, <2>4
  <1>7. CASE ~snap[t].hidden
    <2>1. reply' = Reply("ok", srv'[t].usn) /\ srv' = IF srv[t].live THEN srv ELSE Written(t, TRUE)
      BY <1>7 DEF Request, ServerAdd
    <2>2. reply'.kind = "ok" /\ reply'.usn = srv'[t].usn
      BY <2>1 DEF Reply
    <2>3. srv'[t].live /\ srv'[t].usn > 0
      <3>1. CASE srv[t].live
        BY <2>1, <3>1 DEF ServerUSNs
      <3>2. CASE ~srv[t].live
        <4>1. srv'[t].live = TRUE /\ srv'[t].usn = Top + 1
          BY <2>1, <3>2, WrittenStep
        <4> QED
          BY <1>3, <4>1
      <3> QED
        BY <3>1, <3>2
    <2> QED
      BY <1>1, <1>3, <1>5, <2>2, <2>3 DEF Answering
  <1> QED
    BY <1>6, <1>7

\* While an answer is under way the round stands still.
LEMMA AnswerStep ==
    ASSUME [Next]_vars, pc' = "answer"
    PROVE  \/ \E t \in Names : Request(t) \/ RefuseTag(t)
           \/ /\ pc = "answer" /\ cur' = cur /\ last' = last /\ state' = state /\ pass' = pass
              /\ reply' = reply \/ reply' = Reply("error", 0)
  BY DEF Next, Remote, User, Faults, Round, vars, round, RemoteAdd, RemoteStep, Counted,
         RemoteDelete, RemoteNote, TagNote, UserStep, UntagNote, AddTag, DeleteTag, LoseRequest,
         LoseAnswer, CutOff, Rest, Acknowledge, Answered, AcknowledgeDelete, RecordError,
         EndUpload, ReadState, Collect, GetSyncTags, MergeTag, EndMerge, CountTag, DeleteUnused,
         PushAgain, Start

\* An answer stays true, or a later change is ahead of it.
LEMMA AnsweringStep ==
    ASSUME TypeOK, ServerUSNs, Uploading, Cleaning, Answering, [Next]_vars
    PROVE  Answering'
  <1>1. CASE pc' # "answer"
    BY <1>1 DEF Answering
  <1>2. ASSUME NEW t \in Names, Request(t) PROVE Answering'
    BY <1>2, RequestStep
  <1>3. ASSUME NEW t \in Names, RefuseTag(t) PROVE Answering'
    <2>1. reply'.kind = "ok" /\ reply'.usn = 0 /\ cur' = t /\ srv' = srv /\ last' = last
      BY <1>3 DEF RefuseTag, Reply
    <2>2. count.refused \in Nat /\ count'.refused = count.refused + 1
      BY <1>3 DEF RefuseTag, Counted, TypeOK, Counters
    <2>3. Top' \in Nat /\ last \in Nat
      BY ServerMoves, Numbers
    <2>4. count'.refused > 0 /\ count'.refused # 0
      BY <2>2
    <2> QED
      BY <2>1, <2>3, <2>4 DEF Answering
  <1>4. CASE /\ pc = "answer" /\ pc' = "answer" /\ cur' = cur /\ last' = last /\ state' = state /\ pass' = pass
             /\ reply' = reply \/ reply' = Reply("error", 0)
    <2>1. /\ last \in Nat /\ Top \in Nat /\ Top' \in Nat /\ Top <= Top' /\ reply.usn \in Nat
          /\ count.refused \in Nat /\ cur \in Names /\ reply.usn <= Top
          /\ reply.kind \in {"ok", "deleted", "error"}
      BY <1>4, Numbers, ServerMoves DEF Answering, TypeOK, Counters
    <2>2. CASE reply' = Reply("error", 0)
      <3>1. reply'.kind = "error" /\ reply'.usn = 0
        BY <2>2 DEF Reply
      <3> QED
        BY <1>4, <2>1, <3>1 DEF Answering
    <2>3. CASE reply' = reply
      <3>1. rows[cur].hidden => rows'[cur].hidden
        <4>1. rows[cur].hidden => rows[cur].here
          BY <2>1 DEF TypeOK, NoRow
        <4>2. ~Listing(cur) /\ ~Removed(cur)
          BY <1>4 DEF Listing, Removed, MergeTag, DeleteUnused
        <4> QED
          BY <2>1, <4>1, <4>2, RowsMove DEF Added, Deleted, Stamp, Gone
      <3>2. count.refused > 0 => count'.refused > 0
        <4>1. count'.refused \in Nat
          BY CountType DEF Counters
        <4> QED
          BY <2>1, <4>1, CountType
      <3>3. reply.kind # "error" => \A t \in Names : t # cur /\ srv'[t].usn = reply.usn => reply.usn <= last
        <4>1. SUFFICES ASSUME reply.kind # "error", NEW t \in Names, t # cur, srv'[t].usn = reply.usn
                       PROVE  reply.usn <= last
          OBVIOUS
        <4>2. srv'[t] = srv[t]
          BY <2>1, <4>1, NewIsAhead
        <4> QED
          BY <1>4, <4>1, <4>2 DEF Answering
      <3>4. reply.kind = "ok" /\ count'.refused = 0
              => srv'[cur].live \/ (srv'[cur].usn > reply.usn /\ Ahead(srv[cur].usn)')
        <4>1. CASE srv'[cur] = srv[cur]
          <5>1. Ahead(srv[cur].usn) => Ahead(srv[cur].usn)'
            BY <1>4, <4>1 DEF Ahead, Listed
          <5> QED
            BY <1>4, <4>1, <5>1, CountType DEF Answering
        <4>2. CASE srv'[cur] # srv[cur]
          <5>1. srv'[cur].usn > Top /\ srv'[cur].usn \in Nat
            BY <2>1, <4>2, NewIsAhead, ServerMoves
          <5>2. Ahead(srv[cur].usn)'
            <6>1. \A t \in Names : srv'[t] # srv[t] => srv'[t].usn > last' /\ (Listed' => srv'[t].usn > state')
              BY NewIsAhead DEF Ahead
            <6> QED
              BY <1>4, <2>1, <4>2, <6>1 DEF Ahead
          <5> QED
            BY <2>1, <5>1, <5>2
        <4> QED
          BY <4>1, <4>2
      <3> QED
        BY <1>4, <2>1, <2>3, <3>1, <3>2, <3>3, <3>4 DEF Answering
    <2> QED
      BY <1>4, <2>2, <2>3
  <1> QED
    BY <1>1, <1>2, <1>3, <1>4, AnswerStep

\* While a list is handled it stays what it is.
LEMMA MergeStep ==
    ASSUME [Next]_vars, pc' = "merge"
    PROVE  \/ GetSyncTags
           \/ /\ pc = "merge" /\ snap' = snap /\ queue' \subseteq queue
              /\ last' = last /\ state' = state /\ pass' = pass
  BY DEF Next, Remote, User, Faults, Round, vars, round, RemoteAdd, RemoteStep, Counted,
         RemoteDelete, RemoteNote, TagNote, UserStep, UntagNote, AddTag, DeleteTag, LoseRequest,
         RefuseTag, LoseAnswer, CutOff, Rest, Request, Acknowledge, Answered, AcknowledgeDelete,
         RecordError, EndUpload, ReadState, Collect, MergeTag, EndMerge, CountTag, DeleteUnused,
         PushAgain, Start

\* The list stays true, or a later change is ahead of it.
LEMMA MergingStep ==
    ASSUME TypeOK, ServerUSNs, Merging, [Next]_vars
    PROVE  Merging'
  <1>1. CASE pc' # "merge"
    BY <1>1 DEF Merging
  <1>2. CASE GetSyncTags
    <2>1. /\ snap' = [t \in Names |-> IF srv[t].known THEN [Clean(srv[t].usn) EXCEPT !.hidden = ~srv[t].live] ELSE NoRow]
          /\ queue' \subseteq {t \in Names : srv[t].known} /\ srv' = srv
      BY <1>2 DEF GetSyncTags
    <2>2. \A t \in Names : srv[t].known => /\ snap'[t].here /\ snap'[t].usn = srv[t].usn
                                           /\ snap'[t].hidden = ~srv[t].live
      BY <2>1 DEF Clean, NoRow
    <2>3. \A t \in Names : ~srv[t].known => ~snap'[t].here
      BY <2>1 DEF NoRow
    <2>4. \A t \in Names : srv[t].known => srv[t].usn > 0
      BY DEF ServerUSNs
    <2> QED
      BY <2>1, <2>2, <2>3, <2>4 DEF Merging
  <1>3. CASE /\ pc' = "merge" /\ pc = "merge" /\ snap' = snap /\ queue' \subseteq queue
             /\ last' = last /\ state' = state /\ pass' = pass
    <2>1. SUFFICES ASSUME NEW t \in Names, snap[t].here, ~snap[t].hidden
                   PROVE  srv'[t].live \/ Ahead(srv[t].usn)'
      BY <1>3 DEF Merging
    <2>2. CASE srv'[t] # srv[t]
      BY <2>2, NewIsAhead
    <2>3. CASE srv'[t] = srv[t]
      BY <1>3, <2>1, <2>3 DEF Merging, Ahead, Listed
    <2> QED
      BY <2>2, <2>3
  <1> QED
    BY <1>1, <1>2, <1>3, MergeStep

\* A tag whose row is clean and shown after the step was so before, or has just
\* been acknowledged, or named by the list.
LEMMA CleanFrom ==
    ASSUME TypeOK, Cleaning, Answering, [Next]_vars, NEW t \in Names,
           rows'[t].here, ~rows'[t].hidden, ~rows'[t].dirty
    PROVE  \/ rows'[t] = rows[t]
           \/ Acknowledge /\ t = cur
           \/ MergeTag /\ t \in queue /\ ~snap[t].hidden
  <1>1. ~Gone(t)
    BY DEF Gone, AcknowledgeDelete, Answered, Answering
  <1>2. ~Removed(t)
    BY DEF Removed, NoRow
  <1> QED
    BY <1>1, <1>2, RowsMove DEF Added, Deleted, Stamp, Listing

\* No answer, list or full round takes the cursor past the deletion of a tag
\* that is shown as synchronised.
LEMMA CleanTagStep ==
    ASSUME TypeOK, ServerUSNs, Cleaning, Answering, Merging, FullRound, CleanTagOnServer, [Next]_vars
    PROVE  CleanTagOnServer'
  <1>1. SUFFICES ASSUME NEW t \in Names, rows'[t].here, ~rows'[t].hidden, ~rows'[t].dirty, count'.refused = 0
                 PROVE  srv'[t].live \/ srv'[t].usn > last'
    BY DEF CleanTagOnServer, Visible, Here
  <1>n. /\ last \in Nat /\ state \in Nat /\ reply.usn \in Nat /\ count.refused = 0
        /\ srv'[t].usn \in Nat /\ srv[t].usn \in Nat
    BY <1>1, Numbers, ServerMoves, CountType
  <1>2. CASE srv'[t] # srv[t]
    BY <1>2, NewIsAhead DEF Ahead
  <1>3. CASE Acknowledge /\ t = cur
    <2>1. srv[t].live \/ (srv[t].usn > reply.usn /\ Ahead(srv[t].usn))
      BY <1>n, <1>3 DEF Acknowledge, Answered, Answering
    <2>2. srv' = srv /\ (last' = last \/ last' = reply.usn)
      BY <1>3 DEF Acknowledge, Answered, Advanced
    <2> QED
      BY <2>1, <2>2 DEF Ahead
  <1>4. CASE MergeTag /\ t \in queue /\ ~snap[t].hidden
    BY <1>4 DEF MergeTag, Merging, Ahead
  <1>5. CASE rows'[t] = rows[t] /\ srv'[t] = srv[t] /\ ~(Acknowledge /\ t = cur)
    <2>1. t \in Visible /\ ~rows[t].dirty
      BY <1>1, <1>5 DEF Visible, Here
    <2>2. srv[t].live \/ srv[t].usn > last
      BY <1>n, <2>1 DEF CleanTagOnServer
    <2>3. CASE last' = last
      BY <1>5, <2>2, <2>3
    <2>4. CASE (Acknowledge \/ AcknowledgeDelete) /\ reply.usn = last + 1 /\ last' = reply.usn
      <3>1. t # cur
        <4>1. AcknowledgeDelete => rows[cur].hidden
          BY DEF AcknowledgeDelete, Answered, Answering
        <4> QED
          BY <1>1, <1>5, <2>4, <4>1
      <3>2. srv[t].usn = reply.usn => reply.usn <= last
        BY <2>4, <3>1 DEF Acknowledge, AcknowledgeDelete, Answered, Answering
      <3> QED
        BY <1>n, <1>5, <2>2, <2>4, <3>2
    <2>5. CASE EndUpload /\ mode = "full" /\ pass = 2 /\ last' = state
      BY <1>n, <1>5, <2>1, <2>5 DEF FullRound, Covered
    <2> QED
      BY <2>3, <2>4, <2>5, CursorStep
  <1> QED
    BY <1>1, <1>2, <1>3, <1>4, <1>5, CleanFrom

\* A full round covers a tag when it has handled the list's entry.
LEMMA CoveredStep ==
    ASSUME Uploading, [Next]_vars, NEW t \in Names, mode' = "full", Covered(t)'
    PROVE  /\ mode = "full" /\ state' = state
           /\ \/ Covered(t)
              \/ MergeTag /\ t \in queue /\ t \notin queue'
              \/ GetSyncTags /\ t \notin queue'
  <1>1. CASE UNCHANGED round
    BY <1>1 DEF round, Covered
  <1>2. CASE EndUpload
    BY <1>2 DEF EndUpload, Rest, Covered
  <1>7. CASE CutOff
    BY <1>7 DEF CutOff, Rest, Covered
  <1>8. CASE ReadState
    BY <1>8 DEF ReadState, Collect, Covered, Uploading
  <1>9. CASE Start("full") \/ Start("incr")
    BY <1>9 DEF Start, Collect, Covered
  <1>3. CASE EndMerge \/ PushAgain \/ DeleteUnused \/ \E u \in Names : CountTag(u)
    BY <1>3 DEF EndMerge, PushAgain, CountTag, DeleteUnused, Covered
  <1>4. CASE GetSyncTags \/ MergeTag
    BY <1>4 DEF GetSyncTags, MergeTag, Covered
  <1>5. CASE Acknowledge \/ AcknowledgeDelete \/ RecordError
    BY <1>5 DEF Acknowledge, AcknowledgeDelete, RecordError, Answered, Covered
  <1>6. CASE LoseAnswer \/ \E u \in Names : LoseRequest(u) \/ RefuseTag(u) \/ Request(u)
    BY <1>6 DEF LoseAnswer, LoseRequest, RefuseTag, Request, Covered
  <1> QED
    BY <1>1, <1>2, <1>3, <1>4, <1>5, <1>6, <1>7, <1>8, <1>9
    DEF Next, Remote, User, Faults, Round, vars, RemoteAdd, RemoteDelete, RemoteNote, RemoteStep,
        TagNote, UntagNote, AddTag, DeleteTag, UserStep

\* The entry of a tag that leaves the list has been merged.
LEMMA HandledStep ==
    ASSUME TypeOK, MergeTag, NEW t \in queue, t \notin queue', snap[t].hidden
    PROVE  ~rows'[t].here
  <1>1. PICK u \in queue : rows' = Merged(u, snap[u]) /\ queue' = queue \ {u}
    BY DEF MergeTag
  <1>2. u = t /\ t \in Names /\ snap[t] \in Row
    BY <1>1 DEF TypeOK
  <1>3. rows'[t] = NoRow
    BY <1>1, <1>2, MergedStep
  <1> QED
    BY <1>3 DEF NoRow

\* What a full round has gone past is not clean by a deletion before its state.
LEMMA FullRoundStep ==
    ASSUME TypeOK, ServerUSNs, Uploading, Cleaning, Answering, Merging, FullRound,
           CleanTagOnServer, [Next]_vars
    PROVE  FullRound'
  <1>1. SUFFICES ASSUME mode' = "full", NEW t \in Names, rows'[t].here, ~rows'[t].hidden,
                        Covered(t)', ~rows'[t].dirty, count'.refused = 0
                 PROVE  srv'[t].live \/ srv'[t].usn > state'
    BY DEF FullRound, Visible, Here
  <1>n. /\ last \in Nat /\ state \in Nat /\ count.refused = 0 /\ state <= Top
        /\ srv'[t].usn \in Nat /\ srv[t].usn \in Nat /\ Top \in Nat
    BY <1>1, Numbers, ServerMoves, CountType DEF ServerUSNs
  <1>c. /\ mode = "full" /\ state' = state
        /\ \/ Covered(t)
           \/ MergeTag /\ t \in queue /\ t \notin queue'
           \/ GetSyncTags /\ t \notin queue'
    BY <1>1, CoveredStep
  <1>2. CASE srv'[t] # srv[t]
    <2>1. srv'[t].usn > Top /\ state' = state
      BY <1>2, NewIsAhead
    <2> QED
      BY <1>n, <2>1
  <1>3. CASE srv'[t] = srv[t] /\ MergeTag /\ t \in queue /\ t \notin queue'
    <2>1. ~snap[t].hidden
      BY <1>1, <1>3, HandledStep
    <2>2. srv[t].live \/ Ahead(srv[t].usn)
      BY <1>3, <2>1 DEF MergeTag, Merging
    <2> QED
      BY <1>3, <1>c, <2>2 DEF Ahead, Listed, MergeTag
  <1>4. CASE GetSyncTags /\ t \notin queue'
    <2>1. ~srv[t].known /\ rows' = rows
      BY <1>c, <1>4 DEF GetSyncTags
    <2>2. ~srv[t].live /\ srv[t].usn = 0
      BY <1>n, <2>1 DEF ServerUSNs
    <2>3. srv[t].live \/ srv[t].usn > last
      BY <1>1, <1>n, <2>1 DEF CleanTagOnServer, Visible, Here
    <2> QED
      BY <1>n, <2>2, <2>3
  <1>5. CASE srv'[t] = srv[t] /\ Covered(t) /\ rows'[t] = rows[t]
    BY <1>1, <1>n, <1>c, <1>5 DEF FullRound, Visible, Here
  <1>6. CASE Acknowledge /\ t = cur
    <2>1. srv[t].live \/ Ahead(srv[t].usn)
      BY <1>n, <1>6 DEF Acknowledge, Answered, Answering
    <2>2. pass = 2 /\ srv' = srv
      BY <1>1, <1>6 DEF Acknowledge, Answered, Covered
    <2> QED
      BY <1>c, <2>1, <2>2 DEF Ahead, Listed
  <1>7. CASE srv'[t] = srv[t] /\ MergeTag /\ t \in queue /\ ~snap[t].hidden
    <2>1. srv[t].live \/ Ahead(srv[t].usn)
      BY <1>7 DEF MergeTag, Merging
    <2> QED
      BY <1>7, <1>c, <2>1 DEF Ahead, Listed, MergeTag
  <1> QED
    BY <1>1, <1>c, <1>2, <1>3, <1>4, <1>5, <1>6, <1>7, CleanFrom

\* The invariant holds at first.
LEMMA InitInvariant == ASSUME Init PROVE IInv
  <1>1. TypeOK
    BY InitType
  <1>2. /\ Top \in Nat /\ \A t \in Names : srv[t].usn \in Nat /\ srv[t].usn <= Top
        /\ last = Top /\ state = 0 /\ pc = "idle" /\ pass = 1 /\ mode = "incr"
    BY <1>1, TopIs DEF Init, TypeOK
  <1>3. PICK set \in SUBSET Names :
          /\ srv = [t \in Names |-> [known |-> t \in set, live |-> t \in set, usn |-> IF t \in set THEN 1 ELSE 0]]
          /\ rows = [t \in Names |-> IF t \in set THEN Clean(1) ELSE NoRow]
    BY DEF Init
  <1>4. ASSUME NEW t \in Names
        PROVE  srv[t] = [known |-> t \in set, live |-> t \in set, usn |-> IF t \in set THEN 1 ELSE 0]
    BY <1>3
  <1>a. ASSUME NEW t \in set
        PROVE  srv[t].known /\ srv[t].live /\ srv[t].usn = 1
    <2>1. srv[t] = [known |-> TRUE, live |-> TRUE, usn |-> 1]
      BY <1>4, t \in Names, (t \in set) = TRUE, Zenon
    <2> QED
      BY <2>1
  <1>b. ASSUME NEW t \in Names, t \notin set
        PROVE  ~srv[t].known /\ ~srv[t].live /\ srv[t].usn = 0
    <2>1. srv[t] = [known |-> FALSE, live |-> FALSE, usn |-> 0]
      BY <1>4, <1>b, (t \in set) = FALSE, Zenon
    <2> QED
      BY <2>1
  <1>5. ServerUSNs
    BY <1>2, <1>a, <1>b DEF ServerUSNs, Listed
  <1>6. CleanTagOnServer
    <2>1. \A t \in Names : rows[t].here => srv[t].live
      BY <1>3, <1>a DEF NoRow
    <2> QED
      BY <2>1 DEF CleanTagOnServer, Visible, Here
  <1>7. Uploading /\ Cleaning /\ Answering /\ Merging /\ FullRound
    BY <1>2 DEF Uploading, Cleaning, Answering, Merging, FullRound
  <1> QED
    BY <1>1, <1>5, <1>6, <1>7 DEF IInv

\* Every step keeps it.
LEMMA StepInvariant == ASSUME IInv, [Next]_vars PROVE IInv'
  BY TypeStep, ServerUSNsStep, UploadingStep, CleaningStep, AnsweringStep, MergingStep, FullRoundStep, CleanTagStep
  DEF IInv

-----------------------------------------------------------------------------
(* Theorems                                                                *)

\* The inductive invariant holds in every reachable state.
THEOREM Invariant == Spec => []IInv
  BY InitInvariant, StepInvariant, PTL DEF Spec

\* Every variable keeps its type, and a row that was never uploaded waits to be.
THEOREM TypeCorrect == Spec => []TypeOK
  <1>1. IInv => TypeOK
    BY DEF IInv
  <1> QED
    BY <1>1, Invariant, PTL

\* A tag that is shown as synchronised is on the server, or a later download
\* brings its deletion (SetTagNotDirtyAndUsn, processTagSync, and the cursor
\* that sendTagChanges and a full round set).
THEOREM CleanTagIsOnServer == Spec => []CleanTagOnServer
  <1>1. IInv => CleanTagOnServer
    BY DEF IInv
  <1> QED
    BY <1>1, Invariant, PTL

=============================================================================
