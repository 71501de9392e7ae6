--------------------------- MODULE NoteRowProofs ----------------------------
(***************************************************************************)
(* Theorems of NoteRow, for any number of requests at once, every limit of *)
(* the history and every bound: whatever row the saves, the restores and a *)
(* download have read, and however their statements fall, no text of the   *)
(* note is lost, but for a save that another one overlaps.                 *)
(***************************************************************************)
EXTENDS NoteRow, SequenceTheorems, TLAPS

-----------------------------------------------------------------------------
(* The inductive invariant                                                 *)

\* What is not lost when the row no longer holds it.
Safe == Found \cup raced

\* A save between its statements: the text it has read is safe or in the row,
\* and the one that is in the row by now, which is what the save replaces, is
\* safe or the one it has read; once it has added to the history, the text it has
\* read is safe unless it brings the same.
SavingRequest(r) ==
    LET save == ask[r]
    IN  /\ Saves(r) => /\ save.row.text \in {row.text} \cup Safe
                        /\ row.text \in {save.row.text} \cup Safe
        /\ save.stage = "kept" => save.row.text \in {save.text} \cup Safe

Saving == \A r \in Requests : SavingRequest(r)

\* A restore brings a text of the history, or one of the server's.
RestoringRequest(r) ==
    /\ ask[r].stage = "restoring" => ask[r].text \in Found
    /\ ask[r].stage = "called" => ask[r].text \in past

Restoring == \A r \in Requests : RestoringRequest(r)

\* A download brings a text of the server; the one it has read is safe, or in the
\* row; once the conflict copy is made it is safe also when the row holds it.
Downloading ==
    /\ pull.stage # "idle" => /\ pull.row.text \in {row.text} \cup Safe
                              /\ ~pull.row.dirty => pull.row.text \in past
    /\ pull.stage \in {"fetched", "copied"} => pull.text \in past
    /\ pull.stage = "copied" => pull.row.text \in Safe

IInv == TypeOK /\ LatestKept /\ Saving /\ Restoring /\ Downloading

-----------------------------------------------------------------------------
(* Histories                                                               *)

\* Appending adds one version and loses none.
LEMMA AppendListed ==
    ASSUME NEW h \in Seq(History), NEW v \in History
    PROVE  /\ Append(h, v) \in Seq(History)
           /\ Listed(Append(h, v)) = Listed(h) \cup {v.text}
  <1>1. /\ Append(h, v) \in Seq(History) /\ Len(h) \in Nat
        /\ DOMAIN h = 1 .. Len(h) /\ DOMAIN Append(h, v) = 1 .. Len(h) + 1
        /\ \A i \in 1 .. Len(h) : Append(h, v)[i] = h[i]
        /\ Append(h, v)[Len(h) + 1] = v
    BY AppendProperties
  <1>2. Range(Append(h, v)) = Range(h) \cup {v}
    <2>1. ASSUME NEW x \in Range(Append(h, v)) PROVE x \in Range(h) \cup {v}
      <3>1. PICK i \in 1 .. Len(h) + 1 : x = Append(h, v)[i]
        BY <1>1, <2>1 DEF Range
      <3>2. CASE i \in 1 .. Len(h)
        BY <1>1, <3>1, <3>2 DEF Range
      <3>3. CASE i = Len(h) + 1
        BY <1>1, <3>1, <3>3
      <3> QED
        BY <1>1, <3>2, <3>3
    <2>2. ASSUME NEW x \in Range(h) PROVE x \in Range(Append(h, v))
      <3>1. PICK i \in 1 .. Len(h) : x = h[i]
        BY <1>1, <2>2 DEF Range
      <3>2. x = Append(h, v)[i] /\ i \in 1 .. Len(h) + 1
        BY <1>1, <3>1
      <3> QED
        BY <1>1, <3>2 DEF Range
    <2>3. v \in Range(Append(h, v))
      BY <1>1 DEF Range
    <2> QED
      BY <2>1, <2>2, <2>3
  <1> QED
    BY <1>1, <1>2 DEF Listed

\* The texts of a history are texts.
LEMMA ListedTexts ==
    ASSUME NEW h \in Seq(History)
    PROVE  Listed(h) \subseteq Texts /\ \A v \in Range(h) : v \in History
  <1>1. ASSUME NEW v \in Range(h) PROVE v \in History
    <2>1. PICK i \in 1 .. Len(h) : v = h[i]
      BY <1>1 DEF Range
    <2> QED
      BY <2>1
  <1> QED
    BY <1>1 DEF Listed, History

\* A deleted history lists nothing.
LEMMA EmptyListed == Listed(<<>>) = {}
  BY DEF Listed, Range

\* AddNoteHistory makes room and adds the version.
LEMMA RecordedStep ==
    ASSUME TypeOK, NEW text \in Texts
    PROVE  Recorded(text) \in Seq(History) /\ text \in Listed(Recorded(text))
  <1> DEFINE n == Len(hist)
             rest == IF n < Limit THEN hist ELSE SubSeq(hist, n - Limit + 2, n)
  <1>1. hist \in Seq(History) /\ n \in Nat /\ Limit \in Nat
    BY NoteRowAssumption DEF TypeOK
  <1>2. rest \in Seq(History)
    <2>1. CASE n < Limit
      BY <1>1, <2>1
    <2>2. CASE ~(n < Limit)
      <3>1. n - Limit + 2 \in Int /\ \A i \in n - Limit + 2 .. n : hist[i] \in History
        BY <1>1, <2>2, NoteRowAssumption
      <3>2. SubSeq(hist, n - Limit + 2, n) \in Seq(History)
        BY <1>1, <3>1, SubSeqProperties
      <3> QED
        BY <2>2, <3>2
    <2> QED
      BY <2>1, <2>2
  <1>3. Version(text, row.plain) \in History /\ Version(text, row.plain).text = text
    BY DEF Version, History, TypeOK, Row
  <1>4. Recorded(text) = Append(rest, Version(text, row.plain))
    BY DEF Recorded
  <1> QED
    BY <1>2, <1>3, <1>4, AppendListed

-----------------------------------------------------------------------------
(* Who writes what                                                         *)

\* Who writes the row.
LEMMA WritersOfRow ==
    ASSUME [Next]_vars
    PROVE  \/ row' = row \/ SetTrash \/ ApplyRemoteNote \/ UpdateMissing
           \/ \E r \in Requests : SaveWrites(r) \/ DeleteTrash(r) \/ RestoreWrites(r)
  BY DEF Next, vars, history, handlers, ghosts, Request, Save, Delete, Restore, Download,
         RemoteEdit, SaveReads, SaveKeeps, RequestFails, EraseHistories, RestoreReads,
         RestoreAsks, RestoreCalls, PullReads, PullFetches, CopyNoteForConflict, SelectMissing,
         PullFails

\* Who writes the history.
LEMMA WritersOfHistory ==
    ASSUME [Next]_vars
    PROVE  \/ UNCHANGED <<hist, dropped>>
           \/ \E r \in Requests : SaveKeeps(r) \/ EraseHistories(r) \/ RestoreWrites(r)
  BY DEF Next, vars, history, handlers, ghosts, Request, Save, Delete, Restore, Download,
         RemoteEdit, SaveReads, SaveWrites, RequestFails, SetTrash, DeleteTrash, RestoreReads,
         RestoreAsks, RestoreCalls, PullReads, PullFetches, CopyNoteForConflict,
         ApplyRemoteNote, UpdateMissing, SelectMissing, PullFails

\* Who writes the server's note, and the ghosts.
LEMMA WritersOfServer ==
    ASSUME [Next]_vars
    PROVE  /\ UNCHANGED <<srv, past>> \/ RemoteEdit \/ \E r \in Requests : RestoreCalls(r)
           /\ copies' = copies \/ CopyNoteForConflict
           /\ made' = made \/ RemoteEdit \/ \E r \in Requests : SaveReads(r)
           /\ UNCHANGED <<latest, raced>> \/ \E r \in Requests : SaveWrites(r) \/ RestoreWrites(r)
  BY DEF Next, vars, history, handlers, ghosts, Request, Save, Delete, Restore, Download,
         RemoteEdit, SaveReads, SaveKeeps, SaveWrites, RequestFails, SetTrash, DeleteTrash,
         EraseHistories, RestoreReads, RestoreWrites, RestoreAsks, RestoreCalls, PullReads,
         PullFetches, CopyNoteForConflict, ApplyRemoteNote, UpdateMissing, SelectMissing,
         PullFails

\* Who moves a request.
LEMMA WritersOfAsk ==
    ASSUME TypeOK, [Next]_vars
    PROVE  /\ ask' = [r \in Requests |-> ask'[r]]
           /\ \A r \in Requests :
                \/ ask'[r] = ask[r] \/ ask'[r] = Idle
                \/ SaveReads(r) \/ SaveKeeps(r) \/ DeleteTrash(r) \/ RestoreReads(r) \/ RestoreAsks(r)
  <1>1. ask' = ask \/ \E q \in Requests : Request(q)
    BY DEF Next, vars, history, handlers, ghosts, Download,
           RemoteEdit, SetTrash, PullReads, PullFetches, CopyNoteForConflict, ApplyRemoteNote,
           UpdateMissing, SelectMissing, PullFails
  <1>2. ASSUME NEW q \in Requests, Request(q), NEW r \in Requests \ {q}
        PROVE  ask'[r] = ask[r]
    BY <1>2 DEF TypeOK, Request, Save, Delete, Restore, SaveReads, SaveKeeps, SaveWrites, RequestFails, DeleteTrash,
           EraseHistories, RestoreReads, RestoreWrites, RestoreAsks, RestoreCalls, Begins, GoesOn, Ends
  <1>3. ASSUME NEW q \in Requests, Request(q)
        PROVE  \/ ask'[q] = Idle
               \/ SaveReads(q) \/ SaveKeeps(q) \/ DeleteTrash(q) \/ RestoreReads(q) \/ RestoreAsks(q)
    BY <1>3 DEF TypeOK, Request, Save, Delete, Restore, SaveWrites, RequestFails, EraseHistories, RestoreWrites,
           RestoreCalls, Ends
  <1>4. ask' = [r \in Requests |-> ask'[r]]
    <2>1. CASE ask' = ask
      BY <2>1 DEF TypeOK
    <2>2. ASSUME NEW q \in Requests, Request(q)
          PROVE  \E handler : ask' = [ask EXCEPT ![q] = handler]
      BY <2>2 DEF Request, Save, Delete, Restore, SaveReads, SaveKeeps, SaveWrites, RequestFails, DeleteTrash,
             EraseHistories, RestoreReads, RestoreWrites, RestoreAsks, RestoreCalls, Begins, GoesOn, Ends
    <2>3. ASSUME NEW q \in Requests, NEW handler, ask' = [ask EXCEPT ![q] = handler]
          PROVE  ask' = [r \in Requests |-> ask'[r]]
      BY <2>3 DEF TypeOK
    <2> QED
      BY <1>1, <2>1, <2>2, <2>3
  <1> QED
    BY <1>1, <1>2, <1>3, <1>4

\* Who moves the download.
LEMMA WritersOfPull ==
    ASSUME [Next]_vars
    PROVE  pull' = pull \/ pull' = Idle \/ PullReads \/ PullFetches \/ CopyNoteForConflict \/ SelectMissing
  BY DEF Next, vars, history, handlers, ghosts, Request, Save, Delete, Restore, Download,
         RemoteEdit, SaveReads, SaveKeeps, SaveWrites, RequestFails, SetTrash, DeleteTrash,
         EraseHistories, RestoreReads, RestoreWrites, RestoreAsks, RestoreCalls,
         ApplyRemoteNote, UpdateMissing, PullFails

\* Who counts.
LEMMA WritersOfCount ==
    ASSUME [Next]_vars
    PROVE  count' = count \/ \E c \in Counters : Counted(c)
  BY DEF Next, vars, history, handlers, ghosts, Request, Save, Delete, Restore, Download,
         RemoteEdit, SaveReads, SaveKeeps, SaveWrites, RequestFails, SetTrash, DeleteTrash,
         EraseHistories, RestoreReads, RestoreWrites, RestoreAsks, RestoreCalls, PullReads,
         PullFetches, CopyNoteForConflict, ApplyRemoteNote, UpdateMissing, SelectMissing,
         PullFails, UserStep, Counters

-----------------------------------------------------------------------------
(* Types                                                                   *)

\* The texts that can be found are texts, and none stops being found.
LEMMA FoundTexts == ASSUME TypeOK PROVE Found \subseteq Texts
  BY ListedTexts DEF Found, TypeOK

\* A row just downloaded is a row without changes.
LEMMA SyncedIsRow ==
    ASSUME NEW text \in Texts, NEW usn \in Nat
    PROVE  /\ Synced(text, usn) \in Row /\ Synced(text, usn).text = text
           /\ LET r == Synced(text, usn) IN ~r.dirty /\ ~r.meta /\ ~r.trash /\ ~r.hidden
  BY DEF Synced, Row

\* A handler that rests.
LEMMA IdleType == Idle \in Handler /\ Idle.stage = "idle"
  <1>1. 0 \in Texts
    BY NoteRowAssumption DEF Texts
  <1> QED
    BY <1>1, SyncedIsRow DEF Idle, Handler, Stages

\* The types hold at first.
LEMMA InitType == ASSUME Init PROVE TypeOK
  <1>1. 0 \in Texts
    BY NoteRowAssumption DEF Texts
  <1>2. made \in Texts /\ hist \in Seq(History)
    <2>1. CASE hist = <<>> /\ made = 0
      BY <1>1, <2>1
    <2>2. CASE hist = <<[text |-> 1, plain |-> FALSE, complete |-> TRUE]>> /\ made = 1 /\ MaxTexts > 0
      <3>1. 1 \in Texts
        BY <2>2, NoteRowAssumption DEF Texts
      <3>2. [text |-> 1, plain |-> FALSE, complete |-> TRUE] \in History
        BY <3>1 DEF History
      <3> QED
        BY <2>2, <3>1, <3>2
    <2> QED
      BY <2>1, <2>2 DEF Init
  <1> QED
    BY <1>1, <1>2, SyncedIsRow, IdleType DEF Init, TypeOK, Remote, Counters

\* A new text is one the bound allows.
LEMMA WritesText ==
    ASSUME TypeOK, Writes
    PROVE  made + 1 \in Texts /\ made' = made + 1
  BY NoteRowAssumption DEF Writes, TypeOK, Texts

\* The row keeps its type.
LEMMA RowType ==
    ASSUME TypeOK, Downloading, [Next]_vars
    PROVE  row' \in Row /\ past' \subseteq Texts /\ past \subseteq past'
           /\ (~row'.dirty => row'.text \in past' /\ ~row'.meta /\ ~row'.trash /\ ~row'.hidden)
  <1>1. past' \subseteq Texts /\ past \subseteq past'
    BY WritersOfServer, WritesText DEF RemoteEdit, RestoreCalls, TypeOK
  <1>2. CASE row' = row
    BY <1>1, <1>2 DEF TypeOK
  <1>3. ASSUME NEW r \in Requests, SaveWrites(r)
        PROVE  row'.dirty /\ row' \in Row
    BY <1>3 DEF SaveWrites, TypeOK, Row, Handler
  <1>4. ASSUME SetTrash \/ \E r \in Requests : DeleteTrash(r)
        PROVE  row'.dirty /\ row' \in Row
    BY <1>4 DEF SetTrash, DeleteTrash, TypeOK, Row
  <1>5. ASSUME NEW r \in Requests, RestoreWrites(r)
        PROVE  row' = row \/ (row'.dirty /\ row' \in Row)
    BY <1>5 DEF RestoreWrites, Chosen, TypeOK, Row, Handler
  <1>6. CASE ApplyRemoteNote
    <2>1. row' = row \/ row' = Synced(pull.text, pull.usn)
      BY <1>6 DEF ApplyRemoteNote, Applied
    <2>2. pull.text \in Texts /\ pull.usn \in Nat /\ pull.text \in past
      BY <1>6 DEF ApplyRemoteNote, TypeOK, Handler, Downloading
    <2> QED
      BY <1>1, <2>1, <2>2, SyncedIsRow DEF TypeOK
  <1>7. ASSUME UpdateMissing
        PROVE  row'.dirty /\ row' \in Row
    BY <1>7 DEF UpdateMissing, TypeOK, Row
  <1> QED
    BY <1>1, <1>2, <1>3, <1>4, <1>5, <1>6, <1>7, WritersOfRow

\* A history gives a text up only to dropped.
LEMMA HistoryType ==
    ASSUME TypeOK, [Next]_vars
    PROVE  /\ hist' \in Seq(History) /\ dropped' \subseteq Texts
           /\ Listed(hist) \cup dropped \subseteq Listed(hist') \cup dropped'
  <1>0. Listed(hist) \subseteq Texts
    BY ListedTexts DEF TypeOK
  <1>1. CASE UNCHANGED <<hist, dropped>>
    BY <1>1 DEF TypeOK
  <1>2. CASE Drops /\ hist' \in Seq(History)
    BY <1>0, <1>2 DEF Drops, TypeOK
  <1>3. ASSUME NEW r \in Requests, SaveKeeps(r)
        PROVE  Drops /\ hist' \in Seq(History)
    <2>1. Recorded(ask[r].row.text) \in Seq(History)
      BY RecordedStep DEF TypeOK, Handler, Row
    <2> QED
      BY <1>3, <2>1 DEF SaveKeeps, TypeOK
  <1>4. ASSUME NEW r \in Requests, EraseHistories(r)
        PROVE  Drops /\ hist' \in Seq(History)
    BY <1>4 DEF EraseHistories
  <1>5. ASSUME NEW r \in Requests, RestoreWrites(r)
        PROVE  /\ hist' \in Seq(History) /\ dropped' = dropped
               /\ Listed(hist) \subseteq Listed(hist')
    <2>1. Version(ask[r].row.text, ask[r].row.plain) \in History
      BY DEF Version, History, TypeOK, Row, Handler
    <2> QED
      BY <1>0, <1>5, <2>1, AppendListed DEF RestoreWrites, TypeOK
  <1> QED
    BY <1>0, <1>1, <1>2, <1>3, <1>4, <1>5, WritersOfHistory DEF TypeOK

\* The handlers keep theirs.
LEMMA HandlerTypes ==
    ASSUME TypeOK, [Next]_vars
    PROVE  ask' \in [Requests -> Handler] /\ pull' \in Handler
  <1>1. ASSUME NEW r \in Requests PROVE ask'[r] \in Handler
    <2>0. ask[r] \in Handler
      BY DEF TypeOK
    <2>1. CASE SaveReads(r)
      <3>1. PICK new, meta, plain \in BOOLEAN :
              /\ IF new THEN Writes ELSE made' = made
              /\ ask'[r] = [stage |-> "saving", row |-> row, text |-> IF new THEN made + 1 ELSE row.text,
                            meta |-> meta, plain |-> plain, usn |-> 0]
        BY <2>1 DEF SaveReads, Begins, TypeOK
      <3>2. (IF new THEN made + 1 ELSE row.text) \in Texts
        BY <3>1, WritesText DEF TypeOK, Row
      <3> QED
        BY <3>1, <3>2 DEF TypeOK, Handler, Stages
    <2>2. CASE SaveKeeps(r)
      <3>1. ask'[r] = [ask[r] EXCEPT !.stage = "kept"]
        BY <2>2 DEF SaveKeeps, GoesOn, TypeOK
      <3> QED
        BY <2>0, <3>1 DEF Handler, Stages
    <2>3. CASE DeleteTrash(r)
      <3>1. ask'[r] = [Idle EXCEPT !.stage = "erasing"]
        BY <2>3 DEF DeleteTrash, Begins, TypeOK
      <3> QED
        BY <3>1, IdleType DEF Handler, Stages
    <2>4. CASE RestoreReads(r)
      <3>1. PICK h \in Range(hist) :
              ask'[r] = [Idle EXCEPT !.stage = "restoring", !.row = row, !.text = h.text, !.plain = h.plain]
        BY <2>4 DEF RestoreReads, Begins, TypeOK
      <3>2. h \in History
        BY ListedTexts DEF TypeOK
      <3> QED
        BY <3>1, <3>2, IdleType DEF Handler, History, TypeOK, Stages
    <2>5. CASE RestoreAsks(r)
      <3>1. PICK text \in past : ask'[r] = [Idle EXCEPT !.stage = "called", !.row = row, !.text = text]
        BY <2>5 DEF RestoreAsks, Begins, TypeOK
      <3> QED
        BY <3>1, IdleType DEF Handler, TypeOK, Stages
    <2> QED
      BY <2>0, <2>1, <2>2, <2>3, <2>4, <2>5, WritersOfAsk, IdleType
  <1>2. ask' \in [Requests -> Handler]
    BY <1>1, WritersOfAsk
  <1>3. pull' \in Handler
    <2>1. CASE PullReads
      BY <2>1, IdleType DEF PullReads, Handler, TypeOK, Stages, Remote
    <2>2. CASE PullFetches
      BY <2>2 DEF PullFetches, Handler, TypeOK, Stages, Remote
    <2>3. CASE CopyNoteForConflict
      BY <2>3 DEF CopyNoteForConflict, Handler, TypeOK, Stages
    <2>4. CASE SelectMissing
      BY <2>4, IdleType DEF SelectMissing, Handler, TypeOK, Stages
    <2> QED
      BY <2>1, <2>2, <2>3, <2>4, WritersOfPull, IdleType DEF TypeOK
  <1> QED
    BY <1>1, <1>2, <1>3

\* Every step keeps the types.
LEMMA TypeStep ==
    ASSUME TypeOK, Restoring, Downloading, [Next]_vars
    PROVE  TypeOK'
  <1>1. srv' \in Remote /\ srv'.text \in past'
    <2>1. CASE UNCHANGED <<srv, past>>
      BY <2>1 DEF TypeOK
    <2>2. CASE RemoteEdit
      <3>1. made + 1 \in Texts
        BY <2>2, WritesText DEF RemoteEdit
      <3> QED
        BY <2>2, <3>1 DEF RemoteEdit, Remote, TypeOK
    <2>3. ASSUME NEW r \in Requests, RestoreCalls(r)
          PROVE  srv' \in Remote /\ srv'.text \in past'
      BY <2>3 DEF RestoreCalls, Ends, Remote, TypeOK, Restoring, RestoringRequest, Handler
    <2> QED
      BY <2>1, <2>2, <2>3, WritersOfServer
  <1>2. copies' \subseteq Texts
    BY WritersOfServer DEF CopyNoteForConflict, TypeOK, Row
  <1>3. made' \in Texts
    BY WritersOfServer, WritesText DEF RemoteEdit, SaveReads, TypeOK
  <1>4. latest' \in Texts /\ raced' \subseteq Texts
    <2>1. ASSUME NEW r \in Requests PROVE ask[r].text \in Texts
      BY DEF TypeOK, Handler
    <2>2. ASSUME NEW r \in Requests, SaveWrites(r) \/ RestoreWrites(r)
          PROVE  latest' \in Texts /\ raced' \subseteq Texts
      BY <2>1, <2>2 DEF SaveWrites, RestoreWrites, TypeOK
    <2> QED
      BY <2>2, WritersOfServer DEF TypeOK
  <1>5. count' \in [Counters -> Nat]
    BY WritersOfCount DEF Counted, TypeOK
  <1> QED
    BY <1>1, <1>2, <1>3, <1>4, <1>5, RowType, HistoryType, HandlerTypes DEF TypeOK

-----------------------------------------------------------------------------
(* No text is lost                                                         *)

\* What could be found once can always be found: in the history, or among what
\* it dropped; and what is safe stays safe.
LEMMA SafeGrows ==
    ASSUME TypeOK, Downloading, [Next]_vars
    PROVE  Found \subseteq Found' /\ Safe \subseteq Safe'
  <1>1. copies \subseteq copies'
    BY WritersOfServer DEF CopyNoteForConflict
  <1>2. raced \subseteq raced'
    BY WritersOfServer DEF SaveWrites, RestoreWrites
  <1> QED
    BY <1>1, <1>2, RowType, HistoryType DEF Found, Safe

\* A save that another one overlaps, and that has not written yet, makes what
\* the other writes safe.
LEMMA OverlapStep ==
    ASSUME NEW q \in Requests, NEW r \in Requests \ {q}, SaveWrites(q), Saves(r), TypeOK
    PROVE  row'.text \in Safe'
  BY DEF SaveWrites, TypeOK, Row, Safe

\* Where the text of the row comes from, and where the replaced one is.
LEMMA RowStep ==
    ASSUME IInv, [Next]_vars
    PROVE  /\ row.text \in {row'.text} \cup Safe'
           /\ \/ row'.text \in {row.text} \cup Safe'
              \/ \E q \in Requests : SaveWrites(q)
  <1>1. Found \subseteq Safe' /\ Safe \subseteq Safe'
    BY SafeGrows DEF IInv, Safe
  <1>2. CASE row'.text = row.text
    BY <1>2
  <1>3. ASSUME NEW r \in Requests, SaveWrites(r)
        PROVE  row.text \in {row'.text} \cup Safe'
    <2>1. row'.text = ask[r].text /\ ask[r].stage = "kept"
      BY <1>3 DEF SaveWrites, Ends, IInv, TypeOK, Row
    <2>2. SavingRequest(r)
      BY DEF IInv, Saving
    <2> QED
      BY <1>1, <2>1, <2>2 DEF SavingRequest, Saves
  <1>4. ASSUME NEW r \in Requests, RestoreWrites(r), row'.text # row.text
        PROVE  row.text \in Safe' /\ row'.text \in Safe'
    <2>1. /\ StillThere(ask[r].row) /\ row'.text = ask[r].text
          /\ hist' = Append(hist, Version(ask[r].row.text, ask[r].row.plain))
      BY <1>4 DEF RestoreWrites, Chosen, IInv, TypeOK, Row
    <2>2. row.text \in Listed(hist')
      <3>1. Version(ask[r].row.text, ask[r].row.plain) \in History
        BY DEF Version, History, IInv, TypeOK, Row, Handler
      <3> QED
        BY <2>1, <3>1, AppendListed DEF IInv, TypeOK, StillThere, Version
    <2>3. ask[r].text \in Found
      BY <1>4 DEF RestoreWrites, Ends, IInv, Restoring, RestoringRequest
    <2> QED
      BY <1>1, <2>1, <2>2, <2>3 DEF Found, Safe
  <1>5. ASSUME ApplyRemoteNote, row'.text # row.text
        PROVE  row.text \in Safe' /\ row'.text \in Safe'
    <2>1. Unchanged(pull.row) /\ row'.text = pull.text
      BY <1>5 DEF ApplyRemoteNote, Applied, Synced
    <2>2. pull.text \in Found
      BY <1>5 DEF ApplyRemoteNote, IInv, Downloading, Found
    <2>3. row.text \in Safe
      BY <1>5, <2>1 DEF ApplyRemoteNote, Unchanged, Conflict, IInv, Downloading, Found, Safe
    <2> QED
      BY <1>1, <2>1, <2>2, <2>3
  <1>6. ASSUME SetTrash \/ UpdateMissing \/ \E r \in Requests : DeleteTrash(r)
        PROVE  row'.text = row.text
    BY <1>6 DEF SetTrash, DeleteTrash, UpdateMissing, IInv, TypeOK, Row
  <1> QED
    BY <1>2, <1>3, <1>4, <1>5, <1>6, WritersOfRow

\* The latest text is replaced by a handler that makes it safe first, or had
\* found it so.
LEMMA LatestStep ==
    ASSUME IInv, [Next]_vars
    PROVE  LatestKept'
  <1>1. Safe \subseteq Safe' /\ row.text \in {row'.text} \cup Safe'
    BY SafeGrows, RowStep DEF IInv
  <1>2. CASE latest' = latest
    BY <1>1, <1>2 DEF IInv, LatestKept, Safe
  <1>3. ASSUME NEW r \in Requests, SaveWrites(r)
        PROVE  latest' = row'.text
    BY <1>3 DEF SaveWrites, IInv, TypeOK, Row
  <1>4. ASSUME NEW r \in Requests, RestoreWrites(r), latest' # latest
        PROVE  latest' = row'.text
    BY <1>4 DEF RestoreWrites, Chosen, IInv, TypeOK, Row
  <1> QED
    BY <1>2, <1>3, <1>4, WritersOfServer DEF LatestKept

\* A save between its statements stays able to find the text it has read and the
\* one it will replace.
LEMMA SavingStep ==
    ASSUME IInv, [Next]_vars
    PROVE  Saving'
  <1>1. Safe \subseteq Safe' /\ row.text \in {row'.text} \cup Safe'
    BY SafeGrows, RowStep DEF IInv
  <1> SUFFICES ASSUME NEW r \in Requests PROVE SavingRequest(r)'
    BY DEF Saving
  <1>0. SavingRequest(r) /\ ask[r] \in Handler
    BY DEF IInv, Saving, TypeOK
  <1>2. CASE ask'[r] = Idle
    BY <1>2, IdleType DEF SavingRequest, Saves
  <1>3. CASE ask'[r] = ask[r] /\ ask'[r] # Idle
    <2>1. ASSUME Saves(r) PROVE row'.text \in {row.text} \cup Safe'
      <3>1. ASSUME NEW q \in Requests, SaveWrites(q) PROVE row'.text \in Safe'
        <4>1. q # r
          BY <1>3, <3>1 DEF SaveWrites, Ends, IInv, TypeOK
        <4> QED
          BY <2>1, <3>1, <4>1, OverlapStep DEF IInv
      <3> QED
        BY <3>1, RowStep
    <2> QED
      BY <1>0, <1>1, <1>3, <2>1 DEF SavingRequest, Saves
  <1>4. CASE SaveReads(r)
    <2>1. ask'[r].row = row /\ ask'[r].stage = "saving" /\ row' = row
      BY <1>4 DEF SaveReads, Begins, IInv, TypeOK
    <2> QED
      BY <2>1 DEF SavingRequest, Saves
  <1>5. CASE SaveKeeps(r)
    <2>1. /\ ask'[r].row = ask[r].row /\ ask'[r].text = ask[r].text /\ ask'[r].stage = "kept"
          /\ row' = row /\ ask[r].stage = "saving"
      BY <1>0, <1>5 DEF SaveKeeps, GoesOn, IInv, TypeOK, Handler
    <2>2. ask[r].row.text \in {ask[r].text} \cup Safe'
      <3>1. CASE ask[r].text = ask[r].row.text
        BY <3>1
      <3>2. CASE ask[r].text # ask[r].row.text
        BY <1>0, <1>5, <3>2, RecordedStep DEF SaveKeeps, IInv, TypeOK, Handler, Row, Found, Safe
      <3> QED
        BY <3>1, <3>2
    <2> QED
      BY <1>0, <1>1, <2>1, <2>2 DEF SavingRequest, Saves
  <1>6. CASE DeleteTrash(r) \/ RestoreReads(r) \/ RestoreAsks(r)
    <2>1. CASE DeleteTrash(r)
      BY <2>1, IdleType DEF DeleteTrash, Begins, IInv, TypeOK, Handler, SavingRequest, Saves
    <2>2. CASE RestoreReads(r)
      <3>1. ask'[r].stage = "restoring"
        BY <2>2, IdleType DEF RestoreReads, Begins, IInv, TypeOK, Handler
      <3> QED
        BY <3>1 DEF SavingRequest, Saves
    <2>3. CASE RestoreAsks(r)
      <3>1. ask'[r].stage = "called"
        BY <2>3, IdleType DEF RestoreAsks, Begins, IInv, TypeOK, Handler
      <3> QED
        BY <3>1 DEF SavingRequest, Saves
    <2> QED
      BY <1>6, <2>1, <2>2, <2>3
  <1> QED
    BY <1>2, <1>3, <1>4, <1>5, <1>6, WritersOfAsk DEF IInv

\* A restore keeps carrying a text that can be found.
LEMMA RestoringStep ==
    ASSUME IInv, [Next]_vars
    PROVE  Restoring'
  <1>1. Found \subseteq Found' /\ past \subseteq past'
    BY SafeGrows, RowType DEF IInv
  <1> SUFFICES ASSUME NEW r \in Requests PROVE RestoringRequest(r)'
    BY DEF Restoring
  <1>2. CASE ask'[r] = ask[r]
    BY <1>1, <1>2 DEF IInv, Restoring, RestoringRequest
  <1>3. CASE ask'[r] = Idle
    BY <1>3, IdleType DEF RestoringRequest
  <1>4. CASE RestoreReads(r)
    <2>1. ask'[r].stage = "restoring" /\ ask'[r].text \in Listed(hist)
      BY <1>4, IdleType DEF RestoreReads, Begins, Listed, Handler, IInv, TypeOK
    <2> QED
      BY <1>1, <2>1 DEF RestoringRequest, Found
  <1>5. CASE RestoreAsks(r)
    <2>1. ask'[r].stage = "called" /\ ask'[r].text \in past
      BY <1>5, IdleType DEF RestoreAsks, Begins, Handler, IInv, TypeOK
    <2> QED
      BY <1>1, <2>1 DEF RestoringRequest
  <1>6. CASE SaveReads(r) \/ SaveKeeps(r) \/ DeleteTrash(r)
    <2>1. ask'[r].stage \in {"saving", "kept", "erasing"}
      BY <1>6, IdleType DEF SaveReads, SaveKeeps, DeleteTrash, Begins, GoesOn, Handler, IInv, TypeOK
    <2> QED
      BY <2>1 DEF RestoringRequest
  <1> QED
    BY <1>2, <1>3, <1>4, <1>5, <1>6, WritersOfAsk DEF IInv

\* A download keeps carrying a text of the server, over a row that can be found.
LEMMA DownloadingStep ==
    ASSUME IInv, [Next]_vars
    PROVE  Downloading'
  <1>1. /\ Safe \subseteq Safe' /\ past \subseteq past'
        /\ row.text \in {row'.text} \cup Safe'
    BY SafeGrows, RowType, RowStep DEF IInv
  <1>2. CASE pull' = pull
    BY <1>1, <1>2 DEF IInv, Downloading
  <1>3. CASE pull' = Idle
    BY <1>3, IdleType DEF Downloading
  <1>4. CASE PullReads \/ SelectMissing
    <2>1. /\ pull'.stage \in {"read", "selected"} /\ pull'.row = row /\ row' = row
          /\ past' = past
      BY <1>4, IdleType DEF PullReads, SelectMissing, Handler
    <2> QED
      BY <2>1 DEF Downloading, IInv, TypeOK
  <1>5. CASE PullFetches
    <2>1. /\ pull'.stage = "fetched" /\ pull'.row = pull.row /\ pull'.text \in past
          /\ pull.stage = "read"
      BY <1>5 DEF PullFetches, IInv, TypeOK, Handler
    <2> QED
      BY <1>1, <2>1 DEF IInv, Downloading
  <1>6. CASE CopyNoteForConflict
    <2>1. /\ pull'.stage = "copied" /\ pull'.row = pull.row /\ pull'.text = pull.text
          /\ pull.stage = "fetched" /\ row.text \in Safe'
      BY <1>6 DEF CopyNoteForConflict, IInv, TypeOK, Handler, Found, Safe
    <2> QED
      BY <1>1, <2>1 DEF IInv, Downloading
  <1> QED
    BY <1>2, <1>3, <1>4, <1>5, <1>6, WritersOfPull

\* The invariant holds at first.
LEMMA InitInvariant == ASSUME Init PROVE IInv
  BY InitType, IdleType DEF Init, IInv, LatestKept, Saving, SavingRequest, Saves, Restoring, RestoringRequest,
     Downloading, Synced

\* Every step keeps it.
LEMMA StepInvariant == ASSUME IInv, [Next]_vars PROVE IInv'
  BY TypeStep, LatestStep, SavingStep, RestoringStep, DownloadingStep DEF IInv

-----------------------------------------------------------------------------
(* Theorems                                                                *)

\* The inductive invariant holds in every reachable state.
THEOREM Invariant == Spec => []IInv
  BY InitInvariant, StepInvariant, PTL DEF Spec

\* Every variable keeps its type, and a row without changes holds one of the
\* server's texts.
THEOREM TypeCorrect == Spec => []TypeOK
  <1>1. IInv => TypeOK
    BY DEF IInv
  <1> QED
    BY <1>1, Invariant, PTL

\* What the user has written or chosen last is lost neither to a restore of the
\* history nor to ApplyRemoteNote, and to a save only if that one had read the row
\* before the text was written.
THEOREM LatestIsKept == Spec => []LatestKept
  <1>1. IInv => LatestKept
    BY DEF IInv
  <1> QED
    BY <1>1, Invariant, PTL

\* Whoever replaces the text of the row, the replaced text can be found, unless a
\* save had read the row before that text was written by another.
THEOREM ReplacedIsKept == Spec => ReplacedKept
  <1>1. ASSUME IInv, [Next]_vars
        PROVE  [row'.text # row.text => row.text \in (Found \cup raced)']_vars
    BY <1>1, RowStep DEF Safe
  <1> QED
    BY <1>1, Invariant, PTL DEF Spec, ReplacedKept

=============================================================================
